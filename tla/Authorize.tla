------------------------------ MODULE Authorize ------------------------------
(***************************************************************************)
(* Asking for CAP_IPC_LOCK (src/src/authorize.rs): which program can ask    *)
(* the user on this machine, and what became of the question.               *)
(***************************************************************************)
EXTENDS Integers

\* What a machine offers: programs found in PATH, a display, a terminal.
Machines == [setcap : BOOLEAN, pkexec : BOOLEAN, sudo : BOOLEAN,
             display : BOOLEAN, tty : BOOLEAN]

method(m) ==
  IF ~m.setcap THEN "Manual"
  ELSE IF m.display /\ m.pkexec THEN "Polkit"
  ELSE IF m.tty /\ m.sudo THEN "Sudo"
  ELSE "Manual"

can_prompt(m) == method(m) # "Manual"

\* The program that request runs, if it finds it.
Prog(m) == IF method(m) = "Polkit" THEN (IF m.pkexec THEN "pkexec" ELSE "none")
           ELSE (IF m.sudo THEN "sudo" ELSE "none")

\* The exit code with which it says that the user declined.
Decline(m) == IF method(m) = "Polkit" THEN 126 ELSE 1

\* run could not fork, or the child was ended by a signal.
RunError == -2
Signalled == -1
ExitCodes == {0, 1, 126, 127, Signalled, RunError}

Outcomes == {"AlreadyHave", "Granted", "Declined", "Unavailable"}

request(hasCap, m, exit) ==
  IF hasCap THEN "AlreadyHave"
  ELSE IF ~can_prompt(m) \/ Prog(m) = "none" THEN "Unavailable"
  ELSE IF exit = 0 THEN "Granted"
  ELSE IF exit = Decline(m) THEN "Declined"
  ELSE "Unavailable"

=============================================================================
