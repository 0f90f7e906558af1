------------------------------- MODULE MCGui --------------------------------
(* The desktop program for TLC: two peers of which a scan finds one  *)
(* or both, and a machine with the default limit of 8 MB.                *)
EXTENDS Gui

MCLists == {<<1>>, <<1, 2>>}
MCLimits == {8 * MB}
Desktop == [setcap |-> TRUE, pkexec |-> TRUE, sudo |-> FALSE, display |-> TRUE, tty |-> FALSE]
MCDesktops == {Desktop}
MCAvail == 1536 * MB
MCRemotePool == 64 * MB
MCTotal == 1024 * MB
MCMaxPool == 1024 * MB

=============================================================================
