------------------------------ MODULE MCResume ------------------------------
(* Small instances of Resume for TLC: two or three files of a few bytes,     *)
(* slabs that do not divide the files, so that chunks cross their borders.   *)
EXTENDS Resume

Sizes32 == <<3, 2>>
Sizes302 == <<3, 0, 2>>
\* What somebody may make of them.
NoChange == [i \in Files |-> {}]
Changes == <<{4}, {1}, {1, 3}>>

\* Every path is of its own.
Fin == [i \in Files |-> <<"fin", i>>]
Part == [i \in Files |-> <<"part", i>>]
AllPaths == {"fin", "part"} \X Files

=============================================================================
