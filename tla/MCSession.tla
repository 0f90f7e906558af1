----------------------------- MODULE MCSession ------------------------------
(* Session for TLC: a large transfer of an unlimited sender, a small one of a *)
(* sender that can pin little memory, and probes.                            *)
EXTENDS Session

CONSTANTS big, little, scan

MCSenders == {big, little}
MCProbes == {scan}
MCPool == 64 * MB
MCTotal == big :> 1024 * MB @@ little :> MB
MCBudget == big :> Unlimited @@ little :> MB

BigSlab == 16 * MB
HalfSlab == MB \div 2     \* --slab 512K

=============================================================================
