---------------------------- MODULE MCCtlChannel ----------------------------
(* A session of CtlChannel for TLC: transfers of manifests that take two and *)
(* three frames, one too long, a sender that cannot arm, a probe, and        *)
(* the same from a program of another version.                               *)
EXTENDS CtlChannel, TLC

Entry(name, size) == [name |-> name, size |-> size]
Manifests ==
  {[files |-> << >>, sender_budget |-> 0],
   [files |-> <<Entry(<<1, 2, 3>>, 9)>>, sender_budget |-> 7],
   [files |-> <<Entry(<<1, 2>>, 9), Entry(<<3>>, 0)>>, sender_budget |-> 7]}
TooLong == [files |-> <<Entry(<<1, 2, 3>>, 9), Entry(<<4, 5, 6>>, 9)>>, sender_budget |-> 7]

Job(does, version, manifest, arms) ==
  [does |-> does, version |-> version, manifest |-> manifest, arms |-> arms]
MCJobs ==
  {Job("transfer", 2, m, TRUE) : m \in Manifests \cup {TooLong}}
    \cup {Job("transfer", 2, m, FALSE) : m \in Manifests}
    \cup {Job("probe", v, [files |-> << >>, sender_budget |-> 0], TRUE) : v \in {2, 3}}
    \cup {Job("transfer", 3, m, TRUE) : m \in Manifests}

MCNRecv == client :> 2 @@ server :> 3

=============================================================================
