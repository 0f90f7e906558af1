----------------------------- MODULE MCCommand ------------------------------
(* Command on four interfaces, one of them with five addresses to scan, and  *)
(* a small file system that may change, or err, once.                                 *)
EXTENDS Command

MCIfaces == <<[ip |-> 10, mask |-> 248], [ip |-> 40, mask |-> 240],
              [ip |-> 49, mask |-> 255], [ip |-> 66, mask |-> 252]>>
MCThreads == {"t1", "t2"}
MCSteady == {9, 11, 65}
MCNames == [a \in 0..255 |-> IF a \in {11, 12} THEN 300 ELSE IF a = 65 THEN 301 ELSE 302]
MCTasks == {[does |-> "discover", peer |-> 0], [does |-> "send", peer |-> 200],
            [does |-> "send", peer |-> 300], [does |-> "send", peer |-> 400]}

\* d/x  d/x.part  d/s/y  d/s/link  d/t/u/v  d/fifo, and two files and a directory
\* that cannot be read beside d.
D == <<1>>
X == <<2>>
XPart == <<2, PART>>
S == <<3>>
Y == <<4>>
T == <<5>>
MCTree ==
  [p \in {<<D>>, <<D, X>>, <<D, XPart>>, <<D, S>>, <<D, S, Y>>, <<D, S, <<6>>>>, <<D, <<7>>>>,
          <<T>>, <<T, D>>, <<T, D, S>>, <<T, D, S, X>>, <<T, D, S, Y>>, <<T, <<8>>>>, <<Y>>, <<S>>} |->
     CASE p \in {<<D>>, <<D, S>>, <<T>>, <<T, D>>, <<T, D, S>>, <<T, D, S, Y>>} -> "dir"
       [] p = <<T, <<8>>>> -> "special"
       [] p \in {<<D, S, <<6>>>>, <<Y>>} -> "link"
       [] p = <<D, <<7>>>> -> "special"
       [] p = <<S>> -> "locked"
       [] OTHER -> "file"]

MCInputLists ==
  {<<[path |-> <<D>>, name |-> D], [path |-> <<D, X>>, name |-> X], [path |-> <<Y>>, name |-> Y]>>,
   <<[path |-> <<D, S>>, name |-> NoName], [path |-> <<D>>, name |-> D]>>,
   <<[path |-> <<T, <<8>>>>, name |-> <<8>>], [path |-> <<D, S, Y>>, name |-> Y]>>,
   <<[path |-> <<T>>, name |-> T]>>,
   <<[path |-> <<Y>>, name |-> Y]>>,
   <<[path |-> <<D, X>>, name |-> X], [path |-> <<S>>, name |-> S]>>,
   <<[path |-> <<D>>, name |-> D], [path |-> <<D>>, name |-> D]>>}

\* What is not text, 6 and 7 here, comes out as the same character.
MCLossy == [c \in Seq(Nat) |-> [k \in 1..Len(c) |-> IF c[k] \in {6, 7} THEN 6 ELSE c[k]]]

Nine == <<49, 50, 51, 52, 53, 54, 55, 56, 57>>
MCContents == {Nine, <<255, 0, 128>>, << >>}

\* The vectors of crc.rs:121-122: 0xE3069283 for "123456789".
ASSUME \A h \in BOOLEAN :
  /\ crc32c(h, Nine)
       = {0, 1, 7, 9, 12, 15, 17, 18, 24, 25, 29, 30, 31}
  /\ crc32c(h, << >>) = Zero

\* The names that walk.rs:153-171 refuses and keeps.
ASSUME
  /\ \A bad \in {<<Empty, D, X>>, <<Up, X>>, <<D, Up, Up, X>>, <<Up>>, <<Dot>>, <<Empty>>,
                 <<D, Up, Up>>, <<Empty, Empty>>} : safe_relpath(bad) = NoPath
  /\ safe_relpath(<<X>>) = <<X>> /\ safe_relpath(<<D, S, X>>) = <<D, S, X>>
  /\ safe_relpath(<<D, Dot, X>>) = <<D, X>>
=============================================================================
