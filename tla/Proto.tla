-------------------------------- MODULE Proto --------------------------------
(***************************************************************************)
(* The control messages (src/src/proto.rs).  A message is a sequence of     *)
(* digits: an integer field of whatever width is one digit, a character of  *)
(* a string is one, and the two bytes before a string are one digit modulo  *)
(* StrMod (65536 in the code).                                              *)
(***************************************************************************)
EXTENDS Integers, Sequences, SequencesExt

CONSTANTS
  VERSION,      \* of the line format
  StrMod,       \* number of lengths a string can announce
  MaxEntries    \* entries that a reader accepts (1 << 20)

ASSUME ProtoAssumption == VERSION \in Nat /\ StrMod \in Nat \ {0} /\ MaxEntries \in Nat

MAGIC == 42
MSG_TRANSFER == 1
MSG_PROBE == 2
MSG_REPLY == 3
MSG_GO == 4
MSG_ABORT == 5
MSG_TRAILER == 6
MSG_PEERINFO == 7

\* A program encodes and decodes under the version it was built with.
encode(version, ty, body) == <<MAGIC, version, ty>> \o body
encode_bare(version, ty) == encode(version, ty, << >>)

NotIbsend == [kind |-> "foreign"]
VersionMismatch(theirs) == [kind |-> "mismatch", theirs |-> theirs]

\* Mutant: the version is not looked at.
decode_any(version, buf) ==
  IF Len(buf) < 3 \/ buf[1] # MAGIC THEN NotIbsend
  ELSE [kind |-> "message", ty |-> buf[3], body |-> SubSeq(buf, 4, Len(buf))]

decode_checked(version, buf) ==
  IF Len(buf) < 3 \/ buf[1] # MAGIC THEN NotIbsend
  ELSE IF buf[2] # version THEN VersionMismatch(buf[2])
  ELSE [kind |-> "message", ty |-> buf[3], body |-> SubSeq(buf, 4, Len(buf))]

IsMessage(d, ty) == d.kind = "message" /\ d.ty = ty

-----------------------------------------------------------------------------
(* Writing.                                                                 *)

put_str(s) == <<Len(s) % StrMod>> \o s

Manifest_write(m) ==
  <<Len(m.files), m.sender_budget>>
    \o FlattenSeq([i \in 1..Len(m.files) |->
                     put_str(m.files[i].name) \o <<m.files[i].size>>])

Reply_write(r) ==
  <<r.slab_size, r.nslabs, r.pool_addr, r.pool_rkey>> \o put_str(r.inbox)
    \o <<Len(r.have)>> \o r.have

Trailer_write(t) == <<Len(t.crcs)>> \o t.crcs

PeerInfo_write(p) == put_str(p.name) \o put_str(p.note) \o put_str(p.inbox)

-----------------------------------------------------------------------------
(* Reading.  A body is read field by field: an integer is one digit, a      *)
(* string as long as its first digit says.  read_exact fails at the first   *)
(* field that does not fit into what is left.                               *)

\* Mutant: the length of a string is not counted as read.
FieldEndsBare(body, layout) ==
  LET end[k \in 0..Len(layout)] ==
        IF k = 0 THEN 0
        ELSE end[k - 1] + (IF layout[k] = "str" /\ end[k - 1] < Len(body)
                             THEN body[end[k - 1] + 1] ELSE 1)
  IN end

\* Where the fields of a body end.
FieldEnds(body, layout) ==
  LET end[k \in 0..Len(layout)] ==
        IF k = 0 THEN 0
        ELSE end[k - 1] + 1 + (IF layout[k] = "str" /\ end[k - 1] < Len(body)
                                 THEN body[end[k - 1] + 1] ELSE 0)
  IN end

HasFields(body, layout) == FieldEnds(body, layout)[Len(layout)] <= Len(body)

get_int(body, layout, k) == body[FieldEnds(body, layout)[k]]
get_str(body, layout, k) ==
  LET end == FieldEnds(body, layout) IN SubSeq(body, end[k - 1] + 2, end[k])

\* The layout of a message: its head, and as many entries as the last field of
\* the head (the field count of the manifest's) says.
Repeat(n, entry) == FlattenSeq([i \in 1..n |-> entry])
Readable(body, head, count, entry) ==
  /\ HasFields(body, head) /\ get_int(body, head, count) <= MaxEntries
  /\ HasFields(body, head \o Repeat(get_int(body, head, count), entry))

Refused == [refused |-> TRUE]

Manifest_read(body) ==
  LET head == <<"int", "int">>
      layout == head \o Repeat(body[1], <<"str", "int">>)
  IN IF ~Readable(body, head, 1, <<"str", "int">>) THEN Refused
     ELSE [sender_budget |-> body[2],
           files |-> [i \in 1..body[1] |->
                        [name |-> get_str(body, layout, 2 * i + 1),
                         size |-> get_int(body, layout, 2 * i + 2)]]]

Reply_read(body) ==
  LET head == <<"int", "int", "int", "int", "str", "int">>
      end == FieldEnds(body, head)[6]
  IN IF ~Readable(body, head, 6, <<"int">>) THEN Refused
     ELSE [slab_size |-> body[1], nslabs |-> body[2], pool_addr |-> body[3],
           pool_rkey |-> body[4], inbox |-> get_str(body, head, 5),
           have |-> SubSeq(body, end + 1, end + body[end])]

Trailer_read(body) ==
  IF ~Readable(body, <<"int">>, 1, <<"int">>) THEN Refused
  ELSE [crcs |-> SubSeq(body, 2, body[1] + 1)]

PeerInfo_read(body) ==
  LET layout == <<"str", "str", "str">> IN
    IF ~HasFields(body, layout) THEN Refused
    ELSE [name |-> get_str(body, layout, 1), note |-> get_str(body, layout, 2),
          inbox |-> get_str(body, layout, 3)]

=============================================================================
