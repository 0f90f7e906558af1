-------------------------------- MODULE Crc ---------------------------------
(***************************************************************************)
(* CRC32C (src/src/crc.rs) bit by bit: the table-driven loop, the loop over *)
(* the crc32 instruction, and the running checksum of a file that is cut    *)
(* into pieces.  A register of 32 bits is the set of its bits that are 1.   *)
(***************************************************************************)
EXTENDS Integers, Sequences

Bit == 0..31
Register == SUBSET Bit
Zero == {}
Ones == Bit

Xor(a, b) == (a \ b) \cup (b \ a)
Shr(c, n) == {i \in Bit : i + n \in c}
Not(a) == Bit \ a

\* The register that holds a byte.
Byte == [b \in 0..255 |-> {i \in 0..7 : (b \div 2^i) % 2 = 1}]

\* 0x82F63B78
POLY == {31, 25, 23, 22, 21, 20, 18, 17, 13, 12, 11, 9, 8, 6, 5, 4, 3}

\* One bit of the division: shift out, and subtract the polynomial if it was one.
Divide == [c \in Register |-> IF 0 \in c THEN Xor(Shr(c, 1), POLY) ELSE Shr(c, 1)]
DivideByte(c) ==
  LET bits[k \in 0..8] == IF k = 0 THEN c ELSE Divide[bits[k - 1]] IN bits[8]

\* Indexed by the low byte of a register.
table == [low \in SUBSET (0..7) |-> DivideByte(low)]

\* A loop over bytes: step takes the register and a byte.
Loop(step, c, bytes) ==
  LET reg[k \in 0..Len(bytes)] == IF k = 0 THEN c ELSE step[<<reg[k - 1], bytes[k]>>]
  IN reg[Len(bytes)]

Soft == [cb \in Register \X (0..255) |->
           Xor(table[Xor(cb[1], Byte[cb[2]]) \cap (0..7)], Shr(cb[1], 8))]
update_soft(crc, bytes) == Loop(Soft, crc, bytes)

\* The instruction on one byte, and on eight of them, the first lowest.
mm_crc32_u8 == [cb \in Register \X (0..255) |-> DivideByte(Xor(cb[1], Byte[cb[2]]))]
mm_crc32_u64(crc, bytes) == Loop(mm_crc32_u8, crc, bytes)

\* The part in eights, and what is left after it.
Eights(crc, bytes) ==
  LET n == Len(bytes) \div 8
      reg[k \in 0..n] == IF k = 0 THEN crc
                         ELSE mm_crc32_u64(reg[k - 1], SubSeq(bytes, 8 * k - 7, 8 * k))
  IN reg[n]
Tail8(bytes) == SubSeq(bytes, 8 * (Len(bytes) \div 8) + 1, Len(bytes))

update_sse42(crc, bytes) == Loop(mm_crc32_u8, Eights(crc, bytes), Tail8(bytes))

\* What a machine does, with the instruction or without.
update(hw, crc, bytes) == IF hw THEN update_sse42(crc, bytes) ELSE update_soft(crc, bytes)

new == Ones
finish(c) == Not(c)
crc32c(hw, bytes) == Not(update(hw, Ones, bytes))

-----------------------------------------------------------------------------
(* The definition of the checksum: the message as a polynomial, its first    *)
(* coefficient the lowest bit of the first byte, times x^32, the first 32    *)
(* coefficients inverted, modulo the polynomial; the remainder inverted, its *)
(* last coefficient in bit 31.                                               *)

\* The places 1, 2, ... of the coefficients that are 1, highest power first.
Coefficients(bytes) ==
  {k \in 1..8 * Len(bytes) + 32 :
     (k <= 8 * Len(bytes) /\ (k - 1) % 8 \in Byte[bytes[(k - 1) \div 8 + 1]]) # (k <= 32)}

\* The divisor: x^32 and, from x^31 down, the bits of POLY from 0 up.
Divisor == {0} \cup {i + 1 : i \in POLY}

\* One step of the long division: subtract the divisor at place k.
Subtract(m, k, n) == IF k \in m THEN {i \in 1..n : (i \in m) # (i - k \in Divisor)} ELSE m

Remainder(bytes) ==
  LET n == 8 * Len(bytes)
      left[k \in 0..n] == IF k = 0 THEN Coefficients(bytes) ELSE Subtract(left[k - 1], k, n + 32)
  IN left[n]

Checksum(bytes) == LET n == 8 * Len(bytes) + 1 IN
  Bit \ {i - n : i \in Remainder(bytes)}

-----------------------------------------------------------------------------
(* A machine, sender or receiver, adds the bytes of a file to a running      *)
(* checksum in pieces of its own cut.                                        *)

CONSTANT Contents    \* contents of files: sequences of bytes

ASSUME CrcAssumption == Contents \subseteq Seq(0..255)

VARIABLES
  bytes,       \* what the session transfers of the file
  hw,          \* the machine has the instruction
  at,          \* bytes added
  crc          \* the register

crcVars == <<bytes, hw, at, crc>>

CrcRest == bytes = << >> /\ hw = FALSE /\ at = 0 /\ crc = new

\* At the start of a file.
CrcStart == bytes' \in Contents /\ hw' \in BOOLEAN /\ at' = 0 /\ crc' = new

\* Mutant: the piece starts a checksum of its own.
UpdateAfresh ==
  \E n \in 1..Len(bytes) - at :
    /\ crc' = update(hw, new, SubSeq(bytes, at + 1, at + n)) /\ at' = at + n
    /\ UNCHANGED <<bytes, hw>>

Update ==
  \E n \in 1..Len(bytes) - at :
    /\ crc' = update(hw, crc, SubSeq(bytes, at + 1, at + n)) /\ at' = at + n
    /\ UNCHANGED <<bytes, hw>>

=============================================================================
