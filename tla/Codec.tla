--------------------------------- MODULE Codec ---------------------------------
(***************************************************************************)
(* Reading and writing bytes: zenoh-proto/src/bytes.rs, the integers of    *)
(* codec/struct/uint.rs and the extension headers of codec/ext.rs.  Bytes  *)
(* are numbers, a buffer is a sequence of them.                            *)
(***************************************************************************)
EXTENDS Integers, SequencesExt

\* Bound: the model reads integers of at most this many bytes; the code 9.
VleLimit == 4

-------------------------------------------------------------------------------
(* What an encoder does to its buffer, one call of ZWriteable at a time.  A   *)
(* write needs some room, and then takes its bytes.                           *)

\* write_u8 and write_exact.
Exactly(bytes) == [need |-> Len(bytes), bytes |-> bytes]

\* write, whose caller does not look at how much it wrote.
AsManyAsFit(bytes) == [need |-> 0, bytes |-> bytes]

VleLen(x) == IF x < 128 THEN 1 ELSE IF x < 16384 THEN 2 ELSE IF x < 2097152 THEN 3 ELSE 4

VleBytes(x) ==
  [i \in 1..VleLen(x) |->
     ((x \div 128^(i - 1)) % 128) + (IF i < VleLen(x) THEN 128 ELSE 0)]

\* An integer asks for a slot of 9 bytes whatever its length, and returns the rest.
\* Mutant: of 19, for an integer of 128 bits.
WideVle(x) == [need |-> 19, bytes |-> VleBytes(x)]
Vle(x) == [need |-> 9, bytes |-> VleBytes(x)]

RECURSIVE AllBytes(_), WriteAll(_, _)

AllBytes(writes) ==
  IF writes = <<>> THEN <<>> ELSE Head(writes).bytes \o AllBytes(Tail(writes))

\* The writes of one z_encode into a buffer with this room: an error of any of
\* them is the error of the whole.
WriteAll(writes, room) ==
  IF writes = <<>> THEN [ok |-> TRUE, bytes |-> <<>>]
  ELSE LET write == Head(writes)
           written == SubSeq(write.bytes, 1, IF Len(write.bytes) < room
                                             THEN Len(write.bytes) ELSE room)
           rest == WriteAll(Tail(writes), room - Len(written))
       IN [ok |-> write.need <= room /\ rest.ok, bytes |-> written \o rest.bytes]

-------------------------------------------------------------------------------
(* Decoding takes bytes from the front of a reader, or fails.                 *)

Done(value, rest) == [ok |-> TRUE, value |-> value, rest |-> rest]
Failed == [ok |-> FALSE, value |-> 0, rest |-> <<>>]

Then(result, F(_, _)) == IF result.ok THEN F(result.value, result.rest) ELSE Failed

ReadU8(r) == IF r = <<>> THEN Failed ELSE Done(Head(r), Tail(r))

ReadSlice(r, n) ==
  IF Len(r) < n THEN Failed ELSE Done(SubSeq(r, 1, n), SubSeq(r, n + 1, Len(r)))

RECURSIVE ReadUpTo(_, _)

\* Up to the first byte without the continuation bit.
ReadUpTo(r, n) ==
  IF r = <<>> \/ n = 0 THEN Failed
  ELSE IF Head(r) < 128 THEN Done(Head(r), Tail(r))
  ELSE Then(ReadUpTo(Tail(r), n - 1), LAMBDA high, s : Done((Head(r) % 128) + 128 * high, s))
ReadVle(r) == ReadUpTo(r, VleLimit)

\* A value decoded from a slice of its own: what it leaves of the slice is lost.
Within(r, n, Decode(_)) ==
  Then(ReadSlice(r, n), LAMBDA slice, rest :
    Then(Decode(slice), LAMBDA value, left : Done(value, rest)))

-------------------------------------------------------------------------------
(* Extensions.                                                                *)

ExtKinds == [Unit |-> 0, U64 |-> 1, ZStruct |-> 2]

ExtHeader(id, kind, mandatory, more) ==
  id + 32 * ExtKinds[kind] + (IF mandatory THEN 16 ELSE 0) + (IF more THEN 128 ELSE 0)

\* Two bits of kind, of which 0b11 is none; peeked, not read.
DecodeExtHeader(r) ==
  IF r = <<>> \/ (Head(r) \div 32) % 4 = 3 THEN Failed
  ELSE Done([id |-> Head(r) % 16,
             kind |-> CHOOSE k \in DOMAIN ExtKinds : ExtKinds[k] = (Head(r) \div 32) % 4,
             mandatory |-> (Head(r) \div 16) % 2 = 1,
             more |-> Head(r) \div 128 = 1], r)

\* Mutant: a structure is taken for as long as its first byte says, and no byte.
SkipLength(r, kind) ==
  Then(ReadU8(r), LAMBDA header, s :
    IF kind = "Unit" THEN Done(header, s) ELSE ReadVle(s))
SkipExt(r, kind) ==
  Then(ReadU8(r), LAMBDA header, s :
    IF kind = "Unit" THEN Done(header, s)
    ELSE IF kind = "U64" THEN ReadVle(s)
    ELSE Then(ReadVle(s), LAMBDA n, t : ReadSlice(t, n)))
===============================================================================
