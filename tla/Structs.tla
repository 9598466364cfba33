-------------------------------- MODULE Structs --------------------------------
(***************************************************************************)
(* The codec that zenoh-derive generates for a structure from its          *)
(* attributes (crates/zenoh-derive/src/codec): its header byte, its length,*)
(* its encoding and its decoding, here as operators on a description of    *)
(* the structure.  A type is a record with its kind:                       *)
(*   - "u8", "array", "slice" (a byte slice or a string), "int", "ru8";    *)
(*   - "struct", with its header and its fields, "enum", with its          *)
(*     variants, and "u64", the extension that is a single integer;        *)
(*   - the types of msgs/fields.rs and msgs/exts.rs whose codec is written *)
(*     by hand: "zid", "batch_size", "encoding", "duration", "qinfo".      *)
(* A value of a structure is a record of its fields, an Option is a        *)
(* sequence of at most one value.                                          *)
(***************************************************************************)
EXTENDS Codec, FiniteSets, Bitwise

-------------------------------------------------------------------------------
(* Header declarations, "Z|M|N|ID:5=0x1d": the parts from bit 7 downwards.    *)

Part(name, width) == [name |-> name, width |-> width, value |-> 0]
Constant(name, width, value) == [name |-> name, width |-> width, value |-> value]

RECURSIVE Width(_), Base(_, _)

Width(parts) == IF parts = <<>> THEN 0 ELSE Head(parts).width + Width(Tail(parts))

Low(T, i) == 8 - Width(SubSeq(T.header, 1, i))

\* FULL is the whole byte, and the only slot that overlaps others.
Slot(T, name) ==
  IF name = "FULL" THEN [low |-> 0, width |-> 8]
  ELSE LET i == CHOOSE i \in DOMAIN T.header : T.header[i].name = name
       IN [low |-> Low(T, i), width |-> T.header[i].width]

\* HEADER_BASE: the constant parts.
Base(parts, low) ==
  IF parts = <<>> THEN 0
  ELSE LET below == low - Head(parts).width
       IN Head(parts).value * 2^below + Base(Tail(parts), below)

\* (x << slot.trailing_zeros()) & slot, and back.
Placed(x, slot) == (x % 2^slot.width) * 2^slot.low
Picked(header, slot) == (header \div 2^slot.low) % 2^slot.width

\* What header_impl.rs refuses.
HeaderOK(T) ==
  T.header # <<>> => /\ Width(T.header) = 8
                     /\ \A i \in DOMAIN T.header : T.header[i].name = "Z" => i = 1

-------------------------------------------------------------------------------
(* Fields and their attributes.                                               *)

Field(name, type) ==
  [name |-> name, type |-> type, option |-> FALSE,
   header |-> "", presence |-> "", size |-> "", flatten |-> FALSE, shift |-> 0,
   maybe_empty |-> FALSE, mandatory |-> FALSE, ext |-> -1, default |-> <<>>]

Exts(T) == {i \in DOMAIN T.fields : T.fields[i].ext >= 0}

\* What ty.rs accepts.  An Option is checked as what it holds, without what makes
\* it optional; what an extension holds must be a ZExt, which the bare types are not.
FieldOK(f) ==
  LET present == f.presence # ""
      default == f.default # <<>>
      ext == f.ext >= 0
      size == f.size # ""
      bare == f.type.kind \in {"u8", "int", "array", "slice"}
  IN /\ f.option => ~default /\ f.header = "" /\ (ext # present) /\ ~(ext /\ size)
     /\ bare => ~f.flatten /\ f.shift = 0 /\ ~f.mandatory /\ ~ext
     /\ bare /\ ~f.option => (default = present)
     /\ bare /\ f.type.kind # "slice" => ~size /\ ~f.maybe_empty
     /\ bare /\ f.type.kind # "u8" => f.header = ""
     /\ f.type.kind = "slice" => size
     /\ ~bare /\ ~f.option => /\ default = (present \/ ext)
                              /\ ext => ~size
     /\ ~bare => ~(f.header # "" /\ f.flatten) /\ (f.shift # 0 => f.flatten)

\* The macros generate a codec for T: the slots it names exist, and its
\* extensions are together.
Derivable(T) ==
  /\ HeaderOK(T)
  /\ \A i \in DOMAIN T.fields : FieldOK(T.fields[i])
  /\ \A i, j \in Exts(T) : \A k \in i..j : k \in Exts(T)

-------------------------------------------------------------------------------
(* Types.                                                                     *)

Variant(T, name) ==
  LET i == CHOOSE i \in DOMAIN T.variants : T.variants[i].name = name IN T.variants[i]

\* The constant part that tells the messages of one enum apart.
ID(T) == LET i == CHOOSE i \in DOMAIN T.header : T.header[i].name = "ID" IN T.header[i].value

HasHeader(T) == T.kind = "enum" \/ (T.kind = "struct" /\ T.header # <<>>)

\* The integer that stands for a value.  A duration is in milliseconds, and in
\* seconds where the bit of its header is set, which only a flattened one has.
Numbers == {"int", "ru8", "u64", "duration", "qinfo"}

Raw(T, x, header) ==
  CASE T.kind = "u64" -> x[T.field]
    [] T.kind = "duration" /\ header % 2 = 1 -> x \div 1000
    [] T.kind = "qinfo" -> (IF x.complete THEN 1 ELSE 0) + 256 * x.distance
    [] OTHER -> x

\* The cast to a narrower integer; the model reads less than 2^31 anyway.
Cut(n, bits) == IF bits < 31 THEN n % 2^bits ELSE n

FromRaw(T, n, header) ==
  CASE T.kind = "int" -> Cut(n, T.bits)
    [] T.kind = "u64" -> (T.field :> Cut(n, T.bits))
    [] T.kind = "duration" -> IF header % 2 = 1 THEN 1000 * n ELSE n
    [] T.kind = "ru8" -> n % 256
    [] T.kind = "qinfo" -> [complete |-> n % 2 = 1, distance |-> (n \div 256) % 65536]
    [] OTHER -> n

\* The kind of extension a type makes (ext.rs infer_kind, and the impls of ZExt).
ExtKind(T) ==
  IF T.kind \in Numbers THEN "U64"
  ELSE IF T.kind = "struct" /\ T.fields = <<>> THEN "Unit"
  ELSE "ZStruct"

\* derive(ZExt): a single integer is an extension of its own.
ZExt(name, header, fields) ==
  IF Len(fields) = 1 /\ fields[1].type.kind \in {"u8", "int"}
  THEN [kind |-> "u64", field |-> fields[1].name, bits |-> fields[1].type.bits]
  ELSE [kind |-> "struct", name |-> name, header |-> header, fields |-> fields]

-------------------------------------------------------------------------------
(* Presence: the condition that enc_len_modifier puts around a field.         *)

Present(f, x) ==
  IF f.option THEN x[f.name] # <<>>
  ELSE f.default # <<>> => x[f.name] # f.default[1]

Held(f, x) == IF f.option THEN x[f.name][1] ELSE x[f.name]

ExtCount(T, x) == Cardinality({i \in Exts(T) : Present(T.fields[i], x)})

-------------------------------------------------------------------------------
(* Header, length and encoding.                                               *)

RECURSIVE ZHeader(_, _), BodyLen(_, _), BodyWrites(_, _),
          HeaderOf(_, _, _), LenOf(_, _, _), WritesOf(_, _, _)

\* The header that a number without one is read with.
BodyHeader(T, x) == IF T.kind = "duration" THEN ZHeader(T, x) ELSE 0

\* z_len: a header before the body; a duration alone is always in milliseconds.
FullLen(T, x) ==
  IF HasHeader(T) THEN 1 + BodyLen(T, x)
  ELSE IF T.kind = "duration" THEN VleLen(x)
  ELSE BodyLen(T, x)

FieldLen(f, x) ==
  IF f.flatten THEN BodyLen(f.type, Held(f, x)) ELSE FullLen(f.type, Held(f, x))

\* Mutant: the length of a body that may not be empty is kept as it is.
WholeSize(f) == 0
LeastSize(f) == IF f.maybe_empty THEN 0 ELSE 1

\* What one field adds to the header.
HeaderPart(T, x, i) ==
  LET f == T.fields[i] IN
  IF f.header # "" THEN Placed(x[f.name], Slot(T, f.header))
  ELSE IF i \in Exts(T) THEN IF ExtCount(T, x) > 0 THEN Placed(1, Slot(T, "Z")) ELSE 0
  ELSE IF ~Present(f, x) THEN 0
  ELSE (IF f.flatten THEN (ZHeader(f.type, Held(f, x)) * 2^f.shift) % 256 ELSE 0)
       | (IF f.presence \in {"", "prefixed"} THEN 0 ELSE Placed(1, Slot(T, f.presence)))
       | (IF f.size \in {"", "prefixed", "remain"} THEN 0
          ELSE Placed((FieldLen(f, x) - LeastSize(f)) % 256, Slot(T, f.size)))

ZHeader(T, x) ==
  IF T.kind = "duration" THEN IF x % 1000 = 0 THEN 1 ELSE 0
  ELSE Base(T.header, 8) | HeaderOf(T, x, Len(T.fields))

\* The fields up to the i-th.
HeaderOf(T, x, i) == IF i = 0 THEN 0 ELSE HeaderOf(T, x, i - 1) | HeaderPart(T, x, i)

ExtLen(f, x) ==
  LET n == FullLen(f.type, Held(f, x))
  IN 1 + n + (IF ExtKind(f.type) = "ZStruct" THEN VleLen(n) ELSE 0)

LenPart(T, x, i) ==
  LET f == T.fields[i] IN
  IF f.header # "" THEN 0
  ELSE (IF f.presence = "prefixed" THEN 1 ELSE 0)
       + (IF ~Present(f, x) THEN 0
          ELSE IF i \in Exts(T) THEN ExtLen(f, x)
          ELSE FieldLen(f, x)
               + (IF f.size = "prefixed" THEN VleLen(FieldLen(f, x)) ELSE 0))

BodyLen(T, x) ==
  CASE T.kind = "u8" -> 1
    [] T.kind = "batch_size" -> 2
    [] T.kind \in {"array", "slice", "zid"} -> Len(x)
    [] T.kind \in Numbers -> VleLen(Raw(T, x, BodyHeader(T, x)))
    [] T.kind = "encoding" ->
         VleLen(2 * x.id) + (IF x.schema = <<>> THEN 0
                             ELSE VleLen(Len(x.schema[1])) + Len(x.schema[1]))
    [] T.kind = "enum" -> BodyLen(Variant(T, x.is), x.of)
    [] OTHER -> LenOf(T, x, Len(T.fields))

LenOf(T, x, i) == IF i = 0 THEN 0 ELSE LenOf(T, x, i - 1) + LenPart(T, x, i)

-------------------------------------------------------------------------------
(* The encoder: the writes that z_encode and z_body_encode do.                *)

FullWrites(T, x) ==
  CASE T.kind = "enum" ->
         <<Exactly(<<ZHeader(Variant(T, x.is), x.of)>>)>> \o BodyWrites(T, x)
    [] HasHeader(T) -> <<Exactly(<<ZHeader(T, x)>>)>> \o BodyWrites(T, x)
    [] T.kind = "duration" -> <<Vle(x)>>
    [] OTHER -> BodyWrites(T, x)

ExtWrites(f, x, more) ==
  LET T == f.type IN
  <<Exactly(<<ExtHeader(f.ext, ExtKind(T), f.mandatory, more)>>)>>
  \o (IF ExtKind(T) = "ZStruct" THEN <<Vle(FullLen(T, x))>> ELSE <<>>)
  \o FullWrites(T, x)

FieldWrites(T, x, i) ==
  LET f == T.fields[i]
      here == Present(f, x)
  IN IF f.header # "" THEN <<>>
     ELSE (IF f.presence = "prefixed" THEN <<Exactly(<<IF here THEN 1 ELSE 0>>)>> ELSE <<>>)
          \o (IF ~here THEN <<>>
              ELSE IF i \in Exts(T)
              THEN ExtWrites(f, Held(f, x), \E j \in Exts(T) : j > i /\ Present(T.fields[j], x))
              ELSE (IF f.size = "prefixed" THEN <<Vle(FieldLen(f, x))>> ELSE <<>>)
                   \o (IF f.flatten THEN BodyWrites(f.type, Held(f, x))
                       ELSE FullWrites(f.type, Held(f, x))))

BodyWrites(T, x) ==
  CASE T.kind = "u8" -> <<Exactly(<<x>>)>>
    [] T.kind = "batch_size" -> <<AsManyAsFit(<<x % 256, x \div 256>>)>>
    [] T.kind \in {"array", "slice", "zid"} -> <<Exactly(x)>>
    [] T.kind \in Numbers -> <<Vle(Raw(T, x, BodyHeader(T, x)))>>
    [] T.kind = "encoding" ->
         <<Vle(2 * x.id + Len(x.schema))>>
         \o (IF x.schema = <<>> THEN <<>>
             ELSE <<Vle(Len(x.schema[1])), Exactly(x.schema[1])>>)
    [] T.kind = "enum" -> BodyWrites(Variant(T, x.is), x.of)
    [] OTHER -> WritesOf(T, x, Len(T.fields))

WritesOf(T, x, i) ==
  IF i = 0 THEN <<>> ELSE WritesOf(T, x, i - 1) \o FieldWrites(T, x, i)

Bytes(T, x) == AllBytes(FullWrites(T, x))

-------------------------------------------------------------------------------
(* The decoder.                                                               *)

RECURSIVE DecodeFull(_, _), DecodeBody(_, _, _), DecodeExts(_, _, _), DecodeFields(_, _, _, _)

\* The header byte of a structure or an enum comes first.
DecodeFull(T, r) ==
  IF HasHeader(T) THEN Then(ReadU8(r), LAMBDA header, s : DecodeBody(T, s, header))
  ELSE DecodeBody(T, r, 0)

DecodeInner(f, r, header) ==
  IF f.flatten THEN DecodeBody(f.type, r, header \div 2^f.shift) ELSE DecodeFull(f.type, r)

DecodeSized(T, f, r, header) ==
  LET Inner(slice) == DecodeInner(f, slice, header) IN
  IF f.size = "prefixed" THEN Then(ReadVle(r), LAMBDA n, s : Within(s, n, Inner))
  ELSE IF f.size \notin {"", "remain"}
  THEN Within(r, Picked(header, Slot(T, f.size)) + LeastSize(f), Inner)
  ELSE Inner(r)

\* A field that is not an extension: whether it is there, its size, itself.
DecodeField(T, f, r, header) ==
  LET Absent == IF f.option THEN <<>> ELSE f.default[1]
      IfThere(there, s) ==
        IF ~there THEN Done(Absent, s)
        ELSE Then(DecodeSized(T, f, s, header), LAMBDA value, t :
               Done(IF f.option THEN <<value>> ELSE value, t))
  IN IF f.header # ""
     THEN LET value == Picked(header, Slot(T, f.header))
          IN IF value \in f.type.values THEN Done(value, r) ELSE Failed
     ELSE IF f.presence = "" THEN DecodeSized(T, f, r, header)
     ELSE IF f.presence = "prefixed"
     THEN Then(ReadU8(r), LAMBDA flag, s : IfThere(flag # 0, s))
     ELSE IfThere(Picked(header, Slot(T, f.presence)) # 0, r)

DecodeExt(T, r) ==
  Then(ReadU8(r), LAMBDA header, s :
    IF ExtKind(T) = "ZStruct"
    THEN Then(ReadVle(s), LAMBDA n, t : Within(t, n, LAMBDA slice : DecodeFull(T, slice)))
    ELSE DecodeFull(T, s))

\* The arms of the match, of which the first counts: an Option has its kind compared,
\* a default has not.
Knows(f, header) ==
  f.ext = header.id /\ (f.option => ExtKind(f.type) = header.kind)

\* Extensions in any order, for as long as each says that more follow.
DecodeExts(T, values, r) ==
  Then(DecodeExtHeader(r), LAMBDA header, s :
    LET known == {i \in Exts(T) : Knows(T.fields[i], header)}
        f == T.fields[Min(known)]
        One == IF known # {}
               THEN Then(DecodeExt(f.type, s), LAMBDA x, t :
                      Done((f.name :> (IF f.option THEN <<x>> ELSE x)) @@ values, t))
               ELSE IF header.mandatory THEN Failed
               ELSE Then(SkipExt(s, header.kind), LAMBDA skipped, t : Done(values, t))
    IN IF header.more THEN Then(One, LAMBDA more, t : DecodeExts(T, more, t)) ELSE One)

\* What the extensions are before any is decoded.
NoExts(T) ==
  [name \in {T.fields[i].name : i \in Exts(T)} |->
     LET i == CHOOSE i \in Exts(T) : T.fields[i].name = name
     IN IF T.fields[i].option THEN <<>> ELSE T.fields[i].default[1]]

\* The fields up to the i-th; the first extension stands for all.
DecodeFields(T, r, header, i) ==
  IF i = 0 THEN Done(<<>>, r)
  ELSE Then(DecodeFields(T, r, header, i - 1), LAMBDA values, s :
         IF i \notin Exts(T)
         THEN Then(DecodeField(T, T.fields[i], s, header), LAMBDA value, t :
                Done((T.fields[i].name :> value) @@ values, t))
         ELSE IF i - 1 \in Exts(T) THEN Done(values, s)
         ELSE IF Picked(header, Slot(T, "Z")) = 0 THEN Done(NoExts(T) @@ values, s)
         ELSE DecodeExts(T, NoExts(T) @@ values, s))

DecodeBody(T, r, header) ==
  CASE T.kind = "u8" -> ReadU8(r)
    [] T.kind = "batch_size" ->
         Then(ReadSlice(r, 2), LAMBDA b, s : Done(b[1] + 256 * b[2], s))
    [] T.kind = "array" -> ReadSlice(r, T.n)
    [] T.kind = "slice" -> Done(r, <<>>)
    [] T.kind = "zid" -> IF Len(r) \in 1..16 THEN Done(r, <<>>) ELSE Failed
    [] T.kind \in Numbers ->
         Then(ReadVle(r), LAMBDA n, s :
           IF T.kind = "ru8" /\ n % 256 \notin T.values THEN Failed
           ELSE Done(FromRaw(T, n, header), s))
    [] T.kind = "encoding" ->
         Then(ReadVle(r), LAMBDA n, s :
           IF n % 2 = 0 THEN Done([id |-> (n \div 2) % 65536, schema |-> <<>>], s)
           ELSE Then(ReadVle(s), LAMBDA len, t :
                  Then(ReadSlice(t, len), LAMBDA schema, u :
                    Done([id |-> (n \div 2) % 65536, schema |-> <<schema>>], u))))
    [] T.kind = "enum" ->
         LET named == {i \in DOMAIN T.variants : ID(T.variants[i]) = header % 32} IN
         IF named = {} THEN Failed
         ELSE LET V == T.variants[Min(named)]
              IN Then(DecodeBody(V, r, header), LAMBDA x, s :
                   Done([is |-> V.name, of |-> x], s))
    [] OTHER -> DecodeFields(T, r, header, Len(T.fields))
===============================================================================
