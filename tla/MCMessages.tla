------------------------------- MODULE MCMessages ------------------------------
(***************************************************************************)
(* Test values for the codec and what is checked of them.                  *)
(***************************************************************************)
EXTENDS Messages

-------------------------------------------------------------------------------
(* Values of a type.  Those of a structure differ from one of them in at most *)
(* n fields, each of which takes all the values of its own type.              *)

\* The lengths of integers change at these.
Uints(bits) ==
  IF bits = 8 THEN {0, 255}
  ELSE IF bits = 16 THEN {0, 128, 65535} ELSE {0, 127, 128, 16384}

Blocks == {<<>>, <<3, 0, 1, 2>>, [i \in 1..128 |-> i]}

RECURSIVE Variations(_, _, _), Values(_, _)

Variations(x, of, n) ==
  IF n = 0 THEN {x}
  ELSE LET near == Variations(x, of, n - 1)
       IN near \cup UNION {{[y EXCEPT ![name] = v] : y \in near, v \in of[name]}
                           : name \in DOMAIN of}

FieldValues(f, n) ==
  IF f.option THEN {<<>>} \cup {<<v>> : v \in Values(f.type, n)}
  ELSE Values(f.type, n) \cup {f.default[i] : i \in DOMAIN f.default}

StructValues(T, n) ==
  LET names == {T.fields[i].name : i \in DOMAIN T.fields}
      Named(name) == T.fields[CHOOSE i \in DOMAIN T.fields : T.fields[i].name = name]
      of == [name \in names |-> FieldValues(Named(name), n - 1)]
      base == [name \in names |->
                 IF Named(name).default # <<>> THEN Named(name).default[1]
                 ELSE IF Named(name).option THEN <<>>
                 ELSE CHOOSE v \in of[name] : TRUE]
  IN Variations(base, of, n)

Values(T, n) ==
  CASE T.kind = "u8" -> {0, 255}
    [] T.kind = "int" -> Uints(T.bits)
    [] T.kind = "batch_size" -> {0, 255, 256, 65535}
    [] T.kind = "slice" -> Blocks
    [] T.kind = "zid" -> {<<1>>, [i \in 1..16 |-> 16 - i]}
    [] T.kind = "ru8" -> {v \in T.values : (v \div 16) % 8 = 0}
    [] T.kind = "u64" -> {(T.field :> v) : v \in Uints(T.bits)}
    [] T.kind = "duration" -> {0, 999, 1000, 128000}
    [] T.kind = "qinfo" -> [complete : BOOLEAN, distance : {0, 1, 65535}]
    [] T.kind = "encoding" -> [id : {0, 1, 65535}, schema : {<<>>} \cup {<<b>> : b \in Blocks}]
    [] T.kind = "enum" ->
         UNION {{[is |-> T.variants[i].name, of |-> x] : x \in Values(T.variants[i], n)}
                : i \in DOMAIN T.variants}
    [] OTHER -> StructValues(T, IF n < 1 THEN 1 ELSE n)

Transport == {InitSyn, InitAck, OpenSyn, OpenAck, Close, KeepAlive}
Network == {Push, Request, Response, ResponseFinal, Interest, InterestFinal, Declare}

\* An Interest of mode Final is an InterestFinal to the reader; no code makes one.
Messages(T) ==
  IF T.name = "Interest" THEN {x \in Values(T, 2) : x.mode # 0} ELSE Values(T, 2)

\* PartialEq of InterestInner: the options that interest.rs names, not the bits of
\* the key expression that share their byte.
Compared(T, x) ==
  IF T.name # "Interest" THEN x
  ELSE [x EXCEPT !.inner.options = (@ % 16) + 128 * (@ \div 128)]

-------------------------------------------------------------------------------
(* Every message is read back as it was written, with what follows it in the  *)
(* batch left alone, and it is as long as z_len says: derived code on both    *)
(* sides, that only agrees if the header, the sizes and the order do.         *)
RoundTrips(T) ==
  \A x \in Messages(T) :
    LET bytes == Bytes(T, x)
        result == DecodeMessage(bytes \o <<4>>, T \in Network)
    IN /\ Len(bytes) = FullLen(T, x)
       /\ result.ok /\ result.rest = <<4>>
       /\ result.value.is = T.name
       /\ Compared(T, result.value.of) = Compared(T, x)

(* A message that does not fit is refused, whatever the room, and nothing of  *)
(* it is taken for the whole; one that fits with the eight bytes to spare that *)
(* the slot of an integer may take is written.  The one exception is a batch  *)
(* size at the very end of a message, which BatchSize writes as far as it fits.*)
IsWrittenWholly(T) ==
  \A x \in Values(T, 1) :
    LET writes == FullWrites(T, x)
        bytes == AllBytes(writes)
        whole == writes[Len(writes)].need > 0
    IN /\ WriteAll(writes, Len(bytes) + 8) = [ok |-> TRUE, bytes |-> bytes]
       /\ whole => \A room \in 0..Len(bytes) - 1 : ~WriteAll(writes, room).ok

-------------------------------------------------------------------------------
(* A newer node: the same message with one more extension.                    *)

\* It has an id that no message uses, or one that Options of this message have, but none of
\* them with its kind.  The id of what has a default is left out: it is known by that alone.
NewExts(T) ==
  {[ExtOption("new", new[1], new[2]) EXCEPT !.mandatory = new[3]] :
     new \in {new \in {Flag("New"), QoSLink, Value}
                       \X ({14} \cup {T.fields[i].ext : i \in Exts(T)}) \X BOOLEAN :
                \A i \in Exts(T) : T.fields[i].ext = new[2] =>
                  T.fields[i].option /\ ExtKind(T.fields[i].type) # ExtKind(new[1])}}

\* With the longest body, or none.
NewValue(T) ==
  CHOOSE x \in Values(T, 1) : \A y \in Values(T, 1) : FullLen(T, y) <= FullLen(T, x)

WithField(T, f, at) == [T EXCEPT !.fields = InsertAt(@, at, f)]

(* An extension that a node does not know costs nothing but itself, unless it *)
(* is mandatory, when the message is refused.                                 *)
Understood(T, new) ==
  \A at \in {Min(Exts(T)), Max(Exts(T)) + 1} : \A x \in Values(T, 1) :
    LET newer == WithField(T, new, at)
        result == DecodeFull(T, Bytes(newer, ("new" :> <<NewValue(new.type)>>) @@ x))
    IN IF new.mandatory THEN ~result.ok
       ELSE result.ok /\ result.rest = <<>> /\ Compared(T, result.value) = Compared(T, x)

-------------------------------------------------------------------------------
(* Structures that nobody has written yet: every field that the macros accept,*)
(* before and after some others, behind a header with a slot for each use.    *)

ShapeHeader == <<Part("Z", 1), Part("P", 1), Part("S", 2), Part("H", 2), Part("In", 2)>>

\* A structure whose header fits into the lowest bits of another.
Inner == Struct("Inner", <<Part("_", 6), Part("A", 1), Part("B", 1)>>,
  <<InHeader("a", RU8({0, 1}), "A"), WithDefault("b", U8, "B", 0)>>)

ShapeTypes == <<RU8(0..3), Uint(16), Slice, Inner, QoSLink, Flag("Flag")>>
ShapeDefaults == <<0, 0, <<>>, [a |-> 0, b |-> 0], [qos |-> 0], <<>> >>

Attributes ==
  [type : DOMAIN ShapeTypes, option : BOOLEAN, default : BOOLEAN,
   header : {"", "H"}, presence : {"", "prefixed", "P"},
   size : {"", "prefixed", "S", "remain"}, ext : {-1, 1, 2},
   flatten : BOOLEAN, maybe_empty : BOOLEAN, mandatory : BOOLEAN]

FieldWith(name, a) ==
  [name |-> name, type |-> ShapeTypes[a.type], option |-> a.option,
   header |-> a.header, presence |-> a.presence, size |-> a.size,
   flatten |-> a.flatten, shift |-> 0, maybe_empty |-> a.maybe_empty,
   mandatory |-> a.mandatory, ext |-> a.ext,
   default |-> IF a.default THEN <<ShapeDefaults[a.type]>> ELSE <<>>]

\* Accepted, with no attribute that has no effect, and of a type that has what the
\* generated code calls: a number for a slot, a header of its own to be flattened.  (A
\* field that is flattened and has a size is accepted too, but what decode.rs makes of
\* it does not compile.)
Accepted(attributes) ==
  {a \in attributes :
     /\ FieldOK(FieldWith("f", a))
     /\ a.header # "" => a.type = 1 /\ ~a.default /\ a.ext < 0 /\ a.size = ""
     /\ a.flatten => a.type = 4 /\ a.ext < 0 /\ a.size \in {"", "remain"}
     /\ a.ext >= 0 => a.presence = ""
     /\ a.maybe_empty => a.size = "S"
     /\ a.mandatory => a.ext >= 0}

Neighbours ==
  <<Field("g", U8), Sized("g", Slice, "remain"), ExtOption("g", QoSLink, 1)>>

Shapes(attributes) ==
  UNION {{<<FieldWith("f", a), g>>, <<g, FieldWith("f", a)>>} :
           a \in Accepted(attributes), g \in ToSet(Neighbours)}

\* What the macros leave to their user: what remains is the last field but for the
\* header's, and extensions of one id are Options of different kinds.
WellFormed(T) ==
  /\ \A i, j \in DOMAIN T.fields :
       i < j /\ T.fields[i].size = "remain" => T.fields[j].header # ""
  /\ \A i, j \in Exts(T) :
       LET f == T.fields[i]
           g == T.fields[j]
       IN i # j /\ f.ext = g.ext =>
            f.option /\ g.option /\ ExtKind(f.type) # ExtKind(g.type)

\* The two bits of S: nothing to three bytes if the field may be empty, or one to four.
SizesFit(T, x) ==
  \A i \in DOMAIN T.fields :
    LET f == T.fields[i] IN
    f.size = "S" /\ Present(f, x) =>
      FieldLen(f, x) \in IF f.maybe_empty THEN 0..3 ELSE 1..4

(* The macros keep what they promise for every field they accept, not only for*)
(* those of today's messages: what is written is read back and has its length.*)
ShapeRoundTrips(fields) ==
  LET T == Struct("Shape", ShapeHeader, fields) IN
  Derivable(T) /\ WellFormed(T) =>
    \A x \in Values(T, 2) :
      SizesFit(T, x) => /\ FullLen(T, x) = Len(Bytes(T, x))
                        /\ DecodeFull(T, Bytes(T, x)) = Done(x, <<>>)
===============================================================================
