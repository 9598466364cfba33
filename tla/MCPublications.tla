---------------------------- MODULE MCPublications ----------------------------
(***************************************************************************)
(* An instance of Publications with the key expressions of KeyExpr.  The   *)
(* properties of the key expressions and of the codec that all this rests  *)
(* on do not depend on the state: TLC evaluates them once, at its start.   *)
(* They are stated of every step only because TLC wants a formula of       *)
(* states or of steps.                                                     *)
(***************************************************************************)
EXTENDS Publications

LOCAL INSTANCE Functions

M == INSTANCE MCMessages
K == INSTANCE MCKeyExpr

CONSTANTS a, b, p1, p2, s1, s2

\* p1 puts to a/b from the one node, which p2, s1 and s2 are not on.
MCHome == [t \in Users |-> IF t = p1 THEN a ELSE b]
MCKeyOf == [t \in Users |->
  CASE t \in Putters -> <<<<"a">>, <<"b">>>>
    [] t = s1 -> <<<<"a">>, K!AnyChunk>>
    [] OTHER -> <<K!AnyChunks>>]
MCIntersects == [keys \in (Range(MCKeyOf) \X Range(MCKeyOf)) |-> K!Intersects(keys[1], keys[2])]
MCKeysIntersect(key1, key2) == MCIntersects[key1, key2]

-------------------------------------------------------------------------------
(* The checks of MCMessages and MCKeyExpr on all their values.                *)

Types == M!Transport \cup M!Network

AllRoundTrip ==
  /\ \A T \in Types : M!RoundTrips(T)
  /\ \A fields \in M!Shapes(M!Attributes) : M!ShapeRoundTrips(fields)
AllWrittenWholly == \A T \in Types : M!IsWrittenWholly(T)
AllUnderstood == \A T \in {T \in Types : M!Exts(T) # {}} : \A new \in M!NewExts(T) : M!Understood(T, new)
AllIntersections == K!IntersectionExact(K!Expressions(2), K!Expressions(3))

-------------------------------------------------------------------------------
(* Properties of the codec and of the key expressions                         *)

\* Every message of the protocol is read back as it was written, with what follows it
\* in the batch left alone, and it is as long as z_len says: derived code on both
\* sides, that only agrees if the header, the sizes and the order do.  The macros keep
\* this for every field they accept, before or after another, not only for those of
\* today's messages.
RoundTrip == [][AllRoundTrip]_vars

\* A message that does not fit into what is left of a batch is refused whatever is
\* left, so that encode never keeps a part of one, and one that fits with the eight
\* bytes to spare that the slot of an integer may take is written.
WrittenWholly == [][AllWrittenWholly]_vars

\* An extension of a newer node costs the reader nothing but itself, wherever it
\* stands, unless it is mandatory, when the message is refused (ext.rs, skip_ext): also
\* one of an id that the message uses for an Option of another kind.  (The id of an
\* extension with a default must not be used again: decode.rs:137 takes it by the id
\* alone, mandatory or not, against what attribute.rs:219 says of mandatory ones.)
UnknownExtension == [][AllUnderstood]_vars

\* keyexpr::intersects says yes exactly if some key is matched by both expressions,
\* whatever shortcuts its walk along the chunks takes.
IntersectsExact == [][AllIntersections]_vars
===============================================================================
