-------------------------------- MODULE Messages -------------------------------
(***************************************************************************)
(* The messages of zenoh-proto/src/msgs as descriptions for Structs.tla,   *)
(* and how rx tells them apart.                                            *)
(***************************************************************************)
EXTENDS Structs

-------------------------------------------------------------------------------
(* Shorthands for the attributes.                                             *)

U8 == [kind |-> "u8", bits |-> 8]
Uint(bits) == [kind |-> "int", bits |-> bits]
Slice == [kind |-> "slice"]
RU8(values) == [kind |-> "ru8", values |-> values]
Enum(variants) == [kind |-> "enum", variants |-> variants]

Struct(name, header, fields) ==
  [kind |-> "struct", name |-> name, header |-> header, fields |-> fields]

Bits(names) == [i \in DOMAIN names |-> Part(names[i], 1)]
Message(flags, id) == Bits(flags) \o <<Constant("ID", 5, id)>>

InHeader(name, type, slot) == [Field(name, type) EXCEPT !.header = slot]
Sized(name, type, size) == [Field(name, type) EXCEPT !.size = size]
Flat(name, type, shift) == [Field(name, type) EXCEPT !.flatten = TRUE, !.shift = shift]
WithDefault(name, type, presence, default) ==
  [Field(name, type) EXCEPT !.presence = presence, !.default = <<default>>]
Optional(name, type, presence) ==
  [Field(name, type) EXCEPT !.option = TRUE, !.presence = presence]
ExtOption(name, type, id) == [Field(name, type) EXCEPT !.option = TRUE, !.ext = id]
ExtDefault(name, type, id, default) == [Field(name, type) EXCEPT !.ext = id, !.default = <<default>>]
Mandatory(f) == [f EXCEPT !.mandatory = TRUE]

-------------------------------------------------------------------------------
(* fields.rs and exts.rs.                                                     *)

Zid == [kind |-> "zid"]
BatchSize == [kind |-> "batch_size"]
Encoding == [kind |-> "encoding"]
Duration == [kind |-> "duration"]
QueryableInfo == [kind |-> "qinfo"]

DefaultEncoding == [id |-> 0, schema |-> <<>>]

Timestamp ==
  Struct("Timestamp", <<>>, <<Field("time", Uint(64)), Sized("id", Zid, "prefixed")>>)

Reliability == RU8({0, 1})
ConsolidationMode == RU8(0..3)
WhatAmI == RU8(0..2)
QueryTarget == RU8(0..2)

WireExpr ==
  ZExt("WireExpr", <<Part("_", 6), Part("M", 1), Part("N", 1)>>,
       <<Field("scope", Uint(16)),
         InHeader("mapping", RU8({0, 1}), "M"),
         [WithDefault("suffix", Slice, "N", <<>>) EXCEPT !.size = "prefixed"]>>)

EntityGlobalId ==
  ZExt("EntityGlobalId", <<Part("ID", 4), Part("_", 4)>>,
       <<Sized("zid", Zid, "ID"), Field("eid", Uint(32))>>)
SourceInfo ==
  ZExt("SourceInfo", <<>>, <<Field("id", EntityGlobalId), Field("sn", Uint(32))>>)
Value ==
  ZExt("Value", <<>>, <<Field("encoding", Encoding), Sized("payload", Slice, "remain")>>)

\* Attachment, Auth, MultiLink and MultiLinkSyn: what remains of the extension.
Remaining(name) == ZExt(name, <<>>, <<Sized("payload", Slice, "remain")>>)
\* HasQoS, HasMultiLinkAck, HasLowLatency and HasCompression.
Flag(name) == ZExt(name, <<>>, <<>>)

QoS == ZExt("QoS", <<>>, <<Field("inner", U8)>>)
NodeId == ZExt("NodeId", <<>>, <<Field("node_id", Uint(16))>>)
Budget == ZExt("Budget", <<>>, <<Field("budget", Uint(32))>>)
QoSLink == ZExt("QoSLink", <<>>, <<Field("qos", Uint(64))>>)
Patch == ZExt("Patch", <<>>, <<Field("int", U8)>>)

\* QoS::default: priority Data, dropped when congested, not express.
QosExt == ExtDefault("qos", QoS, 1, [inner |-> 5])
TimestampExt == ExtOption("timestamp", Timestamp, 2)
NodeIdExt == Mandatory(ExtDefault("nodeid", NodeId, 3, [node_id |-> 0]))
SourceInfoExt == ExtOption("sinfo", SourceInfo, 1)

-------------------------------------------------------------------------------
(* The transport messages.                                                    *)

InitIdentifier ==
  Struct("InitIdentifier", <<Part("ZID", 4), Part("_", 2), Part("W", 2)>>,
         <<InHeader("whatami", WhatAmI, "W"), Sized("zid", Zid, "ZID")>>)
InitResolution ==
  Struct("InitResolution", <<>>, <<Field("resolution", U8), Field("batch_size", BatchSize)>>)
DefaultResolution == [resolution |-> 10, batch_size |-> 65535]

\* Bit 5 tells an Ack from a Syn.
SynAck(flag, ack, id) ==
  Bits(<<"Z", flag>>) \o <<Constant("A", 1, ack), Constant("ID", 5, id)>>

InitFields ==
  <<Field("version", U8), Field("identifier", InitIdentifier),
    WithDefault("resolution", InitResolution, "S", DefaultResolution)>>
InitExts ==
  <<ExtOption("qos", Flag("HasQoS"), 1), ExtOption("qos_link", QoSLink, 1),
    ExtOption("auth", Remaining("Auth"), 3), ExtOption("mlink", Remaining("MultiLink"), 4),
    ExtOption("lowlatency", Flag("HasLowLatency"), 5),
    ExtOption("compression", Flag("HasCompression"), 6),
    ExtDefault("patch", Patch, 7, [int |-> 0])>>
OpenExts ==
  <<ExtOption("qos", Flag("HasQoS"), 1), ExtOption("auth", Remaining("Auth"), 3),
    ExtOption("mlink_syn", Remaining("MultiLinkSyn"), 4),
    ExtOption("mlink_ack", Flag("HasMultiLinkAck"), 4),
    ExtOption("lowlatency", Flag("HasLowLatency"), 5),
    ExtOption("compression", Flag("HasCompression"), 6)>>

Cookie == Sized("cookie", Slice, "prefixed")

InitSyn == Struct("InitSyn", SynAck("S", 0, 1), InitFields \o InitExts)
InitAck == Struct("InitAck", SynAck("S", 1, 1), InitFields \o <<Cookie>> \o InitExts)
OpenSyn == Struct("OpenSyn", SynAck("T", 0, 2),
  <<Flat("lease", Duration, 6), Field("sn", Uint(32)), Cookie>> \o OpenExts)
OpenAck == Struct("OpenAck", SynAck("T", 1, 2),
  <<Flat("lease", Duration, 6), Field("sn", Uint(32))>> \o OpenExts)
Close == Struct("Close", <<Part("_", 2), Part("S", 1), Constant("ID", 5, 3)>>,
  <<Field("reason", U8), InHeader("behaviour", RU8({0, 1}), "S")>>)
KeepAlive == Struct("KeepAlive", <<Part("_", 3), Constant("ID", 5, 4)>>, <<>>)

FrameHeader == Struct("FrameHeader", Message(<<"Z", "_", "R">>, 5),
  <<InHeader("reliability", Reliability, "R"), Field("sn", Uint(32)), QosExt>>)

-------------------------------------------------------------------------------
(* The network messages.                                                      *)

Expr == Flat("wire_expr", WireExpr, 5)

Put == Struct("Put", Message(<<"Z", "E", "T">>, 1),
  <<Optional("timestamp", Timestamp, "T"),
    WithDefault("encoding", Encoding, "E", DefaultEncoding),
    SourceInfoExt, ExtOption("attachment", Remaining("Attachment"), 3),
    Sized("payload", Slice, "prefixed")>>)
PushBody == Enum(<<Put>>)
Push == Struct("Push", Message(<<"Z", "M", "N">>, 29),
  <<Expr, QosExt, TimestampExt, NodeIdExt, Field("payload", PushBody)>>)

Query == Struct("Query", Message(<<"Z", "P", "C">>, 3),
  <<WithDefault("consolidation", ConsolidationMode, "C", 0),
    [WithDefault("parameters", Slice, "P", <<>>) EXCEPT !.size = "prefixed"],
    SourceInfoExt, ExtOption("body", Value, 3),
    ExtOption("attachment", Remaining("Attachment"), 5)>>)
Request == Struct("Request", Message(<<"Z", "M", "N">>, 28),
  <<Field("id", Uint(32)), Expr, QosExt, TimestampExt, NodeIdExt,
    Mandatory(ExtDefault("target", QueryTarget, 4, 0)),
    ExtOption("budget", Budget, 5), ExtOption("timeout", Duration, 6),
    Field("payload", Enum(<<Query>>))>>)

Err == Struct("Err", Message(<<"Z", "E", "_">>, 5),
  <<WithDefault("encoding", Encoding, "E", DefaultEncoding), SourceInfoExt,
    Sized("payload", Slice, "prefixed")>>)
Reply == Struct("Reply", Message(<<"Z", "_", "C">>, 4),
  <<WithDefault("consolidation", ConsolidationMode, "C", 0), Field("payload", PushBody)>>)
Response == Struct("Response", Message(<<"Z", "M", "N">>, 27),
  <<Field("rid", Uint(32)), Expr, QosExt, TimestampExt,
    ExtOption("respid", EntityGlobalId, 3), Field("payload", Enum(<<Err, Reply>>))>>)
ResponseFinal == Struct("ResponseFinal", Message(<<"Z", "_", "_">>, 26),
  <<Field("rid", Uint(32)), QosExt, TimestampExt>>)

InterestInner == Struct("InterestInner", Bits(<<"A", "M", "N", "R", "T", "Q", "S", "K">>),
  <<InHeader("options", RU8(0..255), "FULL"),
    [Optional("wire_expr", WireExpr, "R") EXCEPT !.flatten = TRUE, !.shift = 5]>>)
Interest == Struct("Interest", <<Part("Z", 1), Part("MODE", 2), Constant("ID", 5, 25)>>,
  <<Field("id", Uint(32)), InHeader("mode", RU8(0..3), "MODE"),
    Field("inner", InterestInner), QosExt, TimestampExt, NodeIdExt>>)
InterestFinal == Struct("InterestFinal",
  <<Part("Z", 1), Constant("MODE", 2, 0), Constant("ID", 5, 25)>>,
  <<Field("id", Uint(32)), QosExt, TimestampExt, NodeIdExt>>)

\* The bodies of a declaration.
Declared(name, flags, id, fields) == Struct(name, Message(flags, id), fields)
WireExprExt == ExtOption("wire_expr", WireExpr, 15)
Withdrawn(name, id) ==
  Declared(name, <<"Z", "_", "_">>, id, <<Field("id", Uint(32)), WireExprExt>>)

DeclareBody == Enum(<<
  Declared("DeclareKeyExpr", <<"_", "M", "N">>, 0, <<Field("id", Uint(16)), Expr>>),
  Declared("UndeclareKeyExpr", <<"_", "_", "_">>, 1, <<Field("id", Uint(16))>>),
  Declared("DeclareSubscriber", <<"_", "M", "N">>, 2, <<Field("id", Uint(32)), Expr>>),
  Withdrawn("UndeclareSubscriber", 3),
  Declared("DeclareQueryable", <<"Z", "M", "N">>, 4,
    <<Field("id", Uint(32)), Expr,
      ExtDefault("qinfo", QueryableInfo, 1, [complete |-> FALSE, distance |-> 0])>>),
  Withdrawn("UndeclareQueryable", 5),
  Declared("DeclareToken", <<"Z", "M", "N">>, 6, <<Field("id", Uint(32)), Expr>>),
  Withdrawn("UndeclareToken", 7),
  Declared("DeclareFinal", <<"Z", "_", "_">>, 26, <<>>)>>)
Declare == Struct("Declare", Message(<<"Z", "_", "I">>, 30),
  <<Optional("id", Uint(32), "I"), QosExt, TimestampExt, NodeIdExt,
    Field("body", DeclareBody)>>)

-------------------------------------------------------------------------------
(* TransportRx::decode: one byte, and the first arm it matches.  What needs a *)
(* frame to be open is not a message outside one.                             *)

Arms(header, net) ==
  LET ack == (header \div 32) % 2 = 1
      final == (header \div 32) % 4 = 0
  IN << <<FrameHeader, TRUE>>, <<InitAck, ack>>, <<InitSyn, TRUE>>, <<OpenAck, ack>>,
        <<OpenSyn, TRUE>>, <<Close, TRUE>>, <<KeepAlive, TRUE>>, <<Push, net>>,
        <<Request, net>>, <<Response, net>>, <<ResponseFinal, net>>,
        <<InterestFinal, net /\ final>>, <<Interest, net>>, <<Declare, net>> >>

FirstArm(header, net) ==
  LET arms == Arms(header, net)
      matching == {i \in DOMAIN arms : ID(arms[i][1]) = header % 32 /\ arms[i][2]}
  IN IF matching = {} THEN {} ELSE {arms[Min(matching)][1]}

DecodeMessage(r, net) ==
  Then(ReadU8(r), LAMBDA header, s :
    IF FirstArm(header, net) = {} THEN Failed
    ELSE LET T == CHOOSE T \in FirstArm(header, net) : TRUE
         IN Then(DecodeBody(T, s, header), LAMBDA x, t : Done([is |-> T.name, of |-> x], t)))
===============================================================================
