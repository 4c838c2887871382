---------------------------- MODULE ClaimPayload ----------------------------
(***************************************************************************)
(* The payload of an oracle claim (types/msg/msg-oracle.go): an RLP list   *)
(* of packages, each with a header of one type byte and 32 fee bytes in    *)
(* front of an RLP value whose Go type depends on the channel and on the   *)
(* type of the package.                                                    *)
(***************************************************************************)
EXTENDS RlpCodec

CrossChainFeeLength == 32
PackageTypeLength   == 1
PackageHeaderLength == CrossChainFeeLength + PackageTypeLength

\* Package: ChannelId, Sequence, Payload.
TPackages == TSlice(TStruct(<<TUint(8), TUint(64), TBytes>>))

ApproveBindSynPackage == TStruct(<<TUint(32), TByteArray(32)>>)

BindSynPackage ==
    TStruct(<<TUint(8), TByteArray(32), TByteArray(20), TBigInt, TBigInt, TUint(8), TUint(64)>>)

TransferOutRefundPackage == TStruct(<<TByteArray(32), TBigInt, TBytes, TUint(32)>>)

TransferOutSynPackage ==
    TStruct(<<TByteArray(32), TByteArray(20), TBigInt, TByteArray(20), TBytes, TUint(64)>>)

TransferInSynPackage ==
    TStruct(<<TByteArray(32), TByteArray(20), TSlice(TBigInt), TSlice(TBytes),
              TSlice(TByteArray(20)), TUint(64)>>)

CommonAckPackage == TStruct(<<TUint(32)>>)

IbcValidator == TStruct(<<TBytes, TBytes, TBytes, TUint(64)>>)

IbcValidatorSetPackage == TStruct(<<TUint(8), TSlice(IbcValidator)>>)

CrossParamChange == TStruct(<<TString, TBytes, TBytes>>)

SideDowntimeSlashPackage == TStruct(<<TBytes, TUint(64), TUint(16), TUint(64)>>)

\* The entry panics when it is called.
noneExistPackageProto == [k |-> "panic"]

\* The package protos of a channel, by package type 0 (syn), 1 (ack) and 2 (fail ack).
protoMetrics(channel) ==
    LET protos(syn, ack, failAck) == <<syn, ack, failAck>>
        none == noneExistPackageProto
    IN CASE channel = 1  -> protos(ApproveBindSynPackage, none, BindSynPackage)
         [] channel = 2  -> protos(none, TransferOutRefundPackage, TransferOutSynPackage)
         [] channel = 3  -> protos(TransferInSynPackage, none, none)
         [] channel = 8  -> protos(none, CommonAckPackage, IbcValidatorSetPackage)
         [] channel = 9  -> protos(none, CommonAckPackage, CrossParamChange)
         [] channel = 11 -> protos(SideDowntimeSlashPackage, none, none)
         [] OTHER -> <<>>

\* Mutant: the type byte is taken from the end of the header.
DecodePackageHeaderTypeLast(header) ==
    IF Len(header) < PackageHeaderLength THEN [ptype |-> 0, fee |-> 0, err |-> "short header"]
    ELSE [ptype |-> header[PackageHeaderLength],
          fee |-> BigEndian(SubSeq(header, PackageTypeLength + 1, PackageHeaderLength)),
          err |-> ""]

DecodePackageHeader(header) ==
    IF Len(header) < PackageHeaderLength THEN [ptype |-> 0, fee |-> 0, err |-> "short header"]
    ELSE [ptype |-> header[1],
          fee |-> BigEndian(SubSeq(header, PackageTypeLength + 1, PackageHeaderLength)),
          err |-> ""]

\* One round of the loop: the package pack after the packages acc.v.
parsePackage(acc, pack) ==
    LET payload == pack[3]
        h       == DecodePackageHeader(payload)
        protos  == protoMetrics(pack[1])
        content == DecodeBytes(SubSeq(payload, PackageHeaderLength + 1, Len(payload)),
                               protos[h.ptype + 1])
        failed(e) == [v |-> <<>>, err |-> e]
    IN IF acc.err # "" THEN acc
       ELSE IF h.err # "" THEN failed(h.err)
       ELSE IF protos = <<>> THEN failed("no channel")
       ELSE IF h.ptype \notin 0..2 THEN failed("no package type")
       ELSE IF protos[h.ptype + 1].k = "panic" THEN failed("panic")
       ELSE IF content.err # "" THEN failed(content.err)
       ELSE [acc EXCEPT !.v = Append(@, [ptype |-> h.ptype, fee |-> h.fee,
                                         content |-> content.v])]

ParseClaimPayload(payload) ==
    LET r == DecodeBytes(payload, TPackages)
    IN IF r.err # "" THEN [v |-> <<>>, err |-> r.err]
       ELSE FoldLeft(parsePackage, [v |-> <<>>, err |-> ""], r.v)
=============================================================================
