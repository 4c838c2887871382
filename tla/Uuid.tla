-------------------------------- MODULE Uuid --------------------------------
(* The values of common/uuid: a UUID is the sequence of its 16 bytes, and  *)
(* a text is a sequence of characters, a hexadecimal digit being its value *)
(* (the two cases of a letter are one character).                          *)
EXTENDS Integers, Sequences

Size == 16
V1 == 1
V2 == 2
V3 == 3
V4 == 4
V5 == 5
VariantNCS       == 0
VariantRFC4122   == 1
VariantMicrosoft == 2
VariantFuture    == 3
DomainPerson == 0
DomainGroup  == 1
DomainOrg    == 2

Byte == {n \in Nat : n < 256}
Nil == [i \in 1 .. Size |-> 0]

Version(u) == u[7] \div 16

Variant(u) ==
    IF u[9] < 128 THEN VariantNCS
    ELSE IF u[9] < 192 THEN VariantRFC4122
    ELSE IF u[9] < 224 THEN VariantMicrosoft
    ELSE VariantFuture

SetVersion(u, v) == [u EXCEPT ![7] = (@ % 16) + 16 * v]

SetVariant(u, v) ==
    [u EXCEPT ![9] = CASE v = VariantNCS       -> @ % 128
                       [] v = VariantRFC4122   -> (@ % 64) + 128
                       [] v = VariantMicrosoft -> (@ % 32) + 192
                       [] OTHER                -> (@ % 32) + 224]
-----------------------------------------------------------------------------
(* Text (String and UnmarshalText).                                        *)
Digit      == 0 .. 15
Dash       == 16
OpenBrace  == 17
CloseBrace == 18
urnPrefix  == <<19, 20, 21, 22, 19, 19, 23, 13, 22>>   \* "urn:uuid:"
byteGroups == <<8, 4, 4, 4, 12>>

\* hex.Encode and hex.Decode of encoding/hex.
HexEncode(b) ==
    [i \in 1 .. 2 * Len(b) |->
        IF i % 2 = 1 THEN b[(i + 1) \div 2] \div 16 ELSE b[i \div 2] % 16]
IsHex(t) == \A i \in 1 .. Len(t) : t[i] \in Digit
HexDecode(t) == [i \in 1 .. Len(t) \div 2 |-> 16 * t[2 * i - 1] + t[2 * i]]

String(u) ==
    HexEncode(SubSeq(u, 1, 4)) \o <<Dash>> \o HexEncode(SubSeq(u, 5, 6))
        \o <<Dash>> \o HexEncode(SubSeq(u, 7, 8)) \o <<Dash>>
        \o HexEncode(SubSeq(u, 9, 10)) \o <<Dash>> \o HexEncode(SubSeq(u, 11, 16))

Parsed(u) == [u |-> u, err |-> FALSE]
BadText   == [u |-> Nil, err |-> TRUE]

decodeHashLike(t) == IF IsHex(t) THEN Parsed(HexDecode(t)) ELSE BadText

\* Mutant: three of the four dashes are checked.
dashedButLast(t) == \A i \in {9, 14, 19} : t[i] = Dash
dashed(t) == \A i \in {9, 14, 19, 24} : t[i] = Dash

\* The groups between the dashes, one after the other.
groups(t) == SubSeq(t, 1, 8) \o SubSeq(t, 10, 13) \o SubSeq(t, 15, 18)
                 \o SubSeq(t, 20, 23) \o SubSeq(t, 25, 36)

decodeCanonical(t) == IF dashed(t) THEN decodeHashLike(groups(t)) ELSE BadText

decodePlain(t) == CASE Len(t) = 32 -> decodeHashLike(t)
                    [] Len(t) = 36 -> decodeCanonical(t)
                    [] OTHER       -> BadText

decodeBraced(t) ==
    IF t[1] = OpenBrace /\ t[Len(t)] = CloseBrace
    THEN decodePlain(SubSeq(t, 2, Len(t) - 1))
    ELSE BadText

decodeURN(t) ==
    IF SubSeq(t, 1, 9) = urnPrefix THEN decodePlain(SubSeq(t, 10, Len(t))) ELSE BadText

UnmarshalText(t) == CASE Len(t) = 32        -> decodeHashLike(t)
                      [] Len(t) = 36        -> decodeCanonical(t)
                      [] Len(t) = 38        -> decodeBraced(t)
                      [] Len(t) \in {41, 45} -> decodeURN(t)
                      [] OTHER              -> BadText

\* FromStringOrNil: the error is the nil UUID.
FromStringOrNil(t) == UnmarshalText(t).u

UnmarshalBinary(b) == IF Len(b) = Size THEN Parsed(b) ELSE BadText
=============================================================================
