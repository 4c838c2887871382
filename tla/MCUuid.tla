------------------------------- MODULE MCUuid -------------------------------
(* Instances of UuidGenerator for TLC: two times that differ in the middle *)
(* bytes, a clock sequence at the edge of its 14 bits and one at the edge  *)
(* of its 16 bits.                                                         *)
EXTENDS UuidGenerator, TLC

MCEpochBytes == (1 :> <<1, 237, 16, 10, 3, 255, 255, 255>>)
                @@ (2 :> <<1, 237, 16, 11, 3, 255, 255, 255>>)
MCAddresses == {<<3, 66, 172, 17, 0, 2>>}
MCRandoms == {[i \in 1 .. Size |-> 255 - 16 * (i % 3)]}
MCUID == <<0, 0, 3, 232>>
MCGID == <<0, 0, 0, 100>>
=============================================================================
