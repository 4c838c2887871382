------------------------------- MODULE MCRlp --------------------------------
(***************************************************************************)
(* RlpStream on all short byte strings over the type tags that matter, on  *)
(* strings around the long headers, and on one value or more of every Go   *)
(* type the package decodes.                                               *)
(***************************************************************************)
EXTENDS RlpStream

CONSTANT MaxInput

\* A zero, a small byte, the tags of the empty and of the short strings, of a
\* string with a size byte, and the same for lists.
Tags == {0, 5, 128, 129, 130, 184, 192, 193, 195, 248}

Filled(n, x) == [i \in 1..n |-> x]

MCInputs ==
    UNION {[1..n -> Tags] : n \in 0..MaxInput}
      \cup { <<195>> \o x : x \in [1..3 -> {0, 129, 130, 193, 194}] }
      \cup { <<h, n, 183>> \o Filled(55, 128) : h \in {184, 248}, n \in 55..57 }
      \cup { <<h, 0, 56, 183>> \o Filled(55, 1) : h \in {185, 249} }
      \cup { <<248, 58, 184, 56>> \o Filled(n, 7) : n \in 55..57 }

Str(b)  == [k |-> "String", v |-> b]
Lst(es) == [k |-> "List", v |-> es]
J(t, v) == [t |-> t, v |-> v]

MCJobs ==
    << J(TUint(8), 0), J(TUint(8), 127), J(TUint(8), 128), J(TUint(32), 65536),
       J(TBool, TRUE), J(TBool, FALSE), J(TString, <<127>>), J(TString, <<128>>),
       J(TBytes, Filled(55, 3)), J(TBytes, Filled(56, 3)), J(TBytes, Filled(256, 0)),
       J(TBigInt, 0), J(TBigInt, 70000), J(TBigInt, -1),
       J(TByteArray(0), <<>>), J(TByteArray(1), <<9>>), J(TByteArray(2), <<0, 0>>),
       J(TRawValue, <<193, 128>>),
       J(TSlice(TSlice(TUint(16))), << <<>>, <<1, 300>>, <<0>> >>),
       J(TSlice(TBytes), << Filled(30, 1), Filled(30, 2), <<>> >>),
       J(TArray(2, TBool), <<TRUE, FALSE>>),
       J(TStruct(<<TUint(8), TTail(TUint(8))>>), <<1, <<2, 0, 3>> >>),
       J(TStruct(<<TUint(8), TTail(TUint(8))>>), <<1, <<>> >>),
       J(TStruct(<<TPtr(TBytes), TByteArray(1), TStruct(<<TBool>>)>>),
         << << <<0>> >>, <<200>>, <<FALSE>> >>),
       J(TStruct(<<TNilPtr(TUint(8), "String"), TNilPtr(TStruct(<<TBool>>), "List"), TUint(8)>>),
         << <<>>, <<>>, 7 >>),
       J(TStruct(<<TNilPtr(TUint(8), "String"), TNilPtr(TStruct(<<TBool>>), "List"), TUint(8)>>),
         << <<4>>, << <<TRUE>> >>, 0 >>),
       J(TSlice(TNilPtr(TBytes, "List")), << <<>>, << <<1, 2>> >> >>),
       J(TInterface, Lst(<<Str(<<1>>), Lst(<< >>), Lst(<<Str(<<>>), Lst(<<Str(<<250>>)>>)>>)>>)),
       J(TStruct(<<TSlice(TStruct(<<TBytes, TSlice(TBytes)>>)), TUint(8)>>),
         << << <<Filled(54, 1), << <<>> >> >>, << <<>>, <<>> >> >>, 9 >>),
       J(TStruct(<<TByteArray(1), TBool>>), <<<<1>>, TRUE>>),
       J(TStruct(<<TByteArray(1), TBool>>), <<<<0>>, TRUE>>) >>

P(c, seq, pt, fee, x) == [channel |-> c, sequence |-> seq, ptype |-> pt, fee |-> fee, content |-> x]

MCClaims ==
    << <<>>,
       << P(8, 0, 1, 3, <<7>>) >>,
       << P(1, 1, 0, 0, <<1, Filled(32, 66)>>), P(9, 2, 2, 200, << <<107>>, <<1>>, <<>> >>) >>,
       << P(8, 5, 2, 1, <<1, << <<Filled(20, 4), Filled(20, 5), Filled(20, 6), 1000>> >> >>),
          P(11, 6, 0, 9, <<Filled(20, 1), 300, 96, 65535>>) >>,
       << P(3, 7, 0, 2, <<Filled(32, 66), Filled(20, 7), <<5, 0>>, << <<1>>, <<2>> >>,
                          << Filled(20, 8) >>, 400>>),
          P(2, 8, 1, 2, <<Filled(32, 66), 0, Filled(20, 9), 2>>),
          P(2, 9, 2, 2, <<Filled(32, 66), Filled(20, 9), 77, Filled(20, 1), <<>>, 1>>),
          P(1, 10, 2, 2, <<1, Filled(32, 66), Filled(20, 2), 1000, 5, 18, 900>>) >> >>
=============================================================================
