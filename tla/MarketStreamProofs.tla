------------------------- MODULE MarketStreamProofs -------------------------
(***************************************************************************)
(* Proofs about MarketStream, for any number of frames.  onClose needs the *)
(* whole chain: messages closed, hence quit or finish; finish, hence an    *)
(* error was handed over; hence the consumer has already returned.         *)
(***************************************************************************)
EXTENDS MarketStream, TLAPS

\* Every goroutine starts in its select and no channel is closed.
LEMMA InitIInv == Init => IInv
  <1> SUFFICES ASSUME Init PROVE IInv
    OBVIOUS
  <1>1. ~quit /\ ~finish /\ ~onError /\ ~onClose
    BY Zenon DEF Init
  <1>2. quit \in BOOLEAN /\ finish \in BOOLEAN /\ onError \in BOOLEAN /\ onClose \in BOOLEAN
    BY Zenon DEF Init
  <1>3. frames \in 0..MaxFrames
    BY MarketStreamAssumption DEF Init
  <1>4. TypeOK
    BY <1>2, <1>3, Zenon DEF Init, TypeOK
  <1> QED
    BY <1>1, <1>4 DEF Init, IInv, OnCloseOnlyAfterQuit

\* A frame yields an event, an error or nothing.
LEMMA ReadResultType ==
  ASSUME stream \in Streams, NEW f \in Frames
  PROVE  ReadResult(f) \in {"nil", "event", "error"}
  BY SMTT(30) DEF Streams, ReadResult, Construct, AccountMsg, OrderMsg, MarketMsg

\* Every step keeps the invariant.
LEMMA StepIInv == IInv /\ [Next]_vars => IInv'
  <1> SUFFICES ASSUME IInv, [Next]_vars PROVE IInv'
    OBVIOUS
  <1> USE MarketStreamAssumption DEF IInv, TypeOK, OnCloseOnlyAfterQuit
  <1>1. CASE UserQuits
    BY <1>1 DEF UserQuits
  <1>2. CASE ConnFails
    BY <1>2 DEF ConnFails
  <1>3. CASE PumpSelect
    BY <1>3 DEF PumpSelect
  <1>4. CASE PumpReads
    <2>1. PICK f \in Frames : /\ got' = ReadResult(f)
                              /\ pump' = IF ReadResult(f) = "nil" THEN "select" ELSE "check"
      BY <1>4 DEF PumpReads
    <2>2. got' \in {"nil", "event", "error"}
      BY <2>1, ReadResultType
    <2> QED
      BY <1>4, <2>1, <2>2 DEF PumpReads
  <1>5. CASE PumpReadFails
    BY <1>5 DEF PumpReadFails
  <1>6. CASE PumpCheck
    BY <1>6 DEF PumpCheck
  <1>7. CASE PumpSends
    BY <1>7, Zenon DEF PumpSends
  <1>8. CASE PumpPanics
    BY <1>8 DEF PumpPanics
  <1>9. CASE PumpFinishes
    BY <1>9 DEF PumpFinishes
  <1>10. CASE CloserWakes
    BY <1>10 DEF CloserWakes
  <1>11. CASE CloserClosesMessages
    BY <1>11 DEF CloserClosesMessages
  <1>12. CASE CloserClosesConn
    BY <1>12 DEF CloserClosesConn
  <1>13. CASE ConsumerQuits
    BY <1>13 DEF ConsumerQuits
  <1>14. CASE ConsumerSeesClosed
    BY <1>14 DEF ConsumerSeesClosed
  <1>15. CASE ConsumerReturns
    BY <1>15 DEF ConsumerReturns
  <1>16. CASE UNCHANGED vars
    BY <1>16 DEF vars
  <1> QED
    BY <1>1, <1>2, <1>3, <1>4, <1>5, <1>6, <1>7, <1>8, <1>9, <1>10, <1>11, <1>12, <1>13,
       <1>14, <1>15, <1>16 DEF Next, Pump, Closer, Consumer

\* The invariant holds in every reachable state.
THEOREM StreamInvariant == Spec => []IInv
  BY InitIInv, StepIInv, PTL DEF Spec

\* SubscribeEvent calls onClose only after the user closed quit, and never
\* after it called onError.
THEOREM OnCloseOnlyAfterQuitHolds == Spec => []OnCloseOnlyAfterQuit
  <1>1. IInv => OnCloseOnlyAfterQuit
    BY DEF IInv
  <1> QED
    BY <1>1, StreamInvariant, PTL
=============================================================================
