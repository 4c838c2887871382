--------------------------- MODULE WSClientProofs ---------------------------
(***************************************************************************)
(* Proofs of the safety properties of WSClient, for every set of requests, *)
(* every number of dials and reconnect attempts, with and without pings.   *)
(*                                                                         *)
(* None of the properties is inductive alone.  IInv adds what makes them   *)
(* so: the WaitGroup counts the live routines, reconnectRoutine is alone   *)
(* after wg.Wait(), who holds the request in flight is determined by the   *)
(* program counters, and the errors still to come fit into reconnectAfter. *)
(* There is one lemma per conjunct, with one step per action.              *)
(***************************************************************************)
EXTENDS WSClient, TLAPS

\* No action of the client stores a value outside a variable's type.
LEMMA TypeStep ==
    ASSUME IInv, [Next]_vars
    PROVE  TypeOK'
<1> USE WSClientAssumption DEF IInv, TypeOK, Dials, ReadPCs, WritePCs, RcPCs,
       RoutinesInv, HolderInv, Reading, Writing, Count, netVars, rwVars, chanVars,
       rcVars, stopVars, sendVars
<1>1. CASE UNCHANGED vars
  BY <1>1 DEF vars
<1>2. CASE LinkFails
  BY <1>2 DEF LinkFails
<1>3. CASE Stop
  BY <1>3, ZenonT(30) DEF Stop
<1>4. CASE StopWaited
  BY <1>4, ZenonT(30) DEF StopWaited, Waited
<1>5. CASE StopClose
  BY <1>5, Zenon DEF StopClose
<1>6. CASE RcRecv
  BY <1>6 DEF RcRecv
<1>7. CASE RcQuit
  BY <1>7, Zenon DEF RcQuit
<1>8. CASE RcWaited
  BY <1>8, Zenon DEF RcWaited, Waited
<1>9. CASE DialOK
  BY <1>9 DEF DialOK
<1>10. CASE DialFails
  BY <1>10 DEF DialFails
<1>11. CASE Drain
  BY <1>11 DEF Drain
<1>12. CASE BacklogTake
  BY <1>12, Zenon DEF BacklogTake
<1>13. CASE ResendOK
  BY <1>13 DEF ResendOK, WriteCanSucceed
<1>14. CASE ResendFails
  BY <1>14, Zenon DEF ResendFails, WriteCanFail
<1>15. CASE BacklogPush
  BY <1>15 DEF BacklogPush
<1>16. CASE BacklogRequeue
  BY <1>16, Zenon DEF BacklogRequeue
<1>17. CASE StartReadWriteRoutines
  <2>1. wg' \in Nat /\ rd' \in [Dials -> ReadPCs] /\ wr' \in [Dials -> WritePCs]
    BY <1>17 DEF StartReadWriteRoutines
  <2> QED
    BY <1>17, <2>1, Zenon DEF StartReadWriteRoutines
<1>18. CASE RcStop
  BY <1>18, Zenon DEF RcStop
<1>19. CASE RcStopWaited
  BY <1>19, Zenon DEF RcStopWaited, Waited
<1>20. CASE RcStopClose
  BY <1>20, Zenon DEF RcStopClose
<1>21. ASSUME NEW r \in Requests, Send(r) PROVE TypeOK'
  BY <1>21 DEF Send
<1>22. ASSUME NEW r \in Requests, SendCtxDone(r) PROVE TypeOK'
  BY <1>22 DEF SendCtxDone
<1>23. ASSUME NEW d \in Dials, NEW r \in Requests, WriterRecv(d, r) PROVE TypeOK'
  BY <1>23 DEF WriterRecv
<1>24. ASSUME NEW d \in Dials, WriterWriteOK(d) PROVE TypeOK'
  BY <1>24, SMTT(30) DEF WriterWriteOK, WriteCanSucceed
<1>25. ASSUME NEW d \in Dials, WriterWriteFails(d) PROVE TypeOK'
  BY <1>25 DEF WriterWriteFails, WriteCanFail
<1>26. ASSUME NEW d \in Dials, WriterPingFails(d) PROVE TypeOK'
  BY <1>26 DEF WriterPingFails, WriteCanFail
<1>27. ASSUME NEW d \in Dials, WriterPush(d) PROVE TypeOK'
  BY <1>27 DEF WriterPush
<1>28. ASSUME NEW d \in Dials, WriterRequeue(d) PROVE TypeOK'
  BY <1>28 DEF WriterRequeue
<1>29. ASSUME NEW d \in Dials, WriterReadQuit(d) PROVE TypeOK'
  BY <1>29 DEF WriterReadQuit
<1>30. ASSUME NEW d \in Dials, WriterQuit(d) PROVE TypeOK'
  BY <1>30 DEF WriterQuit
<1>31. ASSUME NEW d \in Dials, WriterExit(d) PROVE TypeOK'
  <2>1. d = conn /\ wg \in 1..2
    BY <1>31 DEF WriterExit
  <2> QED
    BY <1>31, <2>1 DEF WriterExit
<1>32. ASSUME NEW d \in Dials, ReaderReads(d) PROVE TypeOK'
  BY <1>32 DEF ReaderReads
<1>33. ASSUME NEW d \in Dials, ReaderUnexpectedClose(d) PROVE TypeOK'
  BY <1>33 DEF ReaderUnexpectedClose
<1>34. ASSUME NEW d \in Dials, ReaderSilentReturn(d) PROVE TypeOK'
  BY <1>34 DEF ReaderSilentReturn
<1>35. ASSUME NEW d \in Dials, ReaderPush(d) PROVE TypeOK'
  BY <1>35 DEF ReaderPush
<1>36. ASSUME NEW d \in Dials, ReaderDelivers(d) PROVE TypeOK'
  BY <1>36 DEF ReaderDelivers
<1>37. ASSUME NEW d \in Dials, ReaderSkips(d) PROVE TypeOK'
  BY <1>37 DEF ReaderSkips
<1>38. ASSUME NEW d \in Dials, ReaderExit(d) PROVE TypeOK'
  BY <1>38 DEF ReaderExit
<1> QED
  BY <1>1, <1>2, <1>3, <1>4, <1>5, <1>6, <1>7, <1>8, <1>9, <1>10, <1>11, <1>12, <1>13, <1>14,
     <1>15, <1>16, <1>17, <1>18, <1>19, <1>20, <1>21, <1>22, <1>23, <1>24, <1>25, <1>26, <1>27,
     <1>28, <1>29, <1>30, <1>31, <1>32, <1>33, <1>34, <1>35, <1>36, <1>37, <1>38, ZenonT(30)
  DEF Next, Writer, WriterUnticked, Reader, Reconnector

\* wg.Add, wg.Done and wg.Wait keep the routines of one connection apart from
\* those of the next.
LEMMA RoutinesStep ==
    ASSUME IInv, [Next]_vars
    PROVE  RoutinesInv'
<1> USE WSClientAssumption DEF IInv, TypeOK, Dials, RoutinesInv, HolderInv, Reading,
       Writing, Count, Alone, netVars, rwVars, chanVars, rcVars, stopVars, sendVars
<1>1. CASE UNCHANGED vars
  BY <1>1, Zenon DEF vars
<1>2. CASE LinkFails
  BY <1>2, Zenon DEF LinkFails
<1>3. CASE Stop
  BY <1>3, Zenon DEF Stop
<1>4. CASE StopWaited
  BY <1>4, Zenon DEF StopWaited, Waited
<1>5. CASE StopClose
  BY <1>5, Zenon DEF StopClose
<1>6. CASE RcRecv
  BY <1>6, Zenon DEF RcRecv
<1>7. CASE RcQuit
  BY <1>7, Zenon DEF RcQuit
<1>8. CASE RcWaited
  BY <1>8 DEF RcWaited, Waited
<1>9. CASE DialOK
  BY <1>9 DEF DialOK
<1>10. CASE DialFails
  BY <1>10, Zenon DEF DialFails
<1>11. CASE Drain
  BY <1>11, Zenon DEF Drain
<1>12. CASE BacklogTake
  BY <1>12, Zenon DEF BacklogTake
<1>13. CASE ResendOK
  BY <1>13, Zenon DEF ResendOK, WriteCanSucceed
<1>14. CASE ResendFails
  BY <1>14, Zenon DEF ResendFails, WriteCanFail
<1>15. CASE BacklogPush
  BY <1>15, Zenon DEF BacklogPush
<1>16. CASE BacklogRequeue
  BY <1>16, Zenon DEF BacklogRequeue
<1>17. CASE StartReadWriteRoutines
  BY <1>17 DEF StartReadWriteRoutines
<1>18. CASE RcStop
  BY <1>18, Zenon DEF RcStop
<1>19. CASE RcStopWaited
  BY <1>19, Zenon DEF RcStopWaited, Waited
<1>20. CASE RcStopClose
  BY <1>20, Zenon DEF RcStopClose
<1>21. ASSUME NEW r \in Requests, Send(r) PROVE RoutinesInv'
  BY <1>21, Zenon DEF Send
<1>22. ASSUME NEW r \in Requests, SendCtxDone(r) PROVE RoutinesInv'
  BY <1>22, Zenon DEF SendCtxDone
<1>23. ASSUME NEW d \in Dials, NEW r \in Requests, WriterRecv(d, r) PROVE RoutinesInv'
  BY <1>23, Zenon DEF WriterRecv
<1>24. ASSUME NEW d \in Dials, WriterWriteOK(d) PROVE RoutinesInv'
  BY <1>24, Zenon DEF WriterWriteOK, WriteCanSucceed
<1>25. ASSUME NEW d \in Dials, WriterWriteFails(d) PROVE RoutinesInv'
  BY <1>25, Zenon DEF WriterWriteFails, WriteCanFail
<1>26. ASSUME NEW d \in Dials, WriterPingFails(d) PROVE RoutinesInv'
  BY <1>26, Zenon DEF WriterPingFails, WriteCanFail
<1>27. ASSUME NEW d \in Dials, WriterPush(d) PROVE RoutinesInv'
  BY <1>27, Zenon DEF WriterPush
<1>28. ASSUME NEW d \in Dials, WriterRequeue(d) PROVE RoutinesInv'
  BY <1>28, Zenon DEF WriterRequeue
<1>29. ASSUME NEW d \in Dials, WriterReadQuit(d) PROVE RoutinesInv'
  BY <1>29, Zenon DEF WriterReadQuit
<1>30. ASSUME NEW d \in Dials, WriterQuit(d) PROVE RoutinesInv'
  BY <1>30, Zenon DEF WriterQuit
<1>31. ASSUME NEW d \in Dials, WriterExit(d) PROVE RoutinesInv'
  <2>1. /\ d = conn /\ conn' = conn /\ rc' = rc /\ held' = held /\ rd' = rd
        /\ wr[conn] = "exit" /\ wg' = wg - 1
    BY <1>31, Zenon DEF WriterExit
  <2>2. wr'[conn] = "done" /\ \A e \in Dials : e # conn => wr'[e] = wr[e]
    BY <1>31, <2>1, Zenon DEF WriterExit
  <2>3. wg' = Count(Reading(conn)') + Count(Writing(conn)')
    BY <2>1, <2>2
  <2>4. rc' \notin Alone
    BY <2>1, Zenon
  <2>5. \A e \in Dials : e # conn' => ~Reading(e)' /\ ~Writing(e)' /\ held'[e] = None
    BY <2>1, <2>2, Zenon
  <2> QED
    BY <2>3, <2>4, <2>5, Zenon
<1>32. ASSUME NEW d \in Dials, ReaderReads(d) PROVE RoutinesInv'
  BY <1>32, Zenon DEF ReaderReads
<1>33. ASSUME NEW d \in Dials, ReaderUnexpectedClose(d) PROVE RoutinesInv'
  BY <1>33, Zenon DEF ReaderUnexpectedClose
<1>34. ASSUME NEW d \in Dials, ReaderSilentReturn(d) PROVE RoutinesInv'
  BY <1>34, Zenon DEF ReaderSilentReturn
<1>35. ASSUME NEW d \in Dials, ReaderPush(d) PROVE RoutinesInv'
  BY <1>35, Zenon DEF ReaderPush
<1>36. ASSUME NEW d \in Dials, ReaderDelivers(d) PROVE RoutinesInv'
  BY <1>36, Zenon DEF ReaderDelivers
<1>37. ASSUME NEW d \in Dials, ReaderSkips(d) PROVE RoutinesInv'
  BY <1>37, Zenon DEF ReaderSkips
<1>38. ASSUME NEW d \in Dials, ReaderExit(d) PROVE RoutinesInv'
  <2>1. /\ d = conn /\ conn' = conn /\ rc' = rc /\ held' = held /\ wr' = wr
        /\ rd[conn] = "exit" /\ wg' = wg - 1
    BY <1>38, Zenon DEF ReaderExit
  <2>2. rd'[conn] = "done" /\ \A e \in Dials : e # conn => rd'[e] = rd[e]
    BY <1>38, <2>1, Zenon DEF ReaderExit
  <2>3. wg' = Count(Reading(conn)') + Count(Writing(conn)')
    BY <2>1, <2>2
  <2>4. rc' \notin Alone
    BY <2>1, Zenon
  <2>5. \A e \in Dials : e # conn' => ~Reading(e)' /\ ~Writing(e)' /\ held'[e] = None
    BY <2>1, <2>2, Zenon
  <2> QED
    BY <2>3, <2>4, <2>5
<1> QED
  BY <1>1, <1>2, <1>3, <1>4, <1>5, <1>6, <1>7, <1>8, <1>9, <1>10, <1>11, <1>12, <1>13, <1>14,
     <1>15, <1>16, <1>17, <1>18, <1>19, <1>20, <1>21, <1>22, <1>23, <1>24, <1>25, <1>26, <1>27,
     <1>28, <1>29, <1>30, <1>31, <1>32, <1>33, <1>34, <1>35, <1>36, <1>37, <1>38, ZenonT(30)
  DEF Next, Writer, WriterUnticked, Reader, Reconnector

\* Every action moves the request in flight together with the program counter
\* of its holder.
LEMMA HolderStep ==
    ASSUME IInv, [Next]_vars
    PROVE  HolderInv'
<1> USE WSClientAssumption DEF IInv, TypeOK, Dials, RoutinesInv, HolderInv, Reading,
       Writing, Alone, netVars, rwVars, chanVars, rcVars, stopVars, sendVars
<1>1. CASE UNCHANGED vars
  BY <1>1, Zenon DEF vars
<1>2. CASE LinkFails
  BY <1>2, Zenon DEF LinkFails
<1>3. CASE Stop
  BY <1>3, Zenon DEF Stop
<1>4. CASE StopWaited
  BY <1>4, Zenon DEF StopWaited, Waited
<1>5. CASE StopClose
  BY <1>5, Zenon DEF StopClose
<1>6. CASE RcRecv
  BY <1>6, Zenon DEF RcRecv
<1>7. CASE RcQuit
  BY <1>7, Zenon DEF RcQuit
<1>8. CASE RcWaited
  BY <1>8, Zenon DEF RcWaited, Waited
<1>9. CASE DialOK
  BY <1>9 DEF DialOK
<1>10. CASE DialFails
  BY <1>10, Zenon DEF DialFails
<1>11. CASE Drain
  BY <1>11, Zenon DEF Drain
<1>12. CASE BacklogTake
  BY <1>12, Zenon DEF BacklogTake
<1>13. CASE ResendOK
  BY <1>13, Zenon DEF ResendOK, WriteCanSucceed
<1>14. CASE ResendFails
  BY <1>14, Zenon DEF ResendFails, WriteCanFail
<1>15. CASE BacklogPush
  BY <1>15, Zenon DEF BacklogPush
<1>16. CASE BacklogRequeue
  BY <1>16, Zenon DEF BacklogRequeue
<1>17. CASE StartReadWriteRoutines
  BY <1>17, Zenon DEF StartReadWriteRoutines
<1>18. CASE RcStop
  BY <1>18, Zenon DEF RcStop
<1>19. CASE RcStopWaited
  BY <1>19, Zenon DEF RcStopWaited, Waited
<1>20. CASE RcStopClose
  BY <1>20, Zenon DEF RcStopClose
<1>21. ASSUME NEW r \in Requests, Send(r) PROVE HolderInv'
  BY <1>21, Zenon DEF Send
<1>22. ASSUME NEW r \in Requests, SendCtxDone(r) PROVE HolderInv'
  BY <1>22, Zenon DEF SendCtxDone
<1>23. ASSUME NEW d \in Dials, NEW r \in Requests, WriterRecv(d, r) PROVE HolderInv'
  BY <1>23, Zenon DEF WriterRecv
<1>24. ASSUME NEW d \in Dials, WriterWriteOK(d) PROVE HolderInv'
  BY <1>24, Zenon DEF WriterWriteOK, WriteCanSucceed
<1>25. ASSUME NEW d \in Dials, WriterWriteFails(d) PROVE HolderInv'
  BY <1>25, Zenon DEF WriterWriteFails, WriteCanFail
<1>26. ASSUME NEW d \in Dials, WriterPingFails(d) PROVE HolderInv'
  BY <1>26, Zenon DEF WriterPingFails, WriteCanFail
<1>27. ASSUME NEW d \in Dials, WriterPush(d) PROVE HolderInv'
  BY <1>27, Zenon DEF WriterPush
<1>28. ASSUME NEW d \in Dials, WriterRequeue(d) PROVE HolderInv'
  BY <1>28, Zenon DEF WriterRequeue
<1>29. ASSUME NEW d \in Dials, WriterReadQuit(d) PROVE HolderInv'
  BY <1>29, Zenon DEF WriterReadQuit
<1>30. ASSUME NEW d \in Dials, WriterQuit(d) PROVE HolderInv'
  BY <1>30, Zenon DEF WriterQuit
<1>31. ASSUME NEW d \in Dials, WriterExit(d) PROVE HolderInv'
  BY <1>31, Zenon DEF WriterExit
<1>32. ASSUME NEW d \in Dials, ReaderReads(d) PROVE HolderInv'
  BY <1>32, Zenon DEF ReaderReads
<1>33. ASSUME NEW d \in Dials, ReaderUnexpectedClose(d) PROVE HolderInv'
  BY <1>33, Zenon DEF ReaderUnexpectedClose
<1>34. ASSUME NEW d \in Dials, ReaderSilentReturn(d) PROVE HolderInv'
  BY <1>34, Zenon DEF ReaderSilentReturn
<1>35. ASSUME NEW d \in Dials, ReaderPush(d) PROVE HolderInv'
  BY <1>35, Zenon DEF ReaderPush
<1>36. ASSUME NEW d \in Dials, ReaderDelivers(d) PROVE HolderInv'
  BY <1>36, Zenon DEF ReaderDelivers
<1>37. ASSUME NEW d \in Dials, ReaderSkips(d) PROVE HolderInv'
  BY <1>37, Zenon DEF ReaderSkips
<1>38. ASSUME NEW d \in Dials, ReaderExit(d) PROVE HolderInv'
  BY <1>38, Zenon DEF ReaderExit
<1> QED
  BY <1>1, <1>2, <1>3, <1>4, <1>5, <1>6, <1>7, <1>8, <1>9, <1>10, <1>11, <1>12, <1>13, <1>14,
     <1>15, <1>16, <1>17, <1>18, <1>19, <1>20, <1>21, <1>22, <1>23, <1>24, <1>25, <1>26, <1>27,
     <1>28, <1>29, <1>30, <1>31, <1>32, <1>33, <1>34, <1>35, <1>36, <1>37, <1>38, ZenonT(30)
  DEF Next, Writer, WriterUnticked, Reader, Reconnector

\* The errors on their way to reconnectAfter always fit, and readRoutineQuit is
\* fresh whenever a reader runs.
LEMMA SignalStep ==
    ASSUME IInv, [Next]_vars
    PROVE  SignalInv'
<1> USE WSClientAssumption DEF IInv, TypeOK, Dials, RoutinesInv, SignalInv, Reading,
       Writing, Count, Alone, MayPush, QuitChannelClosedOnce, netVars, rwVars, chanVars,
       rcVars, stopVars, sendVars
<1>1. CASE UNCHANGED vars
  BY <1>1, Zenon DEF vars
<1>2. CASE LinkFails
  BY <1>2, Zenon DEF LinkFails
<1>3. CASE Stop
  BY <1>3, Zenon DEF Stop
<1>4. CASE StopWaited
  BY <1>4, Zenon DEF StopWaited, Waited
<1>5. CASE StopClose
  BY <1>5, Zenon DEF StopClose
<1>6. CASE RcRecv
  BY <1>6 DEF RcRecv
<1>7. CASE RcQuit
  BY <1>7, Zenon DEF RcQuit
<1>8. CASE RcWaited
  BY <1>8, Zenon DEF RcWaited, Waited
<1>9. CASE DialOK
  BY <1>9 DEF DialOK
<1>10. CASE DialFails
  BY <1>10, Zenon DEF DialFails
<1>11. CASE Drain
  BY <1>11, Zenon DEF Drain
<1>12. CASE BacklogTake
  BY <1>12, Zenon DEF BacklogTake
<1>13. CASE ResendOK
  BY <1>13, Zenon DEF ResendOK, WriteCanSucceed
<1>14. CASE ResendFails
  BY <1>14, Zenon DEF ResendFails, WriteCanFail
<1>15. CASE BacklogPush
  BY <1>15, Zenon DEF BacklogPush
<1>16. CASE BacklogRequeue
  BY <1>16 DEF BacklogRequeue
<1>17. CASE StartReadWriteRoutines
  BY <1>17 DEF StartReadWriteRoutines
<1>18. CASE RcStop
  BY <1>18, Zenon DEF RcStop
<1>19. CASE RcStopWaited
  BY <1>19, Zenon DEF RcStopWaited, Waited
<1>20. CASE RcStopClose
  BY <1>20, Zenon DEF RcStopClose
<1>21. ASSUME NEW r \in Requests, Send(r) PROVE SignalInv'
  BY <1>21, Zenon DEF Send
<1>22. ASSUME NEW r \in Requests, SendCtxDone(r) PROVE SignalInv'
  BY <1>22, Zenon DEF SendCtxDone
<1>23. ASSUME NEW d \in Dials, NEW r \in Requests, WriterRecv(d, r) PROVE SignalInv'
  BY <1>23, Zenon DEF WriterRecv
<1>24. ASSUME NEW d \in Dials, WriterWriteOK(d) PROVE SignalInv'
  BY <1>24, Zenon DEF WriterWriteOK, WriteCanSucceed
<1>25. ASSUME NEW d \in Dials, WriterWriteFails(d) PROVE SignalInv'
  BY <1>25, Zenon DEF WriterWriteFails, WriteCanFail
<1>26. ASSUME NEW d \in Dials, WriterPingFails(d) PROVE SignalInv'
  BY <1>26, Zenon DEF WriterPingFails, WriteCanFail
<1>27. ASSUME NEW d \in Dials, WriterPush(d) PROVE SignalInv'
  BY <1>27 DEF WriterPush
<1>28. ASSUME NEW d \in Dials, WriterRequeue(d) PROVE SignalInv'
  BY <1>28, Zenon DEF WriterRequeue
<1>29. ASSUME NEW d \in Dials, WriterReadQuit(d) PROVE SignalInv'
  BY <1>29 DEF WriterReadQuit
<1>30. ASSUME NEW d \in Dials, WriterQuit(d) PROVE SignalInv'
  BY <1>30 DEF WriterQuit
<1>31. ASSUME NEW d \in Dials, WriterExit(d) PROVE SignalInv'
  BY <1>31, Zenon DEF WriterExit
<1>32. ASSUME NEW d \in Dials, ReaderReads(d) PROVE SignalInv'
  BY <1>32, Zenon DEF ReaderReads
<1>33. ASSUME NEW d \in Dials, ReaderUnexpectedClose(d) PROVE SignalInv'
  BY <1>33, Zenon DEF ReaderUnexpectedClose
<1>34. ASSUME NEW d \in Dials, ReaderSilentReturn(d) PROVE SignalInv'
  BY <1>34 DEF ReaderSilentReturn
<1>35. ASSUME NEW d \in Dials, ReaderPush(d) PROVE SignalInv'
  BY <1>35 DEF ReaderPush
<1>36. ASSUME NEW d \in Dials, ReaderDelivers(d) PROVE SignalInv'
  BY <1>36 DEF ReaderDelivers
<1>37. ASSUME NEW d \in Dials, ReaderSkips(d) PROVE SignalInv'
  BY <1>37, Zenon DEF ReaderSkips
<1>38. ASSUME NEW d \in Dials, ReaderExit(d) PROVE SignalInv'
  BY <1>38, Zenon DEF ReaderExit
<1> QED
  BY <1>1, <1>2, <1>3, <1>4, <1>5, <1>6, <1>7, <1>8, <1>9, <1>10, <1>11, <1>12, <1>13, <1>14,
     <1>15, <1>16, <1>17, <1>18, <1>19, <1>20, <1>21, <1>22, <1>23, <1>24, <1>25, <1>26, <1>27,
     <1>28, <1>29, <1>30, <1>31, <1>32, <1>33, <1>34, <1>35, <1>36, <1>37, <1>38, ZenonT(30)
  DEF Next, Writer, WriterUnticked, Reader, Reconnector

\* The backlog channel, processBacklog and writeRoutine never hold a request
\* at the same time.
LEMMA OneHolder ==
    ASSUME IInv
    PROVE  /\ backlog # None => pending = None /\ held[conn] = None
           /\ pending # None => held[conn] = None
           /\ \A d \in Dials : held[d] # None => d = conn
<1> USE DEF IInv, RoutinesInv, HolderInv, TypeOK
<1>1. backlog # None => pending = None /\ held[conn] = None
  OBVIOUS
<1>2. pending # None => held[conn] = None
  BY Zenon DEF Alone, Writing
<1>3. \A d \in Dials : held[d] # None => d = conn
  OBVIOUS
<1> QED
  BY <1>1, <1>2, <1>3, Zenon

\* The elements of a sequence after an Append: what a write adds to written.
LEMMA AppendElements ==
    ASSUME NEW s \in Seq(Requests), NEW x \in Requests, NEW r \in Requests
    PROVE  (\E i \in 1..Len(Append(s, x)) : Append(s, x)[i] = r)
           <=> (r = x \/ \E i \in 1..Len(s) : s[i] = r)
<1>1. Len(Append(s, x)) = Len(s) + 1 /\ Len(s) \in Nat
  OBVIOUS
<1>2. \A i \in 1..Len(s) : Append(s, x)[i] = s[i]
  OBVIOUS
<1>3. Append(s, x)[Len(s) + 1] = x
  OBVIOUS
<1>4. 1..Len(Append(s, x)) = (1..Len(s)) \cup {Len(s) + 1}
  BY <1>1
<1> QED
  BY <1>2, <1>3, <1>4, Zenon

\* Steps that touch neither a request nor its holders keep it tracked.
LEMMA TrackedQuiet ==
    ASSUME AcceptedIsTracked, UNCHANGED <<backlog, pending, held, phase, written>>
    PROVE  AcceptedIsTracked'
BY Zenon DEF AcceptedIsTracked, InFlight, WasWritten

\* No action loses an accepted request, duplicates it or writes it twice.
LEMMA TrackedStep ==
    ASSUME IInv, [Next]_vars
    PROVE  AcceptedIsTracked'
<1> USE WSClientAssumption DEF IInv, netVars, rwVars, chanVars, rcVars, stopVars, sendVars
<1>1. CASE UNCHANGED vars
  BY <1>1, TrackedQuiet, Zenon DEF vars
<1>2. CASE LinkFails \/ Stop \/ StopWaited \/ StopClose
  BY <1>2, TrackedQuiet, Zenon DEF LinkFails, Stop, StopWaited, StopClose
<1>3. CASE RcRecv \/ RcQuit \/ RcWaited \/ DialOK \/ DialFails \/ Drain
  BY <1>3, TrackedQuiet, Zenon DEF RcRecv, RcQuit, RcWaited, DialOK, DialFails, Drain
<1>4. CASE ResendFails \/ BacklogPush \/ StartReadWriteRoutines
  BY <1>4, TrackedQuiet, Zenon DEF ResendFails, BacklogPush, StartReadWriteRoutines
<1>5. CASE RcStop \/ RcStopWaited \/ RcStopClose
  BY <1>5, TrackedQuiet, Zenon DEF RcStop, RcStopWaited, RcStopClose
<1>6. ASSUME NEW d \in Dials, Reader(d)
      PROVE  AcceptedIsTracked'
  BY <1>6, TrackedQuiet, Zenon DEF Reader, ReaderReads, ReaderUnexpectedClose, ReaderSilentReturn,
     ReaderPush, ReaderDelivers, ReaderSkips, ReaderExit
<1>7. ASSUME NEW d \in Dials,
             WriterWriteFails(d) \/ WriterPingFails(d) \/ WriterPush(d)
                \/ WriterReadQuit(d) \/ WriterQuit(d) \/ WriterExit(d)
      PROVE  AcceptedIsTracked'
  BY <1>7, TrackedQuiet, Zenon DEF WriterWriteFails, WriterPingFails, WriterPush, WriterReadQuit,
     WriterQuit, WriterExit
<1>8. ASSUME NEW r \in Requests, Send(r) \/ SendCtxDone(r)
      PROVE  AcceptedIsTracked'
  BY <1>8 DEF Send, SendCtxDone, AcceptedIsTracked, InFlight, WasWritten, TypeOK
<1>9. ASSUME NEW d \in Dials, NEW r \in Requests, WriterRecv(d, r)
      PROVE  AcceptedIsTracked'
  <2>1. d = conn /\ held[d] = None
    BY <1>9, Zenon DEF WriterRecv, RoutinesInv, HolderInv, Writing, TypeOK
  <2> QED
    BY <1>9, <2>1 DEF WriterRecv, AcceptedIsTracked, InFlight, WasWritten, TypeOK
<1>10. ASSUME NEW d \in Dials, WriterWriteOK(d)
       PROVE  AcceptedIsTracked'
  <2>1. d = conn /\ held[d] \in Requests /\ backlog = None /\ pending = None
    BY <1>10, OneHolder, Zenon DEF WriterWriteOK, RoutinesInv, HolderInv, Writing, TypeOK
  <2>2. \A r \in Requests : WasWritten(r)' <=> (r = held[d] \/ WasWritten(r))
    BY <1>10, <2>1, AppendElements DEF WriterWriteOK, WasWritten, TypeOK
  <2>3. \A r \in Requests : ~InFlight(r)'
    BY <1>10, <2>1, OneHolder, Zenon DEF WriterWriteOK, InFlight, TypeOK
  <2>4. \A r \in Requests : InFlight(r) <=> r = held[d]
    BY <2>1, OneHolder, Zenon DEF InFlight, TypeOK
  <2> QED
    BY <1>10, <2>2, <2>3, <2>4, Zenon DEF WriterWriteOK, AcceptedIsTracked
<1>11. ASSUME NEW d \in Dials, WriterRequeue(d)
       PROVE  AcceptedIsTracked'
  <2>1. d = conn /\ held[d] \in Requests /\ backlog = None /\ pending = None
    BY <1>11, OneHolder, Zenon DEF WriterRequeue, RoutinesInv, HolderInv, Writing, TypeOK
  <2>2. \A r \in Requests : InFlight(r)' <=> InFlight(r)
    BY <1>11, <2>1, OneHolder, Zenon DEF WriterRequeue, InFlight, TypeOK
  <2> QED
    BY <1>11, <2>2, Zenon DEF WriterRequeue, AcceptedIsTracked, WasWritten
<1>12. CASE BacklogTake
  <2>1. \A r \in Requests : InFlight(r)' <=> InFlight(r)
    BY <1>12, OneHolder, Zenon DEF BacklogTake, InFlight, HolderInv, TypeOK
  <2> QED
    BY <1>12, <2>1, Zenon DEF BacklogTake, AcceptedIsTracked, WasWritten
<1>13. CASE ResendOK
  <2>1. pending \in Requests /\ backlog = None /\ held[conn] = None
    BY <1>13, OneHolder, Zenon DEF ResendOK, HolderInv, TypeOK
  <2>2. \A r \in Requests : WasWritten(r)' <=> (r = pending \/ WasWritten(r))
    BY <1>13, <2>1, AppendElements DEF ResendOK, WasWritten, TypeOK
  <2>3. \A r \in Requests : ~InFlight(r)'
    BY <1>13, <2>1, OneHolder, Zenon DEF ResendOK, InFlight, TypeOK
  <2>4. \A r \in Requests : InFlight(r) <=> r = pending
    BY <2>1, OneHolder, Zenon DEF InFlight, TypeOK
  <2> QED
    BY <1>13, <2>2, <2>3, <2>4, Zenon DEF ResendOK, AcceptedIsTracked
<1>14. CASE BacklogRequeue
  <2>1. \A r \in Requests : InFlight(r)' <=> InFlight(r)
    BY <1>14, OneHolder, Zenon DEF BacklogRequeue, InFlight, HolderInv, TypeOK
  <2> QED
    BY <1>14, <2>1, Zenon DEF BacklogRequeue, AcceptedIsTracked, WasWritten
<1> QED
  BY <1>1, <1>2, <1>3, <1>4, <1>5, <1>6, <1>7, <1>8, <1>9, <1>10, <1>11, <1>12, <1>13, <1>14, Zenon
  DEF Next, Writer, WriterUnticked, Reconnector

\* OnStart leaves the client in a state that satisfies the invariant.
LEMMA InitIInv == Init => IInv
<1> SUFFICES ASSUME Init PROVE IInv
  OBVIOUS
<1>0. 1 \in Dials
  BY WSClientAssumption DEF Dials
<1> USE <1>0 DEF Init
<1>1. TypeOK
  <2>1. link \in [Dials -> {"none", "open", "failed", "closed"}]
    OBVIOUS
  <2>2. rd \in [Dials -> ReadPCs] /\ wr \in [Dials -> WritePCs] /\ rc \in RcPCs
    BY Zenon DEF ReadPCs, WritePCs, RcPCs
  <2>3. held \in [Dials -> Requests \cup {None}] /\ written \in Seq(Requests)
    OBVIOUS
  <2>4. phase \in [Requests -> {"new", "sending", "cancelled", "accepted"}]
    OBVIOUS
  <2>5. wg \in Nat /\ attempt \in Nat /\ reconnectAfter \in 0..1
    OBVIOUS
  <2>6. /\ stopped \in BOOLEAN /\ readRoutineQuit \in BOOLEAN /\ respClosed \in BOOLEAN
        /\ ustop \in {"no", "wait", "close", "done"} /\ conn \in Dials
        /\ backlog \in Requests \cup {None} /\ pending \in Requests \cup {None}
    BY Zenon
  <2> QED
    BY <2>1, <2>2, <2>3, <2>4, <2>5, <2>6, Zenon DEF TypeOK
<1>2. RoutinesInv
  BY DEF RoutinesInv, Reading, Writing, Count, Alone
<1>3. HolderInv
  BY Zenon DEF HolderInv
<1>4. SignalInv
  <2>1. rd[conn] = "read" /\ wr[conn] = "select" /\ QuitChannelClosedOnce
    BY Zenon DEF QuitChannelClosedOnce
  <2>2. MayPush = 2
    BY <2>1 DEF MayPush, Count
  <2>3. ~readRoutineQuit
    BY Zenon
  <2> QED
    BY <2>1, <2>2, <2>3 DEF SignalInv
<1>5. AcceptedIsTracked
  <2> SUFFICES ASSUME NEW r \in Requests
               PROVE  phase[r] # "accepted" /\ ~InFlight(r) /\ ~WasWritten(r)
    BY Zenon DEF AcceptedIsTracked
  <2>1. phase[r] # "accepted"
    OBVIOUS
  <2>2. ~InFlight(r)
    BY WSClientAssumption, Zenon DEF InFlight
  <2>3. Len(written) = 0
    OBVIOUS
  <2>4. ~WasWritten(r)
    BY <2>3 DEF WasWritten
  <2> QED
    BY <2>1, <2>2, <2>4, Zenon
<1> QED
  BY <1>1, <1>2, <1>3, <1>4, <1>5, Zenon DEF IInv

\* IInv is an invariant of the client for every set of requests, every number
\* of connections and reconnect attempts, with and without pings.
THEOREM InductiveInvariant == Spec => []IInv
<1>1. IInv /\ [Next]_vars => IInv'
  BY TypeStep, RoutinesStep, HolderStep, SignalStep, TrackedStep, Zenon DEF IInv
<1> QED
  BY InitIInv, <1>1, PTL DEF Spec

\* Every variable of the client always has its type; in particular no channel
\* holds more than its capacity and the WaitGroup never goes below zero.
THEOREM TypeCorrect == Spec => []TypeOK
BY InductiveInvariant, PTL DEF IInv

\* At most one reader and one writer use a connection, and only the current one.
THEOREM OneReaderOneWriterHolds == Spec => []OneReaderOneWriter
<1>1. IInv => OneReaderOneWriter
  BY Zenon DEF IInv, RoutinesInv, OneReaderOneWriter
<1> QED
  BY InductiveInvariant, <1>1, PTL

\* A request that Send accepted is in exactly one place until it is written.
THEOREM AcceptedIsTrackedHolds == Spec => []AcceptedIsTracked
BY InductiveInvariant, PTL DEF IInv

\* A request is only ever put into an empty backlog channel.
THEOREM RequeueNeverBlocksHolds == Spec => []RequeueNeverBlocks
<1>1. ASSUME IInv, NEW d \in Dials, wr[d] = "requeue"
      PROVE  backlog = None
  <2>1. d = conn
    BY <1>1, Zenon DEF IInv, RoutinesInv, Writing
  <2> QED
    BY <1>1, <2>1, Zenon DEF IInv, HolderInv
<1>2. ASSUME IInv, rc = "bqueue"
      PROVE  backlog = None
  BY <1>2, Zenon DEF IInv, HolderInv
<1>3. IInv => RequeueNeverBlocks
  BY <1>1, <1>2, Zenon DEF RequeueNeverBlocks
<1> QED
  BY InductiveInvariant, <1>3, PTL

\* Before a stop, a goroutine blocked on reconnectAfter waits only for the
\* reconnectRoutine's select.
THEOREM ReconnectRequestsAreTakenHolds == Spec => []ReconnectRequestsAreTaken
<1>1. ASSUME IInv, PushBlocked, rc # "select", ~stopped
      PROVE  FALSE
  <2>1. rc \in Alone \cup {"wait"}
    BY <1>1, Zenon DEF IInv, TypeOK, RcPCs, Alone, SignalInv
  <2>2. rc # "bpush" /\ reconnectAfter = 1
    BY <1>1 DEF IInv, SignalInv, PushBlocked
  <2>3. rd[conn] = "push" \/ wr[conn] = "push"
    BY <1>1, <2>2, Zenon DEF IInv, RoutinesInv, PushBlocked, Reading, Writing
  <2>4. rc = "wait"
    BY <1>1, <2>1, <2>3, Zenon DEF IInv, RoutinesInv, Reading, Writing
  <2>5. MayPush >= 1
    BY <2>3 DEF MayPush, Count
  <2> QED
    BY <1>1, <2>2, <2>4, <2>5 DEF IInv, SignalInv, MayPush, Count
<1>2. IInv => ReconnectRequestsAreTaken
  BY <1>1, Zenon DEF ReconnectRequestsAreTaken
<1> QED
  BY InductiveInvariant, <1>2, PTL

\* readRoutineQuit is never closed twice.
THEOREM QuitChannelClosedOnceHolds == Spec => []QuitChannelClosedOnce
<1>1. IInv => QuitChannelClosedOnce
  BY Zenon DEF IInv, SignalInv
<1> QED
  BY InductiveInvariant, <1>1, PTL

\* ResponsesCh is not closed under the reader that OnStart began, whatever Stop
\* interleaves with: wg.Wait() saw it end, and only later connections get new ones.
THEOREM ClosedAfterFirstReaderHolds == Spec => []ClosedAfterFirstReader
<1> USE WSClientAssumption DEF Dials
<1>1. Init => ClosedInv
  BY Zenon DEF Init, ClosedInv
<1>2. ASSUME IInv, ClosedInv, [Next]_vars
      PROVE  ClosedInv'
  <2> USE <1>2 DEF netVars, rwVars, chanVars, rcVars, stopVars, sendVars
  <2> conn \in Dials /\ rd \in [Dials -> ReadPCs]
    BY Zenon DEF IInv, TypeOK
  <2>1. CASE UNCHANGED vars \/ LinkFails \/ Stop \/ RcRecv \/ RcQuit \/ RcWaited \/ DialFails
    BY <2>1 DEF vars, LinkFails, Stop, RcRecv, RcQuit, RcWaited, DialFails, ClosedInv, Reading
  <2>2. CASE DialOK \/ Drain \/ BacklogTake \/ ResendOK \/ ResendFails \/ BacklogPush
             \/ BacklogRequeue \/ RcStop \/ RcStopClose \/ StopClose
    BY <2>2 DEF DialOK, Drain, BacklogTake, ResendOK, ResendFails, BacklogPush, BacklogRequeue,
       RcStop, RcStopClose, StopClose, ClosedInv, Reading
  <2>3. CASE StopWaited \/ RcStopWaited
    <3>1. ~Reading(1)
      BY <2>3 DEF StopWaited, RcStopWaited, Waited, IInv, RoutinesInv, Count
    <3> QED
      BY <2>3, <3>1, Zenon DEF StopWaited, RcStopWaited, ClosedInv, Reading
  <2>4. CASE StartReadWriteRoutines
    BY <2>4 DEF StartReadWriteRoutines, ClosedInv, Reading
  <2>5. ASSUME NEW d \in Dials, Reader(d)
        PROVE  ClosedInv'
    <3>1. Reading(1)' => Reading(1)
      BY <2>5 DEF Reader, ReaderReads, ReaderUnexpectedClose, ReaderSilentReturn, ReaderPush,
         ReaderDelivers, ReaderSkips, ReaderExit, Reading
    <3>2. UNCHANGED <<rc, conn, ustop, respClosed>>
      BY <2>5, Zenon DEF Reader, ReaderReads, ReaderUnexpectedClose, ReaderSilentReturn, ReaderPush,
         ReaderDelivers, ReaderSkips, ReaderExit
    <3> QED
      BY <3>1, <3>2, Zenon DEF ClosedInv
  <2>6. ASSUME NEW d \in Dials, Writer(d) \/ WriterUnticked(d)
        PROVE  ClosedInv'
    BY <2>6 DEF Writer, WriterUnticked, WriterRecv, WriterWriteOK, WriterWriteFails,
       WriterPingFails, WriterPush, WriterRequeue, WriterReadQuit, WriterQuit, WriterExit,
       ClosedInv, Reading
  <2>7. ASSUME NEW r \in Requests, Send(r) \/ SendCtxDone(r)
        PROVE  ClosedInv'
    BY <2>7 DEF Send, SendCtxDone, ClosedInv, Reading
  <2> QED
    BY <2>1, <2>2, <2>3, <2>4, <2>5, <2>6, <2>7, Zenon DEF Next, Reconnector
<1>3. ClosedInv => ClosedAfterFirstReader
  BY Zenon DEF ClosedInv, ClosedAfterFirstReader
<1> QED
  BY InductiveInvariant, <1>1, <1>2, <1>3, PTL DEF Spec

\* The connection is only replaced when no routine of the old one is running.
THEOREM ConnReplacedWhenQuietHolds == Spec => ConnReplacedWhenQuiet
<1>1. ASSUME IInv, [Next]_vars, conn' # conn
      PROVE  \A d \in Dials : ~Reading(d) /\ ~Writing(d)
  <2>1. DialOK
    BY <1>1, Zenon DEF Next, Writer, WriterUnticked, Reader, Reconnector, vars, netVars, rwVars,
       chanVars, rcVars, stopVars, sendVars, LinkFails, Send, SendCtxDone, Stop, StopWaited, StopClose, RcRecv,
       RcQuit, RcWaited, DialFails, Drain, BacklogTake, ResendOK, ResendFails, BacklogPush,
       BacklogRequeue, StartReadWriteRoutines, RcStop, RcStopWaited, RcStopClose, WriterRecv,
       WriterWriteOK, WriterWriteFails, WriterPingFails, WriterPush, WriterRequeue,
       WriterReadQuit, WriterQuit, WriterExit, ReaderReads, ReaderUnexpectedClose,
       ReaderSilentReturn, ReaderPush, ReaderDelivers, ReaderSkips, ReaderExit
  <2> QED
    BY <1>1, <2>1, Zenon DEF DialOK, IInv, RoutinesInv, Alone
<1>2. IInv /\ [Next]_vars
      => [conn' # conn => \A d \in Dials : ~Reading(d) /\ ~Writing(d)]_vars
  BY <1>1, Zenon
<1> QED
  BY InductiveInvariant, <1>2, PTL DEF Spec, ConnReplacedWhenQuiet

-----------------------------------------------------------------------------
(* WSClient implements RequestPipe.                                        *)

\* InFlightRequest is the one request that is accepted and not yet written.
LEMMA PipeSlot ==
    ASSUME IInv
    PROVE  /\ \A d \in Dials : held[d] # None => InFlightRequest = held[d]
           /\ pending # None => InFlightRequest = pending
           /\ rc \in Alone /\ backlog = None /\ pending = None => InFlightRequest = None
<1>1. rc \in Alone => held[conn] = None
  BY Zenon DEF IInv, RoutinesInv, HolderInv, Writing
<1> QED
  BY <1>1, OneHolder, Zenon DEF InFlightRequest

\* A step that leaves the request and its holders alone is a stutter of the pipe.
LEMMA PipeQuiet ==
    ASSUME UNCHANGED <<conn, backlog, pending, held, phase, written>>
    PROVE  UNCHANGED Pipe!vars
BY Zenon DEF Pipe!vars, InFlightRequest

\* Every step of the client is a step or a stutter of the pipe.
LEMMA PipeStep ==
    ASSUME IInv, [Next]_vars
    PROVE  [Pipe!Next]_(Pipe!vars)
<1> USE WSClientAssumption DEF netVars, rwVars, chanVars, rcVars, stopVars, sendVars
<1>1. CASE UNCHANGED vars
  BY <1>1, PipeQuiet, Zenon DEF vars
<1>2. CASE LinkFails \/ Stop \/ StopWaited \/ StopClose
  BY <1>2, PipeQuiet, Zenon DEF LinkFails, Stop, StopWaited, StopClose
<1>3. CASE RcRecv \/ RcQuit \/ RcWaited \/ DialFails \/ Drain
  BY <1>3, PipeQuiet, Zenon DEF RcRecv, RcQuit, RcWaited, DialFails, Drain
<1>4. CASE ResendFails \/ BacklogPush \/ StartReadWriteRoutines
  BY <1>4, PipeQuiet, Zenon DEF ResendFails, BacklogPush, StartReadWriteRoutines
<1>5. CASE RcStop \/ RcStopWaited \/ RcStopClose
  BY <1>5, PipeQuiet, Zenon DEF RcStop, RcStopWaited, RcStopClose
<1>6. ASSUME NEW d \in Dials, Reader(d)
      PROVE  UNCHANGED Pipe!vars
  BY <1>6, PipeQuiet, Zenon DEF Reader, ReaderReads, ReaderUnexpectedClose, ReaderSilentReturn,
     ReaderPush, ReaderDelivers, ReaderSkips, ReaderExit
<1>7. ASSUME NEW d \in Dials,
             WriterWriteFails(d) \/ WriterPingFails(d) \/ WriterPush(d)
                \/ WriterReadQuit(d) \/ WriterQuit(d) \/ WriterExit(d)
      PROVE  UNCHANGED Pipe!vars
  BY <1>7, PipeQuiet, Zenon DEF WriterWriteFails, WriterPingFails, WriterPush, WriterReadQuit,
     WriterQuit, WriterExit
<1>8. CASE DialOK
  <2>1. held[conn] = None /\ held[conn + 1] = None /\ conn + 1 \in Dials
    BY <1>8 DEF DialOK, IInv, TypeOK, Dials, RoutinesInv, HolderInv, Alone, Writing
  <2> QED
    BY <1>8, <2>1, Zenon DEF DialOK, Pipe!vars, InFlightRequest
<1>9. ASSUME NEW r \in Requests, Send(r)
      PROVE  Pipe!Offer(r)
  BY <1>9, Zenon DEF Send, Pipe!Offer, InFlightRequest
<1>10. ASSUME NEW r \in Requests, SendCtxDone(r)
       PROVE  Pipe!GiveUp(r)
  BY <1>10, Zenon DEF SendCtxDone, Pipe!GiveUp, InFlightRequest
<1>11. ASSUME NEW d \in Dials, NEW r \in Requests, WriterRecv(d, r)
       PROVE  Pipe!Accept(r)
  <2>1. d = conn /\ held[conn] = None /\ backlog = None /\ pending = None
    BY <1>11, Zenon DEF WriterRecv, IInv, TypeOK, RoutinesInv, HolderInv, Alone, Writing
  <2>2. held'[conn'] = r
    BY <1>11, <2>1, Zenon DEF WriterRecv, IInv, TypeOK
  <2> QED
    BY <1>11, <2>1, <2>2, Zenon DEF WriterRecv, Pipe!Accept, InFlightRequest
<1>12. ASSUME NEW d \in Dials, WriterWriteOK(d)
       PROVE  Pipe!PassOn
  <2>1. d = conn /\ held[d] # None /\ backlog = None /\ pending = None
    BY <1>12, OneHolder, Zenon DEF WriterWriteOK, IInv, RoutinesInv, HolderInv, Writing
  <2>2. held'[conn'] = None
    BY <1>12, <2>1, Zenon DEF WriterWriteOK, IInv, TypeOK
  <2> QED
    BY <1>12, <2>1, <2>2, PipeSlot, Zenon DEF WriterWriteOK, Pipe!PassOn, InFlightRequest
<1>13. ASSUME NEW d \in Dials, WriterRequeue(d)
       PROVE  UNCHANGED Pipe!vars
  <2>1. d = conn /\ held[d] # None
    BY <1>13, Zenon DEF WriterRequeue, IInv, RoutinesInv, HolderInv, Writing
  <2> QED
    BY <1>13, <2>1, PipeSlot, Zenon DEF WriterRequeue, Pipe!vars, InFlightRequest
<1>14. CASE BacklogTake
  <2>1. pending = None /\ held[conn] = None
    BY <1>14, Zenon DEF BacklogTake, IInv, RoutinesInv, HolderInv, Alone, Writing
  <2> QED
    BY <1>14, <2>1, Zenon DEF BacklogTake, Pipe!vars, InFlightRequest
<1>15. CASE ResendOK
  <2>1. pending # None /\ backlog = None /\ held[conn] = None
    BY <1>15, OneHolder, Zenon DEF ResendOK, IInv, HolderInv
  <2> QED
    BY <1>15, <2>1, Zenon DEF ResendOK, Pipe!PassOn, Pipe!Next, InFlightRequest
<1>16. CASE BacklogRequeue
  <2>1. pending # None
    BY <1>16, Zenon DEF BacklogRequeue, IInv, HolderInv
  <2> QED
    BY <1>16, <2>1, Zenon DEF BacklogRequeue, Pipe!vars, InFlightRequest
<1> QED
  BY <1>1, <1>2, <1>3, <1>4, <1>5, <1>6, <1>7, <1>8, <1>9, <1>10, <1>11, <1>12, <1>13, <1>14,
     <1>15, <1>16, Zenon
  DEF Next, Writer, WriterUnticked, Reconnector, Pipe!Next

\* WSClient implements the one-place pipe: requests reach the network in the
\* order Send accepted them, once each, across any number of reconnections.
THEOREM ImplementsPipe == Spec => PipeSpec
<1>1. Init => Pipe!Init
  <2> SUFFICES ASSUME Init PROVE Pipe!Init
    OBVIOUS
  <2>1. InFlightRequest = None
    BY WSClientAssumption DEF Init, InFlightRequest, Dials
  <2> QED
    BY <2>1, Zenon DEF Init, Pipe!Init
<1>2. IInv /\ [Next]_vars => [Pipe!Next]_(Pipe!vars)
  BY PipeStep, Zenon
<1> QED
  BY InductiveInvariant, <1>1, <1>2, PTL DEF Spec, PipeSpec, Pipe!Spec

=============================================================================
