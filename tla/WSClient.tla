------------------------------ MODULE WSClient ------------------------------
(***************************************************************************)
(* The WebSocket client of client/rpc/ws_client.go: one connection, the    *)
(* goroutines that read it, write it and replace it, the channels between  *)
(* them, and the WaitGroup that keeps a connection's goroutines apart from *)
(* those of the next one.                                                  *)
(*                                                                         *)
(* Every successful dial gets a number; rd[d] and wr[d] are the            *)
(* readRoutine and writeRoutine that startReadWriteRoutines launched while *)
(* dial d was the current connection.  As in the code they use c.conn, the *)
(* CURRENT connection, whatever their own number.                          *)
(*                                                                         *)
(* A blocking channel operation is an action whose guard is the channel    *)
(* being ready.  Logging, deadlines and payloads are left out.             *)
(***************************************************************************)
EXTENDS Naturals, Sequences

CONSTANTS
    Requests,               \* the requests that callers may pass to Send
    None,                   \* "no request"
    MaxDials,               \* bound: the server is unreachable after that many dials
    MaxReconnectAttempts,   \* maxReconnectAttempts
    Pings                   \* TRUE iff pingPeriod > 0

ASSUME WSClientAssumption ==
    /\ None \notin Requests
    /\ MaxDials \in Nat \ {0}
    /\ MaxReconnectAttempts \in Nat
    /\ Pings \in BOOLEAN

Dials == 1..MaxDials

VARIABLES
    stopped,          \* BaseService.stopped, and its quit channel is closed
    ustop,            \* where a user's Stop() is
    conn,             \* c.conn: the number of the last successful dial
    link,             \* state of each connection
    rd,               \* where each readRoutine is
    wr,               \* where each writeRoutine is
    held,             \* writeRoutine's local variable request
    wg,               \* c.wg
    readRoutineQuit,  \* TRUE iff c.readRoutineQuit is closed
    reconnectAfter,   \* number of errors buffered in c.reconnectAfter
    backlog,          \* the request buffered in c.backlog, or None
    rc,               \* where reconnectRoutine is
    attempt,          \* reconnect's local variable attempt
    pending,          \* processBacklog's local variable request
    respClosed,       \* c.ResponsesCh is closed
    phase,            \* how far each Send got
    written           \* the requests written to a connection, in order

netVars  == <<conn, link>>
rwVars   == <<rd, wr, held, wg, readRoutineQuit>>
chanVars == <<reconnectAfter, backlog>>
rcVars   == <<rc, attempt, pending>>
stopVars == <<stopped, ustop, respClosed>>
sendVars == <<phase, written>>
vars     == <<netVars, rwVars, chanVars, rcVars, stopVars, sendVars>>

ReadPCs  == {"none", "read", "deliver", "push", "exit", "done",
             "sendOnClosed", "closeOfClosed"}
WritePCs == {"none", "select", "write", "push", "requeue", "exit", "done"}
RcPCs    == {"select", "wait", "dial", "drain", "backlog", "resend", "bpush",
             "bqueue", "start", "stop", "stopwait", "stopclose", "done"}

\* The state OnStart leaves behind: dialled, channels made, goroutines started.
Init ==
    /\ stopped = FALSE
    /\ ustop = "no"
    /\ conn = 1
    /\ link = [d \in Dials |-> IF d = 1 THEN "open" ELSE "none"]
    /\ rd = [d \in Dials |-> IF d = 1 THEN "read" ELSE "none"]
    /\ wr = [d \in Dials |-> IF d = 1 THEN "select" ELSE "none"]
    /\ held = [d \in Dials |-> None]
    /\ wg = 2
    /\ readRoutineQuit = FALSE
    /\ reconnectAfter = 0
    /\ backlog = None
    /\ rc = "select"
    /\ attempt = 0
    /\ pending = None
    /\ respClosed = FALSE
    /\ phase = [r \in Requests |-> "new"]
    /\ written = <<>>

-----------------------------------------------------------------------------
(* The network.  A failed connection is one that the peer closed, that the *)
(* transport lost or whose write deadline passed: reads and writes may     *)
(* report it, or be served from a buffer once more.                        *)

LinkFails ==
    /\ link[conn] = "open"
    /\ link' = [link EXCEPT ![conn] = "failed"]
    /\ UNCHANGED <<conn, rwVars, chanVars, rcVars, stopVars, sendVars>>

WriteCanSucceed == link[conn] \in {"open", "failed"}
WriteCanFail    == link[conn] \in {"failed", "closed"}

-----------------------------------------------------------------------------
(* Callers of Send: offer the request on c.send or give up on ctx.Done.    *)

Send(r) ==
    /\ phase[r] = "new"
    /\ phase' = [phase EXCEPT ![r] = "sending"]
    /\ UNCHANGED <<netVars, rwVars, chanVars, rcVars, stopVars, written>>

SendCtxDone(r) ==
    /\ phase[r] = "sending"
    /\ phase' = [phase EXCEPT ![r] = "cancelled"]
    /\ UNCHANGED <<netVars, rwVars, chanVars, rcVars, stopVars, written>>

-----------------------------------------------------------------------------
(* writeRoutine.  Its select takes a request, a ping tick, the reader's    *)
(* quit signal or the service's.                                           *)

WriterRecv(d, r) ==
    /\ wr[d] = "select"
    /\ phase[r] = "sending"
    /\ phase' = [phase EXCEPT ![r] = "accepted"]
    /\ held' = [held EXCEPT ![d] = r]
    /\ wr' = [wr EXCEPT ![d] = "write"]
    /\ UNCHANGED <<netVars, rd, wg, readRoutineQuit, chanVars, rcVars, stopVars, written>>

WriterWriteOK(d) ==
    /\ wr[d] = "write"
    /\ WriteCanSucceed
    /\ written' = Append(written, held[d])
    /\ held' = [held EXCEPT ![d] = None]
    /\ wr' = [wr EXCEPT ![d] = "select"]
    /\ UNCHANGED <<netVars, rd, wg, readRoutineQuit, chanVars, rcVars, stopVars, phase>>

WriterWriteFails(d) ==
    /\ wr[d] = "write"
    /\ WriteCanFail
    /\ wr' = [wr EXCEPT ![d] = "push"]
    /\ UNCHANGED <<netVars, rd, held, wg, readRoutineQuit, chanVars, rcVars, stopVars, sendVars>>

WriterPingFails(d) ==
    /\ Pings
    /\ wr[d] = "select"
    /\ WriteCanFail
    /\ wr' = [wr EXCEPT ![d] = "push"]
    /\ UNCHANGED <<netVars, rd, held, wg, readRoutineQuit, chanVars, rcVars, stopVars, sendVars>>

\* Mutant: the writer returns without reporting the error.
WriterPushSilent(d) ==
    /\ wr[d] = "push"
    /\ wr' = [wr EXCEPT ![d] = IF held[d] = None THEN "exit" ELSE "requeue"]
    /\ UNCHANGED <<netVars, rd, held, wg, readRoutineQuit, chanVars, rcVars, stopVars, sendVars>>

\* reconnectAfter <- err; after a ping there is no request to requeue.
WriterPush(d) ==
    /\ wr[d] = "push"
    /\ reconnectAfter < 1
    /\ reconnectAfter' = reconnectAfter + 1
    /\ wr' = [wr EXCEPT ![d] = IF held[d] = None THEN "exit" ELSE "requeue"]
    /\ UNCHANGED <<netVars, rd, held, wg, readRoutineQuit, backlog, rcVars, stopVars, sendVars>>

WriterRequeue(d) ==
    /\ wr[d] = "requeue"
    /\ backlog = None
    /\ backlog' = held[d]
    /\ held' = [held EXCEPT ![d] = None]
    /\ wr' = [wr EXCEPT ![d] = "exit"]
    /\ UNCHANGED <<netVars, rd, wg, readRoutineQuit, reconnectAfter, rcVars, stopVars, sendVars>>

WriterReadQuit(d) ==
    /\ wr[d] = "select"
    /\ readRoutineQuit
    /\ wr' = [wr EXCEPT ![d] = "exit"]
    /\ UNCHANGED <<netVars, rd, held, wg, readRoutineQuit, chanVars, rcVars, stopVars, sendVars>>

WriterQuit(d) ==
    /\ wr[d] = "select"
    /\ stopped
    /\ wr' = [wr EXCEPT ![d] = "exit"]
    /\ UNCHANGED <<netVars, rd, held, wg, readRoutineQuit, chanVars, rcVars, stopVars, sendVars>>

\* The deferred function: close c.conn, then c.wg.Done().
WriterExit(d) ==
    /\ wr[d] = "exit"
    /\ link' = [link EXCEPT ![conn] = "closed"]
    /\ wg' = wg - 1
    /\ wr' = [wr EXCEPT ![d] = "done"]
    /\ UNCHANGED <<conn, rd, held, readRoutineQuit, chanVars, rcVars, stopVars, sendVars>>

\* What the writer does without its ticker.
WriterUnticked(d) ==
    \/ \E r \in Requests : WriterRecv(d, r)
    \/ WriterWriteOK(d) \/ WriterWriteFails(d)
    \/ WriterPush(d) \/ WriterRequeue(d)
    \/ WriterReadQuit(d) \/ WriterQuit(d) \/ WriterExit(d)

Writer(d) == WriterUnticked(d) \/ WriterPingFails(d)

-----------------------------------------------------------------------------
(* readRoutine.  A message that does not parse leaves the reader where it  *)
(* is (line 905) and is not an action of its own.                          *)

ReaderReads(d) ==
    /\ rd[d] = "read"
    /\ link[conn] \in {"open", "failed"}
    /\ rd' = [rd EXCEPT ![d] = "deliver"]
    /\ UNCHANGED <<netVars, wr, held, wg, readRoutineQuit, chanVars, rcVars, stopVars, sendVars>>

\* Mutant: readRoutineQuit is not closed.
ReaderUnexpectedCloseKeepsWriter(d) ==
    /\ rd[d] = "read"
    /\ link[conn] = "failed"
    /\ rd' = [rd EXCEPT ![d] = "push"]
    /\ UNCHANGED <<netVars, wr, held, wg, readRoutineQuit, chanVars, rcVars, stopVars, sendVars>>

\* A close frame other than CloseNormalClosure, or EOF: IsUnexpectedCloseError.
ReaderUnexpectedClose(d) ==
    /\ rd[d] = "read"
    /\ link[conn] = "failed"
    /\ readRoutineQuit' = TRUE
    /\ rd' = [rd EXCEPT ![d] = IF readRoutineQuit THEN "closeOfClosed" ELSE "push"]
    /\ UNCHANGED <<netVars, wr, held, wg, chanVars, rcVars, stopVars, sendVars>>

\* CloseNormalClosure, or any error that is not a close frame (a reset, a
\* deadline, a connection closed on this side): the reader just returns.
ReaderSilentReturn(d) ==
    /\ rd[d] = "read"
    /\ link[conn] \in {"failed", "closed"}
    /\ rd' = [rd EXCEPT ![d] = "exit"]
    /\ UNCHANGED <<netVars, wr, held, wg, readRoutineQuit, chanVars, rcVars, stopVars, sendVars>>

ReaderPush(d) ==
    /\ rd[d] = "push"
    /\ reconnectAfter < 1
    /\ reconnectAfter' = reconnectAfter + 1
    /\ rd' = [rd EXCEPT ![d] = "exit"]
    /\ UNCHANGED <<netVars, wr, held, wg, readRoutineQuit, backlog, rcVars, stopVars, sendVars>>

\* select { case <-c.Quit(): case c.ResponsesCh <- response: }.  Whoever
\* receives from ResponsesCh takes the response; on a closed channel the
\* send case is ready too, and panics.
ReaderDelivers(d) ==
    /\ rd[d] = "deliver"
    /\ rd' = [rd EXCEPT ![d] = IF respClosed THEN "sendOnClosed" ELSE "read"]
    /\ UNCHANGED <<netVars, wr, held, wg, readRoutineQuit, chanVars, rcVars, stopVars, sendVars>>

ReaderSkips(d) ==
    /\ rd[d] = "deliver"
    /\ stopped
    /\ rd' = [rd EXCEPT ![d] = "read"]
    /\ UNCHANGED <<netVars, wr, held, wg, readRoutineQuit, chanVars, rcVars, stopVars, sendVars>>

ReaderExit(d) ==
    /\ rd[d] = "exit"
    /\ link' = [link EXCEPT ![conn] = "closed"]
    /\ wg' = wg - 1
    /\ rd' = [rd EXCEPT ![d] = "done"]
    /\ UNCHANGED <<conn, wr, held, readRoutineQuit, chanVars, rcVars, stopVars, sendVars>>

Reader(d) ==
    \/ ReaderReads(d) \/ ReaderUnexpectedClose(d) \/ ReaderSilentReturn(d)
    \/ ReaderPush(d) \/ ReaderDelivers(d) \/ ReaderSkips(d) \/ ReaderExit(d)

-----------------------------------------------------------------------------
(* reconnectRoutine with reconnect and processBacklog.  reconnecting is    *)
(* TRUE exactly while rc is "dial".                                        *)

\* Mutant: nobody waits for the routines.
WaitedNot == TRUE

\* c.wg.Wait() returns.
Waited == wg = 0

RcRecv ==
    /\ rc = "select"
    /\ reconnectAfter > 0
    /\ reconnectAfter' = reconnectAfter - 1
    /\ rc' = "wait"
    /\ UNCHANGED <<netVars, rwVars, backlog, attempt, pending, stopVars, sendVars>>

RcQuit ==
    /\ rc = "select"
    /\ stopped
    /\ rc' = "done"
    /\ UNCHANGED <<netVars, rwVars, chanVars, attempt, pending, stopVars, sendVars>>

\* Mutant: reconnectRoutine does not wait for the writer.
RcWaitedForReader ==
    /\ rc = "wait"
    /\ wg <= 1
    /\ rc' = "dial"
    /\ attempt' = 0
    /\ UNCHANGED <<netVars, rwVars, chanVars, pending, stopVars, sendVars>>

RcWaited ==
    /\ rc = "wait"
    /\ Waited
    /\ rc' = "dial"
    /\ attempt' = 0
    /\ UNCHANGED <<netVars, rwVars, chanVars, pending, stopVars, sendVars>>

DialOK ==
    /\ rc = "dial"
    /\ conn < MaxDials
    /\ conn' = conn + 1
    /\ link' = [link EXCEPT ![conn + 1] = "open"]
    /\ rc' = "drain"
    /\ UNCHANGED <<rwVars, chanVars, attempt, pending, stopVars, sendVars>>

DialFails ==
    /\ rc = "dial"
    /\ attempt' = attempt + 1
    /\ rc' = IF attempt + 1 > MaxReconnectAttempts THEN "stop" ELSE "dial"
    /\ UNCHANGED <<netVars, rwVars, chanVars, pending, stopVars, sendVars>>

\* Mutant: reconnectAfter is not drained.
DrainNothing ==
    /\ rc = "drain"
    /\ rc' = "backlog"
    /\ UNCHANGED <<netVars, rwVars, chanVars, attempt, pending, stopVars, sendVars>>

\* for { select { case <-c.reconnectAfter: default: break LOOP } }
Drain ==
    /\ rc = "drain"
    /\ reconnectAfter' = 0
    /\ rc' = "backlog"
    /\ UNCHANGED <<netVars, rwVars, backlog, attempt, pending, stopVars, sendVars>>

\* Mutant: the request is read from the backlog but stays there.
BacklogTakePeek ==
    /\ rc = "backlog"
    /\ pending' = backlog
    /\ rc' = IF backlog = None THEN "start" ELSE "resend"
    /\ UNCHANGED <<netVars, rwVars, chanVars, attempt, stopVars, sendVars>>

\* Mutant: new routines start before the backlog is resent.
BacklogTakeLater ==
    /\ rc = "backlog"
    /\ rc' = "start"
    /\ UNCHANGED <<netVars, rwVars, chanVars, attempt, pending, stopVars, sendVars>>

BacklogTake ==
    /\ rc = "backlog"
    /\ pending' = backlog
    /\ backlog' = None
    /\ rc' = IF backlog = None THEN "start" ELSE "resend"
    /\ UNCHANGED <<netVars, rwVars, reconnectAfter, attempt, stopVars, sendVars>>

ResendOK ==
    /\ rc = "resend"
    /\ WriteCanSucceed
    /\ written' = Append(written, pending)
    /\ pending' = None
    /\ rc' = "start"
    /\ UNCHANGED <<netVars, rwVars, chanVars, attempt, stopVars, phase>>

\* Mutant: a failed resend is not reported and not requeued.
ResendFailsSilent ==
    /\ rc = "resend"
    /\ WriteCanFail
    /\ rc' = "select"
    /\ UNCHANGED <<netVars, rwVars, chanVars, attempt, pending, stopVars, sendVars>>

ResendFails ==
    /\ rc = "resend"
    /\ WriteCanFail
    /\ rc' = "bpush"
    /\ UNCHANGED <<netVars, rwVars, chanVars, attempt, pending, stopVars, sendVars>>

BacklogPush ==
    /\ rc = "bpush"
    /\ reconnectAfter < 1
    /\ reconnectAfter' = reconnectAfter + 1
    /\ rc' = "bqueue"
    /\ UNCHANGED <<netVars, rwVars, backlog, attempt, pending, stopVars, sendVars>>

BacklogRequeue ==
    /\ rc = "bqueue"
    /\ backlog = None
    /\ backlog' = pending
    /\ pending' = None
    /\ rc' = "select"
    /\ UNCHANGED <<netVars, rwVars, reconnectAfter, attempt, stopVars, sendVars>>

\* Mutant: the new routines share the old readRoutineQuit.
StartSharedQuit ==
    /\ rc = "start"
    /\ wg' = wg + 2
    /\ rd' = [rd EXCEPT ![conn] = "read"]
    /\ wr' = [wr EXCEPT ![conn] = "select"]
    /\ rc' = "select"
    /\ UNCHANGED <<netVars, held, readRoutineQuit, chanVars, attempt, pending, stopVars, sendVars>>

StartReadWriteRoutines ==
    /\ rc = "start"
    /\ wg' = wg + 2
    /\ readRoutineQuit' = FALSE
    /\ rd' = [rd EXCEPT ![conn] = "read"]
    /\ wr' = [wr EXCEPT ![conn] = "select"]
    /\ rc' = "select"
    /\ UNCHANGED <<netVars, held, chanVars, attempt, pending, stopVars, sendVars>>

-----------------------------------------------------------------------------
(* Stop, called by a user and by reconnectRoutine after the last attempt.  *)
(* Only the first call gets past BaseService.Stop.                         *)

RcStop ==
    /\ rc = "stop"
    /\ rc' = IF stopped THEN "done" ELSE "stopwait"
    /\ stopped' = TRUE
    /\ UNCHANGED <<netVars, rwVars, chanVars, attempt, pending, ustop, respClosed, sendVars>>

RcStopWaited ==
    /\ rc = "stopwait"
    /\ Waited
    /\ rc' = "stopclose"
    /\ UNCHANGED <<netVars, rwVars, chanVars, attempt, pending, stopVars, sendVars>>

RcStopClose ==
    /\ rc = "stopclose"
    /\ respClosed' = TRUE
    /\ rc' = "done"
    /\ UNCHANGED <<netVars, rwVars, chanVars, attempt, pending, stopped, ustop, sendVars>>

Reconnector ==
    \/ RcRecv \/ RcQuit \/ RcWaited \/ DialOK \/ DialFails \/ Drain
    \/ BacklogTake \/ ResendOK \/ ResendFails \/ BacklogPush \/ BacklogRequeue
    \/ StartReadWriteRoutines \/ RcStop \/ RcStopWaited \/ RcStopClose

Stop ==
    /\ ustop = "no"
    /\ ustop' = IF stopped THEN "done" ELSE "wait"
    /\ stopped' = TRUE
    /\ UNCHANGED <<netVars, rwVars, chanVars, rcVars, respClosed, sendVars>>

StopWaited ==
    /\ ustop = "wait"
    /\ Waited
    /\ ustop' = "close"
    /\ UNCHANGED <<netVars, rwVars, chanVars, rcVars, stopped, respClosed, sendVars>>

StopClose ==
    /\ ustop = "close"
    /\ respClosed' = TRUE
    /\ ustop' = "done"
    /\ UNCHANGED <<netVars, rwVars, chanVars, rcVars, stopped, sendVars>>

-----------------------------------------------------------------------------
\* A panic ends the process.
Panicked == \E d \in Dials : rd[d] \in {"sendOnClosed", "closeOfClosed"}

Next ==
    /\ ~Panicked
    /\ \/ LinkFails
       \/ \E r \in Requests : Send(r) \/ SendCtxDone(r)
       \/ \E d \in Dials : Writer(d) \/ Reader(d)
       \/ Reconnector
       \/ Stop \/ StopWaited \/ StopClose

Spec == Init /\ [][Next]_vars

(***************************************************************************)
(* The Go scheduler runs every goroutine that can take a step.  Callers    *)
(* need not send, cancel or stop, the network need not fail; a response    *)
(* offered on ResponsesCh is received (eventListener's loop).  Pings are   *)
(* never relied on: defaultPingPeriod is 0 (:37), which means none.        *)
(***************************************************************************)
Fairness ==
    /\ \A d \in Dials : WF_vars(~Panicked /\ WriterUnticked(d)) /\ WF_vars(~Panicked /\ Reader(d))
    /\ WF_vars(~Panicked /\ Reconnector)
    /\ WF_vars(~Panicked /\ (StopWaited \/ StopClose))

FairSpec == Spec /\ Fairness

-----------------------------------------------------------------------------
(* Properties                                                              *)

\* Every variable holds a value the Go declarations allow.
TypeOK ==
    /\ stopped \in BOOLEAN
    /\ ustop \in {"no", "wait", "close", "done"}
    /\ conn \in Dials
    /\ link \in [Dials -> {"none", "open", "failed", "closed"}]
    /\ rd \in [Dials -> ReadPCs]
    /\ wr \in [Dials -> WritePCs]
    /\ held \in [Dials -> Requests \cup {None}]
    /\ wg \in Nat
    /\ readRoutineQuit \in BOOLEAN
    /\ reconnectAfter \in 0..1
    /\ backlog \in Requests \cup {None}
    /\ rc \in RcPCs
    /\ attempt \in Nat
    /\ pending \in Requests \cup {None}
    /\ respClosed \in BOOLEAN
    /\ phase \in [Requests -> {"new", "sending", "cancelled", "accepted"}]
    /\ written \in Seq(Requests)

Reading(d) == rd[d] \notin {"none", "done"}
Writing(d) == wr[d] \notin {"none", "done"}

\* "The client ensures that there is at most one writer to a connection" and
\* "at most one reader to a connection" (ws_client.go:808, :874): whatever
\* fails and however often the client reconnects, the only goroutines alive
\* are those started for the connection they are using.
OneReaderOneWriter ==
    \A d \in Dials : Reading(d) \/ Writing(d) => d = conn

InFlight(r) == backlog = r \/ pending = r \/ \E d \in Dials : held[d] = r
WasWritten(r) == \E i \in 1..Len(written) : written[i] = r

\* Once Send has returned nil the request is never lost ("add request to the
\* backlog, so we don't lose it", :841): it has been written, or exactly one of
\* writeRoutine, the backlog channel and processBacklog still holds it.
AcceptedIsTracked ==
    \A r \in Requests :
        /\ phase[r] = "accepted" <=> InFlight(r) \/ WasWritten(r)
        /\ ~(InFlight(r) /\ WasWritten(r))

\* The accepted request that has not been written: there is only one.
InFlightRequest ==
    IF backlog # None THEN backlog
    ELSE IF pending # None THEN pending ELSE held[conn]

Pipe == INSTANCE RequestPipe WITH slot <- InFlightRequest, log <- written

\* WSClient implements the one-place pipe: through any number of failed
\* connections Send's requests reach the network once each, in the order Send
\* accepted them, and the next one is only accepted after the last was written
\* (writeRoutine, processBacklog and the backlog channel, :753-772, :832-844).
PipeSpec == Pipe!Spec

\* "capacity for 1 request" (:608): the backlog channel is empty whenever
\* writeRoutine or processBacklog puts a failed request into it, so neither
\* blocks there holding the WaitGroup or the only receiver of reconnectAfter.
RequeueNeverBlocks ==
    /\ \A d \in Dials : wr[d] = "requeue" => backlog = None
    /\ rc = "bqueue" => backlog = None

PushBlocked ==
    /\ reconnectAfter = 1
    /\ rc = "bpush" \/ \E d \in Dials : rd[d] = "push" \/ wr[d] = "push"

\* Until the client is stopped, a goroutine that finds reconnectAfter full is
\* only waiting for reconnectRoutine's select (:777): the reader's and the
\* writer's error of one connection never wedge the WaitGroup, and
\* processBacklog never waits on itself.
ReconnectRequestsAreTaken == PushBlocked => rc = "select" \/ stopped

\* readRoutineQuit is closed at most once per pair of routines (:896): no
\* "close of closed channel" panic.
QuitChannelClosedOnce == \A d \in Dials : rd[d] # "closeOfClosed"

\* dial() replaces c.conn (:702) only after both routines of the old
\* connection returned, so no goroutine changes connection half way.
ConnReplacedWhenQuiet ==
    [][conn' # conn => \A d \in Dials : ~Reading(d) /\ ~Writing(d)]_vars

\* A caller blocked in Send (:647) gets through or gives up, unless the client
\* stops: a dead reader, a full backlog or a reconnection never strands it.
SendReturns ==
    \A r \in Requests : phase[r] = "sending" ~> (phase[r] # "sending" \/ stopped)

\* A request Send accepted reaches a connection unless the client stops, no
\* matter how many connections fail under it (:838-842, :761-766).
AcceptedIsWritten ==
    \A r \in Requests : phase[r] = "accepted" ~> (WasWritten(r) \/ stopped)

\* An unexpected close seen by readRoutine (:895) leads to a new connection or
\* to the end of the client; the writer never keeps the old one alive.
UnexpectedCloseReconnects ==
    \A d \in Dials : rd[d] = "push" ~> (conn > d \/ stopped)

\* "only close user-facing channels when we can't write to them" (:624): Stop never
\* closes ResponsesCh under the readRoutine that OnStart began.  It may do so under
\* a later one, which a reconnection starts after Stop found the WaitGroup at zero.
ClosedAfterFirstReader == respClosed \/ ustop = "close" => ~Reading(1)

-----------------------------------------------------------------------------
(* The inductive invariant behind the safety properties above.             *)

\* reconnectRoutine is past wg.Wait() and has not yet started new routines.
Alone == {"dial", "drain", "backlog", "resend", "bpush", "bqueue", "start",
          "stop", "stopwait", "stopclose"}

Count(b) == IF b THEN 1 ELSE 0

\* The WaitGroup counts the live routines of the current connection, and
\* reconnectRoutine is alone between its wg.Wait() and startReadWriteRoutines.
RoutinesInv ==
    /\ \A d \in Dials : d # conn => ~Reading(d) /\ ~Writing(d) /\ held[d] = None
    /\ wg = Count(Reading(conn)) + Count(Writing(conn))
    /\ rc \in Alone => ~Reading(conn) /\ ~Writing(conn)

\* Who holds the request in flight, by program counter.
HolderInv ==
    /\ wr[conn] \in {"write", "requeue"} => held[conn] # None
    /\ held[conn] # None => wr[conn] \in {"write", "push", "requeue"}
    /\ pending # None <=> rc \in {"resend", "bpush", "bqueue"}
    /\ backlog # None => /\ wr[conn] \in {"none", "exit", "done"}
                         /\ rc \notin {"resend", "bpush", "bqueue", "start"}

\* The errors that can still arrive fit: at most one of the two is buffered
\* once reconnectRoutine has taken the other.
MayPush == Count(rd[conn] \in {"read", "deliver", "push"})
           + Count(wr[conn] \in {"select", "write", "push"})

SignalInv ==
    /\ rc = "select" => reconnectAfter + MayPush <= 2
    /\ rc = "wait" => reconnectAfter + MayPush <= 1
    /\ rc \in {"backlog", "resend", "bpush", "start"} => reconnectAfter = 0
    /\ rc \in {"stopwait", "stopclose", "done"} => stopped
    /\ readRoutineQuit => rd[conn] \notin {"read", "deliver"}
    /\ QuitChannelClosedOnce

\* Who closes ResponsesCh has seen the first readRoutine end, and the routines
\* that a reconnection starts are those of another connection.
ClosedInv ==
    /\ rc \in {"drain", "backlog", "resend", "bpush", "bqueue", "start"} => conn > 1
    /\ respClosed \/ ustop = "close" \/ rc = "stopclose" => ~Reading(1)

\* The conjunction: true initially, preserved by every step, and it implies
\* OneReaderOneWriter, AcceptedIsTracked, RequeueNeverBlocks,
\* ReconnectRequestsAreTaken and QuitChannelClosedOnce.
IInv == TypeOK /\ RoutinesInv /\ HolderInv /\ SignalInv /\ AcceptedIsTracked

=============================================================================
