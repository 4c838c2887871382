------------------------------ MODULE WSEvents ------------------------------
(***************************************************************************)
(* WSEvents of client/rpc/ws_client.go on top of WSClient: Subscribe,      *)
(* Unsubscribe and UnsubscribeAll callers, the subscriptions map under its *)
(* RWMutex, eventListener, the goroutine that redoes the subscriptions     *)
(* after a reconnection, and SimpleCall.  Every step is a step of WSClient *)
(* together with what it does here, a step of these goroutines alone, or   *)
(* SimpleCall's own push into reconnectAfter.                              *)
(*                                                                         *)
(* The Tendermint server is external: it handles a request when it is      *)
(* written to a live connection and answers in order on that connection.   *)
(*                                                                         *)
(* responseChanMap and the request ids are left out: SimpleCall writes the *)
(* map under an id and nothing ever reads it.                              *)
(***************************************************************************)
EXTENDS Naturals, Sequences, FiniteSets

CONSTANTS
    Requests, None, MaxDials, MaxReconnectAttempts, Pings,   \* see WSClient
    Queries,       \* the queries that may be subscribed to
    Users,         \* goroutines that call Subscribe, then an Unsubscribe
    Calls,         \* goroutines that call an RPC method through SimpleCall
    Stops,         \* TRUE iff a user calls Stop in this instance
    OutCap,        \* capacity of the channels that Subscribe returns
    MaxEvents,     \* bound: events the server publishes
    MaxRefusals    \* bound: subscriptions the server refuses

VARIABLES
    stopped, ustop, conn, link, rd, wr, held, wg, readRoutineQuit, reconnectAfter,
    backlog, rc, attempt, pending, respClosed, phase, written,   \* see WSClient
    quit,            \* the quit channel of WSEvents is closed
    subscriptions,   \* query -> the user whose channel gets its events, or None
    out,             \* number of events buffered in each user's channel
    readers,         \* who holds mtx.RLock
    lockWait,        \* the user inside mtx.Lock, or None
    upc, uq,         \* where each user is, and its query
    cpc,             \* where each SimpleCall is
    redo, todo,      \* redoSubscriptionsAfter calls, and what each has left to send
    lis, lmsg,       \* where eventListener is, and the response it handles
    rmsg,            \* readRoutine's local variable response
    retries,         \* how often eventListener redid the subscriptions
    srv,             \* server: queries subscribed on the current connection
    inbox,           \* server: messages on their way to the client
    events, refusals,\* server: counters for the bounds
    owed,            \* subscriptions that the current connection must get back
    answered         \* the calls whose response eventListener got in time

C == INSTANCE WSClient

clientVars == <<stopped, ustop, conn, link, rd, wr, held, wg, readRoutineQuit, reconnectAfter,
                backlog, rc, attempt, pending, respClosed, phase, written>>
userVars   == <<subscriptions, out, readers, lockWait, upc, uq, owed>>
redoVars   == <<redo, todo>>
lisVars    == <<lis, lmsg, retries, answered>>
serverVars == <<srv, inbox, events, refusals>>
evVars     == <<quit, userVars, cpc, redoVars, lisVars, rmsg, serverVars>>
vars       == <<clientVars, evVars>>

\* One redo goroutine per dial after the first, one call per refusal.  An
\* Unsubscribe may be refused too.
Reconnects == 2..MaxDials
Retries    == (MaxDials + 1)..(MaxDials + MaxRefusals + Cardinality(Users))
Redos      == Reconnects \cup Retries
ListenerId == 0      \* eventListener as a reader of mtx

SubReq(a, q)   == [kind |-> "subscribe", by |-> a, query |-> q]
UnsubReq(u, q) == [kind |-> "unsubscribe", by |-> u, query |-> q]
UnsubAllReq(u) == [kind |-> "unsubscribe_all", by |-> u, query |-> None]
CallReq(c)     == [kind |-> "call", by |-> c, query |-> None]

RequestsOf ==
    {SubReq(a, q) : a \in Users \cup Redos, q \in Queries}
    \cup {UnsubReq(u, q) : u \in Users, q \in Queries}
    \cup {UnsubAllReq(u) : u \in Users} \cup {CallReq(c) : c \in Calls}

ASSUME WSEventsAssumption ==
    /\ Requests = RequestsOf
    /\ MaxDials \in Nat \ {0} /\ MaxReconnectAttempts \in Nat /\ Pings \in BOOLEAN
    /\ Users \cap Redos = {}
    /\ None \notin Users \cup Queries \cup Calls \cup Requests
    /\ Stops \in BOOLEAN /\ OutCap \in Nat /\ MaxEvents \in Nat /\ MaxRefusals \in Nat

NoMsg == [type |-> "none", about |-> None]

Init ==
    /\ C!Init
    /\ quit = FALSE
    /\ subscriptions = [q \in Queries |-> None]
    /\ out = [u \in Users |-> 0]
    /\ readers = {}
    /\ lockWait = None
    /\ upc = [u \in Users |-> "idle"]
    /\ uq = [u \in Users |-> None]
    /\ cpc = [c \in Calls |-> "new"]
    /\ redo = [k \in Redos |-> "none"]
    /\ todo = [k \in Redos |-> {}]
    /\ lis = "select"
    /\ lmsg = NoMsg
    /\ rmsg = NoMsg
    /\ retries = 0
    /\ srv = {}
    /\ inbox = <<>>
    /\ events = 0
    /\ refusals = 0
    /\ owed = {}
    /\ answered = {}

IsRunning == ustop = "no"

\* A user is removing q and the map may still have it.
Unsubscribing(q) ==
    \E u \in Users : upc[u] = "unsubscribe_all" \/ (upc[u] = "unsubscribe" /\ uq[u] = q)

-----------------------------------------------------------------------------
(* The server (external).                                                  *)

Reply(type, about) == inbox' = Append(inbox, [type |-> type, about |-> about])

\* The server's handling of a request that reaches it.
ServerHandles(r) ==
    \/ /\ r.kind = "subscribe" /\ r.query \notin srv
       /\ srv' = srv \cup {r.query}
       /\ Reply("ok", None)
       /\ UNCHANGED <<events, refusals>>
    \/ /\ r.kind = "subscribe" /\ r.query \notin srv
       /\ refusals < MaxRefusals
       /\ refusals' = refusals + 1
       /\ Reply("refused", None)
       /\ UNCHANGED <<srv, events>>
    \/ /\ r.kind = "subscribe" /\ r.query \in srv
       /\ Reply("already", None)
       /\ UNCHANGED <<srv, events, refusals>>
    \/ /\ r.kind = "unsubscribe"
       /\ srv' = srv \ {r.query}
       /\ Reply(IF r.query \in srv THEN "ok" ELSE "refused", None)
       /\ UNCHANGED <<events, refusals>>
    \/ /\ r.kind = "unsubscribe_all"
       /\ srv' = {}
       /\ Reply(IF srv # {} THEN "ok" ELSE "refused", None)
       /\ UNCHANGED <<events, refusals>>
    \/ /\ r.kind = "call"
       /\ Reply("answer", r.by)
       /\ UNCHANGED <<srv, events, refusals>>

\* A request written to a connection that has failed is lost.
ServerGets(r) == IF link[conn] = "open" THEN ServerHandles(r) ELSE UNCHANGED serverVars

ServerPublishes(q) ==
    /\ q \in srv /\ link[conn] = "open"
    /\ events < MaxEvents
    /\ events' = events + 1
    /\ Reply("event", q)
    /\ UNCHANGED <<clientVars, quit, userVars, cpc, redoVars, lisVars, rmsg, srv, refusals>>

-----------------------------------------------------------------------------
(* WSClient's own steps, with what they do to this layer.                  *)

ReaderReads(d) ==
    /\ inbox # <<>>
    /\ C!ReaderReads(d)
    /\ rmsg' = Head(inbox)
    /\ inbox' = Tail(inbox)
    /\ UNCHANGED <<quit, userVars, cpc, redoVars, lisVars, srv, events, refusals>>

\* Mutant: the onReconnect callback is not started.
ReconnectedQuietly ==
    /\ C!DialOK
    /\ owed' = {q \in Queries : subscriptions[q] # None /\ ~Unsubscribing(q)}
    /\ srv' = {}
    /\ inbox' = <<>>
    /\ UNCHANGED <<quit, subscriptions, out, readers, lockWait, upc, uq, cpc, redoVars, lisVars,
                   rmsg, events, refusals>>

\* dial() succeeds and reconnect starts the onReconnect callback.
Reconnected ==
    /\ C!DialOK
    /\ redo' = [redo EXCEPT ![conn + 1] = "rlock"]
    /\ owed' = {q \in Queries : subscriptions[q] # None /\ ~Unsubscribing(q)}
    /\ srv' = {}
    /\ inbox' = <<>>
    /\ UNCHANGED <<quit, subscriptions, out, readers, lockWait, upc, uq, cpc, todo, lisVars, rmsg,
                   events, refusals>>

WriterUnticked(d) ==
    \/ /\ C!WriterWriteOK(d)
       /\ ServerGets(held[d])
       /\ UNCHANGED <<quit, userVars, cpc, redoVars, lisVars, rmsg>>
    \/ /\ \/ \E r \in Requests : C!WriterRecv(d, r)
          \/ C!WriterWriteFails(d) \/ C!WriterPush(d)
          \/ C!WriterRequeue(d) \/ C!WriterReadQuit(d) \/ C!WriterQuit(d) \/ C!WriterExit(d)
       /\ UNCHANGED evVars

Writer(d) ==
    \/ WriterUnticked(d)
    \/ C!WriterPingFails(d) /\ UNCHANGED evVars

Reader(d) ==
    \/ ReaderReads(d)
    \/ /\ \/ C!ReaderUnexpectedClose(d) \/ C!ReaderSilentReturn(d) \/ C!ReaderPush(d)
          \/ C!ReaderSkips(d) \/ C!ReaderExit(d)
          \/ respClosed /\ C!ReaderDelivers(d)
       /\ UNCHANGED evVars

Reconnector ==
    \/ Reconnected
    \/ /\ C!ResendOK
       /\ ServerGets(pending)
       /\ UNCHANGED <<quit, userVars, cpc, redoVars, lisVars, rmsg>>
    \/ /\ \/ C!RcRecv \/ C!RcQuit \/ C!RcWaited \/ C!DialFails \/ C!Drain
          \/ C!BacklogTake \/ C!ResendFails \/ C!BacklogPush \/ C!BacklogRequeue
          \/ C!StartReadWriteRoutines \/ C!RcStop \/ C!RcStopWaited \/ C!RcStopClose
       /\ UNCHANGED evVars

LinkFails == C!LinkFails /\ UNCHANGED evVars

\* WSEvents.Stop: OnStop stops WSClient and, when that returns, quit is closed.
Stop == Stops /\ C!Stop /\ UNCHANGED evVars

Stopping == (C!StopWaited \/ C!StopClose) /\ UNCHANGED evVars

StopQuit ==
    /\ ustop = "done" /\ ~quit
    /\ quit' = TRUE
    /\ UNCHANGED <<clientVars, userVars, cpc, redoVars, lisVars, rmsg, serverVars>>

-----------------------------------------------------------------------------
(* Subscribe, Unsubscribe, UnsubscribeAll.  Each sends its request, then   *)
(* takes mtx.Lock: it first keeps new readers out, then waits for the old. *)

Subscribe(u, q) ==
    /\ upc[u] = "idle"
    /\ IsRunning
    /\ C!Send(SubReq(u, q))
    /\ upc' = [upc EXCEPT ![u] = "subscribe"]
    /\ uq' = [uq EXCEPT ![u] = q]
    /\ UNCHANGED <<quit, subscriptions, out, readers, lockWait, owed, cpc, redoVars, lisVars, rmsg,
                   serverVars>>

Unsubscribe(u) ==
    /\ upc[u] = "subscribed"
    /\ IsRunning
    /\ \/ /\ C!Send(UnsubReq(u, uq[u]))
          /\ upc' = [upc EXCEPT ![u] = "unsubscribe"]
          /\ owed' = owed \ {uq[u]}
       \/ /\ C!Send(UnsubAllReq(u))
          /\ upc' = [upc EXCEPT ![u] = "unsubscribe_all"]
          /\ owed' = {}
    /\ UNCHANGED <<quit, subscriptions, out, readers, lockWait, uq, cpc, redoVars, lisVars, rmsg,
                   serverVars>>

RequestOf(u) == CASE upc[u] = "subscribe"       -> SubReq(u, uq[u])
                  [] upc[u] = "unsubscribe"     -> UnsubReq(u, uq[u])
                  [] upc[u] = "unsubscribe_all" -> UnsubAllReq(u)

Sending(u) == upc[u] \in {"subscribe", "unsubscribe", "unsubscribe_all"}

\* The caller's context ends while Send blocks: the call returns its error.
UserCtxDone(u) ==
    /\ Sending(u) /\ lockWait # u
    /\ C!SendCtxDone(RequestOf(u))
    /\ upc' = [upc EXCEPT ![u] = IF upc[u] = "subscribe" THEN "failed" ELSE "kept"]
    /\ UNCHANGED <<quit, subscriptions, out, readers, lockWait, uq, owed, cpc, redoVars, lisVars, rmsg,
                   serverVars>>

UserLocks(u) ==
    /\ Sending(u)
    /\ phase[RequestOf(u)] = "accepted"
    /\ lockWait = None
    /\ lockWait' = u
    /\ UNCHANGED <<clientVars, quit, subscriptions, out, readers, upc, uq, owed, cpc, redoVars, lisVars,
                   rmsg, serverVars>>

\* What each call does to the map once it has the lock.
MapUpdate(u) ==
    \/ /\ upc[u] = "subscribe"
       /\ subscriptions' = [subscriptions EXCEPT ![uq[u]] = u]
       /\ upc' = [upc EXCEPT ![u] = "subscribed"]
    \/ /\ upc[u] = "unsubscribe"
       /\ subscriptions' = [subscriptions EXCEPT ![uq[u]] = None]
       /\ upc' = [upc EXCEPT ![u] = "unsubscribed"]
    \/ /\ upc[u] = "unsubscribe_all"
       /\ subscriptions' = [q \in Queries |-> None]
       /\ upc' = [upc EXCEPT ![u] = "unsubscribed"]

\* Mutant: mtx.Lock does not wait for the readers.
UserUpdatesUnlocked(u) ==
    /\ lockWait = u
    /\ lockWait' = None
    /\ MapUpdate(u)
    /\ UNCHANGED <<clientVars, quit, out, readers, uq, owed, cpc, redoVars, lisVars, rmsg,
                   serverVars>>

\* Mutant: mtx.Unlock is missing.
UserUpdatesKeepsLock(u) ==
    /\ lockWait = u
    /\ readers = {}
    /\ MapUpdate(u)
    /\ UNCHANGED <<clientVars, quit, out, readers, lockWait, uq, owed, cpc, redoVars, lisVars,
                   rmsg, serverVars>>

UserUpdates(u) ==
    /\ lockWait = u
    /\ readers = {}
    /\ lockWait' = None
    /\ MapUpdate(u)
    /\ UNCHANGED <<clientVars, quit, out, readers, uq, owed, cpc, redoVars, lisVars, rmsg,
                   serverVars>>

\* A user takes an event from the channel that Subscribe returned.
UserReceives(u) ==
    /\ \/ /\ out[u] > 0
          /\ out' = [out EXCEPT ![u] = out[u] - 1]
          /\ UNCHANGED <<readers, lis>>
       \/ /\ lis = "handoff" /\ subscriptions[lmsg.about] = u
          /\ lis' = "select"
          /\ readers' = readers \ {ListenerId}
          /\ UNCHANGED out
    /\ UNCHANGED <<clientVars, quit, subscriptions, lockWait, upc, uq, owed, cpc, redoVars, lmsg, retries,
                   answered, rmsg, serverVars>>

-----------------------------------------------------------------------------
(* redoSubscriptionsAfter: mtx.RLock is held over all the Sends, which have *)
(* no deadline.  The map is read in any order.                             *)

RedoLock(k) ==
    /\ redo[k] = "rlock"
    /\ lockWait = None
    /\ readers' = readers \cup {k}
    /\ redo' = [redo EXCEPT ![k] = "loop"]
    /\ todo' = [todo EXCEPT ![k] = {q \in Queries : subscriptions[q] # None}]
    /\ UNCHANGED <<clientVars, quit, subscriptions, out, lockWait, upc, uq, owed, cpc, lisVars, rmsg,
                   serverVars>>

RedoIdle(k) == redo[k] = "loop" /\ \A q \in Queries : phase[SubReq(k, q)] # "sending"

\* Mutant: the request is handed over without going through c.send.
RedoSendUnqueued(k, q) ==
    /\ RedoIdle(k)
    /\ q \in todo[k]
    /\ backlog' = SubReq(k, q)
    /\ todo' = [todo EXCEPT ![k] = todo[k] \ {q}]
    /\ UNCHANGED <<stopped, ustop, conn, link, rd, wr, held, wg, readRoutineQuit, reconnectAfter,
                   rc, attempt, pending, respClosed, phase, written, quit, userVars, cpc, redo,
                   lisVars, rmsg, serverVars>>

RedoSend(k, q) ==
    /\ RedoIdle(k)
    /\ q \in todo[k]
    /\ C!Send(SubReq(k, q))
    /\ todo' = [todo EXCEPT ![k] = todo[k] \ {q}]
    /\ UNCHANGED <<quit, userVars, cpc, redo, lisVars, rmsg, serverVars>>

RedoDone(k) ==
    /\ RedoIdle(k)
    /\ todo[k] = {}
    /\ readers' = readers \ {k}
    /\ redo' = [redo EXCEPT ![k] = "done"]
    /\ UNCHANGED <<clientVars, quit, subscriptions, out, lockWait, upc, uq, owed, cpc, todo, lisVars, rmsg,
                   serverVars>>

Redo(k) == RedoLock(k) \/ (\E q \in Queries : RedoSend(k, q)) \/ RedoDone(k)

-----------------------------------------------------------------------------
(* eventListener                                                           *)

\* It receives what readRoutine offers on ResponsesCh.  A refusal makes it
\* redo the subscriptions itself; other responses that are not events are
\* dropped, those to SimpleCall's requests included.
ListenerReceives(d) ==
    /\ lis = "select"
    /\ rmsg.type = "refused" => MaxDials + retries + 1 \in Retries    \* the bound
    /\ ~respClosed
    /\ C!ReaderDelivers(d)
    /\ lmsg' = IF rmsg.type = "event" THEN rmsg ELSE NoMsg
    /\ rmsg' = NoMsg
    /\ lis' = CASE rmsg.type = "refused" -> "retry"
                [] rmsg.type = "event"   -> "publish"
                [] OTHER                 -> "select"
    /\ retries' = IF rmsg.type = "refused" THEN retries + 1 ELSE retries
    /\ redo' = IF rmsg.type = "refused" THEN [redo EXCEPT ![MaxDials + retries + 1] = "rlock"]
               ELSE redo
    /\ answered' = answered \cup {c \in Calls : rmsg = [type |-> "answer", about |-> c]
                                               /\ cpc[c] = "sending"}
    /\ UNCHANGED <<quit, userVars, cpc, todo, serverVars>>

ListenerRetried ==
    /\ lis = "retry"
    /\ redo[MaxDials + retries] = "done"
    /\ lis' = "select"
    /\ UNCHANGED <<clientVars, quit, userVars, cpc, redoVars, lmsg, retries, answered, rmsg, serverVars>>

\* Under mtx.RLock: with an unbuffered channel it keeps the lock until the
\* user receives, otherwise a full channel loses the event.
ListenerPublishes ==
    /\ lis = "publish"
    /\ lockWait = None
    /\ LET u == subscriptions[lmsg.about] IN
       \/ /\ u = None
          /\ lis' = "select"
          /\ UNCHANGED <<out, readers>>
       \/ /\ u # None /\ OutCap = 0
          /\ lis' = "handoff"
          /\ readers' = readers \cup {ListenerId}
          /\ UNCHANGED out
       \/ /\ u # None /\ OutCap > 0
          /\ lis' = "select"
          /\ out' = [out EXCEPT ![u] = IF out[u] < OutCap THEN out[u] + 1 ELSE out[u]]
          /\ UNCHANGED readers
    /\ UNCHANGED <<clientVars, quit, subscriptions, lockWait, upc, uq, owed, cpc, redoVars, lmsg, retries,
                   answered, rmsg, serverVars>>

ListenerQuits ==
    /\ lis = "select"
    /\ quit \/ respClosed
    /\ lis' = "done"
    /\ UNCHANGED <<clientVars, quit, userVars, cpc, redoVars, lmsg, retries, answered, rmsg, serverVars>>

Listener == (\E d \in C!Dials : ListenerReceives(d)) \/ ListenerRetried \/ ListenerPublishes
            \/ ListenerQuits

-----------------------------------------------------------------------------
(* SimpleCall and WaitForResponse.  Nothing is ever sent on outChan, so    *)
(* the only way out of WaitForResponse is its timeout.                     *)

SimpleCall(c) ==
    /\ cpc[c] = "new"
    /\ C!Send(CallReq(c))
    /\ cpc' = [cpc EXCEPT ![c] = "sending"]
    /\ UNCHANGED <<quit, userVars, redoVars, lisVars, rmsg, serverVars>>

CallSendTimesOut(c) ==
    /\ cpc[c] = "sending"
    /\ C!SendCtxDone(CallReq(c))
    /\ cpc' = [cpc EXCEPT ![c] = "failed"]
    /\ UNCHANGED <<quit, userVars, redoVars, lisVars, rmsg, serverVars>>

CallTimesOut(c) ==
    /\ cpc[c] = "sending"
    /\ phase[CallReq(c)] = "accepted"
    /\ cpc' = [cpc EXCEPT ![c] = "push"]
    /\ UNCHANGED <<clientVars, quit, userVars, redoVars, lisVars, rmsg, serverVars>>

\* w.ws.reconnectAfter <- err
CallPush(c) ==
    /\ cpc[c] = "push"
    /\ reconnectAfter < 1
    /\ reconnectAfter' = reconnectAfter + 1
    /\ cpc' = [cpc EXCEPT ![c] = "failed"]
    /\ UNCHANGED <<stopped, ustop, conn, link, rd, wr, held, wg, readRoutineQuit, backlog, rc, attempt,
                   pending, respClosed, phase, written, quit, userVars, redoVars, lisVars, rmsg, serverVars>>

Call(c) == SimpleCall(c) \/ CallSendTimesOut(c) \/ CallTimesOut(c) \/ CallPush(c)

-----------------------------------------------------------------------------
User(u) ==
    \/ \E q \in Queries : Subscribe(u, q)
    \/ Unsubscribe(u) \/ UserCtxDone(u) \/ UserLocks(u) \/ UserUpdates(u) \/ UserReceives(u)

Next ==
    /\ ~C!Panicked
    /\ \/ LinkFails
       \/ \E d \in C!Dials : Writer(d) \/ Reader(d)
       \/ Reconnector
       \/ Stop \/ Stopping \/ StopQuit
       \/ \E q \in Queries : ServerPublishes(q)
       \/ \E u \in Users : User(u)
       \/ \E k \in Redos : Redo(k)
       \/ Listener
       \/ \E c \in Calls : Call(c)

Spec == Init /\ [][Next]_vars

(***************************************************************************)
(* Every goroutine that can step eventually does, mtx.Lock included, and   *)
(* the timers of SimpleCall fire.  The server, the network and the users'  *)
(* decisions to call, to cancel or to receive have no fairness, nor have   *)
(* pings, which are off by default.                                        *)
(***************************************************************************)
Fairness ==
    /\ \A d \in C!Dials : WF_vars(~C!Panicked /\ WriterUnticked(d)) /\ WF_vars(~C!Panicked /\ Reader(d))
    /\ WF_vars(~C!Panicked /\ Reconnector)
    /\ WF_vars(~C!Panicked /\ (Stopping \/ StopQuit))
    /\ \A u \in Users : WF_vars(~C!Panicked /\ (UserLocks(u) \/ UserUpdates(u)))
    /\ \A k \in Redos : WF_vars(~C!Panicked /\ Redo(k))
    /\ WF_vars(~C!Panicked /\ Listener)
    /\ \A c \in Calls :
         WF_vars(~C!Panicked /\ (CallSendTimesOut(c) \/ CallTimesOut(c) \/ CallPush(c)))

FairSpec == Spec /\ Fairness

-----------------------------------------------------------------------------
(* Properties                                                              *)

\* Without SimpleCall, everything this layer does to WSClient is a behaviour of
\* WSClient: its properties hold of the composition too.
ImplementsClient == C!Spec

\* mtx.RLock keeps the map as it is: redoSubscriptionsAfter never subscribes
\* again to a query that was removed while it ranges over the map (:206-208),
\* and eventListener never waits on the channel of a removed subscription (:250).
MapStableUnderRLock ==
    /\ \A k \in Redos : redo[k] = "loop" => \A q \in todo[k] : subscriptions[q] # None
    /\ lis = "handoff" => subscriptions[lmsg.about] # None

\* Nothing is under way: the connection is up, all goroutines are idle.
Quiet ==
    /\ ~stopped /\ link[conn] = "open" /\ rc = "select" /\ reconnectAfter = 0
    /\ rd[conn] = "read" /\ wr[conn] = "select"
    /\ inbox = <<>> /\ lis = "select"
    /\ \A k \in Redos : redo[k] \in {"none", "done"}
    /\ \A u \in Users : ~Sending(u)

\* "After being reconnected, it is necessary to redo subscription to server"
\* (:201): a subscription that was in the map when the connection was replaced
\* is known to the server again once things are quiet, whatever was in the
\* backlog, was refused or failed in between, unless a user removed it.
OwedAreRedone == Quiet => owed \subseteq srv

\* "After being reconnected, it is necessary to redo subscription to server
\* otherwise no data will be automatically received" (:201-202): with nothing
\* under way the server knows every subscription in the map.
SubscriptionsAreRedone == Quiet => \A q \in Queries : subscriptions[q] # None => q \in srv

\* TestRPCStatus (e2e/e2e_rpc_test.go:117): a call that the node answers in
\* time returns without an error.
AnsweredCallSucceeds == \A c \in Calls : c \in answered => cpc[c] # "push"

\* SimpleCall comes back within its timeout (:288, TestSetTimeOut,
\* e2e/e2e_rpc_test.go:324): it is not left behind on reconnectAfter, unless
\* the client stops.
CallReturns == \A c \in Calls : cpc[c] = "sending" ~> cpc[c] = "failed" \/ stopped

\* Every redo of the subscriptions comes to an end and gives mtx back, unless
\* the client stops.
RedoFinishes == \A k \in Redos : redo[k] = "rlock" ~> redo[k] = "done" \/ stopped

-----------------------------------------------------------------------------
(* The inductive invariant behind MapStableUnderRLock and ImplementsClient. *)

\* Whoever reads the map under mtx.RLock is registered as a reader.
RLockInv ==
    /\ subscriptions \in [Queries -> Users \cup {None}]
    /\ redo \in [Redos -> {"none", "rlock", "loop", "done"}]
    /\ todo \in [Redos -> SUBSET Queries]
    /\ \A k \in Redos : redo[k] = "loop" => k \in readers
    /\ lis = "handoff" => ListenerId \in readers
    /\ MapStableUnderRLock

\* A user that has called Subscribe has a query, so its requests are requests.
UserInv ==
    /\ DOMAIN upc = Users /\ DOMAIN uq = Users
    /\ \A u \in Users : upc[u] # "idle" => uq[u] \in Queries

\* Their conjunction is preserved by every step.
IInv == RLockInv /\ UserInv

-----------------------------------------------------------------------------
(* The inductive invariant behind OwedAreRedone.                           *)

\* Some call of redoSubscriptionsAfter will still offer q to the writer, or does.
StillToRedo(q) ==
    \E k \in Redos : \/ redo[k] = "rlock"
                     \/ redo[k] = "loop" /\ q \in todo[k]
                     \/ phase[SubReq(k, q)] = "sending"

\* A refusal that eventListener has not got yet.
Refused(messages) == \E i \in 1 .. Len(messages) : messages[i].type = "refused"
RefusalComing     == Refused(inbox) \/ (rd[conn] = "deliver" /\ rmsg.type = "refused")

\* What keeps an owed subscription from being forgotten: as long as the
\* connection is up, it is known, still to be sent, being written or refused.
OwedInv ==
    \A q \in owed :
      \/ q \in srv \/ StillToRedo(q) \/ RefusalComing
      \/ \E a \in Users \cup Redos : held[conn] = SubReq(a, q)
      \/ link[conn] # "open" \/ stopped

\* What the backlog still holds reaches the server before the redone requests,
\* and the writer never holds the removal of an owed subscription.
RemovalInv ==
    /\ owed \subseteq {q \in Queries : subscriptions[q] # None /\ ~Unsubscribing(q)}
    /\ \A q \in owed :
         /\ rc \in {"drain", "backlog", "resend", "start"} => StillToRedo(q)
         /\ \A u \in Users : held[conn] \notin {UnsubReq(u, q), UnsubAllReq(u)}

\* Who offers a request waits for it.
OfferInv ==
    /\ \A k \in Redos, q \in Queries : phase[SubReq(k, q)] = "sending" => redo[k] = "loop"
    /\ \A u \in Users, q \in Queries :
         phase[UnsubReq(u, q)] = "sending" => upc[u] = "unsubscribe" /\ uq[u] = q
    /\ \A u \in Users : phase[UnsubAllReq(u)] = "sending" => upc[u] = "unsubscribe_all"
    /\ \A u \in Users : lockWait = u => Sending(u) /\ phase[RequestOf(u)] = "accepted"

Messages == [type : {"ok", "refused", "already", "answer", "event"}, about : Queries \cup Calls \cup {None}]

\* The calls of redoSubscriptionsAfter that have not begun, and what the client
\* knows of the connection.
FreshInv ==
    /\ retries \in Nat
    /\ \A k \in Redos : (conn < k /\ k <= MaxDials) \/ MaxDials + retries < k => redo[k] = "none"
    /\ ustop # "no" \/ respClosed => stopped
    /\ wr[conn] \in {"push", "requeue"} => link[conn] # "open"
    /\ inbox \in Seq(Messages)

\* Their conjunction is preserved by every step without SimpleCall.
RedoInv == OwedInv /\ RemovalInv /\ OfferInv /\ FreshInv

=============================================================================
