--------------------------- MODULE WSEventsProofs ---------------------------
(***************************************************************************)
(* Proofs about WSEvents: the composition never does anything to WSClient  *)
(* that WSClient does not do itself, as long as nobody calls SimpleCall,   *)
(* mtx.RLock protects the map for as long as it is read, and no            *)
(* subscription of the map is forgotten when the connection is replaced.   *)
(***************************************************************************)
EXTENDS WSEvents, TLAPS

-----------------------------------------------------------------------------
(* The steps of WSEvents itself, those of the users, of                    *)
(* redoSubscriptionsAfter and of the server's events, preserve the         *)
(* invariant behind OwedAreRedone.                                         *)

\* The variables of this layer that RedoInv is about.
ownVars == <<owed, srv, redo, todo, inbox, rmsg, subscriptions, upc, uq, lockWait, retries>>

\* What the client's invariant says of the routines that use the connection.
LEMMA Current ==
    ASSUME C!IInv
    PROVE  /\ conn \in C!Dials /\ C!Dials = 1 .. MaxDials /\ conn \in Nat /\ MaxDials \in Nat
           /\ held \in [C!Dials -> Requests \cup {None}] /\ phase \in [Requests -> {"new", "sending", "cancelled", "accepted"}]
           /\ DOMAIN link = C!Dials /\ DOMAIN rd = C!Dials /\ DOMAIN wr = C!Dials
           /\ \A d \in C!Dials : /\ wr[d] \notin {"none", "done"} => d = conn
                                 /\ rd[d] \notin {"none", "done"} => d = conn
                                 /\ d # conn => held[d] = None
           /\ held[conn] # None => wr[conn] \in {"write", "push", "requeue"}
           /\ wr[conn] \in {"write", "requeue"} => held[conn] # None
           /\ rc = "resend" => pending \in Requests
           /\ rc \in {"dial", "drain", "backlog", "resend", "start"} =>
                wr[conn] \in {"none", "done"} /\ rd[conn] \in {"none", "done"}
           /\ rc \in {"stopwait", "stopclose", "done"} => stopped
<1> USE WSEventsAssumption
        DEF C!IInv, C!TypeOK, C!RoutinesInv, C!HolderInv, C!SignalInv, C!Reading, C!Writing, C!Alone
<1>1. conn \in C!Dials /\ C!Dials = 1 .. MaxDials /\ conn \in Nat /\ MaxDials \in Nat
  BY DEF C!Dials
<1>2. /\ held \in [C!Dials -> Requests \cup {None}] /\ phase \in [Requests -> {"new", "sending", "cancelled", "accepted"}]
      /\ DOMAIN link = C!Dials /\ DOMAIN rd = C!Dials /\ DOMAIN wr = C!Dials
  OBVIOUS
<1>3. \A d \in C!Dials : /\ wr[d] \notin {"none", "done"} => d = conn
                         /\ rd[d] \notin {"none", "done"} => d = conn
                         /\ d # conn => held[d] = None
  OBVIOUS
<1>4. /\ held[conn] # None => wr[conn] \in {"write", "push", "requeue"}
      /\ wr[conn] \in {"write", "requeue"} => held[conn] # None
      /\ rc = "resend" => pending \in Requests
  OBVIOUS
<1>5. /\ rc \in {"dial", "drain", "backlog", "resend", "start"} =>
           wr[conn] \in {"none", "done"} /\ rd[conn] \in {"none", "done"}
      /\ rc \in {"stopwait", "stopclose", "done"} => stopped
  OBVIOUS
<1> QED
  BY <1>1, <1>2, <1>3, <1>4, <1>5, Zenon

\* The requests of this layer, and what tells them apart.
LEMMA Kinds ==
    /\ \A a \in Users \cup Redos, q \in Queries : SubReq(a, q) \in Requests
    /\ \A u \in Users, q \in Queries : UnsubReq(u, q) \in Requests
    /\ \A u \in Users : UnsubAllReq(u) \in Requests
    /\ \A r \in Requests :
         \/ \E a \in Users \cup Redos, q \in Queries : r = SubReq(a, q)
         \/ \E u \in Users, q \in Queries : r = UnsubReq(u, q)
         \/ \E u \in Users : r = UnsubAllReq(u)
         \/ \E c \in Calls : r = CallReq(c)
    /\ \A a, q : SubReq(a, q).kind = "subscribe" /\ SubReq(a, q).query = q /\ SubReq(a, q).by = a
    /\ \A a, q : UnsubReq(a, q).kind = "unsubscribe" /\ UnsubReq(a, q).query = q /\ UnsubReq(a, q).by = a
    /\ \A a : UnsubAllReq(a).kind = "unsubscribe_all" /\ UnsubAllReq(a).by = a
    /\ \A a : CallReq(a).kind = "call" /\ CallReq(a).by = a
BY WSEventsAssumption DEF RequestsOf, SubReq, UnsubReq, UnsubAllReq, CallReq

\* What a request is made of.
LEMMA Fields ==
    /\ \A a, q : SubReq(a, q).kind = "subscribe" /\ SubReq(a, q).query = q /\ SubReq(a, q).by = a
    /\ \A a, q : UnsubReq(a, q).kind = "unsubscribe" /\ UnsubReq(a, q).by = a
    /\ \A a : UnsubAllReq(a).kind = "unsubscribe_all" /\ UnsubAllReq(a).by = a
BY DEF SubReq, UnsubReq, UnsubAllReq

\* The kind of a request tells who made it of what.
LEMMA KindOf ==
    \A r \in Requests :
      /\ r.kind \in {"subscribe", "unsubscribe", "unsubscribe_all", "call"}
      /\ r.kind = "unsubscribe" => \E u \in Users : r = UnsubReq(u, r.query)
      /\ r.kind = "unsubscribe_all" => \E u \in Users : r = UnsubAllReq(u)
      /\ r.kind = "call" => r.by \in Calls
BY Kinds

\* No request is None.
LEMMA NoneIsNoRequest ==
    \A q \in Queries : /\ \A a \in Users \cup Redos : None # SubReq(a, q)
                       /\ \A u \in Users : None # UnsubReq(u, q) /\ None # UnsubAllReq(u)
BY Kinds, WSEventsAssumption

\* The calls of redoSubscriptionsAfter are numbered.
LEMMA RedoNumbers ==
    /\ \A k \in Redos : k \in Nat
    /\ \A k \in Redos : k \in Retries <=> MaxDials < k
<1>1. \A n : \A k \in (MaxDials + 1) .. n : k \in Nat /\ MaxDials < k
  BY WSEventsAssumption
<1> QED
  BY <1>1, WSEventsAssumption DEF Redos, Reconnects, Retries

\* What a user asks for depends on that user alone.
LEMMA SameRequest ==
    ASSUME NEW u, upc'[u] = upc[u], uq'[u] = uq[u]
    PROVE  RequestOf(u)' = RequestOf(u) /\ (Sending(u)' <=> Sending(u))
BY Zenon DEF RequestOf, Sending

\* A step that touches no request leaves the offers as they are.
LEMMA OfferStep ==
    ASSUME OfferInv, UNCHANGED <<phase, upc, uq, lockWait>>,
           \A k \in Redos : redo[k] = "loop" => redo'[k] = "loop"
    PROVE  OfferInv'
<1>1. \A u \in Users : RequestOf(u)' = RequestOf(u) /\ (Sending(u)' <=> Sending(u))
  BY SameRequest, Zenon
<1> QED
  BY <1>1, ZenonT(30) DEF OfferInv

\* A step that leaves this layer and the requests alone, and mends no connection.
LEMMA QuietStep ==
    ASSUME RedoInv, UNCHANGED ownVars, UNCHANGED <<conn, held, phase>>,
           link[conn] # "open" => link'[conn] # "open",
           stopped => stopped', ustop' # "no" \/ respClosed' => stopped',
           rd[conn] = "deliver" => rd'[conn] = "deliver" \/ stopped',
           wr'[conn] \in {"push", "requeue"} => link'[conn] # "open",
           LET P == {"drain", "backlog", "resend", "start"} IN rc' \in P => rc \in P
    PROVE  RedoInv'
<1> USE DEF RedoInv, ownVars
<1>1. \A q : StillToRedo(q)' <=> StillToRedo(q)
  BY Zenon DEF StillToRedo
<1>2. RefusalComing => RefusalComing' \/ stopped'
  BY Zenon DEF RefusalComing
<1>3. OwedInv'
  BY <1>1, <1>2, Zenon DEF OwedInv
<1>4. RemovalInv'
  BY <1>1, Zenon DEF RemovalInv, Unsubscribing
<1>5. OfferInv'
  BY OfferStep, Zenon
<1>6. FreshInv'
  BY Zenon DEF FreshInv
<1> QED
  BY <1>3, <1>4, <1>5, <1>6, Zenon

\* The steps that RedoInv is not about.
LEMMA StillStep ==
    ASSUME RedoInv, UNCHANGED ownVars, UNCHANGED clientVars
    PROVE  RedoInv'
BY QuietStep, Zenon DEF RedoInv, FreshInv, clientVars

\* A message more on its way.
LEMMA OneMessageMore ==
    ASSUME inbox \in Seq(Messages), NEW m \in Messages, inbox' = Append(inbox, m)
    PROVE  /\ inbox' \in Seq(Messages) /\ (Refused(inbox) => Refused(inbox)')
           /\ m.type = "refused" => Refused(inbox)'
<1>1. /\ inbox' \in Seq(Messages) /\ Len(inbox') = Len(inbox) + 1 /\ Len(inbox) \in Nat
      /\ inbox'[Len(inbox) + 1] = m /\ \A i \in 1 .. Len(inbox) : inbox'[i] = inbox[i]
  OBVIOUS
<1> QED
  BY <1>1 DEF Refused

\* What the routines of this layer leave alone, when the client stands still but
\* for its reader.
LEMMA MessageStep ==
    ASSUME RedoInv, UNCHANGED <<owed, srv, todo, subscriptions, upc, uq, lockWait>>,
           UNCHANGED <<conn, link, wr, held, rc, stopped, ustop, respClosed, phase>>,
           inbox' \in Seq(Messages), retries' \in Nat, retries' >= retries,
           \/ UNCHANGED redo /\ (RefusalComing => RefusalComing')
           \/ \E k \in Redos : /\ redo[k] = "none" /\ redo' = [redo EXCEPT ![k] = "rlock"]
                               /\ MaxDials < k /\ k <= MaxDials + retries',
           DOMAIN redo = Redos, MaxDials \in Nat, conn \in 1 .. MaxDials
    PROVE  RedoInv'
<1> USE DEF RedoInv
<1>1. (\A q : StillToRedo(q) => StillToRedo(q)') /\ (RefusalComing => RefusalComing' \/ \A q : StillToRedo(q)')
  BY Zenon DEF StillToRedo
<1>2. OwedInv'
  BY <1>1, Zenon DEF OwedInv
<1>3. RemovalInv'
  BY <1>1, ZenonT(30) DEF RemovalInv, Unsubscribing
<1>4. OfferInv'
  <2>1. \A k \in Redos : redo[k] = "loop" => redo'[k] = "loop"
    BY Zenon
  <2> QED
    BY <2>1, OfferStep, Zenon
<1>5. FreshInv'
  <2>1. \A k \in Redos : (conn < k /\ k <= MaxDials) \/ MaxDials + retries' < k => redo'[k] = "none"
    BY RedoNumbers DEF FreshInv
  <2> QED
    BY <2>1, Zenon DEF FreshInv
<1> QED
  BY <1>2, <1>3, <1>4, <1>5, Zenon

\* An event is one message more.
LEMMA PublishStep ==
    ASSUME RedoInv, IInv, C!IInv, NEW q \in Queries, ServerPublishes(q)
    PROVE  RedoInv'
<1>1. [type |-> "event", about |-> q] \in Messages
  BY Zenon DEF Messages
<1>2. inbox' \in Seq(Messages) /\ (Refused(inbox) => Refused(inbox)')
  BY <1>1, OneMessageMore, Zenon DEF RedoInv, FreshInv, ServerPublishes, Reply
<1>3. /\ UNCHANGED clientVars
      /\ UNCHANGED <<owed, srv, todo, subscriptions, upc, uq, lockWait, redo, retries, rmsg>>
  BY Zenon DEF ServerPublishes, userVars, redoVars, lisVars
<1>4. RefusalComing => RefusalComing'
  BY <1>2, <1>3, Zenon DEF RefusalComing, clientVars
<1>5. retries \in Nat /\ DOMAIN redo = Redos /\ MaxDials \in Nat /\ conn \in 1 .. MaxDials
  BY Current, Zenon DEF RedoInv, FreshInv, IInv, RLockInv
<1> QED
  BY <1>2, <1>3, <1>4, <1>5, MessageStep DEF clientVars

\* What a step of a user or of redoSubscriptionsAfter leaves alone.
otherVars == <<conn, link, rd, wr, held, rc, stopped, ustop, respClosed, srv, inbox, rmsg, retries>>

\* What such a step must see to.
LEMMA OwnStep ==
    ASSUME RedoInv, UNCHANGED otherVars, owed' \subseteq owed,
           \A q \in owed' : StillToRedo(q) => StillToRedo(q)',
           \A q \in owed' : subscriptions'[q] # None /\ ~Unsubscribing(q)',
           OfferInv',
           \A k \in Redos : redo[k] = "none" => redo'[k] = "none"
    PROVE  RedoInv'
<1> USE DEF RedoInv, otherVars
<1>1. RefusalComing' <=> RefusalComing
  BY Zenon DEF RefusalComing
<1>2. OwedInv'
  BY <1>1, Zenon DEF OwedInv
<1>3. RemovalInv'
  <2>1. owed' \subseteq {q \in Queries : subscriptions'[q] # None /\ ~Unsubscribing(q)'}
    BY Zenon DEF RemovalInv
  <2> QED
    BY <2>1, Zenon DEF RemovalInv
<1>4. FreshInv'
  BY Zenon DEF FreshInv
<1> QED
  BY <1>2, <1>3, <1>4, Zenon

\* Nobody begins to remove what is owed.
LEMMA StillWanted ==
    ASSUME RemovalInv, UNCHANGED <<subscriptions, uq>>, owed' \subseteq owed,
           \A v \in Users : upc'[v] \in {"unsubscribe", "unsubscribe_all"} => upc'[v] = upc[v]
    PROVE  \A p \in owed' : subscriptions'[p] # None /\ ~Unsubscribing(p)'
BY Zenon DEF RemovalInv, Unsubscribing

\* The steps of a user: what is being removed is owed no longer, and the map is
\* only changed by a caller whose request was accepted.
LEMMA UserRedoStep ==
    ASSUME RedoInv, IInv, C!IInv, NEW u \in Users, User(u)
    PROVE  RedoInv'
<1> USE Current, Kinds DEF C!netVars, C!rwVars, C!chanVars, C!rcVars, C!stopVars, lisVars, serverVars, redoVars
<1>0. /\ OfferInv /\ RemovalInv /\ UserInv /\ subscriptions \in [Queries -> Users \cup {None}]
      /\ u \notin Redos /\ u # None
  BY WSEventsAssumption, Zenon DEF RedoInv, IInv, RLockInv
<1>1. ASSUME NEW q \in Queries, Subscribe(u, q)
      PROVE  RedoInv'
  <2>1. /\ UNCHANGED otherVars /\ UNCHANGED <<owed, subscriptions, lockWait, redo, todo>>
        /\ phase' = [phase EXCEPT ![SubReq(u, q)] = "sending"] /\ phase[SubReq(u, q)] = "new"
        /\ upc[u] = "idle" /\ upc' = [upc EXCEPT ![u] = "subscribe"] /\ uq' = [uq EXCEPT ![u] = q]
    BY <1>1, Zenon DEF Subscribe, C!Send, otherVars
  <2>2. \A r \in Requests : r # SubReq(u, q) => phase'[r] = phase[r]
    BY <2>1, Zenon
  <2>3. \A p \in owed : StillToRedo(p) => StillToRedo(p)'
    BY <1>0, <2>1, <2>2, ZenonT(30) DEF StillToRedo, RemovalInv
  <2>4. \A p \in owed : subscriptions'[p] # None /\ ~Unsubscribing(p)'
    BY <1>0, <2>1, SMTT(30) DEF RemovalInv, Unsubscribing, UserInv
  <2>5. OfferInv'
    <3>1. \A v \in Users : v # u => upc'[v] = upc[v] /\ uq'[v] = uq[v]
      BY <1>0, <2>1, Zenon DEF UserInv
    <3>2. lockWait # u
      BY <1>0, <2>1, Zenon DEF OfferInv, Sending
    <3>3. \A v \in Users : lockWait = v => RequestOf(v) \in Requests /\ phase[RequestOf(v)] = "accepted"
      BY <1>0 DEF OfferInv, UserInv, Sending, RequestOf
    <3>4. \A v \in Users : lockWait' = v => Sending(v)' /\ phase'[RequestOf(v)'] = "accepted"
      BY <1>0, <2>1, <2>2, <3>1, <3>2, <3>3 DEF OfferInv, Sending, RequestOf
    <3>5. /\ \A v \in Users, p \in Queries : phase[UnsubReq(v, p)] = "sending" => v # u
          /\ \A v \in Users : phase[UnsubAllReq(v)] = "sending" => v # u
      BY <1>0, <2>1 DEF OfferInv
    <3> QED
      BY <1>0, <2>1, <2>2, <3>1, <3>4, <3>5 DEF OfferInv
  <2> QED
    BY <2>1, <2>3, <2>4, <2>5, OwnStep, Zenon
<1>2. \A v \in Users : Sending(v) => RequestOf(v) \in Requests
  BY <1>0, Zenon DEF UserInv, Sending, RequestOf
<1>3. CASE Unsubscribe(u)
  <2>1. PICK r \in {UnsubReq(u, uq[u]), UnsubAllReq(u)} :
          /\ phase' = [phase EXCEPT ![r] = "sending"]
          /\ upc' = [upc EXCEPT ![u] = r.kind]
          /\ owed' = IF r.kind = "unsubscribe" THEN owed \ {uq[u]} ELSE {}
    BY <1>3 DEF Unsubscribe, C!Send
  <2>2. UNCHANGED otherVars /\ UNCHANGED <<subscriptions, lockWait, redo, todo, uq>> /\ upc[u] = "subscribed"
    BY <1>3, Zenon DEF Unsubscribe, C!Send, otherVars
  <2>3. uq[u] \in Queries /\ r \in Requests /\ r.by = u /\ r.kind \in {"unsubscribe", "unsubscribe_all"}
    BY <1>0, <2>2 DEF UserInv
  <2>4. \A x \in Requests : x # r => phase'[x] = phase[x]
    BY <2>1, <2>3, ZenonT(30)
  <2>5. \A p \in owed' : StillToRedo(p) => StillToRedo(p)'
    BY <1>0, <2>1, <2>2, <2>3, <2>4, Zenon DEF StillToRedo, RemovalInv
  <2>6. \A v \in Users : v # u => upc'[v] = upc[v]
    BY <1>0, <2>1, Zenon DEF UserInv
  <2>7. \A p \in owed' : subscriptions'[p] # None /\ ~Unsubscribing(p)'
    <3>1. upc'[u] = r.kind
      BY <1>0, <2>1, Zenon DEF UserInv
    <3> QED
      BY <1>0, <2>1, <2>2, <2>6, <3>1 DEF RemovalInv, Unsubscribing
  <2>8. OfferInv'
    <3>1. lockWait # u
      BY <1>0, <2>2, Zenon DEF OfferInv, Sending
    <3>2. \A v \in Users : lockWait' = v => Sending(v)' /\ phase'[RequestOf(v)'] = "accepted"
      <4> SUFFICES ASSUME NEW v \in Users, lockWait = v
                   PROVE  Sending(v)' /\ phase'[RequestOf(v)'] = "accepted"
        BY <2>2, Zenon
      <4>1. v # u /\ Sending(v) /\ phase[RequestOf(v)] = "accepted" /\ RequestOf(v) \in Requests
        BY <1>0, <1>2, <3>1, Zenon DEF OfferInv
      <4>2. RequestOf(v)' = RequestOf(v) /\ Sending(v)' /\ RequestOf(v).by = v
        BY <2>2, <2>6, <4>1 DEF RequestOf, Sending
      <4> QED
        BY <2>3, <2>4, <4>1, <4>2
    <3>3. /\ \A v \in Users, p \in Queries : phase[UnsubReq(v, p)] = "sending" => v # u
          /\ \A v \in Users : phase[UnsubAllReq(v)] = "sending" => v # u
      BY <1>0, <2>2 DEF OfferInv
    <3>4. \A v \in Users, p \in Queries :
            phase'[UnsubReq(v, p)] = "sending" => upc'[v] = "unsubscribe" /\ uq'[v] = p
      <4> SUFFICES ASSUME NEW v \in Users, NEW p \in Queries, phase'[UnsubReq(v, p)] = "sending"
                   PROVE  upc'[v] = "unsubscribe" /\ uq[v] = p
        BY <2>2
      <4>1. CASE UnsubReq(v, p) = r
        BY <1>0, <2>1, <2>3, <4>1, SMTT(30) DEF UserInv
      <4>2. CASE UnsubReq(v, p) # r
        BY <1>0, <2>4, <2>6, <3>3, <4>2 DEF OfferInv
      <4> QED
        BY <4>1, <4>2, ZenonT(30)
    <3>5. \A v \in Users : phase'[UnsubAllReq(v)] = "sending" => upc'[v] = "unsubscribe_all"
      <4> SUFFICES ASSUME NEW v \in Users, phase'[UnsubAllReq(v)] = "sending"
                   PROVE  upc'[v] = "unsubscribe_all"
        BY Zenon
      <4> HIDE Current, Kinds
      <4>1. CASE UnsubAllReq(v) = r
        BY <1>0, <2>1, <2>3, <4>1, Fields, SMTT(30) DEF UserInv
      <4>2. CASE UnsubAllReq(v) # r
        BY <1>0, <2>4, <2>6, <3>3, <4>2, Kinds, SMTT(30) DEF OfferInv
      <4> QED
        BY <4>1, <4>2, Zenon
    <3>6. \A k \in Redos, q \in Queries : phase'[SubReq(k, q)] = "sending" => redo'[k] = "loop"
      BY <1>0, <2>2, <2>3, <2>4 DEF OfferInv
    <3> QED
      BY <3>2, <3>4, <3>5, <3>6, Zenon DEF OfferInv
  <2>9. owed' \subseteq owed
    BY <2>1, Zenon
  <2> QED
    BY <2>2, <2>5, <2>7, <2>8, <2>9, OwnStep, ZenonT(30)
<1>4. CASE UserCtxDone(u)
  <2> DEFINE r == RequestOf(u)
  <2>1. /\ UNCHANGED otherVars /\ UNCHANGED <<owed, subscriptions, lockWait, redo, todo, uq>>
        /\ Sending(u) /\ lockWait # u /\ phase' = [phase EXCEPT ![r] = "cancelled"]
        /\ upc' = [upc EXCEPT ![u] = IF upc[u] = "subscribe" THEN "failed" ELSE "kept"]
    BY <1>4, Zenon DEF UserCtxDone, C!SendCtxDone, otherVars
  <2>2. r \in Requests /\ r.by = u
    BY <1>2, <2>1 DEF Sending, RequestOf
  <2>3. \A x \in Requests : phase'[x] = IF x = r THEN "cancelled" ELSE phase[x]
    BY <2>1, <2>2, ZenonT(30)
  <2>4. /\ \A v \in Users : v # u => upc'[v] = upc[v]
        /\ upc'[u] \in {"failed", "kept"}
    BY <1>0, <2>1, Zenon DEF UserInv
  <2>5. \A p \in owed' : StillToRedo(p) => StillToRedo(p)'
    BY <1>0, <2>1, <2>2, <2>3 DEF StillToRedo, RemovalInv
  <2>6. \A p \in owed' : subscriptions'[p] # None /\ ~Unsubscribing(p)'
    BY <1>0, <2>1, <2>4, StillWanted, Zenon
  <2>7. OfferInv'
    <3>1. \A v \in Users : lockWait' = v => Sending(v)' /\ phase'[RequestOf(v)'] = "accepted"
      <4> SUFFICES ASSUME NEW v \in Users, lockWait = v
                   PROVE  Sending(v)' /\ phase'[RequestOf(v)'] = "accepted"
        BY <2>1, Zenon
      <4>1. v # u /\ Sending(v) /\ phase[RequestOf(v)] = "accepted" /\ RequestOf(v) \in Requests
        BY <1>0, <1>2, <2>1, Zenon DEF OfferInv
      <4>2. RequestOf(v)' = RequestOf(v) /\ Sending(v)' /\ RequestOf(v).by = v
        BY <2>1, <2>4, <4>1 DEF RequestOf, Sending
      <4> QED
        BY <2>2, <2>3, <4>1, <4>2
    <3>2. \A x \in Requests : phase'[x] = "sending" => phase[x] = "sending" /\ x # r
      BY <2>3, Zenon
    <3>3. \A v \in Users, p \in Queries :
            phase'[UnsubReq(v, p)] = "sending" => upc'[v] = "unsubscribe" /\ uq'[v] = p
      BY <1>0, <2>1, <2>4, <3>2 DEF OfferInv, RequestOf
    <3>4. \A v \in Users : phase'[UnsubAllReq(v)] = "sending" => upc'[v] = "unsubscribe_all"
      BY <1>0, <2>1, <2>4, <3>2, SMTT(30) DEF OfferInv, RequestOf
    <3>5. \A k \in Redos, q \in Queries : phase'[SubReq(k, q)] = "sending" => redo'[k] = "loop"
      BY <1>0, <2>1, <3>2 DEF OfferInv
    <3> QED
      BY <3>1, <3>3, <3>4, <3>5, ZenonT(30) DEF OfferInv
  <2> QED
    BY <2>1, <2>5, <2>6, <2>7, OwnStep, Zenon
<1>5. CASE UserLocks(u)
  <2>1. /\ UNCHANGED clientVars /\ UNCHANGED <<owed, srv, redo, todo, inbox, rmsg, subscriptions, upc, uq, retries>>
        /\ lockWait' = u /\ Sending(u) /\ phase[RequestOf(u)] = "accepted"
    BY <1>5, Zenon DEF UserLocks
  <2>2. UNCHANGED otherVars /\ UNCHANGED phase
    BY <2>1, Zenon DEF otherVars, clientVars
  <2>3. \A p \in owed' : StillToRedo(p) => StillToRedo(p)'
    BY <2>1, <2>2, Zenon DEF StillToRedo
  <2>4. \A p \in owed' : subscriptions'[p] # None /\ ~Unsubscribing(p)'
    BY <1>0, <2>1, StillWanted, Zenon
  <2>5. OfferInv'
    BY <1>0, <2>1, <2>2 DEF OfferInv, Sending, RequestOf
  <2> QED
    BY <2>1, <2>2, <2>3, <2>4, <2>5, OwnStep, Zenon
<1>6. CASE UserUpdates(u)
  <2>1. /\ UNCHANGED clientVars /\ UNCHANGED <<owed, srv, redo, todo, inbox, rmsg, uq, retries>>
        /\ lockWait = u /\ lockWait' = None /\ MapUpdate(u)
    BY <1>6, Zenon DEF UserUpdates
  <2>2. UNCHANGED otherVars /\ UNCHANGED phase
    BY <2>1, Zenon DEF otherVars, clientVars
  <2>3. \A p \in owed' : StillToRedo(p) => StillToRedo(p)'
    BY <2>1, <2>2, Zenon DEF StillToRedo
  <2>4. /\ \A v \in Users : v # u => upc'[v] = upc[v]
        /\ upc'[u] \in {"subscribed", "unsubscribed"}
    BY <1>0, <2>1 DEF UserInv, MapUpdate
  <2>5. \A p \in owed' : subscriptions'[p] # None /\ ~Unsubscribing(p)'
    <3>1. \A p \in owed : subscriptions'[p] # None
      BY <1>0, <2>1 DEF MapUpdate, RemovalInv, Unsubscribing
    <3>2. \A p \in owed : ~Unsubscribing(p)
      BY <1>0, ZenonT(30) DEF RemovalInv
    <3>3. \A p \in owed : ~Unsubscribing(p)'
      <4>1. UNCHANGED uq
        BY <2>1, Zenon
      <4> QED
        BY <2>4, <3>2, <4>1 DEF Unsubscribing
    <3>4. UNCHANGED owed
      BY <2>1, Zenon
    <3> QED
      BY <3>1, <3>3, <3>4, Zenon
  <2>6. OfferInv'
    <3>1. phase[RequestOf(u)] = "accepted" /\ Sending(u)
      BY <1>0, <2>1, Zenon DEF OfferInv
    <3>2. /\ \A v \in Users, p \in Queries : phase[UnsubReq(v, p)] = "sending" => v # u
          /\ \A v \in Users : phase[UnsubAllReq(v)] = "sending" => v # u
      BY <1>0, <3>1 DEF OfferInv, RequestOf
    <3>3. \A v \in Users : lockWait' # v
      BY <2>1, WSEventsAssumption, Zenon
    <3>4. UNCHANGED <<phase, redo, uq>>
      BY <2>1, <2>2, Zenon
    <3> HIDE Current, Kinds
    <3>5. \A r \in Redos, p \in Queries : phase'[SubReq(r, p)] = "sending" => redo'[r] = "loop"
      BY <1>0, <3>4, Zenon DEF OfferInv
    <3>6. \A v \in Users, p \in Queries :
            phase'[UnsubReq(v, p)] = "sending" => upc'[v] = "unsubscribe" /\ uq'[v] = p
      BY <1>0, <2>4, <3>2, <3>4, ZenonT(30) DEF OfferInv
    <3>7. \A v \in Users : phase'[UnsubAllReq(v)] = "sending" => upc'[v] = "unsubscribe_all"
      BY <1>0, <2>4, <3>2, <3>4, Zenon DEF OfferInv
    <3> QED
      BY <3>3, <3>5, <3>6, <3>7, Zenon DEF OfferInv
  <2> QED
    BY <2>1, <2>2, <2>3, <2>5, <2>6, OwnStep, Zenon
<1>7. CASE UserReceives(u)
  BY <1>7, StillStep, Zenon DEF UserReceives, ownVars
<1> QED
  BY <1>1, <1>3, <1>4, <1>5, <1>6, <1>7, Zenon DEF User

\* So do redoSubscriptionsAfter's steps: what it has read is sent, and what is
\* being sent has been read.
LEMMA RedoRedoStep ==
    ASSUME RedoInv, IInv, C!IInv, NEW k \in Redos, Redo(k)
    PROVE  RedoInv'
<1> USE DEF C!netVars, C!rwVars, C!chanVars, C!rcVars, C!stopVars, lisVars, serverVars, userVars
<1>0. /\ OfferInv /\ RemovalInv /\ UserInv /\ DOMAIN redo = Redos /\ DOMAIN todo = Redos
      /\ \A u \in Users : u \notin Redos
  BY WSEventsAssumption, Zenon DEF RedoInv, IInv, RLockInv
<1>1. \A v \in Users : Sending(v) => RequestOf(v) \in Requests /\ RequestOf(v).by = v
  BY <1>0, Kinds DEF UserInv, Sending, RequestOf
<1>2. ASSUME UNCHANGED <<owed, subscriptions, upc, uq>>
      PROVE  \A p \in owed' : subscriptions'[p] # None /\ ~Unsubscribing(p)'
  BY <1>0, <1>2, StillWanted, Zenon
<1>3. /\ \A j \in Redos, q \in Queries : phase[SubReq(j, q)] = "sending" => redo[j] = "loop"
      /\ \A u \in Users, q \in Queries :
           phase[UnsubReq(u, q)] = "sending" => upc[u] = "unsubscribe" /\ uq[u] = q
      /\ \A u \in Users : phase[UnsubAllReq(u)] = "sending" => upc[u] = "unsubscribe_all"
      /\ \A u \in Users : lockWait = u => Sending(u) /\ phase[RequestOf(u)] = "accepted"
  BY <1>0, Zenon DEF OfferInv
<1>4. CASE RedoLock(k)
  <2>1. /\ UNCHANGED otherVars /\ UNCHANGED <<owed, subscriptions, lockWait, upc, uq, phase>>
        /\ redo[k] = "rlock" /\ redo' = [redo EXCEPT ![k] = "loop"]
        /\ todo' = [todo EXCEPT ![k] = {q \in Queries : subscriptions[q] # None}]
    BY <1>4, Zenon DEF RedoLock, otherVars, clientVars
  <2>2. /\ \A j \in Redos : redo'[j] = IF j = k THEN "loop" ELSE redo[j]
        /\ redo'[k] = "loop" /\ todo'[k] = {q \in Queries : subscriptions[q] # None}
    BY <1>0, <2>1, Zenon
  <2>3. \A p \in owed' : StillToRedo(p)'
    <3>1. owed' \subseteq todo'[k]
      BY <1>0, <2>1, <2>2, Zenon DEF RemovalInv
    <3> QED
      BY <2>2, <3>1, Zenon DEF StillToRedo
  <2>4. OfferInv'
    <3>1. \A j \in Redos : redo[j] = "loop" => redo'[j] = "loop"
      BY <2>2, Zenon
    <3> QED
      BY <1>0, <2>1, <3>1, OfferStep, Zenon
  <2>5. \A j \in Redos : redo[j] = "none" => redo'[j] = "none"
    BY <2>1, <2>2, Zenon
  <2> QED
    BY <1>2, <2>1, <2>3, <2>4, <2>5, OwnStep, Zenon
<1>5. ASSUME NEW q \in Queries, RedoSend(k, q)
      PROVE  RedoInv'
  <2>1. /\ UNCHANGED otherVars /\ UNCHANGED <<owed, subscriptions, lockWait, upc, uq, redo>>
        /\ redo[k] = "loop" /\ phase' = [phase EXCEPT ![SubReq(k, q)] = "sending"]
        /\ todo' = [todo EXCEPT ![k] = todo[k] \ {q}]
    BY <1>5, Zenon DEF RedoSend, RedoIdle, C!Send, otherVars
  <2>2. /\ \A x \in Requests : phase'[x] = IF x = SubReq(k, q) THEN "sending" ELSE phase[x]
        /\ \A j \in Redos : todo'[j] = IF j = k THEN todo[k] \ {q} ELSE todo[j]
        /\ SubReq(k, q) \in Requests
    BY <1>0, <2>1, Current, Kinds, Zenon
  <2>3. \A p \in owed' : StillToRedo(p) => StillToRedo(p)'
    <3> SUFFICES ASSUME NEW p \in owed, StillToRedo(p)
                 PROVE  StillToRedo(p)'
      BY <2>1, Zenon
    <3>1. p \in Queries /\ \A j \in Redos : SubReq(j, p) \in Requests
      BY <1>0, Kinds, Zenon DEF RemovalInv
    <3>2. CASE p = q
      BY <2>2, <3>2, Zenon DEF StillToRedo
    <3>3. CASE p # q
      <4>1. \A j \in Redos : p \in todo[j] => p \in todo'[j]
        BY <2>2, <3>3, Zenon
      <4>2. \A j \in Redos : phase[SubReq(j, p)] = "sending" => phase'[SubReq(j, p)] = "sending"
        BY <2>2, <3>1, Zenon
      <4> QED
        BY <2>1, <4>1, <4>2, Zenon DEF StillToRedo
    <3> QED
      BY <3>2, <3>3, Zenon
  <2>4. OfferInv'
    <3>1. ASSUME NEW v \in Users, lockWait = v
          PROVE  Sending(v)' /\ phase'[RequestOf(v)'] = "accepted"
      <4>1. Sending(v) /\ phase[RequestOf(v)] = "accepted" /\ RequestOf(v) \in Requests /\ RequestOf(v).by = v
        BY <1>0, <1>1, <3>1, Zenon DEF OfferInv
      <4>2. UNCHANGED <<upc, uq>> /\ SubReq(k, q).by = k /\ v # k
        BY <1>0, <2>1, Fields, Zenon
      <4>3. RequestOf(v)' = RequestOf(v) /\ Sending(v)'
        BY <4>1, <4>2, SameRequest, Zenon
      <4>4. RequestOf(v) # SubReq(k, q)
        BY <4>1, <4>2, Zenon
      <4> QED
        BY <2>2, <4>1, <4>3, <4>4, Zenon
    <3>2. \A j \in Redos, p \in Queries : phase'[SubReq(j, p)] = "sending" => redo'[j] = "loop"
      <4>1. \A j \in Redos, p \in Queries : SubReq(j, p) \in Requests
        BY Kinds, Zenon
      <4>2. \A j, p : SubReq(j, p) = SubReq(k, q) => j = k
        BY Fields
      <4>3. UNCHANGED redo /\ redo[k] = "loop"
        BY <2>1, Zenon
      <4> QED
        BY <1>3, <2>2, <4>1, <4>2, <4>3
    <3>3. /\ \A u \in Users, p \in Queries : UnsubReq(u, p) \in Requests /\ UnsubReq(u, p) # SubReq(k, q)
          /\ \A u \in Users : UnsubAllReq(u) \in Requests /\ UnsubAllReq(u) # SubReq(k, q)
      BY Kinds
    <3>4. UNCHANGED <<upc, uq, lockWait>> /\ \A x \in Requests : x # SubReq(k, q) => phase'[x] = phase[x]
      BY <2>1, <2>2, Zenon
    <3>5. ASSUME NEW u \in Users, NEW p \in Queries, phase'[UnsubReq(u, p)] = "sending"
          PROVE  upc'[u] = "unsubscribe" /\ uq'[u] = p
      <4>1. phase[UnsubReq(u, p)] = "sending"
        BY <3>3, <3>4, <3>5, Zenon
      <4> QED
        BY <1>3, <3>4, <4>1, Zenon
    <3>6. ASSUME NEW u \in Users, phase'[UnsubAllReq(u)] = "sending"
          PROVE  upc'[u] = "unsubscribe_all"
      <4>1. phase[UnsubAllReq(u)] = "sending"
        BY <3>3, <3>4, <3>6, Zenon
      <4> QED
        BY <1>3, <3>4, <4>1, Zenon
    <3> QED
      BY <3>1, <3>2, <3>4, <3>5, <3>6, Zenon DEF OfferInv
  <2>5. \A j \in Redos : redo[j] = "none" => redo'[j] = "none"
    BY <2>1, Zenon
  <2> QED
    BY <1>2, <2>1, <2>3, <2>4, <2>5, OwnStep, Zenon
<1>6. CASE RedoDone(k)
  <2>1. /\ UNCHANGED otherVars /\ UNCHANGED <<owed, subscriptions, lockWait, upc, uq, phase, todo>>
        /\ redo' = [redo EXCEPT ![k] = "done"]
        /\ redo[k] = "loop" /\ todo[k] = {} /\ \A q \in Queries : phase[SubReq(k, q)] # "sending"
    BY <1>6, Zenon DEF RedoDone, RedoIdle, otherVars, clientVars
  <2>2. \A j \in Redos : redo'[j] = IF j = k THEN "done" ELSE redo[j]
    BY <1>0, <2>1, Zenon
  <2>3. \A p \in owed' : StillToRedo(p) => StillToRedo(p)'
    BY <1>0, <2>1, <2>2, Zenon DEF StillToRedo, RemovalInv
  <2>4. OfferInv'
    <3>1. \A j \in Redos, q \in Queries : phase'[SubReq(j, q)] = "sending" => redo'[j] = "loop"
      BY <1>3, <2>1, <2>2
    <3>2. \A u \in Users : RequestOf(u)' = RequestOf(u) /\ (Sending(u)' <=> Sending(u))
      BY <2>1, SameRequest, Zenon
    <3>3. UNCHANGED <<phase, upc, uq, lockWait>>
      BY <2>1, Zenon
    <3> QED
      BY <1>3, <3>1, <3>2, <3>3 DEF OfferInv
  <2>5. \A j \in Redos : redo[j] = "none" => redo'[j] = "none"
    BY <2>1, <2>2, Zenon
  <2> QED
    BY <1>2, <2>1, <2>3, <2>4, <2>5, OwnStep, Zenon
<1> QED
  BY <1>4, <1>5, <1>6, Zenon DEF Redo

-----------------------------------------------------------------------------
(* The client inside the composition, and the lock of the map.             *)

\* A step that leaves the client's variables alone is a stutter of WSClient.
LEMMA ClientQuiet ==
    ASSUME UNCHANGED clientVars
    PROVE  UNCHANGED C!vars
BY Zenon DEF clientVars, C!vars, C!netVars, C!rwVars, C!chanVars, C!rcVars, C!stopVars, C!sendVars

\* Every step of the composition without SimpleCall is a step or a stutter of
\* the client.
LEMMA ClientStep ==
    ASSUME Calls = {}, IInv, [Next]_vars
    PROVE  [C!Next]_(C!vars)
<1>1. CASE UNCHANGED vars
  BY <1>1, ClientQuiet, Zenon DEF vars
<1>2. CASE ~C!Panicked /\ (LinkFails \/ Stop \/ Stopping)
  BY <1>2, Zenon DEF LinkFails, Stop, Stopping, C!Next
<1>3. CASE StopQuit
  BY <1>3, ClientQuiet, Zenon DEF StopQuit
<1>4. ASSUME ~C!Panicked, NEW d \in C!Dials, Writer(d)
      PROVE  C!Next
  BY <1>4, Zenon DEF Writer, WriterUnticked, C!Next, C!Writer, C!WriterUnticked
<1>5. ASSUME ~C!Panicked, NEW d \in C!Dials, Reader(d)
      PROVE  C!Next
  BY <1>5, Zenon DEF Reader, ReaderReads, C!Next, C!Reader
<1>6. CASE ~C!Panicked /\ Reconnector
  BY <1>6, Zenon DEF Reconnector, Reconnected, C!Next, C!Reconnector
<1>7. ASSUME NEW q \in Queries, ServerPublishes(q)
      PROVE  UNCHANGED C!vars
  BY <1>7, ClientQuiet, Zenon DEF ServerPublishes
<1>8. ASSUME ~C!Panicked, NEW u \in Users, User(u)
      PROVE  C!Next \/ UNCHANGED C!vars
  <2>1. ASSUME NEW q \in Queries, Subscribe(u, q)
        PROVE  C!Next
    <3>1. SubReq(u, q) \in Requests
      BY Kinds, Zenon
    <3> QED
      BY <1>8, <2>1, <3>1, Zenon DEF Subscribe, C!Next
  <2>2. CASE Unsubscribe(u) \/ UserCtxDone(u)
    <3>1. uq[u] \in Queries
      BY <2>2, Zenon DEF Unsubscribe, UserCtxDone, Sending, IInv, UserInv
    <3>2. {SubReq(u, uq[u]), UnsubReq(u, uq[u]), UnsubAllReq(u)} \subseteq Requests
      BY <3>1, Kinds
    <3>3. \E r \in Requests : C!Send(r) \/ C!SendCtxDone(r)
      BY <2>2, <3>2, Zenon DEF Unsubscribe, UserCtxDone, RequestOf, Sending
    <3> QED
      BY <1>8, <3>3, Zenon DEF C!Next
  <2>3. CASE UserLocks(u) \/ UserUpdates(u) \/ UserReceives(u)
    BY <2>3, ClientQuiet, Zenon DEF UserLocks, UserUpdates, UserReceives
  <2> QED
    BY <1>8, <2>1, <2>2, <2>3, Zenon DEF User
<1>9. ASSUME ~C!Panicked, NEW k \in Redos, Redo(k)
      PROVE  C!Next \/ UNCHANGED C!vars
  <2>1. ASSUME NEW q \in Queries, RedoSend(k, q)
        PROVE  C!Next
    <3>1. SubReq(k, q) \in Requests
      BY Kinds, Zenon
    <3> QED
      BY <1>9, <2>1, <3>1, Zenon DEF RedoSend, C!Next
  <2>2. CASE RedoLock(k) \/ RedoDone(k)
    BY <2>2, ClientQuiet, Zenon DEF RedoLock, RedoDone
  <2> QED
    BY <1>9, <2>1, <2>2, Zenon DEF Redo
<1>10. CASE ~C!Panicked /\ Listener
  <2>1. ASSUME NEW d \in C!Dials, ListenerReceives(d)
        PROVE  C!Next
    BY <1>10, <2>1, Zenon DEF ListenerReceives, C!Next, C!Reader
  <2>2. CASE ListenerRetried \/ ListenerPublishes \/ ListenerQuits
    BY <2>2, ClientQuiet, Zenon DEF ListenerRetried, ListenerPublishes, ListenerQuits
  <2> QED
    BY <1>10, <2>1, <2>2, Zenon DEF Listener
<1> QED
  BY <1>1, <1>2, <1>3, <1>4, <1>5, <1>6, <1>7, <1>8, <1>9, <1>10, Zenon DEF Next

\* mtx.RLock and mtx.Lock exclude each other in every step.
LEMMA RLockStep ==
    ASSUME IInv, [Next]_vars
    PROVE  RLockInv'
<1> USE DEF IInv, RLockInv, MapStableUnderRLock, userVars, redoVars, lisVars, evVars
<1>0. ListenerId \notin Redos
  BY WSEventsAssumption DEF ListenerId, Redos, Reconnects, Retries
<1>1. CASE UNCHANGED vars
  BY <1>1, Zenon DEF vars
<1>2. CASE LinkFails \/ Stop \/ Stopping \/ StopQuit
  BY <1>2, Zenon DEF LinkFails, Stop, Stopping, StopQuit
<1>3. ASSUME NEW d \in C!Dials, Writer(d) \/ Reader(d)
      PROVE  RLockInv'
  BY <1>3, Zenon DEF Writer, WriterUnticked, Reader, ReaderReads
<1>4. CASE Reconnector
  <2>1. CASE Reconnected
    BY <2>1, Zenon DEF Reconnected
  <2>2. CASE ~Reconnected
    BY <1>4, <2>2, Zenon DEF Reconnector
  <2> QED
    BY <2>1, <2>2, Zenon
<1>5. ASSUME NEW q \in Queries, ServerPublishes(q)
      PROVE  RLockInv'
  BY <1>5, Zenon DEF ServerPublishes
<1>6. ASSUME NEW u \in Users, User(u)
      PROVE  RLockInv'
  <2>1. CASE (\E q \in Queries : Subscribe(u, q)) \/ Unsubscribe(u) \/ UserCtxDone(u) \/ UserLocks(u)
    BY <2>1, Zenon DEF Subscribe, Unsubscribe, UserCtxDone, UserLocks
  <2>2. CASE UserUpdates(u)
    <3>1. subscriptions' \in [Queries -> Users \cup {None}]
      BY <2>2, Zenon DEF UserUpdates, MapUpdate
    <3>2. (\A k \in Redos : redo[k] # "loop") /\ lis # "handoff"
      BY <2>2, Zenon DEF UserUpdates
    <3> QED
      BY <2>2, <3>1, <3>2, Zenon DEF UserUpdates
  <2>3. CASE UserReceives(u)
    BY <1>0, <2>3, Zenon DEF UserReceives
  <2> QED
    BY <1>6, <2>1, <2>2, <2>3, Zenon DEF User
<1>7. ASSUME NEW k \in Redos, Redo(k)
      PROVE  RLockInv'
  <2>1. CASE RedoLock(k)
    BY <2>1, Zenon DEF RedoLock
  <2>2. ASSUME NEW q \in Queries, RedoSend(k, q)
        PROVE  RLockInv'
    BY <2>2, Zenon DEF RedoSend
  <2>3. CASE RedoDone(k)
    BY <1>0, <2>3, Zenon DEF RedoDone
  <2> QED
    BY <1>7, <2>1, <2>2, <2>3, Zenon DEF Redo
<1>8. CASE Listener
  <2>1. ASSUME NEW d \in C!Dials, ListenerReceives(d)
        PROVE  RLockInv'
    BY <2>1, Zenon DEF ListenerReceives
  <2>2. CASE ListenerRetried \/ ListenerQuits
    BY <2>2, Zenon DEF ListenerRetried, ListenerQuits
  <2>3. CASE ListenerPublishes
    BY <2>3, Zenon DEF ListenerPublishes
  <2> QED
    BY <1>8, <2>1, <2>2, <2>3, Zenon DEF Listener
<1>9. ASSUME NEW c \in Calls, Call(c)
      PROVE  RLockInv'
  BY <1>9, Zenon DEF Call, SimpleCall, CallSendTimesOut, CallTimesOut, CallPush
<1> QED
  BY <1>1, <1>2, <1>3, <1>4, <1>5, <1>6, <1>7, <1>8, <1>9, Zenon DEF Next

\* Subscribe stores the query before anything else uses it.
LEMMA UserStep ==
    ASSUME IInv, [Next]_vars
    PROVE  UserInv'
<1> USE DEF IInv, UserInv, userVars, evVars
<1>1. CASE UNCHANGED <<upc, uq>>
  BY <1>1, Zenon
<1>2. ASSUME NEW u \in Users, NEW q \in Queries, Subscribe(u, q)
      PROVE  UserInv'
  BY <1>2, Zenon DEF Subscribe
<1>3. ASSUME NEW u \in Users, Unsubscribe(u)
      PROVE  UserInv'
  BY <1>3, Zenon DEF Unsubscribe
<1>4. ASSUME NEW u \in Users, UserCtxDone(u)
      PROVE  UserInv'
  BY <1>4, Zenon DEF UserCtxDone, Sending
<1>5. ASSUME NEW u \in Users, UserUpdates(u)
      PROVE  UserInv'
  BY <1>5, Zenon DEF UserUpdates, MapUpdate
<1>6. ASSUME NEW u \in Users, UserLocks(u) \/ UserReceives(u)
      PROVE  UNCHANGED <<upc, uq>>
  BY <1>6, Zenon DEF UserLocks, UserReceives
<1>7. ASSUME NEW k \in Redos, Redo(k)
      PROVE  UNCHANGED <<upc, uq>>
  BY <1>7, Zenon DEF Redo, RedoLock, RedoSend, RedoDone
<1>8. CASE Listener
  BY <1>1, <1>8, Zenon DEF Listener, ListenerReceives, ListenerRetried, ListenerPublishes, ListenerQuits
<1>9. ASSUME NEW c \in Calls, Call(c)
      PROVE  UNCHANGED <<upc, uq>>
  BY <1>9, Zenon DEF Call, SimpleCall, CallSendTimesOut, CallTimesOut, CallPush
<1>10. ASSUME NEW d \in C!Dials, Writer(d) \/ Reader(d)
       PROVE  UNCHANGED <<upc, uq>>
  BY <1>10, Zenon DEF Writer, WriterUnticked, Reader, ReaderReads
<1>11. CASE Reconnector
  BY <1>1, <1>11, Zenon DEF Reconnector, Reconnected
<1>12. CASE LinkFails \/ Stop \/ Stopping \/ StopQuit \/ \E q \in Queries : ServerPublishes(q)
  BY <1>1, <1>12, Zenon DEF LinkFails, Stop, Stopping, StopQuit, ServerPublishes
<1>13. CASE UNCHANGED vars
  BY <1>1, <1>13, Zenon DEF vars
<1> QED
  BY <1>1, <1>2, <1>3, <1>4, <1>5, <1>6, <1>7, <1>8, <1>9, <1>10, <1>11, <1>12, <1>13, Zenon
  DEF Next, User

\* IInv holds in every reachable state, SimpleCall included.
THEOREM EventsInvariant == Spec => []IInv
<1>1. Init => IInv
  <2> SUFFICES ASSUME Init PROVE IInv
    OBVIOUS
  <2>1. RLockInv
    BY Zenon DEF Init, RLockInv, MapStableUnderRLock
  <2>2. UserInv
    BY Zenon DEF Init, UserInv
  <2> QED
    BY <2>1, <2>2, Zenon DEF IInv
<1>2. IInv /\ [Next]_vars => IInv'
  BY RLockStep, UserStep, Zenon DEF IInv
<1> QED
  BY <1>1, <1>2, PTL DEF Spec

\* The subscriptions map does not change while redoSubscriptionsAfter ranges
\* over it or eventListener waits on one of its channels.
THEOREM MapStableUnderRLockHolds == Spec => []MapStableUnderRLock
<1>1. IInv => MapStableUnderRLock
  BY Zenon DEF IInv, RLockInv
<1> QED
  BY EventsInvariant, <1>1, PTL

\* Without SimpleCall the composition implements WSClient, so everything proved
\* of the client (WSClientProofs) holds for the client inside WSEvents.
THEOREM ImplementsClientHolds ==
    ASSUME Calls = {}
    PROVE  Spec => ImplementsClient
<1>1. Init => C!Init
  BY Zenon DEF Init
<1>2. IInv /\ [Next]_vars => [C!Next]_(C!vars)
  BY ClientStep, Zenon
<1> QED
  BY EventsInvariant, <1>1, <1>2, PTL DEF Spec, ImplementsClient, C!Spec

-----------------------------------------------------------------------------
(* What the client does preserves the invariant behind OwedAreRedone.      *)

\* The steps of the client that do not concern this layer.
LEMMA ClientQuietSteps ==
    ASSUME RedoInv, C!IInv, UNCHANGED evVars,
           \/ C!LinkFails \/ C!Stop \/ C!StopWaited \/ C!StopClose
           \/ \E d \in C!Dials : \/ C!WriterWriteFails(d) \/ C!WriterPingFails(d) \/ C!WriterPush(d)
                                 \/ C!WriterReadQuit(d) \/ C!WriterQuit(d) \/ C!WriterExit(d)
           \/ \E d \in C!Dials : \/ C!ReaderUnexpectedClose(d) \/ C!ReaderSilentReturn(d) \/ C!ReaderPush(d)
                                 \/ C!ReaderSkips(d) \/ C!ReaderExit(d)
                                 \/ respClosed /\ C!ReaderDelivers(d)
           \/ C!RcRecv \/ C!RcQuit \/ C!RcWaited \/ C!DialFails \/ C!Drain \/ C!BacklogTake
           \/ C!ResendFails \/ C!BacklogPush \/ C!BacklogRequeue \/ C!StartReadWriteRoutines
           \/ C!RcStop \/ C!RcStopWaited \/ C!RcStopClose
    PROVE  RedoInv'
<1> USE DEF C!netVars, C!rwVars, C!chanVars, C!rcVars, C!stopVars, C!sendVars
<1>0. FreshInv /\ UNCHANGED ownVars
  BY Zenon DEF RedoInv, ownVars, evVars, userVars, redoVars, lisVars, serverVars
<1>1. /\ conn \in C!Dials /\ DOMAIN link = C!Dials /\ DOMAIN rd = C!Dials /\ DOMAIN wr = C!Dials
      /\ \A d \in C!Dials : wr[d] \notin {"none", "done"} => d = conn
      /\ rc \in {"stopwait", "stopclose", "done"} => stopped
      /\ rc = "start" => rd[conn] \in {"none", "done"}
  BY Current, Zenon
<1>2. CASE C!LinkFails
  BY <1>0, <1>1, <1>2, QuietStep, Zenon DEF FreshInv, C!LinkFails
<1>3. CASE C!Stop
  BY <1>0, <1>1, <1>3, QuietStep, Zenon DEF FreshInv, C!Stop
<1>4. CASE C!StopWaited
  BY <1>0, <1>1, <1>4, QuietStep, Zenon DEF FreshInv, C!StopWaited
<1>5. CASE C!StopClose
  BY <1>0, <1>1, <1>5, QuietStep, Zenon DEF FreshInv, C!StopClose
<1>6. ASSUME NEW d \in C!Dials, C!WriterWriteFails(d)
      PROVE  RedoInv'
  BY <1>0, <1>1, <1>6, QuietStep, Zenon DEF FreshInv, C!WriterWriteFails, C!WriteCanFail
<1>7. ASSUME NEW d \in C!Dials, C!WriterPingFails(d)
      PROVE  RedoInv'
  BY <1>0, <1>1, <1>7, QuietStep, Zenon DEF FreshInv, C!WriterPingFails, C!WriteCanFail
<1>8. ASSUME NEW d \in C!Dials, C!WriterPush(d)
      PROVE  RedoInv'
  BY <1>0, <1>1, <1>8, QuietStep, Zenon DEF FreshInv, C!WriterPush
<1>9. ASSUME NEW d \in C!Dials, C!WriterReadQuit(d)
      PROVE  RedoInv'
  BY <1>0, <1>1, <1>9, QuietStep, Zenon DEF FreshInv, C!WriterReadQuit
<1>10. ASSUME NEW d \in C!Dials, C!WriterQuit(d)
      PROVE  RedoInv'
  BY <1>0, <1>1, <1>10, QuietStep, Zenon DEF FreshInv, C!WriterQuit
<1>11. ASSUME NEW d \in C!Dials, C!WriterExit(d)
      PROVE  RedoInv'
  BY <1>0, <1>1, <1>11, QuietStep, Zenon DEF FreshInv, C!WriterExit
<1>12. ASSUME NEW d \in C!Dials, C!ReaderUnexpectedClose(d)
      PROVE  RedoInv'
  BY <1>0, <1>1, <1>12, QuietStep, Zenon DEF FreshInv, C!ReaderUnexpectedClose
<1>13. ASSUME NEW d \in C!Dials, C!ReaderSilentReturn(d)
      PROVE  RedoInv'
  BY <1>0, <1>1, <1>13, QuietStep, Zenon DEF FreshInv, C!ReaderSilentReturn
<1>14. ASSUME NEW d \in C!Dials, C!ReaderPush(d)
      PROVE  RedoInv'
  BY <1>0, <1>1, <1>14, QuietStep, Zenon DEF FreshInv, C!ReaderPush
<1>15. ASSUME NEW d \in C!Dials, C!ReaderSkips(d)
      PROVE  RedoInv'
  BY <1>0, <1>1, <1>15, QuietStep, Zenon DEF FreshInv, C!ReaderSkips
<1>16. ASSUME NEW d \in C!Dials, C!ReaderExit(d)
      PROVE  RedoInv'
  BY <1>0, <1>1, <1>16, QuietStep, Zenon DEF FreshInv, C!ReaderExit
<1>17. ASSUME NEW d \in C!Dials, respClosed /\ C!ReaderDelivers(d)
      PROVE  RedoInv'
  BY <1>0, <1>1, <1>17, QuietStep, Zenon DEF FreshInv, C!ReaderDelivers
<1>18. CASE C!RcRecv
  BY <1>0, <1>1, <1>18, QuietStep, Zenon DEF FreshInv, C!RcRecv
<1>19. CASE C!RcQuit
  BY <1>0, <1>1, <1>19, QuietStep, Zenon DEF FreshInv, C!RcQuit
<1>20. CASE C!RcWaited
  BY <1>0, <1>1, <1>20, QuietStep, Zenon DEF FreshInv, C!RcWaited
<1>21. CASE C!DialFails
  BY <1>0, <1>1, <1>21, QuietStep, Zenon DEF FreshInv, C!DialFails
<1>22. CASE C!Drain
  BY <1>0, <1>1, <1>22, QuietStep, Zenon DEF FreshInv, C!Drain
<1>23. CASE C!BacklogTake
  BY <1>0, <1>1, <1>23, QuietStep, Zenon DEF FreshInv, C!BacklogTake
<1>24. CASE C!ResendFails
  BY <1>0, <1>1, <1>24, QuietStep, Zenon DEF FreshInv, C!ResendFails
<1>25. CASE C!BacklogPush
  BY <1>0, <1>1, <1>25, QuietStep, Zenon DEF FreshInv, C!BacklogPush
<1>26. CASE C!BacklogRequeue
  BY <1>0, <1>1, <1>26, QuietStep, Zenon DEF FreshInv, C!BacklogRequeue
<1>27. CASE C!StartReadWriteRoutines
  BY <1>0, <1>1, <1>27, QuietStep, Zenon DEF FreshInv, C!StartReadWriteRoutines
<1>28. CASE C!RcStop
  BY <1>0, <1>1, <1>28, QuietStep, Zenon DEF FreshInv, C!RcStop
<1>29. CASE C!RcStopWaited
  BY <1>0, <1>1, <1>29, QuietStep, Zenon DEF FreshInv, C!RcStopWaited
<1>30. CASE C!RcStopClose
  BY <1>0, <1>1, <1>30, QuietStep, Zenon DEF FreshInv, C!RcStopClose
<1> QED
  BY <1>2, <1>3, <1>4, <1>5, <1>6, <1>7, <1>8, <1>9, <1>10, <1>11, <1>12, <1>13, <1>14, <1>15,
     <1>16, <1>17, <1>18, <1>19, <1>20, <1>21, <1>22, <1>23, <1>24, <1>25, <1>26, <1>27,
     <1>28, <1>29, <1>30, ZenonT(30)

\* What the server makes of a request.
LEMMA ServerStep ==
    ASSUME inbox \in Seq(Messages), NEW r \in Requests, ServerGets(r)
    PROVE  /\ inbox' \in Seq(Messages) /\ (Refused(inbox) => Refused(inbox)')
           /\ link[conn] = "open" /\ r.kind = "subscribe" => r.query \in srv' \/ Refused(inbox)'
           /\ r.kind \in {"subscribe", "call"} => srv \subseteq srv'
           /\ r.kind = "unsubscribe" => srv \ {r.query} \subseteq srv'
<1>1. CASE link[conn] # "open"
  BY <1>1, Zenon DEF ServerGets, serverVars
<1>2. CASE link[conn] = "open"
  <2>1. ServerHandles(r)
    BY <1>2, Zenon DEF ServerGets
  <2>2. ASSUME NEW type \in {"ok", "refused", "already"}, Reply(type, None)
        PROVE  /\ inbox' \in Seq(Messages) /\ (Refused(inbox) => Refused(inbox)')
               /\ type = "refused" => Refused(inbox)'
    <3>1. [type |-> type, about |-> None] \in Messages
      BY Zenon DEF Messages
    <3> QED
      BY <2>2, <3>1, OneMessageMore, Zenon DEF Reply
  <2>3. CASE r.kind = "subscribe"
    BY <2>1, <2>2, <2>3, Zenon DEF ServerHandles
  <2>4. CASE r.kind = "unsubscribe"
    BY <2>1, <2>2, <2>4, Zenon DEF ServerHandles
  <2>5. CASE r.kind = "unsubscribe_all"
    BY <2>1, <2>2, <2>5, Zenon DEF ServerHandles
  <2>6. CASE r.kind = "call"
    <3>1. r.by \in Calls
      BY <2>6, KindOf, Zenon
    <3>2. [type |-> "answer", about |-> r.by] \in Messages
      BY <3>1, Zenon DEF Messages
    <3>3. Reply("answer", r.by) /\ UNCHANGED srv
      BY <2>1, <2>6, Zenon DEF ServerHandles
    <3> QED
      BY <2>6, <3>2, <3>3, OneMessageMore, Zenon DEF Reply
  <2> QED
    BY <2>3, <2>4, <2>5, <2>6, KindOf, Zenon
<1> QED
  BY <1>1, <1>2, Zenon

\* The writer takes a request from whoever offers it.
LEMMA ReceivedStep ==
    ASSUME RedoInv, IInv, C!IInv, UNCHANGED evVars, NEW d \in C!Dials, NEW r \in Requests,
           C!WriterRecv(d, r)
    PROVE  RedoInv'
<1>0. UNCHANGED ownVars
  BY Zenon DEF ownVars, evVars, userVars, redoVars, lisVars, serverVars
<1>1. /\ d = conn /\ held[conn] = None /\ held'[conn] = r /\ wr'[conn] = "write"
      /\ UNCHANGED <<conn, link, rd, rc, stopped, ustop, respClosed>>
      /\ phase' = [phase EXCEPT ![r] = "accepted"] /\ phase[r] = "sending"
      /\ rc \notin {"drain", "backlog", "resend", "start"}
  BY Current, Zenon DEF C!WriterRecv, C!netVars, C!chanVars, C!rcVars, C!stopVars
<1>2. \A x \in Requests : phase'[x] = IF x = r THEN "accepted" ELSE phase[x]
  BY <1>1, Current, Zenon
<1>3. ASSUME NEW q \in Queries, StillToRedo(q)
      PROVE  StillToRedo(q)' \/ \E a \in Users \cup Redos : r = SubReq(a, q)
  <2>1. \A k \in Redos : SubReq(k, q) \in Requests
    BY Kinds, Zenon
  <2> QED
    BY <1>0, <1>2, <1>3, <2>1, Zenon DEF StillToRedo, ownVars
<1>4. RefusalComing => RefusalComing'
  BY <1>0, <1>1, Zenon DEF RefusalComing, ownVars
<1>5. owed \subseteq Queries
  BY Zenon DEF RedoInv, RemovalInv
<1>6. OwedInv'
  <2> SUFFICES ASSUME NEW q \in owed
               PROVE  \/ q \in srv' \/ StillToRedo(q)' \/ RefusalComing'
                      \/ \E a \in Users \cup Redos : held'[conn'] = SubReq(a, q)
                      \/ link'[conn'] # "open" \/ stopped'
    BY <1>0, Zenon DEF OwedInv, ownVars
  <2>1. \A a \in Users \cup Redos : None # SubReq(a, q)
    BY <1>5, NoneIsNoRequest, Zenon
  <2>2. \/ q \in srv \/ StillToRedo(q) \/ RefusalComing
        \/ link[conn] # "open" \/ stopped
    BY <1>1, <2>1, Zenon DEF RedoInv, OwedInv
  <2> QED
    BY <1>0, <1>1, <1>3, <1>4, <1>5, <2>2, Zenon DEF ownVars
<1>7. RemovalInv'
  <2>1. \A q \in owed, u \in Users : r \notin {UnsubReq(u, q), UnsubAllReq(u)}
    <3>1. /\ \A q \in owed : q \in Queries /\ ~Unsubscribing(q)
          /\ \A u \in Users, q \in Queries :
               phase[UnsubReq(u, q)] = "sending" => upc[u] = "unsubscribe" /\ uq[u] = q
          /\ \A u \in Users : phase[UnsubAllReq(u)] = "sending" => upc[u] = "unsubscribe_all"
      BY Zenon DEF RedoInv, RemovalInv, OfferInv
    <3>2. ASSUME NEW q \in owed, NEW u \in Users, r = UnsubReq(u, q)
          PROVE  FALSE
      <4>1. phase[UnsubReq(u, q)] = "sending" /\ q \in Queries
        BY <1>1, <3>1, <3>2, Zenon
      <4>2. upc[u] = "unsubscribe" /\ uq[u] = q
        BY <3>1, <4>1, Zenon
      <4> QED
        BY <3>1, <4>2, Zenon DEF Unsubscribing
    <3>3. ASSUME NEW q \in owed, NEW u \in Users, r = UnsubAllReq(u)
          PROVE  FALSE
      <4>1. upc[u] = "unsubscribe_all"
        BY <1>1, <3>1, <3>3, Zenon
      <4> QED
        BY <3>1, <4>1, Zenon DEF Unsubscribing
    <3> QED
      BY <3>2, <3>3, Zenon
  <2> QED
    BY <1>0, <1>1, <2>1, Zenon DEF RedoInv, RemovalInv, Unsubscribing, ownVars
<1>8. OfferInv'
  <2>1. \A x \in Requests : /\ phase'[x] = "sending" => phase[x] = "sending"
                            /\ phase[x] = "accepted" => phase'[x] = "accepted"
    BY <1>2, Zenon
  <2>2. /\ OfferInv
        /\ \A u \in Users : lockWait = u => Sending(u) /\ phase[RequestOf(u)] = "accepted"
    BY Zenon DEF RedoInv, OfferInv
  <2>3. \A u \in Users : lockWait = u => RequestOf(u) \in Requests
    BY <2>2, Kinds, Zenon DEF Sending, RequestOf, IInv, UserInv
  <2>4. \A u \in Users : RequestOf(u)' = RequestOf(u) /\ (Sending(u)' <=> Sending(u))
    BY <1>0, SameRequest, Zenon DEF ownVars
  <2>5. /\ \A k \in Redos, q \in Queries : SubReq(k, q) \in Requests
        /\ \A u \in Users, q \in Queries : UnsubReq(u, q) \in Requests
        /\ \A u \in Users : UnsubAllReq(u) \in Requests
    BY Kinds, Zenon
  <2>6. UNCHANGED <<redo, upc, uq, lockWait>>
    BY <1>0, Zenon DEF ownVars
  <2>7. \A k \in Redos, q \in Queries : phase'[SubReq(k, q)] = "sending" => redo'[k] = "loop"
    BY <2>1, <2>2, <2>5, <2>6, Zenon DEF OfferInv
  <2>8. \A u \in Users, q \in Queries :
          phase'[UnsubReq(u, q)] = "sending" => upc'[u] = "unsubscribe" /\ uq'[u] = q
    BY <2>1, <2>2, <2>5, <2>6, Zenon DEF OfferInv
  <2>9. \A u \in Users : phase'[UnsubAllReq(u)] = "sending" => upc'[u] = "unsubscribe_all"
    BY <2>1, <2>2, <2>5, <2>6, Zenon DEF OfferInv
  <2>10. \A u \in Users : lockWait' = u => Sending(u)' /\ phase'[RequestOf(u)'] = "accepted"
    BY <2>1, <2>2, <2>4, <2>6, <2>3, Zenon
  <2> QED
    BY <2>7, <2>8, <2>9, <2>10, Zenon DEF OfferInv
<1>9. FreshInv'
  BY <1>0, <1>1, Zenon DEF RedoInv, FreshInv, ownVars
<1> QED
  BY <1>6, <1>7, <1>8, <1>9, Zenon DEF RedoInv

\* A request leaves the writer or processBacklog for the server; those of the
\* backlog come before the redone ones, and the writer has no removal of an owed
\* subscription.
LEMMA WrittenStep ==
    ASSUME RedoInv, C!IInv, UNCHANGED <<quit, userVars, cpc, redoVars, lisVars, rmsg>>,
           \/ \E d \in C!Dials : C!WriterWriteOK(d) /\ ServerGets(held[d])
           \/ C!ResendOK /\ ServerGets(pending)
    PROVE  RedoInv'
<1>0. /\ UNCHANGED <<owed, redo, todo, rmsg, subscriptions, upc, uq, lockWait, retries>>
      /\ OwedInv /\ RemovalInv /\ OfferInv /\ FreshInv
  BY Zenon DEF RedoInv, userVars, redoVars, lisVars
<1>1. PICK r \in Requests :
        /\ ServerGets(r)
        /\ UNCHANGED <<conn, link, rd, stopped, ustop, respClosed, phase>>
        /\ \/ held[conn] = r /\ held'[conn] = None /\ wr'[conn] = "select" /\ UNCHANGED rc
           \/ rc = "resend" /\ rc' = "start" /\ UNCHANGED <<held, wr>>
  <2> USE DEF C!netVars, C!rwVars, C!chanVars, C!rcVars, C!stopVars
  <2>1. ASSUME NEW d \in C!Dials, C!WriterWriteOK(d), ServerGets(held[d])
        PROVE  /\ d = conn /\ held[d] \in Requests /\ held'[d] = None /\ wr'[d] = "select"
               /\ UNCHANGED <<conn, link, rd, rc, stopped, ustop, respClosed, phase>>
    BY <2>1, Current, Zenon DEF C!WriterWriteOK
  <2>2. CASE C!ResendOK /\ ServerGets(pending)
    BY <2>2, Current, Zenon DEF C!ResendOK
  <2> QED
    BY <2>1, <2>2, Zenon
<1>2. /\ inbox' \in Seq(Messages) /\ (Refused(inbox) => Refused(inbox)')
      /\ link[conn] = "open" /\ r.kind = "subscribe" => r.query \in srv' \/ Refused(inbox)'
      /\ r.kind \in {"subscribe", "call"} => srv \subseteq srv'
      /\ r.kind = "unsubscribe" => srv \ {r.query} \subseteq srv'
  BY <1>0, <1>1, ServerStep, Zenon DEF FreshInv
<1>3. \A q : StillToRedo(q)' <=> StillToRedo(q)
  BY <1>0, <1>1, Zenon DEF StillToRedo
<1>4. RefusalComing => RefusalComing'
  BY <1>0, <1>1, <1>2, Zenon DEF RefusalComing
<1>5. OwedInv'
  <2> SUFFICES ASSUME NEW q \in owed
               PROVE  \/ q \in srv' \/ StillToRedo(q)' \/ RefusalComing'
                      \/ \E a \in Users \cup Redos : held'[conn'] = SubReq(a, q)
                      \/ link'[conn'] # "open" \/ stopped'
    BY <1>0, Zenon DEF OwedInv
  <2>1. CASE rc = "resend"
    BY <1>0, <1>3, <2>1, Zenon DEF RemovalInv
  <2>2. CASE held[conn] = r
    <3>1. CASE q \in srv
      <4>1. \A u \in Users : r # UnsubReq(u, q) /\ r # UnsubAllReq(u)
        BY <1>0, <2>2, Zenon DEF RemovalInv
      <4>2. r.kind \in {"subscribe", "unsubscribe", "unsubscribe_all", "call"}
        BY KindOf, Zenon
      <4>3. r.kind # "unsubscribe_all"
        BY <4>1, KindOf, Zenon
      <4>4. r.kind = "unsubscribe" => r.query # q
        BY <4>1, KindOf, Zenon
      <4> QED
        BY <1>2, <3>1, <4>2, <4>3, <4>4, Zenon
    <3>2. CASE \E a \in Users \cup Redos : held[conn] = SubReq(a, q)
      <4> PICK a \in Users \cup Redos : r = SubReq(a, q)
        BY <2>2, <3>2, Zenon
      <4>1. SubReq(a, q).kind = "subscribe" /\ SubReq(a, q).query = q
        BY Fields, Zenon
      <4>2. q \in srv' \/ Refused(inbox)' \/ link[conn] # "open"
        BY <1>2, <4>1, Zenon
      <4>3. UNCHANGED <<conn, link>>
        BY <1>1, Zenon
      <4> QED
        BY <4>2, <4>3, Zenon DEF RefusalComing
    <3> QED
      BY <1>0, <1>1, <1>3, <1>4, <3>1, <3>2, Zenon DEF OwedInv
  <2> QED
    BY <1>1, <2>1, <2>2, Zenon
<1>6. RemovalInv'
  <2>1. \A u \in Users, q \in owed : None # UnsubReq(u, q) /\ None # UnsubAllReq(u)
    BY <1>0, NoneIsNoRequest, Zenon DEF RemovalInv
  <2>2. \A q \in Queries : Unsubscribing(q)' <=> Unsubscribing(q)
    BY <1>0, Zenon DEF Unsubscribing
  <2>3. held'[conn'] \in {held[conn], None}
    BY <1>1, Zenon
  <2>4. rc' \in {"drain", "backlog", "resend", "start"} => rc \in {"drain", "backlog", "resend", "start"}
    BY <1>1, Zenon
  <2> QED
    BY <1>0, <1>3, <2>1, <2>2, <2>3, <2>4, Zenon DEF RemovalInv
<1>7. OfferInv'
  BY <1>0, <1>1, OfferStep, Zenon
<1>8. FreshInv'
  BY <1>0, <1>1, <1>2, Zenon DEF FreshInv
<1> QED
  BY <1>5, <1>6, <1>7, <1>8, Zenon DEF RedoInv

\* A request that could not be written goes to the backlog: its connection failed.
LEMMA RequeuedStep ==
    ASSUME RedoInv, C!IInv, UNCHANGED evVars, NEW d \in C!Dials, C!WriterRequeue(d)
    PROVE  RedoInv'
<1>0. UNCHANGED ownVars /\ RemovalInv /\ OfferInv /\ FreshInv
  BY Zenon DEF RedoInv, ownVars, evVars, userVars, redoVars, lisVars, serverVars
<1>1. /\ d = conn /\ held'[conn] = None /\ wr'[conn] = "exit" /\ link[conn] # "open"
      /\ UNCHANGED <<conn, link, rd, rc, stopped, ustop, respClosed, phase>>
  BY <1>0, Current, Zenon
  DEF C!WriterRequeue, FreshInv, C!netVars, C!chanVars, C!rcVars, C!stopVars, C!sendVars
<1>2. OwedInv'
  BY <1>1, Zenon DEF OwedInv
<1>3. RemovalInv'
  <2>1. \A u \in Users, q \in owed : None # UnsubReq(u, q) /\ None # UnsubAllReq(u)
    BY <1>0, NoneIsNoRequest, Zenon DEF RemovalInv
  <2>2. \A q : StillToRedo(q)' <=> StillToRedo(q)
    BY <1>0, <1>1, Zenon DEF StillToRedo, ownVars
  <2>3. \A q \in Queries : Unsubscribing(q)' <=> Unsubscribing(q)
    BY <1>0, Zenon DEF Unsubscribing, ownVars
  <2> QED
    BY <1>0, <1>1, <2>1, <2>2, <2>3, Zenon DEF RemovalInv, ownVars
<1>4. OfferInv'
  BY <1>0, <1>1, OfferStep, Zenon DEF ownVars
<1>5. FreshInv'
  BY <1>0, <1>1, Zenon DEF FreshInv, ownVars
<1> QED
  BY <1>2, <1>3, <1>4, <1>5, Zenon DEF RedoInv

\* readRoutine takes a message, and eventListener gets it: a refusal is not lost
\* on the way, and makes eventListener redo the subscriptions.
LEMMA ReadStep ==
    ASSUME RedoInv, IInv, C!IInv, NEW d \in C!Dials, ReaderReads(d) \/ ListenerReceives(d)
    PROVE  RedoInv'
<1>0. /\ inbox \in Seq(Messages) /\ retries \in Nat /\ DOMAIN redo = Redos
      /\ \A k \in Redos : MaxDials + retries < k => redo[k] = "none"
      /\ MaxDials \in Nat /\ conn \in 1 .. MaxDials
  BY Current, Zenon DEF RedoInv, FreshInv, IInv, RLockInv
<1> USE DEF C!netVars, C!chanVars, C!rcVars, C!stopVars, C!sendVars, userVars, redoVars, lisVars, serverVars
<1>1. retries >= retries
  BY <1>0
<1>2. CASE ReaderReads(d)
  <2>1. /\ UNCHANGED <<owed, srv, todo, subscriptions, upc, uq, lockWait, redo, retries>>
        /\ UNCHANGED <<conn, link, wr, held, rc, stopped, ustop, respClosed, phase>>
        /\ d = conn /\ rd[conn] = "read" /\ rd'[conn] = "deliver"
        /\ inbox # <<>> /\ rmsg' = Head(inbox) /\ inbox' = Tail(inbox)
    BY <1>2, Current, Zenon DEF ReaderReads, C!ReaderReads
  <2>2. inbox' \in Seq(Messages)
    BY <1>0, <2>1
  <2>3. Refused(inbox) => Refused(inbox') \/ rmsg'.type = "refused"
    <3> SUFFICES ASSUME NEW i \in 1 .. Len(inbox), inbox[i].type = "refused", rmsg'.type # "refused"
                 PROVE  Refused(inbox')
      BY Zenon DEF Refused
    <3>1. rmsg' = inbox[1] /\ i # 1
      BY <1>0, <2>1
    <3>2. i - 1 \in 1 .. Len(inbox') /\ inbox'[i - 1] = inbox[i]
      BY <1>0, <2>1, <3>1
    <3> QED
      BY <3>2, Zenon DEF Refused
  <2>4. RefusalComing => RefusalComing'
    BY <2>1, <2>3, Zenon DEF RefusalComing
  <2> QED
    BY <1>0, <1>1, <2>1, <2>2, <2>4, MessageStep, Zenon
<1>3. CASE ListenerReceives(d)
  <2>1. /\ UNCHANGED <<owed, srv, todo, inbox, subscriptions, upc, uq, lockWait>>
        /\ UNCHANGED <<conn, link, wr, held, rc, stopped, ustop, respClosed, phase>>
    BY <1>3, Zenon DEF ListenerReceives, C!ReaderDelivers
  <2>2. CASE rmsg.type = "refused"
    <3>1. /\ MaxDials + retries + 1 \in Redos /\ retries' = retries + 1
          /\ redo' = [redo EXCEPT ![MaxDials + retries + 1] = "rlock"]
      BY <1>3, <2>2, Zenon DEF ListenerReceives, Redos
    <3>2. redo[MaxDials + retries + 1] = "none"
      BY <1>0, <3>1
    <3>3. MaxDials < MaxDials + retries + 1 /\ MaxDials + retries + 1 <= MaxDials + retries'
      BY <1>0, <3>1
    <3>5. retries' \in Nat /\ retries' >= retries /\ inbox' \in Seq(Messages)
      BY <1>0, <2>1, <3>1
    <3>6. \E k \in Redos : /\ redo[k] = "none" /\ redo' = [redo EXCEPT ![k] = "rlock"]
                            /\ MaxDials < k /\ k <= MaxDials + retries'
      BY <3>1, <3>2, <3>3, Zenon
    <3> QED
      BY <1>0, <2>1, <3>5, <3>6, MessageStep, Zenon
  <2>3. CASE rmsg.type # "refused"
    <3>1. UNCHANGED <<redo, retries>> /\ (RefusalComing => RefusalComing')
      BY <1>3, <2>1, <2>3, Zenon DEF ListenerReceives, RefusalComing
    <3> QED
      BY <1>0, <1>1, <2>1, <3>1, MessageStep, Zenon
  <2> QED
    BY <2>2, <2>3, Zenon
<1> QED
  BY <1>2, <1>3, Zenon

\* A new connection: everything in the map that nobody is removing is owed, and
\* the callback that will send it has started.
LEMMA ReconnectedStep ==
    ASSUME RedoInv, IInv, C!IInv, Reconnected
    PROVE  RedoInv'
<1>0. /\ OfferInv /\ FreshInv /\ conn < MaxDials /\ conn' = conn + 1 /\ rc' = "drain"
      /\ redo' = [redo EXCEPT ![conn + 1] = "rlock"] /\ DOMAIN redo = Redos
      /\ owed' = {q \in Queries : subscriptions[q] # None /\ ~Unsubscribing(q)} /\ inbox' = <<>>
      /\ UNCHANGED <<wr, held, stopped, ustop, respClosed, phase, subscriptions, upc, uq, lockWait, retries>>
  BY Zenon DEF Reconnected, C!DialOK, RedoInv, IInv, RLockInv, C!rwVars, C!chanVars, C!stopVars, C!sendVars,
               lisVars
<1>1. /\ conn \in Nat /\ MaxDials \in Nat /\ conn \in C!Dials /\ C!Dials = 1 .. MaxDials
      /\ \A d \in C!Dials : /\ wr[d] \notin {"none", "done"} => d = conn
                            /\ d # conn => held[d] = None
  BY Current, Zenon
<1>2. conn + 1 # conn /\ conn + 1 \in C!Dials /\ conn + 1 \in 2 .. MaxDials
  BY <1>0, <1>1
<1>3. conn + 1 \in Redos /\ redo'[conn + 1] = "rlock"
  BY <1>0, <1>2, Zenon DEF Redos, Reconnects
<1>4. held[conn + 1] = None /\ wr[conn + 1] \in {"none", "done"}
  BY <1>1, <1>2, Zenon
<1>5. \A q : StillToRedo(q)'
  BY <1>3, Zenon DEF StillToRedo
<1>6. OwedInv'
  BY <1>5, Zenon DEF OwedInv
<1>7. RemovalInv'
  <2>1. \A u \in Users, q \in Queries : None # UnsubReq(u, q) /\ None # UnsubAllReq(u)
    BY NoneIsNoRequest, Zenon
  <2>2. \A q \in Queries : Unsubscribing(q)' <=> Unsubscribing(q)
    BY <1>0, Zenon DEF Unsubscribing
  <2>3. held'[conn'] = None
    BY <1>0, <1>4, Zenon
  <2> QED
    BY <1>0, <1>5, <2>1, <2>2, <2>3, Zenon DEF RemovalInv
<1>8. OfferInv'
  <2>1. conn < conn + 1 /\ conn + 1 <= MaxDials
    BY <1>0, <1>1
  <2>2. redo[conn + 1] = "none"
    BY <1>0, <1>3, <2>1, Zenon DEF FreshInv
  <2>3. \A k \in Redos : redo[k] = "loop" => redo'[k] = "loop"
    BY <1>0, <2>2, Zenon
  <2> QED
    BY <1>0, <2>3, OfferStep, Zenon
<1>9. FreshInv'
  <2>1. ASSUME NEW k \in Redos, (conn + 1 < k /\ k <= MaxDials) \/ MaxDials + retries < k
        PROVE  redo'[k] = "none"
    <3>1. k \in Nat /\ retries \in Nat
      BY <1>0, RedoNumbers, Zenon DEF FreshInv
    <3>2. k # conn + 1 /\ ((conn < k /\ k <= MaxDials) \/ MaxDials + retries < k)
      BY <1>0, <1>1, <2>1, <3>1
    <3> QED
      BY <1>0, <3>2, Zenon DEF FreshInv
  <2>2. <<>> \in Seq(Messages)
    OBVIOUS
  <2>3. wr'[conn'] \in {"none", "done"}
    BY <1>0, <1>4, Zenon
  <2> QED
    BY <1>0, <2>1, <2>2, <2>3, Zenon DEF FreshInv
<1> QED
  BY <1>6, <1>7, <1>8, <1>9, Zenon DEF RedoInv

\* Every step of the composition without SimpleCall preserves the invariant.
LEMMA RedoInvStep ==
    ASSUME Calls = {}, RedoInv, IInv, C!IInv, [Next]_vars
    PROVE  RedoInv'
<1>1. CASE UNCHANGED vars
  BY <1>1, StillStep, Zenon DEF vars, evVars, ownVars, userVars, redoVars, lisVars, serverVars
<1>2. CASE LinkFails \/ Stop \/ Stopping
  BY <1>2, ClientQuietSteps, Zenon DEF LinkFails, Stop, Stopping
<1>3. CASE StopQuit
  BY <1>3, StillStep, Zenon DEF StopQuit, ownVars, userVars, redoVars, lisVars, serverVars
<1>4. ASSUME NEW d \in C!Dials, Writer(d)
      PROVE  RedoInv'
  BY <1>4, ClientQuietSteps, WrittenStep, ReceivedStep, RequeuedStep, Zenon DEF Writer, WriterUnticked
<1>5. ASSUME NEW d \in C!Dials, Reader(d)
      PROVE  RedoInv'
  BY <1>5, ClientQuietSteps, ReadStep, Zenon DEF Reader
<1>6. CASE Reconnector
  BY <1>6, ClientQuietSteps, WrittenStep, ReconnectedStep, Zenon DEF Reconnector
<1>7. ASSUME NEW q \in Queries, ServerPublishes(q)
      PROVE  RedoInv'
  BY <1>7, PublishStep, Zenon
<1>8. ASSUME NEW u \in Users, User(u)
      PROVE  RedoInv'
  BY <1>8, UserRedoStep
<1>9. ASSUME NEW k \in Redos, Redo(k)
      PROVE  RedoInv'
  BY <1>9, RedoRedoStep, Zenon
<1>10. CASE Listener
  <2>1. ASSUME NEW d \in C!Dials, ListenerReceives(d)
        PROVE  RedoInv'
    BY <2>1, ReadStep, Zenon
  <2>2. CASE ListenerRetried \/ ListenerPublishes \/ ListenerQuits
    BY <2>2, StillStep, Zenon
    DEF ListenerRetried, ListenerPublishes, ListenerQuits, ownVars, userVars, redoVars, lisVars, serverVars
  <2> QED
    BY <1>10, <2>1, <2>2, Zenon DEF Listener
<1> QED
  BY <1>1, <1>2, <1>3, <1>4, <1>5, <1>6, <1>7, <1>8, <1>9, <1>10, Zenon DEF Next

\* It holds before the first step: nothing is owed, offered or begun.
LEMMA RedoInvInit ==
    ASSUME Init
    PROVE  RedoInv
<1>1. /\ owed = {} /\ inbox = <<>> /\ retries = 0 /\ lockWait = None /\ redo = [k \in Redos |-> "none"]
      /\ phase = [r \in Requests |-> "new"] /\ ustop = "no" /\ ~respClosed /\ conn = 1
      /\ wr = [d \in C!Dials |-> IF d = 1 THEN "select" ELSE "none"]
  BY Zenon DEF Init, C!Init
<1>2. 1 \in C!Dials
  BY WSEventsAssumption DEF C!Dials
<1>3. OwedInv /\ RemovalInv
  BY <1>1, Zenon DEF OwedInv, RemovalInv
<1>4. OfferInv
  BY <1>1, Kinds, WSEventsAssumption, Zenon DEF OfferInv
<1>5. FreshInv
  BY <1>1, <1>2 DEF FreshInv
<1> QED
  BY <1>3, <1>4, <1>5, Zenon DEF RedoInv

-----------------------------------------------------------------------------
(* What WSClientProofs proves of the client holds of the client inside     *)
(* WSEvents.                                                               *)

Proved == INSTANCE WSClientProofs

\* The client of those proofs is the client of WSEvents.
LEMMA SameClient ==
    /\ C!Init <=> Proved!Init
    /\ [C!Next]_(C!vars) <=> [Proved!Next]_(Proved!vars)
    /\ C!IInv <=> Proved!IInv
<1>1. C!Init <=> Proved!Init
  BY Zenon DEF C!Init, Proved!Init, C!Dials, Proved!Dials
<1>2. C!Next <=> Proved!Next
  BY Zenon DEF C!Dials, Proved!Dials, C!netVars, Proved!netVars, C!rwVars, Proved!rwVars, C!chanVars,
         Proved!chanVars, C!rcVars, Proved!rcVars, C!stopVars, Proved!stopVars, C!sendVars,
         Proved!sendVars, C!vars, Proved!vars, C!LinkFails, Proved!LinkFails, C!WriteCanSucceed,
         Proved!WriteCanSucceed, C!WriteCanFail, Proved!WriteCanFail, C!Send, Proved!Send,
         C!SendCtxDone, Proved!SendCtxDone, C!WriterRecv, Proved!WriterRecv, C!WriterWriteOK,
         Proved!WriterWriteOK, C!WriterWriteFails, Proved!WriterWriteFails, C!WriterPingFails,
         Proved!WriterPingFails, C!WriterPush, Proved!WriterPush, C!WriterRequeue,
         Proved!WriterRequeue, C!WriterReadQuit, Proved!WriterReadQuit, C!WriterQuit,
         Proved!WriterQuit, C!WriterExit, Proved!WriterExit, C!WriterUnticked,
         Proved!WriterUnticked, C!Writer, Proved!Writer, C!ReaderReads, Proved!ReaderReads,
         C!ReaderUnexpectedClose, Proved!ReaderUnexpectedClose, C!ReaderSilentReturn,
         Proved!ReaderSilentReturn, C!ReaderPush, Proved!ReaderPush, C!ReaderDelivers,
         Proved!ReaderDelivers, C!ReaderSkips, Proved!ReaderSkips, C!ReaderExit,
         Proved!ReaderExit, C!Reader, Proved!Reader, C!Waited, Proved!Waited, C!RcRecv,
         Proved!RcRecv, C!RcQuit, Proved!RcQuit, C!RcWaited, Proved!RcWaited, C!DialOK,
         Proved!DialOK, C!DialFails, Proved!DialFails, C!Drain, Proved!Drain, C!BacklogTake,
         Proved!BacklogTake, C!ResendOK, Proved!ResendOK, C!ResendFails, Proved!ResendFails,
         C!BacklogPush, Proved!BacklogPush, C!BacklogRequeue, Proved!BacklogRequeue,
         C!StartReadWriteRoutines, Proved!StartReadWriteRoutines, C!RcStop, Proved!RcStop,
         C!RcStopWaited, Proved!RcStopWaited, C!RcStopClose, Proved!RcStopClose, C!Reconnector,
         Proved!Reconnector, C!Stop, Proved!Stop, C!StopWaited, Proved!StopWaited, C!StopClose,
         Proved!StopClose, C!Panicked, Proved!Panicked, C!Next, Proved!Next
<1>3. UNCHANGED C!vars <=> UNCHANGED Proved!vars
  BY Zenon DEF C!netVars, Proved!netVars, C!rwVars, Proved!rwVars, C!chanVars, Proved!chanVars,
         C!rcVars, Proved!rcVars, C!stopVars, Proved!stopVars, C!sendVars, Proved!sendVars,
         C!vars, Proved!vars
<1>4. C!IInv <=> Proved!IInv
  BY Zenon DEF C!IInv, Proved!IInv, C!TypeOK, Proved!TypeOK, C!RoutinesInv, Proved!RoutinesInv,
         C!HolderInv, Proved!HolderInv, C!SignalInv, Proved!SignalInv, C!AcceptedIsTracked,
         Proved!AcceptedIsTracked, C!Dials, Proved!Dials, C!ReadPCs, Proved!ReadPCs, C!WritePCs,
         Proved!WritePCs, C!RcPCs, Proved!RcPCs, C!Reading, Proved!Reading, C!Writing,
         Proved!Writing, C!Count, Proved!Count, C!Alone, Proved!Alone, C!MayPush,
         Proved!MayPush, C!QuitChannelClosedOnce, Proved!QuitChannelClosedOnce, C!InFlight,
         Proved!InFlight, C!WasWritten, Proved!WasWritten
<1> QED
  BY <1>1, <1>2, <1>3, <1>4

\* The assumption of the client about its constants.
LEMMA ClientConstants == Proved!WSClientAssumption
BY WSEventsAssumption DEF Proved!WSClientAssumption

\* Without SimpleCall the client's invariant holds inside WSEvents: the WaitGroup
\* keeps the routines of two connections apart, and one place holds the request.
THEOREM ClientInvariantInside ==
    ASSUME Calls = {}
    PROVE  Spec => []C!IInv
<1>1. Proved!Spec => []Proved!IInv
  BY ClientConstants, Proved!InductiveInvariant, PTL
<1>2. C!Spec => Proved!Spec
  BY SameClient, PTL DEF C!Spec, Proved!Spec
<1> QED
  BY ImplementsClientHolds, SameClient, <1>1, <1>2, PTL DEF ImplementsClient

-----------------------------------------------------------------------------
(* OwedAreRedone.                                                          *)

\* What redoSubscriptionsAfter (:203-215) and eventListener (:220-266) owe the
\* users is never lost: it is known to the server, still to be sent, being
\* written, or refused with the refusal on its way to eventListener.
THEOREM RedoInvariant ==
    ASSUME Calls = {}
    PROVE  Spec => []RedoInv
<1>1. Init => RedoInv
  BY RedoInvInit
<1>2. RedoInv /\ IInv /\ C!IInv /\ [Next]_vars => RedoInv'
  BY RedoInvStep
<1> QED
  BY <1>1, <1>2, EventsInvariant, ClientInvariantInside, PTL DEF Spec

\* "After being reconnected, it is necessary to redo subscription to server":
\* whatever the number of users, queries, reconnections and refusals, and
\* whatever the backlog held, no subscription that was in the map when the
\* connection was replaced is forgotten.
THEOREM OwedAreRedoneHolds ==
    ASSUME Calls = {}
    PROVE  Spec => []OwedAreRedone
<1>1. RedoInv /\ IInv /\ C!IInv => OwedAreRedone
  <2> SUFFICES ASSUME RedoInv, IInv, C!IInv, Quiet, NEW q \in owed
               PROVE  q \in srv
    BY Zenon DEF OwedAreRedone
  <2>1. q \in Queries
    BY ZenonT(30) DEF RedoInv, RemovalInv
  <2>2. ~StillToRedo(q)
    BY <2>1 DEF Quiet, StillToRedo, RedoInv, OfferInv
  <2>3. ~RefusalComing
    BY DEF Quiet, RefusalComing, Refused
  <2>4. \A a \in Users \cup Redos : held[conn] # SubReq(a, q)
    BY <2>1, Current, NoneIsNoRequest, Zenon DEF Quiet
  <2> QED
    BY <2>2, <2>3, <2>4 DEF RedoInv, OwedInv, Quiet
<1> QED
  BY <1>1, RedoInvariant, EventsInvariant, ClientInvariantInside, PTL

=============================================================================
