---------------------------- MODULE MarketStream ----------------------------
(***************************************************************************)
(* One subscription to the DEX's market streams: WsGet of                  *)
(* client/basic/basic.go with its two goroutines, and SubscribeEvent of    *)
(* client/websocket/websocket.go, which runs the user's callbacks.         *)
(*                                                                         *)
(*   pump     reads the connection and offers what it reads on messages    *)
(*   closer   closes messages and the connection once the user closes quit *)
(*            or the pump closes finish                                    *)
(*   consumer SubscribeEvent                                               *)
(*                                                                         *)
(* The keep-alive and ping tickers write to the connection and ignore the  *)
(* result; they change nothing here and are left out.                      *)
(***************************************************************************)
EXTENDS Naturals

CONSTANT MaxFrames    \* bound: frames the server sends

ASSUME MarketStreamAssumption == MaxFrames \in Nat

VARIABLES
    stream,      \* the Subscribe function the user called: "account", "order", "market"
    quit,        \* the user has closed quit (closeCh in WsGet)
    finish,      \* finish is closed
    messages,    \* "open" or "closed"
    conn,        \* "open", "failed" (by the peer or the network) or "closed" (here)
    frames,      \* frames sent by the server so far
    pump, got,   \* where the pump is, and the message it holds
    closer,      \* where the closer is
    consumer,    \* where SubscribeEvent is
    onError, onClose   \* TRUE iff the callback has been called

vars == <<stream, quit, finish, messages, conn, frames, pump, got, closer, consumer,
          onError, onClose>>

Streams == {"account", "order", "market"}

\* WsGet has dialled and started its goroutines, the Subscribe function its own.
Init ==
    /\ stream \in Streams
    /\ quit = FALSE /\ finish = FALSE
    /\ messages = "open" /\ conn = "open" /\ frames = 0
    /\ pump = "select" /\ got = "nil"
    /\ closer = "select"
    /\ consumer = "select"
    /\ onError = FALSE /\ onClose = FALSE

\* What the server sends: account and order data share the user's address
\* stream, the other streams carry their own data.  Either may carry data that
\* fits no event, and a frame that is not JSON at all.
Frames == {"junk", "garbled"} \cup
          (IF stream = "market" THEN {"market"} ELSE {"account", "order"})

\* constructMsg of SubscribeAccountEvent: what does not unmarshal is skipped.
AccountMsg(f) == IF f = "account" THEN "event" ELSE "nil"

\* constructMsg of SubscribeOrderEvent.
OrderMsg(f) == IF f = "order" THEN "event" ELSE "nil"

\* constructMsg of the other streams: what does not unmarshal is an error.
MarketMsg(f) == IF f = "market" THEN "event" ELSE "error"

Construct(f) == CASE stream = "account" -> AccountMsg(f)
                  [] stream = "order"   -> OrderMsg(f)
                  [] stream = "market"  -> MarketMsg(f)

\* ReadJSON, json.Marshal and constructMsg in turn.
ReadResult(f) == IF f = "garbled" THEN "error" ELSE Construct(f)

-----------------------------------------------------------------------------
(* The user and the network.                                               *)

UserQuits ==
    /\ ~quit
    /\ quit' = TRUE
    /\ UNCHANGED <<stream, finish, messages, conn, frames, pump, got, closer, consumer,
                   onError, onClose>>

ConnFails ==
    /\ conn = "open"
    /\ conn' = "failed"
    /\ UNCHANGED <<stream, quit, finish, messages, frames, pump, got, closer, consumer,
                   onError, onClose>>

-----------------------------------------------------------------------------
(* The pump.  The default branch of its select is only taken while closeCh *)
(* is open; ReadJSON then blocks.                                          *)

PumpSelect ==
    /\ pump = "select"
    /\ pump' = IF quit THEN "done" ELSE "read"
    /\ UNCHANGED <<stream, quit, finish, messages, conn, frames, got, closer, consumer,
                   onError, onClose>>

PumpReads ==
    /\ pump = "read"
    /\ conn = "open" /\ frames < MaxFrames
    /\ frames' = frames + 1
    /\ \E f \in Frames :
         /\ got' = ReadResult(f)
         /\ pump' = IF ReadResult(f) = "nil" THEN "select" ELSE "check"
    /\ UNCHANGED <<stream, quit, finish, messages, conn, closer, consumer,
                   onError, onClose>>

PumpReadFails ==
    /\ pump = "read"
    /\ conn # "open"
    /\ got' = "error"
    /\ pump' = "check"
    /\ UNCHANGED <<stream, quit, finish, messages, conn, frames, closer, consumer,
                   onError, onClose>>

\* Mutant: a read error only ends the stream.
PumpCheckDropsError ==
    /\ pump = "check"
    /\ pump' = IF quit THEN "done" ELSE IF got = "error" THEN "finish" ELSE "send"
    /\ UNCHANGED <<stream, quit, finish, messages, conn, frames, got, closer, consumer,
                   onError, onClose>>

\* The first half of writeMsg: "already closed by user".
PumpCheck ==
    /\ pump = "check"
    /\ pump' = IF quit THEN "done" ELSE "send"
    /\ UNCHANGED <<stream, quit, finish, messages, conn, frames, got, closer, consumer,
                   onError, onClose>>

\* Mutant: SubscribeEvent goes on after an error.
PumpSendsConsumerGoesOn ==
    /\ pump = "send"
    /\ messages = "open"
    /\ consumer = "select"
    /\ pump' = IF got = "error" THEN "finish" ELSE "select"
    /\ consumer' = "callback"
    /\ onError' = (onError \/ got = "error")
    /\ UNCHANGED <<stream, quit, finish, messages, conn, frames, got, closer, onClose>>

\* The second half: messages <- m.  The channel is unbuffered, so the consumer
\* receives in the same step; it returns after an error.
PumpSends ==
    /\ pump = "send"
    /\ messages = "open"
    /\ consumer = "select"
    /\ pump' = IF got = "error" THEN "finish" ELSE "select"
    /\ consumer' = IF got = "error" THEN "done" ELSE "callback"
    /\ onError' = (onError \/ got = "error")
    /\ UNCHANGED <<stream, quit, finish, messages, conn, frames, got, closer, onClose>>

\* A send on a channel that is or gets closed panics.
PumpPanics ==
    /\ pump = "send"
    /\ messages = "closed"
    /\ pump' = "panic"
    /\ UNCHANGED <<stream, quit, finish, messages, conn, frames, got, closer, consumer,
                   onError, onClose>>

PumpFinishes ==
    /\ pump = "finish"
    /\ finish' = TRUE
    /\ pump' = "done"
    /\ UNCHANGED <<stream, quit, messages, conn, frames, got, closer, consumer,
                   onError, onClose>>

Pump == PumpSelect \/ PumpReads \/ PumpReadFails \/ PumpCheck \/ PumpSends \/ PumpPanics
        \/ PumpFinishes

-----------------------------------------------------------------------------
(* The closer, with its deferred calls in their order.                     *)

CloserWakes ==
    /\ closer = "select"
    /\ quit \/ finish
    /\ closer' = "messages"
    /\ UNCHANGED <<stream, quit, finish, messages, conn, frames, pump, got, consumer,
                   onError, onClose>>

CloserClosesMessages ==
    /\ closer = "messages"
    /\ messages' = "closed"
    /\ closer' = "conn"
    /\ UNCHANGED <<stream, quit, finish, conn, frames, pump, got, consumer,
                   onError, onClose>>

\* Mutant: conn.Close() is missing.
CloserLeavesConn ==
    /\ closer = "conn"
    /\ closer' = "done"
    /\ UNCHANGED <<stream, quit, finish, messages, conn, frames, pump, got, consumer,
                   onError, onClose>>

CloserClosesConn ==
    /\ closer = "conn"
    /\ conn' = "closed"
    /\ closer' = "done"
    /\ UNCHANGED <<stream, quit, finish, messages, frames, pump, got, consumer,
                   onError, onClose>>

Closer == CloserWakes \/ CloserClosesMessages \/ CloserClosesConn

-----------------------------------------------------------------------------
(* SubscribeEvent                                                          *)

ConsumerQuits ==
    /\ consumer = "select"
    /\ quit
    /\ consumer' = "done"
    /\ UNCHANGED <<stream, quit, finish, messages, conn, frames, pump, got, closer,
                   onError, onClose>>

ConsumerSeesClosed ==
    /\ consumer = "select"
    /\ messages = "closed"
    /\ onClose' = TRUE
    /\ consumer' = "done"
    /\ UNCHANGED <<stream, quit, finish, messages, conn, frames, pump, got, closer,
                   onError>>

\* The onReceive callback returns.
ConsumerReturns ==
    /\ consumer = "callback"
    /\ consumer' = "select"
    /\ UNCHANGED <<stream, quit, finish, messages, conn, frames, pump, got, closer,
                   onError, onClose>>

Consumer == ConsumerQuits \/ ConsumerSeesClosed \/ ConsumerReturns

-----------------------------------------------------------------------------
Next ==
    /\ pump # "panic"
    /\ UserQuits \/ ConnFails \/ Pump \/ Closer \/ Consumer

Spec == Init /\ [][Next]_vars

\* The scheduler runs every goroutine that can step and callbacks return; the
\* user need not quit and the connection need not fail.
Fairness == /\ WF_vars(pump # "panic" /\ Pump)
            /\ WF_vars(pump # "panic" /\ Closer)
            /\ WF_vars(pump # "panic" /\ Consumer)

FairSpec == Spec /\ Fairness

-----------------------------------------------------------------------------
(* Properties                                                              *)

\* Every variable holds a value the code can give it.
TypeOK ==
    /\ stream \in Streams
    /\ quit \in BOOLEAN /\ finish \in BOOLEAN
    /\ messages \in {"open", "closed"}
    /\ conn \in {"open", "failed", "closed"}
    /\ frames \in 0..MaxFrames
    /\ pump \in {"select", "read", "check", "send", "finish", "done", "panic"}
    /\ got \in {"nil", "event", "error"}
    /\ closer \in {"select", "messages", "conn", "done"}
    /\ consumer \in {"select", "callback", "done"}
    /\ onError \in BOOLEAN /\ onClose \in BOOLEAN

\* onClose is only called after the user closed quit: when the stream ends by
\* itself, finish is closed after the consumer took the error and returned
\* (basic.go:168-169, websocket.go:42-46), so the user gets onError instead.
OnCloseOnlyAfterQuit == onClose => quit /\ ~onError

\* Once the user closes quit, both goroutines of WsGet and SubscribeEvent end,
\* also when the pump is blocked in ReadJSON, unless the process panics.
QuitEndsAll == quit ~> \/ pump = "done" /\ closer = "done" /\ consumer = "done"
                       \/ pump = "panic"

\* An error that ends the stream reaches onError, unless the user quits.
ErrorReported == pump = "check" /\ got = "error" ~> onError \/ quit

\* The comment on the check in writeMsg, "already closed by user" (basic.go:146):
\* after the user closed quit the pump does not send on messages any more.
NoSendAfterClose == pump # "panic"

-----------------------------------------------------------------------------
\* The inductive invariant behind OnCloseOnlyAfterQuit: messages is only closed
\* after quit or finish, and finish is only closed when the consumer is done.
IInv ==
    /\ TypeOK
    /\ messages = "closed" \/ closer # "select" => quit \/ finish
    /\ finish \/ pump = "finish" => onError
    /\ onError => consumer = "done"
    /\ consumer # "done" => ~onClose
    /\ OnCloseOnlyAfterQuit

=============================================================================
