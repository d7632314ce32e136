----------------------------- MODULE RpcTransport -----------------------------
(***************************************************************************)
(* One WebSocket connection to aria2 (rpc/src/transport/websocket.rs): the  *)
(* callers in dispatch, the actor of run_connection with its pending map,   *)
(* and what is on the wire.  An RpcId is fresh for every request, so a      *)
(* request is its own id; payloads are left out.                            *)
(* Notifications are in HintChannel.                                        *)
(***************************************************************************)
EXTENDS Naturals, Sequences

CONSTANTS
  Call,       \* the calls of a behaviour, each made at most once
  Size,       \* the requests of each call: one, or those of a batch
  ChannelCap  \* the capacity of the command channel

ASSUME SizesArePositive == Size \in [Call -> Nat \ {0}]
ASSUME ChannelCapIsPositive == ChannelCap \in Nat \ {0}

Of(c)   == {c} \X (1 .. Size[c])
Request == UNION {Of(c) : c \in Call}

VARIABLES
  step,     \* where the future of each call is
  slot,     \* the oneshot channel of each request
  queue,    \* the command channel
  pending,  \* the actor's pending map
  open,     \* the actor runs; otherwise the closed watch is set
  closing,  \* where WebSocketTransport::close is
  sent,     \* payloads on their way to aria2
  inbound,  \* messages on their way back
  executed, \* requests aria2 carried out
  refused   \* requests it answered with an error

transportVars ==
  <<step, slot, queue, pending, open, closing, sent, inbound, executed, refused>>

\* dropped: the caller was cancelled and its future dropped.
Step == {"idle", "sending", "waiting", "cancelling",
         "answered", "timeout", "closed", "dropped"}
Ended == {"answered", "timeout", "closed", "dropped"}
Slot == {"empty", "value", "remote", "failed"}
Command == [kind : {"Send", "Cancel"}, call : Call] \cup {[kind |-> "Shutdown"]}
Message == [kind : {"Response"}, call : Call] \cup {[kind |-> "Malformed"]}

TransportTypeOK ==
  /\ step \in [Call -> Step]
  /\ slot \in [Request -> Slot]
  /\ queue \in Seq(Command)
  /\ pending \subseteq Request
  /\ open \in BOOLEAN
  /\ closing \in {"no", "sending", "waiting", "done"}
  /\ sent \in Seq(Call)
  /\ inbound \in Seq(Message)
  /\ executed \subseteq Request
  /\ refused \subseteq Request

TransportInit ==
  /\ step = [c \in Call |-> "idle"]
  /\ slot = [r \in Request |-> "empty"]
  /\ queue = <<>>
  /\ pending = {}
  /\ open = TRUE
  /\ closing = "no"
  /\ sent = <<>>
  /\ inbound = <<>>
  /\ executed = {}
  /\ refused = {}

-----------------------------------------------------------------------------
\* The callers.
callerVars == <<step, slot, closing>>
actorVars  == <<queue, pending, open>>
wireVars   == <<sent, inbound, executed, refused>>

Move(c, from, to) == step[c] = from /\ step' = [step EXCEPT ![c] = to]

HasRoom == open /\ Len(queue) < ChannelCap

Dispatch(c) ==
  /\ Move(c, "idle", "sending")
  /\ UNCHANGED <<slot, closing, actorVars, wireVars>>

\* commands.send is not under the request timeout.
SendCommand(c) ==
  /\ Move(c, "sending", "waiting")
  /\ HasRoom
  /\ queue' = Append(queue, [kind |-> "Send", call |-> c])
  /\ UNCHANGED <<slot, closing, pending, open, wireVars>>

\* The actor is gone: Err(Closed) without a request.
SendRefused(c) ==
  /\ Move(c, "sending", "closed")
  /\ ~open
  /\ UNCHANGED <<slot, closing, actorVars, wireVars>>

AllAnswered(c) == \A r \in Of(c) : slot[r] # "empty"

ReceiveAll(c) ==
  /\ Move(c, "waiting", "answered")
  /\ AllAnswered(c)
  /\ UNCHANGED <<slot, closing, actorVars, wireVars>>

RequestTimesOut(c) ==
  /\ Move(c, "waiting", "cancelling")
  /\ ~AllAnswered(c)
  /\ UNCHANGED <<slot, closing, actorVars, wireVars>>

\* Err(Timeout) for the whole batch, once the Cancel is queued or cannot be.
SendCancelWhileOpen(c) ==
  /\ Move(c, "cancelling", "timeout")
  /\ HasRoom /\ queue' = Append(queue, [kind |-> "Cancel", call |-> c])
  /\ UNCHANGED <<slot, closing, pending, open, wireVars>>
SendCancel(c) ==
  /\ Move(c, "cancelling", "timeout")
  /\ \/ HasRoom /\ queue' = Append(queue, [kind |-> "Cancel", call |-> c])
     \/ ~open /\ UNCHANGED queue
  /\ UNCHANGED <<slot, closing, pending, open, wireVars>>

\* The coordinator is cancelled, or the other half of a try_join! failed:
\* the future goes, and nothing is cancelled at the actor.
DropCall(c) ==
  /\ step[c] \in {"sending", "waiting", "cancelling"}
  /\ step' = [step EXCEPT ![c] = "dropped"]
  /\ UNCHANGED <<slot, closing, actorVars, wireVars>>

CloseBegins ==
  /\ closing = "no"
  /\ closing' = IF open THEN "sending" ELSE "done"
  /\ UNCHANGED <<step, slot, actorVars, wireVars>>

SendShutdown ==
  /\ closing = "sending"
  /\ \/ /\ HasRoom
        /\ queue' = Append(queue, [kind |-> "Shutdown"])
        /\ closing' = "waiting"
     \/ ~open /\ closing' = "done" /\ UNCHANGED queue
  /\ UNCHANGED <<step, slot, pending, open, wireVars>>

CloseReturns ==
  /\ closing = "waiting" /\ ~open
  /\ closing' = "done"
  /\ UNCHANGED <<step, slot, actorVars, wireVars>>

-----------------------------------------------------------------------------
\* The actor.
Queued(kind) == open /\ queue # <<>> /\ Head(queue).kind = kind

\* fail_all, the receiver of the commands dropped with those still queued, and
\* the closed watch set.
QueuedRequests ==
  UNION {Of(queue[i].call) : i \in {j \in DOMAIN queue : queue[j].kind = "Send"}}

Fail(R) == slot' = [r \in Request |-> IF r \in R THEN "failed" ELSE slot[r]]

EndConnection(P) ==
  /\ Fail(P \cup QueuedRequests)
  /\ queue' = <<>>
  /\ pending' = {}
  /\ open' = FALSE
  /\ inbound' = <<>>

TakeSend ==
  /\ Queued("Send")
  /\ pending' = pending \cup Of(Head(queue).call)
  /\ sent' = Append(sent, Head(queue).call)
  /\ queue' = Tail(queue)
  /\ UNCHANGED <<callerVars, open, inbound, executed, refused>>

\* sink.send fails, perhaps after the payload got out.
SendBreaks ==
  /\ Queued("Send")
  /\ EndConnection(pending \cup Of(Head(queue).call))
  /\ sent' \in {sent, Append(sent, Head(queue).call)}
  /\ UNCHANGED <<step, closing, executed, refused>>

TakeCancel ==
  /\ Queued("Cancel")
  /\ pending' = pending \ Of(Head(queue).call)
  /\ queue' = Tail(queue)
  /\ UNCHANGED <<callerVars, open, wireVars>>

TakeShutdown ==
  /\ Queued("Shutdown")
  /\ EndConnection(pending)
  /\ UNCHANGED <<step, closing, sent, executed, refused>>

\* Close frame, end of stream or an error of the stream.
StreamEnds ==
  /\ open
  /\ EndConnection(pending)
  /\ UNCHANGED <<step, closing, sent, executed, refused>>

Arrived(kind) == open /\ inbound # <<>> /\ Head(inbound).kind = kind

\* handle_payload: the requests still pending get aria2's answers; a late
\* response is ignored.
Answer(r) == IF r \in executed THEN "value" ELSE "remote"
FillLate(R) == slot' = [r \in Request |-> IF r \in R THEN Answer(r) ELSE slot[r]]
Fill(R) == slot' = [r \in Request |-> IF r \in R \cap pending THEN Answer(r) ELSE slot[r]]

AnswerWithoutRemoving ==
  /\ Arrived("Response")
  /\ Fill(Of(Head(inbound).call))
  /\ inbound' = Tail(inbound)
  /\ UNCHANGED <<step, closing, queue, pending, open, sent, executed, refused>>
HandleResponse ==
  /\ Arrived("Response")
  /\ Fill(Of(Head(inbound).call))
  /\ pending' = pending \ Of(Head(inbound).call)
  /\ inbound' = Tail(inbound)
  /\ UNCHANGED <<step, closing, queue, open, sent, executed, refused>>

\* handle_payload of what decode_payload cannot read: every pending request
\* fails, the connection goes on.
HandleMalformed ==
  /\ Arrived("Malformed")
  /\ Fail(pending)
  /\ pending' = {}
  /\ inbound' = Tail(inbound)
  /\ UNCHANGED <<step, closing, queue, open, sent, executed, refused>>

-----------------------------------------------------------------------------
\* aria2 reads the payloads of a connection in order, decides on all requests
\* of one at once, and answers.  What it has received it may carry out after
\* the connection is gone.
Serve ==
  /\ sent # <<>>
  /\ sent' = Tail(sent)
  /\ \E good \in SUBSET Of(Head(sent)) :
       /\ executed' = executed \cup good
       /\ refused' = refused \cup (Of(Head(sent)) \ good)
  /\ inbound' \in IF open
                  THEN {Append(inbound, [kind |-> "Response", call |-> Head(sent)]),
                        Append(inbound, [kind |-> "Malformed"])}
                  ELSE {inbound}
  /\ UNCHANGED <<callerVars, actorVars>>

\* What was on the wire of a broken connection may never arrive.
LoseSent ==
  /\ ~open /\ sent # <<>>
  /\ sent' = <<>>
  /\ UNCHANGED <<callerVars, actorVars, inbound, executed, refused>>

CallerStep(c) == SendCommand(c) \/ SendRefused(c) \/ ReceiveAll(c)
                 \/ RequestTimesOut(c) \/ SendCancel(c)
CloseStep == SendShutdown \/ CloseReturns
TakeCommand == TakeSend \/ TakeCancel \/ TakeShutdown
HandlePayload == HandleResponse \/ HandleMalformed

TransportNext ==
  \/ \E c \in Call : Dispatch(c) \/ CallerStep(c) \/ DropCall(c)
  \/ CloseBegins \/ CloseStep
  \/ TakeCommand \/ SendBreaks \/ StreamEnds \/ HandlePayload
  \/ Serve \/ LoseSent

TransportSpec == TransportInit /\ [][TransportNext]_transportVars

\* The futures and the actor are polled, the request timeout elapses, and the
\* peer reads: a sink.send that blocks for ever would stop the actor.  Nothing
\* makes aria2 answer.
TransportFairness ==
  /\ \A c \in Call : WF_transportVars(CallerStep(c))
  /\ WF_transportVars(CloseStep)
  /\ WF_transportVars(TakeCommand \/ SendBreaks)

-----------------------------------------------------------------------------
\* A pending entry belongs to a request whose payload went out and whose slot
\* is still empty: late and repeated answers find nothing to fill.
PendingIsUnanswered == \A r \in pending : slot[r] = "empty"

\* What a caller knows when its call has ended.
Told(r) ==
  IF step[r[1]] \notin Ended THEN "nothing"
  ELSE IF step[r[1]] # "answered" THEN "unknown"
  ELSE CASE slot[r] = "value" -> "value" [] slot[r] = "remote" -> "refusal"
         [] OTHER -> "unknown"

Calls == INSTANCE RpcCalls WITH
  begun <- {c \in Call : step[c] # "idle"},
  ended <- {c \in Call : step[c] \in Ended},
  told  <- [r \in Request |-> Told(r)]

\* The transport keeps the promise of RpcCalls: a result is aria2's own answer
\* to that request, given once, whatever was late, malformed or cut off.
RefinesCalls == Calls!CallsSpec

\* Every call ends and so does close, whether or not aria2 ever answers.
EveryCallEnds ==
  /\ \A c \in Call : (step[c] = "sending") ~> (step[c] \in Ended)
  /\ (closing = "sending") ~> (closing = "done")
=============================================================================
