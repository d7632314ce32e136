----------------------------- MODULE MCOperations -----------------------------
(***************************************************************************)
(* HintChannel, RpcTransport and TaskOperations in one run.  They share no  *)
(* variable, so a behaviour moves only one of them: `part`, chosen once.    *)
(***************************************************************************)
EXTENDS HintChannel, RpcTransport, TaskOperations, TLC

CONSTANTS c1, c2, g1, g2, g3, g4, uri1, uri2

VARIABLE part

vars == <<part, hintVars, transportVars, opVars>>

TwoThenOne == (c1 :> 2) @@ (c2 :> 1)
AllSame    == [x \in Task |-> uri1]
Pairs      == (g1 :> uri1) @@ (g2 :> uri2) @@ (g3 :> uri1) @@ (g4 :> uri2)
OneOrTwo   == {AllSame, Pairs}

TypeOK == HintTypeOK /\ TransportTypeOK /\ OpTypeOK /\ PendingIsUnanswered

Init ==
  /\ part \in {"hints", "transport", "operation"}
  /\ HintInit /\ TransportInit /\ OpInit

Hints     == part = "hints" /\ UNCHANGED <<part, transportVars, opVars>>
Transport == part = "transport" /\ UNCHANGED <<part, hintVars, opVars>>
Operation == part = "operation" /\ UNCHANGED <<part, hintVars, transportVars>>

Next ==
  \/ \E n \in Notification : Hints /\ Publish(n)
  \/ Hints /\ ForwardLag
  \/ Hints /\ ForwardNote
  \/ Hints /\ Deliver
  \/ Hints /\ TakeHint
  \/ Hints /\ Lose
  \/ Hints /\ ForwarderEnds
  \/ \E k \in Call : \/ Transport /\ Dispatch(k)
                     \/ Transport /\ SendCommand(k)
                     \/ Transport /\ SendRefused(k)
                     \/ Transport /\ ReceiveAll(k)
                     \/ Transport /\ RequestTimesOut(k)
                     \/ Transport /\ SendCancel(k)
                     \/ Transport /\ DropCall(k)
  \/ Transport /\ CloseBegins
  \/ Transport /\ SendShutdown
  \/ Transport /\ CloseReturns
  \/ Transport /\ TakeSend
  \/ Transport /\ SendBreaks
  \/ Transport /\ TakeCancel
  \/ Transport /\ TakeShutdown
  \/ Transport /\ StreamEnds
  \/ Transport /\ HandleResponse
  \/ Transport /\ HandleMalformed
  \/ Transport /\ Serve
  \/ Transport /\ LoseSent
  \/ \E x \in Task : Operation /\ EngineMoves(x)
  \/ \E op \in Operations, S \in (SUBSET Task) \ {{}} : Operation /\ Begin(op, S)
  \/ Operation /\ PreflightFails
  \/ Operation /\ PreflightPasses
  \/ Operation /\ Trash
  \/ Operation /\ Execute
  \/ \E x \in Task : \/ Operation /\ SkipItem(x)
                     \/ Operation /\ SendItem(x)
  \/ Operation /\ NextRequestFollows
  \/ Operation /\ ItemSettles
  \/ Operation /\ RequestFails
  \/ Operation /\ ItemsDone
  \/ Operation /\ ForcedRefresh
  \/ Operation /\ ReconcileRemovals
  \/ Operation /\ ReconcileRetries
  \/ Operation /\ Report
  \/ Operation /\ EngineServes
  \/ Operation /\ ServeLate
  \/ Operation /\ LoseLate
  \/ Operation /\ Disconnect
  \/ Operation /\ Reconnect
  \/ Operation /\ Poll

Spec == Init /\ [][Next]_vars /\ TransportFairness
=============================================================================
