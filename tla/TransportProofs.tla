---------------------------- MODULE TransportProofs ----------------------------
(***************************************************************************)
(* RpcTransport implements RpcCalls and HintChannel forgets no announcement, *)
(* for any calls, batches, capacities and tasks.                             *)
(***************************************************************************)
EXTENDS RpcTransport, HintChannel, TLAPS

-----------------------------------------------------------------------------
(***************************************************************************)
(* The hints.                                                                *)
(***************************************************************************)
HintInv ==
  /\ HintTypeOK
  /\ Len(notes) <= BroadcastCap
  /\ ~lost => forwarding
  /\ AnnouncementsAreNotForgotten

LEMMA NotificationHintTyped == \A n \in Notification : NotificationHint(n) \in Hint
BY NoGidIsNoTask DEF Notification, NotificationHint, Hint

LEMMA HintInitInv == HintInit => HintInv
<1> SUFFICES ASSUME HintInit PROVE HintInv
  OBVIOUS
<1>1. /\ notes \in Seq(Notification) /\ hinted \in Seq(Hint) /\ published \in Nat
      /\ Len(notes) <= BroadcastCap
  BY CapacitiesArePositive, SMT DEF HintInit
<1> QED
  BY <1>1, Zenon DEF HintInit, HintInv, HintTypeOK, AnnouncementsAreNotForgotten

\* The oldest note may go, which the forwarder will be told.
LEMMA PublishInv ==
  ASSUME HintInv, NEW n \in Notification, Publish(n)
  PROVE  HintInv'
<1>1. CASE ~forwarding
  BY <1>1 DEF HintInv, Publish
<1>2. CASE forwarding
  <2>1. /\ notes \in Seq(Notification) /\ Len(notes) \in Nat /\ ~lost /\ ~lost'
        /\ UNCHANGED <<held, hinted, forwarding>>
        /\ owed' = owed \cup {NotificationHint(n)}
        /\ lagged' = (lagged \/ Len(notes) = BroadcastCap)
    BY <1>2, SMT DEF HintInv, HintTypeOK, Publish
  <2>2. CASE Len(notes) < BroadcastCap
    <3>1. notes' = Append(notes, n) /\ notes' \in Seq(Notification)
      BY <1>2, <2>1, <2>2, SMT DEF Publish
    <3>2. /\ \A i \in DOMAIN notes : i \in DOMAIN notes' /\ notes'[i] = notes[i]
          /\ Len(notes) + 1 \in DOMAIN notes' /\ notes'[Len(notes) + 1] = n
      BY <2>1, <3>1, SMT
    <3>3. /\ \A h \in Hint : OnTheWay(h) => OnTheWay(h)'
          /\ \A h \in Hint : h = NotificationHint(n) => OnTheWay(h)'
      BY <2>1, <3>2 DEF OnTheWay
    <3>4. AnnouncementsAreNotForgotten'
      BY <2>1, <3>3, NotificationHintTyped
      DEF HintInv, HintTypeOK, AnnouncementsAreNotForgotten, Hint
    <3>5. Len(notes') <= BroadcastCap
      BY <2>1, <2>2, <3>1, CapacitiesArePositive, SMT
    <3> QED
      BY <2>1, <3>1, <3>4, <3>5, NotificationHintTyped, SMT DEF HintInv, HintTypeOK, Publish
  <2>3. CASE ~(Len(notes) < BroadcastCap)
    <3>1. notes # <<>> /\ Len(notes) = BroadcastCap
      BY <2>1, <2>3, CapacitiesArePositive, SMT DEF HintInv
    <3>2. Tail(notes) \in Seq(Notification) /\ Len(Tail(notes)) = BroadcastCap - 1
      BY <2>1, <3>1, SMT
    <3>3. /\ notes' = Append(Tail(notes), n) /\ notes' \in Seq(Notification)
          /\ Len(notes') <= BroadcastCap
      BY <1>2, <2>3, <3>2, CapacitiesArePositive, SMT DEF Publish
    <3>4. lagged' = TRUE
      BY <2>1, <3>1
    <3> QED
      BY <2>1, <3>3, <3>4, NotificationHintTyped, SMT
      DEF HintInv, HintTypeOK, AnnouncementsAreNotForgotten, Publish
  <2> QED
    BY <2>2, <2>3
<1> QED
  BY <1>1, <1>2

LEMMA ForwardLagInv == HintInv /\ ForwardLag => HintInv'
<1> SUFFICES ASSUME HintInv, ForwardLag PROVE HintInv'
  OBVIOUS
<1>1. OnTheWay(Full)'
  BY DEF ForwardLag, OnTheWay
<1>2. AnnouncementsAreNotForgotten'
  BY <1>1 DEF AnnouncementsAreNotForgotten
<1> QED
  BY <1>2, Zenon DEF HintInv, HintTypeOK, ForwardLag, Hint

LEMMA ForwardNoteInv == HintInv /\ ForwardNote => HintInv'
<1> SUFFICES ASSUME HintInv, ForwardNote PROVE HintInv'
  OBVIOUS
<1>1. /\ notes \in Seq(Notification) /\ notes # <<>> /\ held = Nothing /\ ~lagged
      /\ held' = NotificationHint(Head(notes)) /\ notes' = Tail(notes)
      /\ UNCHANGED <<lagged, hinted, forwarding, lost, published, owed>>
  BY DEF HintInv, HintTypeOK, ForwardNote, Listening
<1>2. /\ Head(notes) \in Notification /\ Head(notes) = notes[1]
      /\ notes' \in Seq(Notification) /\ Len(notes') <= Len(notes)
      /\ Len(notes) \in Nat /\ Len(notes') \in Nat
      /\ \A i \in DOMAIN notes : i # 1 => i - 1 \in DOMAIN notes' /\ notes'[i - 1] = notes[i]
  BY <1>1, SMT
<1>3. held' \in Hint
  BY <1>1, <1>2, NotificationHintTyped
<1>4. \A h \in Hint : OnTheWay(h) => OnTheWay(h)'
  BY <1>1, <1>2, HintsDiffer DEF OnTheWay, Hint, Nothing, Full
<1>5. AnnouncementsAreNotForgotten'
  BY <1>1, <1>4 DEF HintInv, HintTypeOK, AnnouncementsAreNotForgotten, Hint
<1>6. Len(notes') <= BroadcastCap
  BY <1>2, CapacitiesArePositive, SMT DEF HintInv
<1> QED
  BY <1>1, <1>2, <1>3, <1>5, <1>6, Zenon DEF HintInv, HintTypeOK

LEMMA DeliverInv == HintInv /\ Deliver => HintInv'
<1> SUFFICES ASSUME HintInv, Deliver PROVE HintInv'
  OBVIOUS
<1>1. /\ hinted \in Seq(Hint) /\ held \in Hint
      /\ hinted' = Append(hinted, held) /\ held' = Nothing
      /\ UNCHANGED <<notes, lagged, forwarding, lost, published, owed>>
  BY DEF HintInv, HintTypeOK, Deliver
<1>2. /\ hinted' \in Seq(Hint)
      /\ \A i \in DOMAIN hinted : i \in DOMAIN hinted' /\ hinted'[i] = hinted[i]
      /\ Len(hinted) + 1 \in DOMAIN hinted' /\ hinted'[Len(hinted) + 1] = held
  BY <1>1, SMT
<1>3. \A h \in Hint : OnTheWay(h) => OnTheWay(h)'
  BY <1>1, <1>2 DEF OnTheWay
<1>4. AnnouncementsAreNotForgotten'
  BY <1>1, <1>3 DEF HintInv, HintTypeOK, AnnouncementsAreNotForgotten, Hint
<1> QED
  BY <1>1, <1>2, <1>4, Zenon DEF HintInv, HintTypeOK

\* What the coordinator takes is paid for; nothing else leaves the channel.
LEMMA TakeHintInv == HintInv /\ TakeHint => HintInv'
<1> SUFFICES ASSUME HintInv, TakeHint PROVE HintInv'
  OBVIOUS
<1>1. /\ hinted \in Seq(Hint) /\ hinted # <<>> /\ hinted' = Tail(hinted)
      /\ owed' = IF Head(hinted) = Full THEN {} ELSE owed \ {Head(hinted)}
      /\ UNCHANGED <<notes, lagged, held, forwarding, lost, published>>
  BY DEF HintInv, HintTypeOK, TakeHint
<1>2. /\ hinted' \in Seq(Hint) /\ Head(hinted) = hinted[1]
      /\ \A i \in DOMAIN hinted : i # 1 => i - 1 \in DOMAIN hinted' /\ hinted'[i - 1] = hinted[i]
  BY <1>1, SMT
<1>3. \A h \in Hint : h # Head(hinted) /\ OnTheWay(h) => OnTheWay(h)'
  BY <1>1, <1>2 DEF OnTheWay
<1>4. AnnouncementsAreNotForgotten'
  BY <1>1, <1>3 DEF HintInv, HintTypeOK, AnnouncementsAreNotForgotten, Hint
<1>5. owed' \subseteq Hint
  BY <1>1 DEF HintInv, HintTypeOK
<1> QED
  BY <1>1, <1>2, <1>4, <1>5, Zenon DEF HintInv, HintTypeOK

LEMMA EndOfHintsInv == HintInv /\ (Lose \/ ForwarderEnds \/ UNCHANGED hintVars) => HintInv'
<1>1. HintInv /\ Lose => HintInv'
  BY DEF HintInv, HintTypeOK, AnnouncementsAreNotForgotten, Lose
<1>2. ASSUME HintInv, ForwarderEnds PROVE HintInv'
  <2>1. HintTypeOK' /\ lost'
    BY <1>2, Zenon DEF HintInv, HintTypeOK, ForwarderEnds
  <2>2. Len(notes') <= BroadcastCap
    BY <1>2 DEF HintInv, ForwarderEnds
  <2> QED
    BY <2>1, <2>2 DEF HintInv, AnnouncementsAreNotForgotten
<1>3. HintInv /\ UNCHANGED hintVars => HintInv'
  BY DEF HintInv, HintTypeOK, AnnouncementsAreNotForgotten, OnTheWay, hintVars
<1> QED
  BY <1>1, <1>2, <1>3

\* The invariant of the hints holds in every reachable state.
THEOREM HintInvariant == HintSpec => []HintInv
<1>1. HintInv /\ [HintNext]_hintVars => HintInv'
  BY PublishInv, ForwardLagInv, ForwardNoteInv, DeliverInv, TakeHintInv, EndOfHintsInv DEF HintNext
<1> QED
  BY <1>1, HintInitInv, PTL DEF HintSpec

\* Nothing aria2 announced is forgotten, whatever the broadcast overwrote.
THEOREM NothingAnnouncedIsForgotten == HintSpec => []AnnouncementsAreNotForgotten
<1>1. HintInv => AnnouncementsAreNotForgotten
  BY DEF HintInv
<1> QED
  BY <1>1, HintInvariant, PTL

\* Every variable of the hints keeps its type.
THEOREM HintTypeCorrect == HintSpec => []HintTypeOK
<1>1. HintInv => HintTypeOK
  BY DEF HintInv
<1> QED
  BY <1>1, HintInvariant, PTL

-----------------------------------------------------------------------------
(***************************************************************************)
(* The requests.                                                             *)
(***************************************************************************)
Unsent(c)     == step[c] \in {"idle", "sending"}
QueuedCall(c) == \E i \in DOMAIN queue : queue[i].kind = "Send" /\ queue[i].call = c
OnWire(c)     == \E i \in DOMAIN sent : sent[i] = c
Undecided(c)  == \A r \in Of(c) : r \notin executed /\ r \notin refused

\* The payload of a call is in one place at most before aria2 gets it.
SentOnce ==
  /\ \A i, j \in DOMAIN queue :
       queue[i].kind = "Send" /\ queue[j].kind = "Send" /\ queue[i].call = queue[j].call => i = j
  /\ \A i, j \in DOMAIN sent : sent[i] = sent[j] => i = j
  /\ \A c \in Call : QueuedCall(c) => ~OnWire(c)
  /\ \A c \in Call : Unsent(c) => ~QueuedCall(c) /\ ~OnWire(c)
  /\ \A c \in Call : Unsent(c) \/ QueuedCall(c) \/ OnWire(c) => Undecided(c)

\* A slot is filled once, after its request went out.
FilledOnce ==
  /\ \A c \in Call : Unsent(c) \/ QueuedCall(c) =>
       \A r \in Of(c) : slot[r] = "empty" /\ r \notin pending
  /\ PendingIsUnanswered
  /\ \A c \in Call : step[c] = "answered" => AllAnswered(c)

\* With what aria2 decided.
FilledTruly ==
  /\ \A r \in Request : /\ slot[r] = "value" => r \in executed
                        /\ slot[r] = "remote" => r \in refused
  /\ \A i \in DOMAIN inbound : inbound[i].kind = "Response" =>
       \A r \in Of(inbound[i].call) : r \in executed \/ r \in refused

TransportInv ==
  /\ TransportTypeOK
  /\ SentOnce
  /\ FilledOnce
  /\ FilledTruly

LEMMA RequestsOfCalls ==
  /\ \A c \in Call : \A r \in Of(c) : r \in Request /\ r[1] = c
  /\ \A r \in Request : r[1] \in Call /\ r \in Of(r[1])
BY DEF Of, Request

LEMMA CommandFields ==
  /\ \A m \in Command : m.kind \in {"Send", "Cancel", "Shutdown"}
  /\ \A m \in Command : m.kind \in {"Send", "Cancel"} => m.call \in Call
  /\ \A m \in Message : m.kind \in {"Response", "Malformed"}
  /\ \A m \in Message : m.kind = "Response" => m.call \in Call
BY SMT DEF Command, Message

LEMMA CommandsBuilt ==
  /\ \A c \in Call : [kind |-> "Send", call |-> c] \in Command
  /\ \A c \in Call : [kind |-> "Cancel", call |-> c] \in Command
  /\ [kind |-> "Shutdown"] \in Command
  /\ \A c \in Call : [kind |-> "Response", call |-> c] \in Message
  /\ [kind |-> "Malformed"] \in Message
BY SMT DEF Command, Message

LEMMA TailFacts ==
  ASSUME NEW S, NEW q \in Seq(S), q # <<>>
  PROVE  /\ Tail(q) \in Seq(S)
         /\ 1 \in DOMAIN q /\ Head(q) = q[1] /\ Head(q) \in S
         /\ \A i \in DOMAIN Tail(q) : i + 1 \in DOMAIN q /\ i + 1 # 1 /\ Tail(q)[i] = q[i + 1]
         /\ \A i, j \in DOMAIN Tail(q) : i + 1 = j + 1 => i = j
BY SMT

LEMMA AppendFacts ==
  ASSUME NEW S, NEW q \in Seq(S), NEW x \in S
  PROVE  /\ Append(q, x) \in Seq(S)
         /\ \A i \in DOMAIN Append(q, x) :
              \/ i \in DOMAIN q /\ Append(q, x)[i] = q[i]
              \/ i = Len(q) + 1 /\ Append(q, x)[i] = x
BY SMT

LEMMA QueuedRequestsAre ==
  ASSUME TransportTypeOK
  PROVE  \A r \in Request : r \in QueuedRequests <=> QueuedCall(r[1])
<1>1. \A i \in DOMAIN queue : queue[i] \in Command
  BY SMT DEF TransportTypeOK
<1> QED
  BY <1>1, RequestsOfCalls, CommandFields DEF QueuedRequests, QueuedCall

LEMMA TransportInitInv == TransportInit => TransportInv
<1> SUFFICES ASSUME TransportInit PROVE TransportInv
  OBVIOUS
<1>1. TransportTypeOK
  <2>1. queue \in Seq(Command) /\ sent \in Seq(Call) /\ inbound \in Seq(Message)
    BY SMT DEF TransportInit
  <2>2. step \in [Call -> Step] /\ slot \in [Request -> Slot]
    BY DEF TransportInit, Step, Slot
  <2> QED
    BY <2>1, <2>2 DEF TransportInit, TransportTypeOK
<1>2. DOMAIN queue = {} /\ DOMAIN sent = {} /\ DOMAIN inbound = {}
  BY SMT DEF TransportInit
<1>3. \A c \in Call : ~QueuedCall(c) /\ ~OnWire(c) /\ Undecided(c)
  BY <1>2 DEF TransportInit, QueuedCall, OnWire, Undecided
<1>4. \A r \in Request : slot[r] = "empty" /\ r \notin pending
  BY DEF TransportInit
<1> QED
  BY <1>1, <1>2, <1>3, <1>4, RequestsOfCalls
  DEF TransportInit, TransportInv, SentOnce, FilledOnce, FilledTruly, PendingIsUnanswered

\* A future moves on: nothing else does.
LEMMA MoveKeeps ==
  ASSUME TransportInv, NEW c \in Call, NEW to \in Step \ {"idle"},
         step' = [step EXCEPT ![c] = to],
         to = "sending" => step[c] = "idle",
         to = "answered" => AllAnswered(c),
         UNCHANGED <<slot, closing, queue, pending, open, sent, inbound, executed, refused>>
  PROVE  TransportInv'
<1>1. step' \in [Call -> Step] /\ step'[c] = to /\ \A d \in Call : d # c => step'[d] = step[d]
  BY DEF TransportInv, TransportTypeOK
<1>2. TransportTypeOK'
  BY <1>1 DEF TransportInv, TransportTypeOK
<1>3. \A d \in Call : /\ Unsent(d)' => Unsent(d)
                      /\ QueuedCall(d)' <=> QueuedCall(d)
                      /\ OnWire(d)' <=> OnWire(d)
                      /\ Undecided(d)' <=> Undecided(d)
  BY <1>1 DEF Unsent, QueuedCall, OnWire, Undecided
<1>4. SentOnce'
  BY <1>3 DEF TransportInv, SentOnce
<1>5. FilledOnce'
  BY <1>1, <1>3 DEF TransportInv, FilledOnce, PendingIsUnanswered, AllAnswered
<1>6. FilledTruly'
  BY DEF TransportInv, FilledTruly
<1> QED
  BY <1>2, <1>4, <1>5, <1>6 DEF TransportInv

\* A command that is no request joins the queue.
LEMMA SignalKeeps ==
  ASSUME TransportInv, NEW m \in Command, m.kind # "Send",
         queue' = Append(queue, m),
         step' \in [Call -> Step],
         \A d \in Call : Unsent(d)' => Unsent(d),
         \A d \in Call : step'[d] = "answered" => step[d] = "answered",
         closing' \in {"no", "sending", "waiting", "done"},
         UNCHANGED <<slot, pending, open, sent, inbound, executed, refused>>
  PROVE  TransportInv'
<1>1. /\ queue' \in Seq(Command)
      /\ \A i \in DOMAIN queue' : \/ i \in DOMAIN queue /\ queue'[i] = queue[i]
                                  \/ queue'[i].kind # "Send"
  BY AppendFacts DEF TransportInv, TransportTypeOK
<1>2. TransportTypeOK'
  BY <1>1 DEF TransportInv, TransportTypeOK
<1>3. \A d \in Call : /\ QueuedCall(d)' => QueuedCall(d)
                      /\ OnWire(d)' <=> OnWire(d)
                      /\ Undecided(d)' <=> Undecided(d)
  BY <1>1 DEF QueuedCall, OnWire, Undecided
<1>4. SentOnce'
  BY <1>1, <1>3 DEF TransportInv, SentOnce
<1>5. FilledOnce'
  BY <1>3 DEF TransportInv, FilledOnce, PendingIsUnanswered, AllAnswered
<1>6. FilledTruly'
  BY DEF TransportInv, FilledTruly
<1> QED
  BY <1>2, <1>4, <1>5, <1>6 DEF TransportInv

LEMMA SendCommandInv ==
  ASSUME TransportInv, NEW c \in Call, SendCommand(c)
  PROVE  TransportInv'
<1> DEFINE m == [kind |-> "Send", call |-> c]
<1>1. /\ step[c] = "sending" /\ step' = [step EXCEPT ![c] = "waiting"]
      /\ queue' = Append(queue, m)
      /\ UNCHANGED <<slot, closing, pending, open, sent, inbound, executed, refused>>
  BY DEF SendCommand, Move, wireVars
<1>2. m \in Command /\ m.kind = "Send" /\ m.call = c
  BY CommandsBuilt
<1> HIDE DEF m
<1>3. /\ queue' \in Seq(Command)
      /\ \A i \in DOMAIN queue' : \/ i \in DOMAIN queue /\ queue'[i] = queue[i]
                                  \/ i = Len(queue) + 1 /\ queue'[i] = m
  BY <1>1, <1>2, AppendFacts DEF TransportInv, TransportTypeOK
<1>4. step' \in [Call -> Step] /\ step'[c] = "waiting" /\ \A d \in Call : d # c => step'[d] = step[d]
  BY <1>1 DEF TransportInv, TransportTypeOK, Step
<1>5. TransportTypeOK'
  BY <1>1, <1>3, <1>4 DEF TransportInv, TransportTypeOK
<1>6. Unsent(c) /\ ~QueuedCall(c) /\ ~OnWire(c) /\ Undecided(c)
  BY <1>1 DEF TransportInv, SentOnce, Unsent
<1>7. \A d \in Call : /\ Unsent(d)' => Unsent(d) /\ d # c
                      /\ QueuedCall(d)' => QueuedCall(d) \/ d = c
                      /\ OnWire(d)' <=> OnWire(d)
                      /\ Undecided(d)' <=> Undecided(d)
  BY <1>1, <1>2, <1>3, <1>4 DEF Unsent, QueuedCall, OnWire, Undecided
<1>8. SentOnce'
  <2>1. \A i, j \in DOMAIN queue' :
          queue'[i].kind = "Send" /\ queue'[j].kind = "Send" /\ queue'[i].call = queue'[j].call => i = j
    BY <1>2, <1>3, <1>6 DEF TransportInv, SentOnce, QueuedCall
  <2>2. /\ \A i, j \in DOMAIN sent' : sent'[i] = sent'[j] => i = j
        /\ \A d \in Call : QueuedCall(d)' => ~OnWire(d)'
        /\ \A d \in Call : Unsent(d)' => ~QueuedCall(d)' /\ ~OnWire(d)'
        /\ \A d \in Call : Unsent(d)' \/ QueuedCall(d)' \/ OnWire(d)' => Undecided(d)'
    BY <1>1, <1>6, <1>7 DEF TransportInv, SentOnce
  <2> QED
    BY <2>1, <2>2 DEF SentOnce
<1>9. FilledOnce'
  BY <1>1, <1>4, <1>6, <1>7 DEF TransportInv, FilledOnce, PendingIsUnanswered, AllAnswered
<1>10. FilledTruly'
  BY <1>1 DEF TransportInv, FilledTruly
<1> QED
  BY <1>5, <1>8, <1>9, <1>10 DEF TransportInv

LEMMA CallerInv ==
  ASSUME TransportInv, NEW c \in Call, Dispatch(c) \/ CallerStep(c) \/ DropCall(c)
  PROVE  TransportInv'
<1>1. CASE Dispatch(c)
  BY <1>1, MoveKeeps DEF Dispatch, Move, actorVars, wireVars, Step
<1>2. CASE SendCommand(c)
  BY <1>2, SendCommandInv
<1>3. CASE SendRefused(c)
  BY <1>3, MoveKeeps DEF SendRefused, Move, actorVars, wireVars, Step
<1>4. CASE ReceiveAll(c)
  BY <1>4, MoveKeeps DEF ReceiveAll, Move, actorVars, wireVars, Step
<1>5. CASE RequestTimesOut(c)
  BY <1>5, MoveKeeps DEF RequestTimesOut, Move, actorVars, wireVars, Step
<1>6. CASE SendCancel(c)
  <2>1. /\ step[c] = "cancelling" /\ step' = [step EXCEPT ![c] = "timeout"]
        /\ UNCHANGED <<slot, closing, pending, open, sent, inbound, executed, refused>>
    BY <1>6 DEF SendCancel, Move, wireVars
  <2>2. /\ step' \in [Call -> Step] /\ step'[c] = "timeout"
        /\ \A d \in Call : d # c => step'[d] = step[d]
    BY <2>1 DEF TransportInv, TransportTypeOK, Step
  <2>3. CASE queue' = Append(queue, [kind |-> "Cancel", call |-> c])
    <3>1. \E m \in Command : m.kind # "Send" /\ queue' = Append(queue, m)
      BY <2>3, CommandsBuilt
    <3> QED
      BY <2>1, <2>2, <3>1, SignalKeeps DEF TransportInv, TransportTypeOK, Unsent
  <2>4. CASE UNCHANGED queue
    BY <2>1, <2>4, MoveKeeps DEF Step
  <2> QED
    BY <1>6, <2>3, <2>4 DEF SendCancel
<1>7. CASE DropCall(c)
  BY <1>7, MoveKeeps DEF DropCall, actorVars, wireVars, Step
<1> QED
  BY <1>1, <1>2, <1>3, <1>4, <1>5, <1>6, <1>7 DEF CallerStep

\* What touches neither calls nor requests.
LEMMA StillInv ==
  ASSUME TransportInv, closing' \in {"no", "sending", "waiting", "done"},
         UNCHANGED <<step, slot, queue, pending, open, sent, inbound, executed, refused>>
  PROVE  TransportInv'
<1>1. TransportTypeOK'
  BY DEF TransportInv, TransportTypeOK
<1>2. SentOnce'
  BY DEF TransportInv, SentOnce, Unsent, QueuedCall, OnWire, Undecided
<1>3. FilledOnce'
  BY DEF TransportInv, FilledOnce, Unsent, QueuedCall, PendingIsUnanswered, AllAnswered
<1>4. FilledTruly'
  BY DEF TransportInv, FilledTruly
<1> QED
  BY <1>1, <1>2, <1>3, <1>4 DEF TransportInv

LEMMA CloseInv ==
  ASSUME TransportInv, CloseBegins \/ CloseStep
  PROVE  TransportInv'
<1>1. CASE CloseBegins
  BY <1>1, StillInv DEF CloseBegins, actorVars, wireVars
<1>2. CASE SendShutdown
  <2>1. /\ closing' \in {"no", "sending", "waiting", "done"}
        /\ UNCHANGED <<step, slot, pending, open, sent, inbound, executed, refused>>
        /\ queue' = Append(queue, [kind |-> "Shutdown"]) \/ UNCHANGED queue
    BY <1>2 DEF SendShutdown, wireVars
  <2>2. CASE queue' = Append(queue, [kind |-> "Shutdown"])
    <3>1. \E m \in Command : m.kind # "Send" /\ queue' = Append(queue, m)
      BY <2>2, CommandsBuilt
    <3> QED
      BY <2>1, <3>1, SignalKeeps DEF TransportInv, TransportTypeOK, Unsent
  <2> QED
    BY <2>1, <2>2, StillInv
<1>3. CASE CloseReturns
  BY <1>3, StillInv DEF CloseReturns, actorVars, wireVars
<1> QED
  BY <1>1, <1>2, <1>3 DEF CloseStep

-----------------------------------------------------------------------------
\* The actor takes the first command.
LEMMA TakenFromQueue ==
  ASSUME TransportInv, queue # <<>>, queue' = Tail(queue)
  PROVE  /\ queue' \in Seq(Command) /\ Head(queue) \in Command
         /\ \A i, j \in DOMAIN queue' :
              queue'[i].kind = "Send" /\ queue'[j].kind = "Send" /\ queue'[i].call = queue'[j].call
                => i = j
         /\ \A c \in Call : QueuedCall(c)' => QueuedCall(c)
         /\ Head(queue).kind = "Send" =>
              /\ Head(queue).call \in Call
              /\ QueuedCall(Head(queue).call)
              /\ \A c \in Call : QueuedCall(c)' => c # Head(queue).call
<1>1. queue \in Seq(Command)
  BY DEF TransportInv, TransportTypeOK
<1>2. /\ queue' \in Seq(Command)
      /\ 1 \in DOMAIN queue /\ Head(queue) = queue[1] /\ Head(queue) \in Command
      /\ \A i \in DOMAIN queue' : i + 1 \in DOMAIN queue /\ i + 1 # 1 /\ queue'[i] = queue[i + 1]
      /\ \A i, j \in DOMAIN queue' : i + 1 = j + 1 => i = j
  BY <1>1, TailFacts
<1>3. \A i, j \in DOMAIN queue' :
        queue'[i].kind = "Send" /\ queue'[j].kind = "Send" /\ queue'[i].call = queue'[j].call => i = j
  BY <1>2 DEF TransportInv, SentOnce
<1>4. \A c \in Call : QueuedCall(c)' => QueuedCall(c)
  BY <1>2 DEF QueuedCall
<1>5. ASSUME Head(queue).kind = "Send"
      PROVE  /\ Head(queue).call \in Call
             /\ QueuedCall(Head(queue).call)
             /\ \A c \in Call : QueuedCall(c)' => c # Head(queue).call
  <2> DEFINE x == queue[1].call
  <2>1. queue[1].kind = "Send" /\ x \in Call
    BY <1>2, <1>5, CommandFields
  <2>2. \A i \in DOMAIN queue' : queue'[i].kind = "Send" => queue'[i].call # x
    BY <1>2, <2>1 DEF TransportInv, SentOnce
  <2>3. Head(queue).call = x
    BY <1>2
  <2> QED
    BY <1>2, <2>1, <2>2, <2>3 DEF QueuedCall
<1> QED
  BY <1>2, <1>3, <1>4, <1>5

LEMMA TakeSendInv == TransportInv /\ TakeSend => TransportInv'
<1> SUFFICES ASSUME TransportInv, TakeSend PROVE TransportInv'
  OBVIOUS
<1> DEFINE x == Head(queue).call
<1>1. /\ queue # <<>> /\ Head(queue).kind = "Send" /\ queue' = Tail(queue)
      /\ pending' = pending \cup Of(x) /\ sent' = Append(sent, x)
      /\ UNCHANGED <<step, slot, closing, open, inbound, executed, refused>>
  BY DEF TakeSend, Queued, callerVars
<1>2. /\ queue' \in Seq(Command)
      /\ \A i, j \in DOMAIN queue' :
           queue'[i].kind = "Send" /\ queue'[j].kind = "Send" /\ queue'[i].call = queue'[j].call
             => i = j
      /\ \A c \in Call : QueuedCall(c)' => QueuedCall(c) /\ c # x
      /\ x \in Call /\ QueuedCall(x)
  BY <1>1, TakenFromQueue
<1> HIDE DEF x
<1>3. /\ sent' \in Seq(Call)
      /\ \A i \in DOMAIN sent' : \/ i \in DOMAIN sent /\ sent'[i] = sent[i]
                                 \/ i = Len(sent) + 1 /\ sent'[i] = x
  BY <1>1, <1>2, AppendFacts DEF TransportInv, TransportTypeOK
<1>4. ~OnWire(x) /\ ~Unsent(x) /\ Undecided(x) /\ \A r \in Of(x) : slot[r] = "empty"
  BY <1>2 DEF TransportInv, SentOnce, FilledOnce
<1>5. \A c \in Call : /\ Unsent(c)' <=> Unsent(c)
                      /\ OnWire(c)' => OnWire(c) \/ c = x
                      /\ Undecided(c)' <=> Undecided(c)
  BY <1>1, <1>3 DEF Unsent, OnWire, Undecided
<1>6. TransportTypeOK'
  BY <1>1, <1>2, <1>3, RequestsOfCalls DEF TransportInv, TransportTypeOK
<1>7. SentOnce'
  <2>1. \A i, j \in DOMAIN sent' : sent'[i] = sent'[j] => i = j
    BY <1>3, <1>4 DEF TransportInv, SentOnce, OnWire
  <2>2. /\ \A c \in Call : QueuedCall(c)' => ~OnWire(c)'
        /\ \A c \in Call : Unsent(c)' => ~QueuedCall(c)' /\ ~OnWire(c)'
        /\ \A c \in Call : Unsent(c)' \/ QueuedCall(c)' \/ OnWire(c)' => Undecided(c)'
    BY <1>2, <1>4, <1>5 DEF TransportInv, SentOnce
  <2> QED
    BY <1>2, <2>1, <2>2 DEF SentOnce
<1>8. FilledOnce'
  <2>1. \A c \in Call : Unsent(c)' \/ QueuedCall(c)' =>
          \A r \in Of(c) : slot'[r] = "empty" /\ r \notin pending'
    BY <1>1, <1>2, <1>4, <1>5, RequestsOfCalls DEF TransportInv, FilledOnce
  <2>2. PendingIsUnanswered'
    BY <1>1, <1>4 DEF TransportInv, FilledOnce, PendingIsUnanswered
  <2>3. \A c \in Call : step'[c] = "answered" => AllAnswered(c)'
    BY <1>1 DEF TransportInv, FilledOnce, AllAnswered
  <2> QED
    BY <2>1, <2>2, <2>3 DEF FilledOnce
<1>9. FilledTruly'
  BY <1>1 DEF TransportInv, FilledTruly
<1> QED
  BY <1>6, <1>7, <1>8, <1>9 DEF TransportInv

LEMMA TakeCancelInv == TransportInv /\ TakeCancel => TransportInv'
<1> SUFFICES ASSUME TransportInv, TakeCancel PROVE TransportInv'
  OBVIOUS
<1>1. /\ queue # <<>> /\ queue' = Tail(queue) /\ pending' \subseteq pending
      /\ UNCHANGED <<step, slot, closing, open, sent, inbound, executed, refused>>
  BY DEF TakeCancel, Queued, callerVars, wireVars
<1>2. /\ queue' \in Seq(Command)
      /\ \A i, j \in DOMAIN queue' :
           queue'[i].kind = "Send" /\ queue'[j].kind = "Send" /\ queue'[i].call = queue'[j].call
             => i = j
      /\ \A c \in Call : QueuedCall(c)' => QueuedCall(c)
  BY <1>1, TakenFromQueue
<1>3. \A c \in Call : /\ Unsent(c)' <=> Unsent(c)
                      /\ OnWire(c)' <=> OnWire(c)
                      /\ Undecided(c)' <=> Undecided(c)
  BY <1>1 DEF Unsent, OnWire, Undecided
<1>4. TransportTypeOK'
  BY <1>1, <1>2 DEF TransportInv, TransportTypeOK
<1>5. SentOnce'
  BY <1>1, <1>2, <1>3 DEF TransportInv, SentOnce
<1>6. FilledOnce'
  BY <1>1, <1>2, <1>3 DEF TransportInv, FilledOnce, PendingIsUnanswered, AllAnswered
<1>7. FilledTruly'
  BY <1>1 DEF TransportInv, FilledTruly
<1> QED
  BY <1>4, <1>5, <1>6, <1>7 DEF TransportInv

\* The connection ends: what is pending or queued fails, and nothing else.
LEMMA EndConnectionInv ==
  ASSUME TransportInv, NEW P \in SUBSET Request, EndConnection(P),
         \A r \in P : r \in pending \/ QueuedCall(r[1]),
         sent' = sent \/ \E x \in Call : sent' = Append(sent, x) /\ QueuedCall(x),
         UNCHANGED <<step, closing, executed, refused>>
  PROVE  TransportInv'
<1>1. /\ \A r \in Request : \/ slot'[r] = slot[r]
                            \/ slot'[r] = "failed" /\ slot[r] = "empty"
      /\ slot' \in [Request -> Slot]
      /\ queue' = <<>> /\ pending' = {} /\ open' = FALSE /\ inbound' = <<>>
  BY QueuedRequestsAre, RequestsOfCalls
  DEF TransportInv, TransportTypeOK, FilledOnce, PendingIsUnanswered, EndConnection, Fail, Slot
<1>2. /\ DOMAIN queue' = {} /\ DOMAIN inbound' = {}
      /\ queue' \in Seq(Command) /\ inbound' \in Seq(Message)
  BY <1>1, SMT
<1>3. /\ sent' \in Seq(Call)
      /\ \A i, j \in DOMAIN sent' : sent'[i] = sent'[j] => i = j
      /\ \A c \in Call : OnWire(c)' => OnWire(c) \/ QueuedCall(c)
  <2>1. CASE sent' = sent
    BY <2>1 DEF TransportInv, TransportTypeOK, SentOnce, OnWire
  <2>2. ASSUME NEW x \in Call, sent' = Append(sent, x), QueuedCall(x)
        PROVE  <1>3!1 /\ <1>3!2 /\ <1>3!3
    <3>1. /\ sent' \in Seq(Call)
          /\ \A i \in DOMAIN sent' : \/ i \in DOMAIN sent /\ sent'[i] = sent[i]
                                     \/ i = Len(sent) + 1 /\ sent'[i] = x
      BY <2>2, AppendFacts DEF TransportInv, TransportTypeOK
    <3> QED
      BY <2>2, <3>1 DEF TransportInv, SentOnce, OnWire
  <2> QED
    BY <2>1, <2>2
<1>4. TransportTypeOK'
  BY <1>1, <1>2, <1>3 DEF TransportInv, TransportTypeOK
<1>5. \A c \in Call : /\ Unsent(c)' <=> Unsent(c)
                      /\ ~QueuedCall(c)'
                      /\ Undecided(c)' <=> Undecided(c)
  BY <1>2 DEF Unsent, QueuedCall, Undecided
<1>6. SentOnce'
  BY <1>2, <1>3, <1>5 DEF TransportInv, SentOnce
<1>7. FilledOnce'
  <2>1. \A c \in Call : Unsent(c)' \/ QueuedCall(c)' =>
          \A r \in Of(c) : slot'[r] = "empty" /\ r \notin pending'
    <3>1. \A c \in Call : Unsent(c) => \A r \in Of(c) : r \notin P \cup QueuedRequests
      BY QueuedRequestsAre, RequestsOfCalls DEF TransportInv, FilledOnce, SentOnce
    <3> QED
      BY <1>1, <1>5, <3>1, RequestsOfCalls DEF TransportInv, FilledOnce, EndConnection, Fail
  <2>2. PendingIsUnanswered'
    BY <1>1 DEF PendingIsUnanswered
  <2>3. \A c \in Call : step'[c] = "answered" => AllAnswered(c)'
    BY <1>1, RequestsOfCalls DEF TransportInv, FilledOnce, AllAnswered
  <2> QED
    BY <2>1, <2>2, <2>3 DEF FilledOnce
<1>8. FilledTruly'
  BY <1>1, <1>2 DEF TransportInv, FilledTruly
<1> QED
  BY <1>4, <1>6, <1>7, <1>8 DEF TransportInv

LEMMA ConnectionEndsInv ==
  ASSUME TransportInv, SendBreaks \/ TakeShutdown \/ StreamEnds
  PROVE  TransportInv'
<1>1. CASE SendBreaks
  <2> DEFINE x == Head(queue).call
             P == pending \cup Of(x)
  <2>1. x \in Call /\ QueuedCall(x)
    <3>1. queue \in Seq(Command) /\ queue # <<>> /\ Head(queue).kind = "Send"
      BY <1>1 DEF TransportInv, TransportTypeOK, SendBreaks, Queued
    <3>2. 1 \in DOMAIN queue /\ Head(queue) = queue[1] /\ Head(queue) \in Command
      BY <3>1, TailFacts
    <3> QED
      BY <3>1, <3>2, CommandFields DEF QueuedCall
  <2>2. /\ EndConnection(P) /\ UNCHANGED <<step, closing, executed, refused>>
        /\ sent' = sent \/ sent' = Append(sent, x)
    BY <1>1 DEF SendBreaks
  <2> HIDE DEF x
  <2>3. P \in SUBSET Request /\ \A r \in P : r \in pending \/ QueuedCall(r[1])
    BY <2>1, RequestsOfCalls DEF TransportInv, TransportTypeOK
  <2> HIDE DEF P
  <2> QED
    BY <2>1, <2>2, <2>3, EndConnectionInv
<1>2. CASE TakeShutdown \/ StreamEnds
  <2>1. EndConnection(pending) /\ UNCHANGED <<step, closing, sent, executed, refused>>
    BY <1>2 DEF TakeShutdown, StreamEnds
  <2> QED
    BY <2>1, EndConnectionInv DEF TransportInv, TransportTypeOK
<1> QED
  BY <1>1, <1>2

\* A payload fills the slots of pending requests and takes them out of pending.
LEMMA HandlePayloadInv ==
  ASSUME TransportInv, HandlePayload
  PROVE  TransportInv'
<1>1. inbound # <<>> /\ inbound' = Tail(inbound) /\ pending' \subseteq pending
  BY DEF HandlePayload, HandleResponse, HandleMalformed, Arrived
<1>2. UNCHANGED <<step, closing, queue, open, sent, executed, refused>>
  BY DEF HandlePayload, HandleResponse, HandleMalformed
<1>3. /\ inbound' \in Seq(Message)
      /\ 1 \in DOMAIN inbound /\ Head(inbound) = inbound[1] /\ Head(inbound) \in Message
      /\ \A i \in DOMAIN inbound' : i + 1 \in DOMAIN inbound /\ inbound'[i] = inbound[i + 1]
  BY <1>1, TailFacts DEF TransportInv, TransportTypeOK
<1>4. /\ slot' \in [Request -> Slot]
      /\ \A r \in Request : \/ slot'[r] = slot[r]
                            \/ r \in pending /\ slot'[r] = "failed"
                            \/ r \in pending /\ r \in executed /\ slot'[r] = "value"
                            \/ r \in pending /\ r \in refused /\ slot'[r] = "remote"
      /\ \A r \in pending' : slot'[r] = slot[r]
  <2>1. CASE HandleResponse
    <3> DEFINE x == Head(inbound).call
    <3>1. \A r \in Of(x) : r \in executed \/ r \in refused
      BY <1>3, <2>1 DEF TransportInv, FilledTruly, HandleResponse, Arrived
    <3>2. /\ slot' = [r \in Request |-> IF r \in Of(x) \cap pending THEN Answer(r) ELSE slot[r]]
          /\ pending' = pending \ Of(x)
      BY <2>1 DEF HandleResponse, Fill
    <3> HIDE DEF x
    <3> QED
      BY <3>1, <3>2 DEF TransportInv, TransportTypeOK, Answer, Slot
  <2>2. CASE HandleMalformed
    BY <2>2 DEF HandleMalformed, Fail, TransportInv, TransportTypeOK, Slot
  <2> QED
    BY <2>1, <2>2 DEF HandlePayload
<1>5. TransportTypeOK'
  BY <1>1, <1>2, <1>3, <1>4 DEF TransportInv, TransportTypeOK
<1>6. \A c \in Call : /\ Unsent(c)' <=> Unsent(c)
                      /\ QueuedCall(c)' <=> QueuedCall(c)
                      /\ OnWire(c)' <=> OnWire(c)
                      /\ Undecided(c)' <=> Undecided(c)
  BY <1>2 DEF Unsent, QueuedCall, OnWire, Undecided
<1>7. SentOnce'
  BY <1>2, <1>6 DEF TransportInv, SentOnce
<1>8. FilledOnce'
  <2>1. \A c \in Call : Unsent(c)' \/ QueuedCall(c)' =>
          \A r \in Of(c) : slot'[r] = "empty" /\ r \notin pending'
    BY <1>1, <1>4, <1>6, RequestsOfCalls DEF TransportInv, FilledOnce
  <2>2. PendingIsUnanswered'
    BY <1>1, <1>4 DEF TransportInv, FilledOnce, PendingIsUnanswered
  <2>3. \A c \in Call : step'[c] = "answered" => AllAnswered(c)'
    BY <1>2, <1>4, RequestsOfCalls DEF TransportInv, FilledOnce, AllAnswered
  <2> QED
    BY <2>1, <2>2, <2>3 DEF FilledOnce
<1>9. FilledTruly'
  BY <1>2, <1>3, <1>4 DEF TransportInv, FilledTruly
<1> QED
  BY <1>5, <1>7, <1>8, <1>9 DEF TransportInv

\* aria2 decides on a call that was on the wire, once.
LEMMA ServeFacts ==
  ASSUME TransportInv, Serve
  PROVE  LET x == Head(sent) IN
         /\ x \in Call /\ ~Unsent(x) /\ Undecided(x) /\ ~QueuedCall(x)
         /\ UNCHANGED <<step, slot, closing, queue, pending, open>>
         /\ sent' \in Seq(Call)
         /\ \A i, j \in DOMAIN sent' : sent'[i] = sent'[j] => i = j
         /\ \A c \in Call : OnWire(c)' => OnWire(c) /\ c # x
         /\ inbound' \in Seq(Message)
         /\ \A i \in DOMAIN inbound' : \/ i \in DOMAIN inbound /\ inbound'[i] = inbound[i]
                                       \/ inbound'[i].kind = "Response" => inbound'[i].call = x
         /\ \E good \in SUBSET Of(x) :
              executed' = executed \cup good /\ refused' = refused \cup (Of(x) \ good)
<1> DEFINE x == Head(sent)
<1>1. /\ sent # <<>> /\ sent' = Tail(sent) /\ sent \in Seq(Call)
      /\ UNCHANGED <<step, slot, closing, queue, pending, open>>
      /\ \E good \in SUBSET Of(x) :
           executed' = executed \cup good /\ refused' = refused \cup (Of(x) \ good)
      /\ \/ inbound' = Append(inbound, [kind |-> "Response", call |-> x])
         \/ inbound' = Append(inbound, [kind |-> "Malformed"])
         \/ inbound' = inbound
  BY DEF Serve, TransportInv, TransportTypeOK, callerVars, actorVars
<1>2. /\ sent' \in Seq(Call) /\ 1 \in DOMAIN sent /\ x = sent[1] /\ x \in Call
      /\ \A i \in DOMAIN sent' : i + 1 \in DOMAIN sent /\ i + 1 # 1 /\ sent'[i] = sent[i + 1]
      /\ \A i, j \in DOMAIN sent' : i + 1 = j + 1 => i = j
  BY <1>1, TailFacts
<1>3. OnWire(x)
  BY <1>2 DEF OnWire
<1>4. ~Unsent(x) /\ Undecided(x) /\ ~QueuedCall(x)
  BY <1>2, <1>3 DEF TransportInv, SentOnce
<1>5. \A i, j \in DOMAIN sent' : sent'[i] = sent'[j] => i = j
  BY <1>2 DEF TransportInv, SentOnce
<1>6. \A c \in Call : OnWire(c)' => OnWire(c) /\ c # x
  BY <1>2 DEF TransportInv, SentOnce, OnWire
<1>7. /\ inbound' \in Seq(Message)
      /\ \A i \in DOMAIN inbound' : \/ i \in DOMAIN inbound /\ inbound'[i] = inbound[i]
                                    \/ inbound'[i].kind = "Response" => inbound'[i].call = x
  <2>1. inbound \in Seq(Message)
    BY DEF TransportInv, TransportTypeOK
  <2>2. CASE inbound' = Append(inbound, [kind |-> "Response", call |-> x])
    <3> DEFINE m == [kind |-> "Response", call |-> x]
    <3>1. m \in Message /\ m.call = x
      BY <1>2, CommandsBuilt
    <3> HIDE DEF m
    <3>2. inbound' = Append(inbound, m)
      BY <2>2 DEF m
    <3> QED
      BY <2>1, <3>1, <3>2, AppendFacts
  <2>3. CASE inbound' = Append(inbound, [kind |-> "Malformed"])
    <3> DEFINE m == [kind |-> "Malformed"]
    <3>1. m \in Message /\ m.kind # "Response"
      BY CommandsBuilt
    <3> HIDE DEF m
    <3>2. inbound' = Append(inbound, m)
      BY <2>3 DEF m
    <3> QED
      BY <2>1, <3>1, <3>2, AppendFacts
  <2>4. CASE inbound' = inbound
    BY <2>1, <2>4
  <2> QED
    BY <1>1, <2>2, <2>3, <2>4
<1> HIDE DEF x
<1>8. x = Head(sent)
  BY DEF x
<1> QED
  BY <1>1, <1>2, <1>4, <1>5, <1>6, <1>7, <1>8, Zenon

LEMMA ServeInv == TransportInv /\ Serve => TransportInv'
<1> SUFFICES ASSUME TransportInv, Serve PROVE TransportInv'
  OBVIOUS
<1> DEFINE x == Head(sent)
<1>1. /\ x \in Call /\ ~Unsent(x) /\ Undecided(x) /\ ~QueuedCall(x)
      /\ UNCHANGED <<step, slot, closing, queue, pending, open>>
      /\ sent' \in Seq(Call)
      /\ \A i, j \in DOMAIN sent' : sent'[i] = sent'[j] => i = j
      /\ \A c \in Call : OnWire(c)' => OnWire(c) /\ c # x
      /\ inbound' \in Seq(Message)
      /\ \A i \in DOMAIN inbound' : \/ i \in DOMAIN inbound /\ inbound'[i] = inbound[i]
                                    \/ inbound'[i].kind = "Response" => inbound'[i].call = x
  BY ServeFacts
<1>2. PICK good \in SUBSET Of(x) :
        executed' = executed \cup good /\ refused' = refused \cup (Of(x) \ good)
  BY ServeFacts
<1> HIDE DEF x
<1>3. \A c \in Call : /\ Unsent(c)' <=> Unsent(c)
                      /\ QueuedCall(c)' <=> QueuedCall(c)
                      /\ c # x => (Undecided(c)' <=> Undecided(c))
  BY <1>1, <1>2, RequestsOfCalls DEF Unsent, QueuedCall, Undecided
<1>4. TransportTypeOK'
  BY <1>1, <1>2, RequestsOfCalls DEF TransportInv, TransportTypeOK
<1>5. SentOnce'
  BY <1>1, <1>3 DEF TransportInv, SentOnce
<1>6. FilledOnce'
  BY <1>1, <1>3 DEF TransportInv, FilledOnce, PendingIsUnanswered, AllAnswered
<1>7. FilledTruly'
  BY <1>1, <1>2 DEF TransportInv, FilledTruly
<1> QED
  BY <1>4, <1>5, <1>6, <1>7 DEF TransportInv

LEMMA LoseSentInv == TransportInv /\ LoseSent => TransportInv'
<1> SUFFICES ASSUME TransportInv, LoseSent PROVE TransportInv'
  OBVIOUS
<1>1. sent' = <<>> /\ UNCHANGED <<step, slot, closing, queue, pending, open, inbound, executed, refused>>
  BY DEF LoseSent, callerVars, actorVars
<1>2. sent' \in Seq(Call) /\ DOMAIN sent' = {}
  BY <1>1, SMT
<1>3. TransportTypeOK'
  BY <1>1, <1>2 DEF TransportInv, TransportTypeOK
<1>4. SentOnce'
  BY <1>1, <1>2 DEF TransportInv, SentOnce, Unsent, QueuedCall, OnWire, Undecided
<1>5. FilledOnce' /\ FilledTruly'
  BY <1>1 DEF TransportInv, FilledOnce, FilledTruly, Unsent, QueuedCall, PendingIsUnanswered,
     AllAnswered
<1> QED
  BY <1>3, <1>4, <1>5 DEF TransportInv

LEMMA TransportStepInv == TransportInv /\ [TransportNext]_transportVars => TransportInv'
<1> SUFFICES ASSUME TransportInv, [TransportNext]_transportVars PROVE TransportInv'
  OBVIOUS
<1>1. ASSUME NEW c \in Call, Dispatch(c) \/ CallerStep(c) \/ DropCall(c) PROVE TransportInv'
  BY <1>1, CallerInv
<1>2. CASE CloseBegins \/ CloseStep
  BY <1>2, CloseInv
<1>3. CASE TakeSend \/ TakeCancel
  BY <1>3, TakeSendInv, TakeCancelInv
<1>4. CASE SendBreaks \/ TakeShutdown \/ StreamEnds
  BY <1>4, ConnectionEndsInv
<1>5. CASE HandlePayload
  BY <1>5, HandlePayloadInv
<1>6. CASE Serve \/ LoseSent
  BY <1>6, ServeInv, LoseSentInv
<1>7. CASE UNCHANGED transportVars
  BY <1>7, StillInv DEF transportVars, TransportInv, TransportTypeOK
<1> QED
  BY <1>1, <1>2, <1>3, <1>4, <1>5, <1>6, <1>7 DEF TransportNext, TakeCommand

\* The invariant of the requests holds in every reachable state.
THEOREM TransportInvariant == TransportSpec => []TransportInv
BY TransportInitInv, TransportStepInv, PTL DEF TransportSpec

\* Every variable of the transport keeps its type.
THEOREM TransportTypeCorrect == TransportSpec => []TransportTypeOK
<1>1. TransportInv => TransportTypeOK
  BY DEF TransportInv
<1> QED
  BY <1>1, TransportInvariant, PTL

\* No answer finds a slot that is filled.
THEOREM PendingStaysUnanswered == TransportSpec => []PendingIsUnanswered
<1>1. TransportInv => PendingIsUnanswered
  BY DEF TransportInv, FilledOnce
<1> QED
  BY <1>1, TransportInvariant, PTL

-----------------------------------------------------------------------------
(***************************************************************************)
(* The refinement of RpcCalls.                                               *)
(***************************************************************************)
LEMMA SameRequests ==
  /\ \A c \in Call : Calls!Of(c) = Of(c)
  /\ Calls!Request = Request
BY DEF Calls!Of, Calls!Request, Of, Request

LEMMA InitIsCalls == TransportInit => Calls!CallsInit
<1> SUFFICES ASSUME TransportInit PROVE Calls!CallsInit
  OBVIOUS
<1>1. \A c \in Call : step[c] = "idle"
  BY DEF TransportInit
<1>2. \A r \in Request : Told(r) = "nothing"
  BY <1>1, RequestsOfCalls DEF Told, Ended
<1> QED
  BY <1>1, <1>2, SameRequests DEF TransportInit, Calls!CallsInit, Ended

\* What callers know changes when a call ends and then no more.
LEMMA ToldStays ==
  ASSUME TransportInv, TransportInv',
         \A c \in Call : (step'[c] = "idle" <=> step[c] = "idle"),
         \A c \in Call : step[c] \in Ended \/ step'[c] \in Ended => step'[c] = step[c],
         \A r \in Request : step[r[1]] = "answered" => slot'[r] = slot[r]
  PROVE  /\ UNCHANGED {c \in Call : step[c] # "idle"}
         /\ UNCHANGED {c \in Call : step[c] \in Ended}
         /\ UNCHANGED [r \in Request |-> Told(r)]
<1>1. \A r \in Request : Told(r)' = Told(r)
  BY RequestsOfCalls DEF Told, Ended
<1>2. [r \in Request |-> Told(r)]' = [r \in Request |-> Told(r)']
  OBVIOUS
<1>3. UNCHANGED [r \in Request |-> Told(r)]
  BY <1>1, <1>2
<1>4. UNCHANGED {c \in Call : step[c] # "idle"}
  OBVIOUS
<1>5. UNCHANGED {c \in Call : step[c] \in Ended}
  BY DEF Ended
<1> QED
  BY <1>3, <1>4, <1>5

LEMMA UnseenByCalls ==
  ASSUME TransportInv, TransportInv',
         \A c \in Call : (step'[c] = "idle" <=> step[c] = "idle"),
         \A c \in Call : step[c] \in Ended \/ step'[c] \in Ended => step'[c] = step[c],
         \A r \in Request : step[r[1]] = "answered" => slot'[r] = slot[r],
         UNCHANGED <<executed, refused>>
  PROVE  UNCHANGED Calls!callVars
BY ToldStays DEF Calls!callVars

LEMMA DispatchIsCalls ==
  ASSUME TransportInv, TransportInv', NEW c \in Call, Dispatch(c)
  PROVE  Calls!Begin(c)
<1>1. /\ step[c] = "idle" /\ step'[c] = "sending" /\ \A d \in Call : d # c => step'[d] = step[d]
      /\ UNCHANGED <<slot, executed, refused>>
  BY DEF Dispatch, Move, wireVars, TransportInv, TransportTypeOK, Step
<1>2. {d \in Call : step[d] # "idle"}' = {d \in Call : step[d] # "idle"} \cup {c}
  BY <1>1
<1>3. UNCHANGED {d \in Call : step[d] \in Ended}
  BY <1>1 DEF Ended
<1>4. \A r \in Request : Told(r)' = Told(r)
  BY <1>1, RequestsOfCalls DEF Told, Ended
<1>5. UNCHANGED [r \in Request |-> Told(r)]
  BY <1>4
<1> QED
  BY <1>1, <1>2, <1>3, <1>5 DEF Calls!Begin

\* A future that returns, or goes.
LEMMA ReturnIsCalls ==
  ASSUME TransportInv, TransportInv', NEW c \in Call, NEW to \in Ended,
         step[c] \notin Ended \cup {"idle"}, step' = [step EXCEPT ![c] = to],
         UNCHANGED <<slot, executed, refused>>
  PROVE  Calls!End(c)
<1>1. step'[c] = to /\ \A d \in Call : d # c => step'[d] = step[d]
  BY DEF TransportInv, TransportTypeOK
<1>2. /\ c \in {d \in Call : step[d] # "idle"} \ {d \in Call : step[d] \in Ended}
      /\ UNCHANGED {d \in Call : step[d] # "idle"}
      /\ {d \in Call : step[d] \in Ended}' = {d \in Call : step[d] \in Ended} \cup {c}
  BY <1>1 DEF Ended
<1> DEFINE t == [r \in Of(c) |-> Told(r)']
<1>3. \A r \in Of(c) : Told(r)' \in Calls!Truth(r) /\ Told(r)' \in Calls!Result
  <2>1. ASSUME NEW r \in Of(c)
        PROVE  Told(r)' \in Calls!Truth(r) /\ Told(r)' \in Calls!Result
    <3>1. r \in Request /\ r[1] = c /\ step'[r[1]] \in Ended
      BY <1>1, <2>1, RequestsOfCalls
    <3>2. /\ slot'[r] = "value" => r \in executed
          /\ slot'[r] = "remote" => r \in refused
      BY <3>1 DEF TransportInv, FilledTruly
    <3> QED
      BY <3>1, <3>2 DEF Told, Calls!Truth, Calls!Result
  <2> QED
    BY <2>1
<1>4. \A r \in Request : r \notin Of(c) => Told(r)' = Told(r)
  BY <1>1, RequestsOfCalls DEF Told
<1>5. [r \in Request |-> Told(r)]' =
        [r \in Request |-> IF r \in Of(c) THEN t[r] ELSE [s \in Request |-> Told(s)][r]]
  BY <1>4
<1>6. t \in [Of(c) -> Calls!Result] /\ \A r \in Of(c) : t[r] \in Calls!Truth(r)
  BY <1>3
<1> HIDE DEF t
<1> QED
  BY <1>2, <1>5, <1>6, SameRequests DEF Calls!End

LEMMA ServeIsCalls ==
  ASSUME TransportInv, TransportInv', Serve
  PROVE  \E c \in Call : Calls!Decide(c)
<1> DEFINE x == Head(sent)
<1>1. /\ x \in Call /\ ~Unsent(x) /\ Undecided(x) /\ UNCHANGED <<step, slot>>
      /\ \E good \in SUBSET Of(x) :
           executed' = executed \cup good /\ refused' = refused \cup (Of(x) \ good)
  BY ServeFacts
<1> HIDE DEF x
<1>2. /\ UNCHANGED {c \in Call : step[c] # "idle"}
      /\ UNCHANGED {c \in Call : step[c] \in Ended}
      /\ UNCHANGED [r \in Request |-> Told(r)]
  BY <1>1, ToldStays
<1>3. x \in {c \in Call : step[c] # "idle"}
  BY <1>1 DEF Unsent
<1>4. Of(x) \cap (executed \cup refused) = {}
  BY <1>1 DEF Undecided
<1>5. Calls!Decide(x)
  BY <1>1, <1>2, <1>3, <1>4, SameRequests DEF Calls!Decide
<1> QED
  BY <1>1, <1>5

LEMMA CallerIsCalls ==
  ASSUME TransportInv, TransportInv', NEW c \in Call, CallerStep(c) \/ DropCall(c)
  PROVE  Calls!CallsNext \/ UNCHANGED Calls!callVars
<1>1. UNCHANGED <<slot, executed, refused>>
  BY DEF CallerStep, SendCommand, SendRefused, ReceiveAll, RequestTimesOut, SendCancel, DropCall,
     wireVars
<1>2. CASE SendCommand(c) \/ RequestTimesOut(c)
  <2>1. /\ step[c] \in {"sending", "waiting"} /\ step'[c] \in {"waiting", "cancelling"}
        /\ \A d \in Call : d # c => step'[d] = step[d]
    BY <1>2 DEF SendCommand, RequestTimesOut, Move, TransportInv, TransportTypeOK, Step
  <2> QED
    BY <1>1, <2>1, UnseenByCalls DEF Ended
<1>3. CASE SendRefused(c) \/ ReceiveAll(c) \/ SendCancel(c) \/ DropCall(c)
  <2>1. \E to \in Ended : step' = [step EXCEPT ![c] = to] /\ step[c] \notin Ended \cup {"idle"}
    BY <1>3 DEF SendRefused, ReceiveAll, SendCancel, DropCall, Move, Ended
  <2>2. Calls!End(c)
    BY <1>1, <2>1, ReturnIsCalls
  <2> QED
    BY <2>2 DEF Calls!CallsNext
<1> QED
  BY <1>2, <1>3 DEF CallerStep

\* Slots that have been read do not change.
LEMMA ReadSlotsStay ==
  ASSUME TransportInv,
         \A r \in Request : slot'[r] = slot[r] \/ slot[r] = "empty"
  PROVE  \A r \in Request : step[r[1]] = "answered" => slot'[r] = slot[r]
BY RequestsOfCalls DEF TransportInv, FilledOnce, AllAnswered

LEMMA ActorIsUnseen ==
  ASSUME TransportInv, TransportInv',
         TakeCommand \/ SendBreaks \/ StreamEnds \/ HandlePayload
  PROVE  UNCHANGED Calls!callVars
<1>1. UNCHANGED <<step, executed, refused>>
  BY DEF TakeCommand, TakeSend, TakeCancel, TakeShutdown, SendBreaks, StreamEnds, HandlePayload,
     HandleResponse, HandleMalformed, callerVars, wireVars
<1>2. \A r \in Request : slot'[r] = slot[r] \/ slot[r] = "empty"
  <2>1. CASE TakeSend \/ TakeCancel
    BY <2>1 DEF TakeSend, TakeCancel, callerVars
  <2>2. CASE HandlePayload
    BY <2>2 DEF HandlePayload, HandleResponse, HandleMalformed, Fill, Fail, TransportInv,
       FilledOnce, PendingIsUnanswered
  <2>3. CASE TakeShutdown \/ StreamEnds
    BY <2>3, QueuedRequestsAre, RequestsOfCalls
    DEF TakeShutdown, StreamEnds, EndConnection, Fail, TransportInv, FilledOnce, PendingIsUnanswered
  <2>4. CASE SendBreaks
    <3> DEFINE x == Head(queue).call
    <3>1. x \in Call /\ QueuedCall(x)
      <4>1. queue \in Seq(Command) /\ queue # <<>> /\ Head(queue).kind = "Send"
        BY <2>4 DEF TransportInv, TransportTypeOK, SendBreaks, Queued
      <4>2. 1 \in DOMAIN queue /\ Head(queue) = queue[1] /\ Head(queue) \in Command
        BY <4>1, TailFacts
      <4> QED
        BY <4>1, <4>2, CommandFields DEF QueuedCall
    <3>2. Fail(pending \cup Of(x) \cup QueuedRequests)
      BY <2>4 DEF SendBreaks, EndConnection
    <3> HIDE DEF x
    <3> QED
      BY <3>1, <3>2, QueuedRequestsAre, RequestsOfCalls
      DEF Fail, TransportInv, FilledOnce, PendingIsUnanswered
  <2> QED
    BY <2>1, <2>2, <2>3, <2>4 DEF TakeCommand
<1> QED
  BY <1>1, <1>2, ReadSlotsStay, UnseenByCalls

LEMMA StepIsCalls ==
  TransportInv /\ TransportInv' /\ [TransportNext]_transportVars
    => [Calls!CallsNext]_Calls!callVars
<1> SUFFICES ASSUME TransportInv, TransportInv', [TransportNext]_transportVars
             PROVE  Calls!CallsNext \/ UNCHANGED Calls!callVars
  OBVIOUS
<1>1. ASSUME NEW c \in Call, Dispatch(c) PROVE Calls!CallsNext
  BY <1>1, DispatchIsCalls DEF Calls!CallsNext
<1>2. ASSUME NEW c \in Call, CallerStep(c) \/ DropCall(c)
      PROVE  Calls!CallsNext \/ UNCHANGED Calls!callVars
  BY <1>2, CallerIsCalls
<1>3. CASE TakeCommand \/ SendBreaks \/ StreamEnds \/ HandlePayload
  BY <1>3, ActorIsUnseen
<1>4. CASE Serve
  BY <1>4, ServeIsCalls DEF Calls!CallsNext
<1>5. CASE CloseBegins \/ CloseStep \/ LoseSent \/ UNCHANGED transportVars
  <2>1. UNCHANGED <<step, slot, executed, refused>>
    BY <1>5 DEF CloseBegins, CloseStep, SendShutdown, CloseReturns, LoseSent, callerVars, wireVars,
       transportVars
  <2> QED
    BY <2>1, UnseenByCalls
<1> QED
  BY <1>1, <1>2, <1>3, <1>4, <1>5 DEF TransportNext

\* A caller is told what aria2 decided on its own request, or nothing certain,
\* and once, for any number of calls and batches.
THEOREM TransportImplementsCalls == TransportSpec => RefinesCalls
BY InitIsCalls, TransportInvariant, StepIsCalls, PTL DEF TransportSpec, RefinesCalls,
   Calls!CallsSpec
=============================================================================
