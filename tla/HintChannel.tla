------------------------------ MODULE HintChannel ------------------------------
(***************************************************************************)
(* The way of an aria2 notification to the coordinator: handle_payload      *)
(* broadcasts it (rpc/src/transport/websocket.rs), a task forwards it as a  *)
(* refresh hint through a bounded channel (rpc/src/sync.rs), and the        *)
(* coordinator takes the hints when it gets to them.  The broadcast         *)
(* overwrites what a slow receiver has not read.  Both channels hold 128    *)
(* entries in the code.                                                     *)
(***************************************************************************)
EXTENDS Naturals, Sequences

CONSTANTS
  HintGid,      \* the tasks notifications are about
  NoGid,        \* a notification without one
  BroadcastCap, \* the capacity of the broadcast channel
  HintCap,      \* the capacity of the hint channel
  MaxNotes      \* bound: notifications published in a behaviour

ASSUME NoGidIsNoTask == NoGid \notin HintGid
ASSUME CapacitiesArePositive ==
  BroadcastCap \in Nat \ {0} /\ HintCap \in Nat \ {0} /\ MaxNotes \in Nat

VARIABLES
  notes,      \* published and not read by the forwarder, oldest first
  lagged,     \* the forwarder has missed notifications and not been told
  held,       \* the hint the forwarder waits to send
  hinted,     \* the hint channel
  forwarding, \* the forwarder runs
  lost,       \* the transport has announced its end
  published,  \* how many notifications there were
  owed        \* history: what the coordinator has not been told to refresh

hintVars == <<notes, lagged, held, hinted, forwarding, lost, published, owed>>

Full   == "Full"
Nothing == "nothing"
Hint   == HintGid \cup {Full}

\* Stopped, completed and errored notifications end a download; started,
\* paused and unknown ones do not.
Notification == [ends : BOOLEAN, gid : HintGid \cup {NoGid}]

IgnoreEnds(n) == IF n.gid = NoGid THEN Full ELSE n.gid
NotificationHint(n) == IF n.ends \/ n.gid = NoGid THEN Full ELSE n.gid

ASSUME HintsDiffer == Full \notin HintGid /\ Nothing \notin HintGid

HintTypeOK ==
  /\ notes \in Seq(Notification)
  /\ lagged \in BOOLEAN
  /\ held \in Hint \cup {Nothing}
  /\ hinted \in Seq(Hint)
  /\ forwarding \in BOOLEAN
  /\ lost \in BOOLEAN
  /\ published \in Nat
  /\ owed \subseteq Hint

HintInit ==
  /\ notes = <<>>
  /\ lagged = FALSE
  /\ held = Nothing
  /\ hinted = <<>>
  /\ forwarding = TRUE
  /\ lost = FALSE
  /\ published = 0
  /\ owed = {}

-----------------------------------------------------------------------------
\* notifications.send: a receiver that is BroadcastCap behind loses the oldest.
\* Once the forwarder is gone nobody listens.
Publish(n) ==
  /\ ~lost
  /\ published < MaxNotes
  /\ published' = published + 1
  /\ IF forwarding
     THEN /\ notes' = IF Len(notes) < BroadcastCap THEN Append(notes, n)
                                                   ELSE Append(Tail(notes), n)
          /\ lagged' = (lagged \/ Len(notes) = BroadcastCap)
          /\ owed' = owed \cup {NotificationHint(n)}
     ELSE UNCHANGED <<notes, lagged, owed>>
  /\ UNCHANGED <<held, hinted, forwarding, lost>>

\* notifications.recv in the select of forward_notification_hints.
Listening == forwarding /\ held = Nothing

SkipLag ==
  /\ Listening /\ lagged
  /\ lagged' = FALSE
  /\ UNCHANGED <<notes, held, hinted, forwarding, lost, published, owed>>
ForwardLag ==
  /\ Listening /\ lagged
  /\ lagged' = FALSE
  /\ held' = Full
  /\ UNCHANGED <<notes, hinted, forwarding, lost, published, owed>>

ForwardNote ==
  /\ Listening /\ ~lagged /\ notes # <<>>
  /\ held' = NotificationHint(Head(notes))
  /\ notes' = Tail(notes)
  /\ UNCHANGED <<lagged, hinted, forwarding, lost, published, owed>>

\* sender.send(hint).await gets a permit.
Deliver ==
  /\ forwarding /\ held # Nothing
  /\ Len(hinted) < HintCap
  /\ hinted' = Append(hinted, held)
  /\ held' = Nothing
  /\ UNCHANGED <<notes, lagged, forwarding, lost, published, owed>>

\* run_connected takes a hint: a full refresh pays for everything published
\* so far, a task's refresh for that task.
TakeHint ==
  /\ hinted # <<>>
  /\ owed' = IF Head(hinted) = Full THEN {} ELSE owed \ {Head(hinted)}
  /\ hinted' = Tail(hinted)
  /\ UNCHANGED <<notes, lagged, held, forwarding, lost, published>>

\* closed changes: the connection is gone, and with it the session.
Lose ==
  /\ ~lost
  /\ lost' = TRUE
  /\ UNCHANGED <<notes, lagged, held, hinted, forwarding, published, owed>>

\* The forwarder sees it when it is not waiting to send a hint.
ForwarderEnds ==
  /\ Listening /\ lost
  /\ forwarding' = FALSE
  /\ UNCHANGED <<notes, lagged, held, hinted, lost, published, owed>>

HintNext ==
  \/ \E n \in Notification : Publish(n)
  \/ ForwardLag
  \/ ForwardNote
  \/ Deliver
  \/ TakeHint
  \/ Lose
  \/ ForwarderEnds

HintSpec == HintInit /\ [][HintNext]_hintVars

-----------------------------------------------------------------------------
\* Where a hint can be on its way.
OnTheWay(h) ==
  \/ held = h
  \/ \E i \in DOMAIN hinted : hinted[i] = h
  \/ \E i \in DOMAIN notes : NotificationHint(notes[i]) = h

\* A session is told of everything aria2 announced: what the coordinator has
\* not refreshed yet is on its way as a hint of its own or as a full refresh,
\* though the broadcast may have overwritten it (forward_notification_hints
\* turns Lagged into a full refresh).  A lost session starts over.
AnnouncementsAreNotForgotten ==
  ~lost => \A h \in owed : lagged \/ OnTheWay(Full) \/ OnTheWay(h)
=============================================================================
