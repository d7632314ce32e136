------------------------------ MODULE LaunchQueue ------------------------------
(***************************************************************************)
(* What becomes of the files, magnet links and browser downloads that a     *)
(* second start of the desktop, or the browser bridge, is called with       *)
(* (ariadeck-ipc/src/lib.rs).  It forwards them to the desktop that owns    *)
(* the socket, which acknowledges them, keeps them while the shell has no   *)
(* use for them, and puts them into the add dialog (poll_instance_requests  *)
(* and crates/ariadeck-ui/src/shell/dialogs_add.rs).  A second start whose  *)
(* request fails opens a window of its own with its items; the bridge       *)
(* reports the error.                                                       *)
(***************************************************************************)
EXTENDS Naturals, Sequences, FiniteSets, SequencesExt

CONSTANTS
  Forwarder,  \* processes that forward a request
  Item,       \* what they forward
  Launches,   \* the assignments of a request to each that are tried
  HeadersOf,  \* the referer, user agent and cookie of each download
  MaxItems    \* MAX_LAUNCH_ITEMS

ASSUME MaxItemsIsPositive == MaxItems \in Nat \ {0}

LaunchRequest == [files : Seq(Item), magnets : Seq(Item), downloads : Seq(Item)]

Items(r) == ToSet(r.files) \cup ToSet(r.magnets) \cup ToSet(r.downloads)

\* An item is one occurrence of a path, a link or a download in one request.
NoneTwice(s) == \A i, j \in DOMAIN s : s[i] = s[j] => i = j
Distinct(r) ==
  /\ NoneTwice(r.files) /\ NoneTwice(r.magnets) /\ NoneTwice(r.downloads)
  /\ ToSet(r.files) \cap ToSet(r.magnets) = {}
  /\ (ToSet(r.files) \cup ToSet(r.magnets)) \cap ToSet(r.downloads) = {}

ASSUME ForwardersAreFinite == IsFiniteSet(Forwarder)
ASSUME ItemsAreOccurrences ==
  \A l \in Launches :
    /\ l \in [Forwarder -> LaunchRequest]
    /\ \A f \in Forwarder : Distinct(l[f])
    /\ \A f, g \in Forwarder : f # g => Items(l[f]) \cap Items(l[g]) = {}

VARIABLES
  launch,   \* the requests of this behaviour
  forward,  \* where each forwarder is
  wire,     \* requests written to the socket that serve has not handled
  channel,  \* the receiver of poll_instance_requests
  polling,  \* the shell is in the loop of poll_instance_requests
  waiting,  \* pending_metadata_paths, pending_magnet_uris, pending_downloads
  up,       \* the desktop that owns the socket runs
  dialog,   \* what the shell shows over the list
  free,     \* aria2 takes commands and nothing of the shell is in progress
  auto,     \* bridge downloads need no confirmation
  opened,   \* how often each item was put into the dialog
  dropped   \* history: items received when there was no room for them

launchVars == <<launch, forward, wire, channel, polling, waiting, up, dialog, free,
                auto, opened, dropped>>

Replies == {"ok", "failed"}

LaunchTypeOK ==
  /\ launch \in Launches
  /\ forward \in [Forwarder -> {"idle", "sent"} \cup Replies]
  /\ wire \subseteq Forwarder
  /\ channel \in Seq(LaunchRequest)
  /\ polling \in BOOLEAN
  /\ waiting \in LaunchRequest
  /\ up \in BOOLEAN /\ free \in BOOLEAN /\ auto \in BOOLEAN
  /\ dialog \in {"none", "add", "other"}
  /\ opened \in [Item -> Nat]
  /\ dropped \subseteq Item

Nothing == [files |-> <<>>, magnets |-> <<>>, downloads |-> <<>>]

LaunchInit ==
  /\ launch \in Launches
  /\ forward = [f \in Forwarder |-> "idle"]
  /\ wire = {}
  /\ channel = <<>>
  /\ polling = FALSE
  /\ waiting = Nothing
  /\ up = TRUE
  /\ dialog = "none"
  /\ free = FALSE
  /\ auto \in BOOLEAN
  /\ opened = [x \in Item |-> 0]
  /\ dropped = {}

-----------------------------------------------------------------------------
\* forward_request
shell == <<polling, waiting, dialog, free, auto, opened, dropped>>

Hears(f, answer) == forward' = [forward EXCEPT ![f] = answer]

Send(f) ==
  /\ forward[f] = "idle" /\ up
  /\ Hears(f, "sent")
  /\ wire' = wire \cup {f}
  /\ UNCHANGED <<launch, channel, up, shell>>

\* Ten attempts to connect, the time-out, a connection closed without "ok".
Fails(f) ==
  /\ \/ forward[f] = "idle" /\ ~up
     \/ forward[f] = "sent"
  /\ Hears(f, "failed")
  /\ UNCHANGED <<launch, wire, channel, up, shell>>

\* handle_connection: into the channel first, then the answer, which finds
\* nobody if the forwarder has given up.
Handle(f) ==
  /\ up /\ f \in wire
  /\ wire' = wire \ {f}
  /\ channel' = Append(channel, launch[f])
  /\ IF forward[f] = "sent" THEN Hears(f, "ok") ELSE UNCHANGED forward
  /\ UNCHANGED <<launch, up, shell>>

\* It could not be read in time.
Reject(f) ==
  /\ f \in wire
  /\ wire' = wire \ {f}
  /\ UNCHANGED <<launch, forward, channel, up, shell>>

-----------------------------------------------------------------------------
\* poll_instance_requests
Count(r) == Len(r.files) + Len(r.magnets) + Len(r.downloads)
Leading(s, n) == SubSeq(s, 1, IF n < Len(s) THEN n ELSE Len(s))

\* launch_budget, computed again for each of the three.
Budget(r) == IF Count(r) < MaxItems THEN MaxItems - Count(r) ELSE 0
Admit(w, r) ==
  LET f == [w EXCEPT !.files = @ \o Leading(r.files, Budget(w))]
      m == [f EXCEPT !.magnets = @ \o Leading(r.magnets, Budget(f))]
  IN  [m EXCEPT !.downloads = @ \o Leading(r.downloads, Budget(m))]

\* can_open_metadata_paths; can_open_magnet_uris and can_open_bridge_downloads.
TakesFiles(d) == free /\ d \in {"none", "add"}
TakesLinks(d) == free /\ d = "none"

\* The leading downloads whose headers agree.
Run(s) == {i \in DOMAIN s : \A j \in 1 .. i : HeadersOf[s[j]] = HeadersOf[s[1]]}
RestAll(s) == <<>>
Rest(s)    == SubSeq(s, Cardinality(Run(s)) + 1, Len(s))

\* The loop takes one request after the other; serve may send another between.
ReceiveRequest ==
  /\ up /\ channel # <<>>
  /\ polling' = TRUE
  /\ channel' = Tail(channel)
  /\ waiting' = Admit(waiting, Head(channel))
  /\ dropped' = dropped \cup (Items(Head(channel)) \ Items(waiting'))
  /\ UNCHANGED <<launch, forward, wire, up, dialog, free, auto, opened>>

\* The channel is empty: at most one of the three goes into the dialog, which
\* the others have to wait for.
OpensFiles   == waiting.files # <<>> /\ TakesFiles(dialog)
OpensMagnets == ~OpensFiles /\ waiting.magnets # <<>> /\ TakesLinks(dialog)
OpensDownloads ==
  ~OpensFiles /\ ~OpensMagnets /\ waiting.downloads # <<>> /\ TakesLinks(dialog)

Taken == IF OpensFiles THEN ToSet(waiting.files)
         ELSE IF OpensMagnets THEN ToSet(waiting.magnets)
         ELSE IF OpensDownloads THEN {waiting.downloads[i] : i \in Run(waiting.downloads)}
         ELSE {}

OpenWaiting ==
  /\ up /\ channel = <<>>
  /\ polling \/ Taken # {}
  /\ polling' = FALSE
  /\ waiting' = [files |-> IF OpensFiles THEN <<>> ELSE waiting.files,
                 magnets |-> IF OpensMagnets THEN <<>> ELSE waiting.magnets,
                 downloads |-> IF OpensDownloads THEN Rest(waiting.downloads)
                                                 ELSE waiting.downloads]
  /\ opened' = [x \in Item |-> IF x \in Taken THEN opened[x] + 1 ELSE opened[x]]
  /\ dialog' = IF Taken # {} THEN "add" ELSE dialog
  /\ free' = (free /\ ~OpensFiles /\ ~(OpensDownloads /\ auto))
  /\ UNCHANGED <<launch, forward, wire, channel, up, auto, dropped>>

\* The user, the engine, and what the shell waits for.
ShellChanges ==
  /\ up /\ ~polling
  /\ dialog' \in {"none", "add", "other"}
  /\ free' \in BOOLEAN
  /\ <<dialog', free'>> # <<dialog, free>>
  /\ UNCHANGED <<launch, forward, wire, channel, polling, waiting, up, auto, opened, dropped>>

\* "They are lost on exit" (docs/browser-bridge.md 181).
DesktopEnds ==
  /\ up
  /\ up' = FALSE
  /\ wire' = {} /\ channel' = <<>> /\ polling' = FALSE /\ waiting' = Nothing
  /\ UNCHANGED <<launch, forward, dialog, free, auto, opened, dropped>>

LaunchNext ==
  \/ \E f \in Forwarder : Send(f) \/ Fails(f) \/ Handle(f) \/ Reject(f)
  \/ ReceiveRequest \/ OpenWaiting \/ ShellChanges \/ DesktopEnds

LaunchSpec == LaunchInit /\ [][LaunchNext]_launchVars

-----------------------------------------------------------------------------
InChannel == UNION {Items(channel[i]) : i \in DOMAIN channel}

\* "Forwarded items wait in the primary instance's memory under the same cap"
\* (docs/browser-bridge.md 181): while it runs, what it has answered "ok" to is
\* in one of its hands or has been opened, once; more than the cap never wait;
\* an item is dropped only from requests that together exceed the cap.
NoLaunchIsLost ==
  /\ LaunchTypeOK
  /\ Count(waiting) <= MaxItems
  /\ up => \A f \in Forwarder : forward[f] = "ok" =>
       \A x \in Items(launch[f]) :
         \/ x \in InChannel \cup Items(waiting) /\ opened[x] = 0
         \/ opened[x] = 1 /\ x \notin InChannel \cup Items(waiting)
         \/ /\ x \in dropped /\ opened[x] = 0
            /\ \E S \in SUBSET Forwarder :
                 f \in S /\ Cardinality(UNION {Items(launch[g]) : g \in S}) > MaxItems
=============================================================================
