------------------------- MODULE DownloadStoreProofs -------------------------
(***************************************************************************)
(* Every operation of the store keeps it well-typed and consistent, for    *)
(* every set of gids, every set of offsets and every argument the callers  *)
(* can pass.  One lemma per operator of DownloadStore.tla.                 *)
(***************************************************************************)
EXTENDS DownloadStore, FiniteSetTheorems, TLAPS

\* upsert returns a store; exactly the gids of S get a new entry, and no
\* order but history is touched.
LEMMA UpsertFacts ==
  ASSUME NEW s \in Store, NEW S \in SUBSET Gid, NEW st \in Reports(S),
         NEW u, u = Upsert(s, S, st)
  PROVE  /\ u \in Store
         /\ Known(u) = Known(s) \cup S
         /\ u.fromHistory = s.fromHistory \ S
         /\ u.historyOnly = s.historyOnly \ S
         /\ u.history = s.history \ (S \cap s.historyOnly)
         /\ u.active = s.active /\ u.waiting = s.waiting
         /\ u.stopped = s.stopped /\ u.pages = s.pages /\ u.loaded = s.loaded
<1> DEFINE tasks == [x \in Gid |-> IF x \in S THEN st[x] ELSE s.tasks[x]]
           seeding == (s.seeding \ S) \cup {x \in S : st[x] = "Seeding"}
           r == [s EXCEPT !.tasks = tasks, !.fromHistory = s.fromHistory \ S,
                   !.seeding = seeding, !.historyOnly = s.historyOnly \ S,
                   !.history = s.history \ (S \cap s.historyOnly)]
<1>1. tasks \in [Gid -> Entry]
  BY DEF Store, Entry, Reports
<1>2. seeding \in SUBSET Gid
  BY DEF Store
<1>3. Upsert(s, S, st) = r
  BY DEF Upsert
<1>4. {x \in Gid : tasks[x] # "absent"} = Known(s) \cup S
  BY DEF Known, Status, Reports
<1> HIDE DEF tasks, seeding
<1>5. r \in Store /\ r.tasks = tasks
  BY <1>1, <1>2 DEF Store
<1>6. Known(r) = Known(s) \cup S
  BY <1>4, <1>5 DEF Known
<1>7. /\ r.fromHistory = s.fromHistory \ S
      /\ r.historyOnly = s.historyOnly \ S
      /\ r.history = s.history \ (S \cap s.historyOnly)
      /\ r.active = s.active /\ r.waiting = s.waiting
      /\ r.stopped = s.stopped /\ r.pages = s.pages /\ r.loaded = s.loaded
  BY <1>1, <1>2 DEF Store
<1>8. QED
  BY <1>3, <1>5, <1>6, <1>7

\* rebuild_stopped_order changes the stopped and history indexes only; where
\* every paged gid has an entry it makes stopped_order the pages flattened.
LEMMA RebuildStoppedFacts ==
  ASSUME NEW s \in Store, NEW u, u = RebuildStopped(s)
  PROVE  /\ u \in Store
         /\ u.tasks = s.tasks /\ u.fromHistory = s.fromHistory
         /\ u.active = s.active /\ u.waiting = s.waiting
         /\ u.pages = s.pages /\ u.loaded = s.loaded
         /\ u.stopped = Paged(s) \cap Known(s)
         /\ u.historyOnly = s.historyOnly \ u.stopped
         /\ u.history \subseteq s.history
         /\ s.history = s.historyOnly => u.history = u.historyOnly
<1> DEFINE stopped == Paged(s) \cap Known(s)
           only == s.historyOnly \ stopped
           history == IF s.historyOnly = {} THEN s.history ELSE s.history \cap only
           r == [s EXCEPT !.stopped = stopped, !.historyOnly = only,
                          !.history = history]
<1>1. stopped \in SUBSET Gid /\ only \in SUBSET Gid /\ history \in SUBSET Gid
  BY DEF Known, Store
<1>2. RebuildStopped(s) = r
  BY DEF RebuildStopped
<1>3. history \subseteq s.history /\ (s.history = s.historyOnly => history = only)
  OBVIOUS
<1>4. only = s.historyOnly \ stopped
  OBVIOUS
<1>5. stopped = Paged(s) \cap Known(s)
  OBVIOUS
<1> HIDE DEF stopped, only, history
<1>6. /\ r \in Store
      /\ r.tasks = s.tasks /\ r.fromHistory = s.fromHistory
      /\ r.active = s.active /\ r.waiting = s.waiting
      /\ r.pages = s.pages /\ r.loaded = s.loaded
      /\ r.stopped = stopped /\ r.historyOnly = only /\ r.history = history
  BY <1>1 DEF Store
<1>7. QED
  BY <1>2, <1>3, <1>4, <1>5, <1>6

\* Cutting gids out of the pages touches nothing but the pages.
LEMMA CutPagesFacts ==
  ASSUME NEW s \in Store, NEW S \in SUBSET Gid, NEW u, u = CutPages(s, S)
  PROVE  /\ u \in Store
         /\ u.tasks = s.tasks /\ u.fromHistory = s.fromHistory
         /\ u.active = s.active /\ u.waiting = s.waiting
         /\ u.stopped = s.stopped /\ u.loaded = s.loaded
         /\ u.history = s.history /\ u.historyOnly = s.historyOnly
         /\ Paged(u) = Paged(s) \ S
         /\ \A o \in Offset : u.pages[o] \subseteq s.pages[o]
<1> DEFINE pages == [o \in Offset |-> s.pages[o] \ S]
           r == [s EXCEPT !.pages = pages]
<1>1. pages \in [Offset -> SUBSET Gid]
  BY DEF Store
<1>2. CutPages(s, S) = r
  BY DEF CutPages
<1>3. UNION {pages[o] : o \in Offset} = Paged(s) \ S
  BY DEF Paged
<1>4. \A o \in Offset : pages[o] \subseteq s.pages[o]
  OBVIOUS
<1> HIDE DEF pages
<1>5. /\ r \in Store
      /\ r.tasks = s.tasks /\ r.fromHistory = s.fromHistory
      /\ r.active = s.active /\ r.waiting = s.waiting
      /\ r.stopped = s.stopped /\ r.loaded = s.loaded
      /\ r.history = s.history /\ r.historyOnly = s.historyOnly
      /\ r.pages = pages
  BY <1>1 DEF Store
<1>6. Paged(r) = Paged(s) \ S
  BY <1>3, <1>5 DEF Paged
<1>7. QED
  BY <1>2, <1>4, <1>5, <1>6

\* Deleting entries deletes exactly those.
LEMMA ForgetFacts ==
  ASSUME NEW s \in Store, NEW S \in SUBSET Gid, NEW u, u = Forget(s, S)
  PROVE  /\ u \in Store
         /\ Known(u) = Known(s) \ S
         /\ u.fromHistory = s.fromHistory \ S
         /\ u.active = s.active /\ u.waiting = s.waiting
         /\ u.stopped = s.stopped /\ u.loaded = s.loaded /\ u.pages = s.pages
         /\ u.history = s.history /\ u.historyOnly = s.historyOnly
<1> DEFINE tasks == [x \in Gid |-> IF x \in S THEN "absent" ELSE s.tasks[x]]
           r == [s EXCEPT !.tasks = tasks, !.fromHistory = s.fromHistory \ S]
<1>1. tasks \in [Gid -> Entry]
  BY DEF Store, Entry
<1>2. Forget(s, S) = r
  BY DEF Forget
<1>3. {x \in Gid : tasks[x] # "absent"} = Known(s) \ S
  BY DEF Known
<1> HIDE DEF tasks
<1>4. /\ r \in Store /\ r.tasks = tasks
      /\ r.fromHistory = s.fromHistory \ S
      /\ r.active = s.active /\ r.waiting = s.waiting
      /\ r.stopped = s.stopped /\ r.loaded = s.loaded /\ r.pages = s.pages
      /\ r.history = s.history /\ r.historyOnly = s.historyOnly
  BY <1>1 DEF Store
<1>5. QED
  BY <1>2, <1>3, <1>4 DEF Known

-----------------------------------------------------------------------------
(* The operations *)

\* begin_session and set_stale leave the task collections alone, so a store
\* that was consistent before a disconnect is consistent after it.
LEMMA NewStoreConsistent ==
  ASSUME NEW g \in Nat
  PROVE  NewStore(g) \in Store /\ Consistent(NewStore(g))
<1>1. NewStore(g) \in Store
  BY DEF NewStore, Store, Entry
<1>2. Consistent(NewStore(g))
  BY DEF NewStore, Consistent, HasOneOwner, HasFreshIndexes, Listed, EngineOwned,
         Live, Paged, Known
<1>3. QED
  BY <1>1, <1>2

LEMMA SessionCallsConsistent ==
  ASSUME NEW s \in Store, Consistent(s), NEW g \in Nat, NEW b \in BOOLEAN
  PROVE  /\ BeginSession(s, g) \in Store /\ Consistent(BeginSession(s, g))
         /\ SetStale(s, b) \in Store /\ Consistent(SetStale(s, b))
<1> DEFINE seeding == IF s.gen # g THEN {} ELSE s.seeding
           patched == s.gen # g \/ ~s.stale
           r == [s EXCEPT !.gen = g, !.seeding = seeding, !.stale = TRUE,
                          !.patched = patched]
           moved == s.stale # b
           q == [s EXCEPT !.stale = b, !.patched = moved]
<1>1. seeding \in SUBSET Gid /\ patched \in BOOLEAN /\ moved \in BOOLEAN
  BY DEF Store
<1>2. BeginSession(s, g) = r /\ SetStale(s, b) = q
  BY DEF BeginSession, SetStale
<1> HIDE DEF seeding, patched, moved
<1>3. /\ r \in Store
      /\ r.tasks = s.tasks /\ r.fromHistory = s.fromHistory
      /\ r.active = s.active /\ r.waiting = s.waiting
      /\ r.stopped = s.stopped /\ r.loaded = s.loaded /\ r.pages = s.pages
      /\ r.history = s.history /\ r.historyOnly = s.historyOnly
  BY <1>1 DEF Store
<1>4. /\ q \in Store
      /\ q.tasks = s.tasks /\ q.fromHistory = s.fromHistory
      /\ q.active = s.active /\ q.waiting = s.waiting
      /\ q.stopped = s.stopped /\ q.loaded = s.loaded /\ q.pages = s.pages
      /\ q.history = s.history /\ q.historyOnly = s.historyOnly
  BY <1>1 DEF Store
<1>5. Consistent(r) /\ Consistent(q)
  BY <1>3, <1>4 DEF Consistent, HasOneOwner, HasFreshIndexes, Listed, EngineOwned,
                    Live, Paged, Known
<1>6. QED
  BY <1>2, <1>3, <1>4, <1>5

\* reconcile_live: what was live and is no longer listed is forgotten, what
\* became live is taken out of the pages and of history.
LEMMA ReconcileLiveConsistent ==
  ASSUME NEW s \in Store, Consistent(s),
         NEW A \in SUBSET Gid, NEW W \in SUBSET Gid, LiveIsUnique(A, W),
         NEW st \in Reports(A \cup W)
  PROVE  /\ ReconcileLive(s, A, W, st) \in Store
         /\ Consistent(ReconcileLive(s, A, W, st))
<1> DEFINE live == A \cup W
           up   == Upsert(s, live, st)
           pg   == CutPages(up, live)
           cut  == RebuildStopped(pg)
           gone == (Live(s) \ live) \ cut.stopped
           fg   == Forget(cut, gone)
           seeding == fg.seeding \ gone
           patched == \/ UpsertPatches(s, live, st)
                      \/ cut.stopped # s.stopped
                      \/ gone # {}
                      \/ A # s.active \/ W # s.waiting
           r    == [fg EXCEPT !.seeding = seeding, !.active = A, !.waiting = W,
                              !.patched = patched]
<1>1. ReconcileLive(s, A, W, st) = r
  BY DEF ReconcileLive
<1>0. up = Upsert(s, live, st) /\ live \in SUBSET Gid /\ st \in Reports(live)
  OBVIOUS
<1> HIDE DEF up, live
<1>2. /\ up \in Store /\ Known(up) = Known(s) \cup live
      /\ up.fromHistory = s.fromHistory \ live
      /\ up.historyOnly = s.historyOnly \ live
      /\ up.history = s.history \ (live \cap s.historyOnly)
      /\ up.stopped = s.stopped /\ up.pages = s.pages /\ up.loaded = s.loaded
  BY <1>0, UpsertFacts
<1>3. Paged(up) = Paged(s)
  BY <1>2 DEF Paged
<1>4. /\ pg \in Store /\ Known(pg) = Known(up)
      /\ pg.fromHistory = up.fromHistory
      /\ pg.historyOnly = up.historyOnly /\ pg.history = up.history
      /\ pg.loaded = up.loaded /\ Paged(pg) = Paged(up) \ live
      /\ \A o \in Offset : pg.pages[o] \subseteq up.pages[o]
  BY <1>0, <1>2, CutPagesFacts DEF Known
<1> HIDE DEF pg
<1>5. /\ cut \in Store /\ Known(cut) = Known(pg)
      /\ cut.fromHistory = pg.fromHistory
      /\ cut.pages = pg.pages /\ cut.loaded = pg.loaded
      /\ Paged(cut) = Paged(pg)
      /\ cut.stopped = Paged(pg) \cap Known(pg)
      /\ cut.historyOnly = pg.historyOnly \ cut.stopped
      /\ cut.history \subseteq pg.history
      /\ pg.history = pg.historyOnly => cut.history = cut.historyOnly
  BY <1>4, RebuildStoppedFacts DEF Known, Paged
<1>6. gone \in SUBSET Gid /\ gone \cap live = {} /\ gone \cap cut.stopped = {}
      /\ gone \subseteq Live(s)
  BY DEF Live, Store
<1> HIDE DEF cut, gone
<1>7. /\ fg \in Store /\ Known(fg) = Known(cut) \ gone
      /\ fg.fromHistory = cut.fromHistory \ gone
      /\ fg.stopped = cut.stopped /\ fg.loaded = cut.loaded /\ fg.pages = cut.pages
      /\ fg.history = cut.history /\ fg.historyOnly = cut.historyOnly
  BY <1>5, <1>6, ForgetFacts
<1> HIDE DEF fg
<1>8. seeding \in SUBSET Gid /\ patched \in BOOLEAN
  BY <1>7 DEF Store, UpsertPatches
<1> HIDE DEF seeding, patched
<1>9. /\ r \in Store /\ r.active = A /\ r.waiting = W
      /\ r.tasks = fg.tasks /\ r.fromHistory = fg.fromHistory
      /\ r.stopped = fg.stopped /\ r.loaded = fg.loaded /\ r.pages = fg.pages
      /\ r.history = fg.history /\ r.historyOnly = fg.historyOnly
  BY <1>7, <1>8 DEF Store
<1>10. Known(r) = Known(fg) /\ Paged(r) = Paged(cut)
  BY <1>7, <1>9 DEF Known, Paged
<1> HIDE DEF r
<1>11. s.history = s.historyOnly /\ s.stopped = Paged(s)
       /\ Listed(s) \subseteq Known(s)
       /\ (Live(s) \cup s.stopped) \cap s.history = {}
       /\ Live(s) \cap s.stopped = {}
       /\ (Live(s) \cup s.stopped) \cap s.fromHistory = {}
  BY DEF Consistent, HasFreshIndexes, HasOneOwner, EngineOwned
<1>12. r.stopped = s.stopped \ live /\ r.stopped = Paged(r)
  BY <1>2, <1>3, <1>4, <1>5, <1>7, <1>9, <1>10, <1>11 DEF Listed, EngineOwned
<1>13. r.history = s.history \ live /\ r.history = r.historyOnly
  BY <1>2, <1>4, <1>5, <1>7, <1>9, <1>11, <1>12
<1>14. HasOneOwner(r)
  BY <1>9, <1>11, <1>12, <1>13 DEF HasOneOwner, EngineOwned, Live, LiveIsUnique, live
<1>15. Listed(r) \subseteq Known(r)
  <2>1. Known(r) = (Known(s) \cup live) \ gone
    BY <1>2, <1>4, <1>5, <1>7, <1>10
  <2>2. Live(r) = live /\ gone \cap r.stopped = {} /\ gone \cap r.history = {}
    BY <1>6, <1>7, <1>9, <1>11, <1>13 DEF Live, live
  <2>3. QED
    BY <1>6, <1>11, <1>12, <1>13, <2>1, <2>2 DEF Listed, EngineOwned
<1>16. HasFreshIndexes(r)
  <2>1. \A o \in Offset \ r.loaded : r.pages[o] = {}
    BY <1>2, <1>4, <1>5, <1>7, <1>9 DEF Consistent, HasFreshIndexes
  <2>2. QED
    BY <1>12, <1>13, <2>1 DEF HasFreshIndexes
<1>17. EngineOwned(r) \cap r.fromHistory = {}
  <2>1. r.fromHistory = (s.fromHistory \ live) \ gone
    BY <1>2, <1>4, <1>5, <1>7, <1>9
  <2>2. QED
    BY <1>9, <1>11, <1>12, <2>1 DEF EngineOwned, Live, live
<1>18. QED
  BY <1>1, <1>9, <1>14, <1>15, <1>16, <1>17 DEF Consistent

\* apply_stopped_page: the page's gids leave the live orders and history, and
\* the pages beyond the reported total are dropped.
LEMMA ApplyStoppedPageConsistent ==
  ASSUME NEW s \in Store, Consistent(s),
         NEW offset \in Offset, NEW total \in Nat \cup {NoTotal},
         NEW P \in SUBSET Gid, NEW st \in Reports(P),
         total # NoTotal => offset < total \/ P = {}
  PROVE  /\ ApplyStoppedPage(s, offset, total, P, st) \in Store
         /\ Consistent(ApplyStoppedPage(s, offset, total, P, st))
<1> DEFINE up      == Upsert(s, P, st)
           keep    == IF total = NoTotal
                        THEN s.loaded \cup {offset}
                        ELSE {o \in s.loaded \cup {offset} : o < total}
           pages   == [o \in Offset |-> IF o \notin keep THEN {}
                                        ELSE IF o = offset THEN P ELSE up.pages[o]]
           newTotal == IF total = NoTotal THEN up.total ELSE total
           put     == [up EXCEPT !.active = up.active \ P, !.waiting = up.waiting \ P,
                         !.loaded = keep, !.pages = pages, !.total = newTotal]
           cut     == RebuildStopped(put)
           patched == \/ UpsertPatches(s, P, st)
                      \/ cut.active # s.active \/ cut.waiting # s.waiting
                      \/ cut.stopped # s.stopped
           r       == [cut EXCEPT !.patched = patched]
<1>0. up = Upsert(s, P, st)
  OBVIOUS
<1>1. ApplyStoppedPage(s, offset, total, P, st) = r
  BY DEF ApplyStoppedPage, KeptPages
<1> HIDE DEF up
<1>2. /\ up \in Store /\ Known(up) = Known(s) \cup P
      /\ up.fromHistory = s.fromHistory \ P
      /\ up.historyOnly = s.historyOnly \ P
      /\ up.history = s.history \ (P \cap s.historyOnly)
      /\ up.active = s.active /\ up.waiting = s.waiting
      /\ up.stopped = s.stopped /\ up.pages = s.pages /\ up.loaded = s.loaded
  BY <1>0, UpsertFacts
<1>3. keep \in SUBSET Offset
  BY DEF Store
<1>4. pages \in [Offset -> SUBSET Gid]
  BY <1>2 DEF Store
<1>5. newTotal \in Nat \cup {NoTotal}
  BY <1>2 DEF Store
<1>6. UNION {pages[o] : o \in Offset} \subseteq Paged(s) \cup P
  BY <1>2 DEF Paged
<1>7. P \subseteq UNION {pages[o] : o \in Offset}
  <2>1. CASE P = {}
    BY <2>1
  <2>2. CASE P # {}
    <3>1. offset \in keep
      BY <2>2
    <3>2. pages[offset] = P
      BY <3>1
    <3>3. QED
      BY <3>2
  <2>3. QED
    BY <2>1, <2>2
<1>8. \A o \in Offset \ keep : pages[o] = {}
  OBVIOUS
<1> HIDE DEF keep, pages, newTotal
<1>9. /\ put \in Store
      /\ put.tasks = up.tasks /\ put.fromHistory = up.fromHistory
      /\ put.history = up.history /\ put.historyOnly = up.historyOnly
      /\ put.active = s.active \ P /\ put.waiting = s.waiting \ P
      /\ put.loaded = keep /\ put.pages = pages
  BY <1>2, <1>3, <1>4, <1>5 DEF Store
<1>10. Known(put) = Known(up) /\ Paged(put) = UNION {pages[o] : o \in Offset}
  BY <1>9 DEF Known, Paged
<1> HIDE DEF put
<1>11. cut = RebuildStopped(put)
  OBVIOUS
<1> HIDE DEF cut
<1>12. /\ cut \in Store
       /\ cut.tasks = put.tasks /\ cut.fromHistory = put.fromHistory
       /\ cut.active = put.active /\ cut.waiting = put.waiting
       /\ cut.pages = put.pages /\ cut.loaded = put.loaded
       /\ cut.stopped = Paged(put) \cap Known(put)
       /\ cut.historyOnly = put.historyOnly \ cut.stopped
       /\ cut.history \subseteq put.history
       /\ put.history = put.historyOnly => cut.history = cut.historyOnly
  BY <1>9, <1>11, RebuildStoppedFacts
<1>13. patched \in BOOLEAN
  BY DEF UpsertPatches
<1> HIDE DEF patched
<1>14. /\ r \in Store
       /\ r.tasks = cut.tasks /\ r.fromHistory = cut.fromHistory
       /\ r.active = cut.active /\ r.waiting = cut.waiting
       /\ r.pages = cut.pages /\ r.loaded = cut.loaded
       /\ r.stopped = cut.stopped
       /\ r.history = cut.history /\ r.historyOnly = cut.historyOnly
  BY <1>12, <1>13 DEF Store
<1>15. Known(r) = Known(s) \cup P /\ Paged(r) = Paged(put)
  BY <1>2, <1>9, <1>10, <1>12, <1>14 DEF Known, Paged
<1> HIDE DEF r
<1>16. s.history = s.historyOnly /\ s.stopped = Paged(s)
       /\ Live(s) \cup s.stopped \cup s.history \subseteq Known(s)
       /\ (Live(s) \cup s.stopped) \cap s.history = {}
       /\ Live(s) \cap s.stopped = {} /\ s.active \cap s.waiting = {}
       /\ (Live(s) \cup s.stopped) \cap s.fromHistory = {}
  BY DEF Consistent, HasFreshIndexes, HasOneOwner, EngineOwned, Listed
<1>17. Paged(put) \subseteq s.stopped \cup P /\ P \subseteq Paged(put)
  BY <1>6, <1>7, <1>10, <1>16
<1>18. r.stopped = Paged(r)
  BY <1>2, <1>10, <1>12, <1>14, <1>15, <1>16, <1>17
<1>19. r.history = (s.history \ P) \ r.stopped /\ r.history = r.historyOnly
  BY <1>2, <1>9, <1>12, <1>14, <1>16
<1>20. Live(r) = Live(s) \ P
  BY <1>9, <1>12, <1>14 DEF Live
<1>21. r.stopped \subseteq s.stopped \cup P
  BY <1>15, <1>17, <1>18
<1>22. HasOneOwner(r)
  BY <1>9, <1>12, <1>14, <1>16, <1>19, <1>20, <1>21 DEF HasOneOwner, EngineOwned
<1>23. Listed(r) \subseteq Known(r)
  BY <1>15, <1>16, <1>19, <1>20, <1>21 DEF Listed, EngineOwned
<1>24. HasFreshIndexes(r)
  BY <1>8, <1>9, <1>12, <1>14, <1>18, <1>19 DEF HasFreshIndexes
<1>25. EngineOwned(r) \cap r.fromHistory = {}
  BY <1>2, <1>9, <1>12, <1>14, <1>16, <1>20, <1>21 DEF EngineOwned
<1>26. QED
  BY <1>1, <1>14, <1>22, <1>23, <1>24, <1>25 DEF Consistent

\* remove_tasks: the gids lose their entry and their place in every order.
LEMMA RemoveTasksConsistent ==
  ASSUME NEW s \in Store, Consistent(s), NEW S \in SUBSET Gid
  PROVE  /\ RemoveTasks(s, S) \in Store
         /\ Consistent(RemoveTasks(s, S))
<1> DEFINE fg  == Forget(s, S)
           pg  == CutPages(fg, S)
           put == [pg EXCEPT !.seeding = pg.seeding \ (S \cap Known(s)),
                     !.historyOnly = pg.historyOnly \ S, !.active = pg.active \ S,
                     !.waiting = pg.waiting \ S, !.history = pg.history \ S]
           cut == RebuildStopped(put)
           patched == \/ S \cap Known(s) # {}
                      \/ cut.history # s.history \/ cut.active # s.active
                      \/ cut.waiting # s.waiting \/ cut.stopped # s.stopped
           r   == [cut EXCEPT !.patched = patched]
<1>1. RemoveTasks(s, S) = r
  BY DEF RemoveTasks
<1>2. fg = Forget(s, S) /\ pg = CutPages(fg, S)
  OBVIOUS
<1> HIDE DEF fg, pg
<1>3. /\ fg \in Store
      /\ Known(fg) = Known(s) \ S
      /\ fg.fromHistory = s.fromHistory \ S
      /\ fg.active = s.active /\ fg.waiting = s.waiting
      /\ fg.stopped = s.stopped /\ fg.loaded = s.loaded /\ fg.pages = s.pages
      /\ fg.history = s.history /\ fg.historyOnly = s.historyOnly
  BY <1>2, ForgetFacts
<1>4. /\ pg \in Store
      /\ pg.tasks = fg.tasks /\ pg.fromHistory = fg.fromHistory
      /\ pg.active = fg.active /\ pg.waiting = fg.waiting
      /\ pg.stopped = fg.stopped /\ pg.loaded = fg.loaded
      /\ pg.history = fg.history /\ pg.historyOnly = fg.historyOnly
      /\ Paged(pg) = Paged(fg) \ S
      /\ \A o \in Offset : pg.pages[o] \subseteq fg.pages[o]
  BY <1>2, <1>3, CutPagesFacts
<1>5. /\ put \in Store
      /\ put.tasks = pg.tasks /\ put.fromHistory = pg.fromHistory
      /\ put.pages = pg.pages /\ put.loaded = pg.loaded
      /\ put.historyOnly = pg.historyOnly \ S /\ put.history = pg.history \ S
      /\ put.active = pg.active \ S /\ put.waiting = pg.waiting \ S
  BY <1>4 DEF Store
<1>6. Known(put) = Known(s) \ S /\ Paged(put) = Paged(s) \ S
  BY <1>3, <1>4, <1>5 DEF Known, Paged
<1>7. cut = RebuildStopped(put)
  OBVIOUS
<1>7b. put \in Store
  BY <1>5
<1> HIDE DEF put, cut
<1>8. /\ cut \in Store
      /\ cut.tasks = put.tasks /\ cut.fromHistory = put.fromHistory
      /\ cut.active = put.active /\ cut.waiting = put.waiting
      /\ cut.pages = put.pages /\ cut.loaded = put.loaded
      /\ cut.stopped = Paged(put) \cap Known(put)
      /\ cut.historyOnly = put.historyOnly \ cut.stopped
      /\ cut.history \subseteq put.history
      /\ put.history = put.historyOnly => cut.history = cut.historyOnly
  BY ONLY <1>7, <1>7b, RebuildStoppedFacts
<1>9. patched \in BOOLEAN
  OBVIOUS
<1> HIDE DEF patched
<1>10. /\ r \in Store
       /\ r.tasks = cut.tasks /\ r.fromHistory = cut.fromHistory
       /\ r.active = cut.active /\ r.waiting = cut.waiting
       /\ r.pages = cut.pages /\ r.loaded = cut.loaded
       /\ r.stopped = cut.stopped
       /\ r.history = cut.history /\ r.historyOnly = cut.historyOnly
  BY <1>8, <1>9 DEF Store
<1>11. Known(r) = Known(s) \ S /\ Paged(r) = Paged(s) \ S
  BY <1>6, <1>8, <1>10 DEF Known, Paged
<1> HIDE DEF r
<1>12. s.history = s.historyOnly /\ s.stopped = Paged(s)
       /\ Live(s) \cup s.stopped \cup s.history \subseteq Known(s)
       /\ (Live(s) \cup s.stopped) \cap s.history = {}
       /\ Live(s) \cap s.stopped = {} /\ s.active \cap s.waiting = {}
       /\ (Live(s) \cup s.stopped) \cap s.fromHistory = {}
  BY DEF Consistent, HasFreshIndexes, HasOneOwner, EngineOwned, Listed
<1>13. r.stopped = s.stopped \ S /\ r.stopped = Paged(r)
  BY <1>6, <1>8, <1>10, <1>11, <1>12
<1>14. r.history \subseteq s.history \ S /\ r.history = r.historyOnly
  BY <1>3, <1>4, <1>5, <1>8, <1>10, <1>12
<1>15. Live(r) = Live(s) \ S /\ r.active \cap r.waiting = {}
  BY <1>3, <1>4, <1>5, <1>8, <1>10, <1>12 DEF Live
<1>16. \A o \in Offset \ r.loaded : r.pages[o] = {}
  BY <1>3, <1>4, <1>5, <1>8, <1>10 DEF Consistent, HasFreshIndexes
<1>17. r.fromHistory = s.fromHistory \ S
  BY <1>3, <1>4, <1>5, <1>8, <1>10
<1>18. Consistent(r)
  BY <1>11, <1>12, <1>13, <1>14, <1>15, <1>16, <1>17
  DEF Consistent, HasOneOwner, HasFreshIndexes, EngineOwned, Listed
<1>19. QED
  BY <1>1, <1>10, <1>18

\* upsert alone, the order lists untouched, keeps the store consistent.
LEMMA UpsertConsistent ==
  ASSUME NEW s \in Store, Consistent(s), NEW b \in BOOLEAN,
         NEW S \in SUBSET Gid, NEW st \in Reports(S)
  PROVE  /\ [Upsert(s, S, st) EXCEPT !.patched = b] \in Store
         /\ Consistent([Upsert(s, S, st) EXCEPT !.patched = b])
<1> DEFINE up == Upsert(s, S, st)
           r  == [up EXCEPT !.patched = b]
<1>1. up = Upsert(s, S, st)
  OBVIOUS
<1> HIDE DEF up
<1>2. /\ up \in Store /\ Known(up) = Known(s) \cup S
      /\ up.fromHistory = s.fromHistory \ S
      /\ up.historyOnly = s.historyOnly \ S
      /\ up.history = s.history \ (S \cap s.historyOnly)
      /\ up.active = s.active /\ up.waiting = s.waiting
      /\ up.stopped = s.stopped /\ up.pages = s.pages /\ up.loaded = s.loaded
  BY <1>1, UpsertFacts
<1>3. /\ r \in Store
      /\ r.tasks = up.tasks /\ r.fromHistory = up.fromHistory
      /\ r.active = up.active /\ r.waiting = up.waiting
      /\ r.pages = up.pages /\ r.loaded = up.loaded /\ r.stopped = up.stopped
      /\ r.history = up.history /\ r.historyOnly = up.historyOnly
  BY <1>2 DEF Store
<1>4. Known(r) = Known(s) \cup S /\ Paged(r) = Paged(s) /\ Live(r) = Live(s)
  BY <1>2, <1>3 DEF Known, Paged, Live
<1> HIDE DEF r
<1>5. Consistent(r)
  BY <1>2, <1>3, <1>4
  DEF Consistent, HasOneOwner, HasFreshIndexes, EngineOwned, Listed
<1>6. QED
  BY <1>1, <1>3, <1>5 DEF r

\* apply_task_snapshot: a tellStatus answer never lists the task anywhere, and
\* a None answer removes it.
LEMMA ApplyTaskSnapshotConsistent ==
  ASSUME NEW s \in Store, Consistent(s), NEW x \in Gid, NEW status \in Entry
  PROVE  /\ ApplyTaskSnapshot(s, x, status) \in Store
         /\ Consistent(ApplyTaskSnapshot(s, x, status))
<1>1. CASE status = "absent"
  BY <1>1, RemoveTasksConsistent DEF ApplyTaskSnapshot
<1>2. CASE status # "absent"
  <2> DEFINE st == [y \in {x} |-> status]
             patched == UpsertPatches(s, {x}, st)
  <2>1. ApplyTaskSnapshot(s, x, status) = [Upsert(s, {x}, st) EXCEPT !.patched = patched]
    BY <1>2 DEF ApplyTaskSnapshot
  <2>2. {x} \in SUBSET Gid /\ patched \in BOOLEAN
    BY DEF UpsertPatches
  <2>3. st \in Reports({x})
    BY <1>2 DEF Entry, Reports
  <2> HIDE DEF st, patched
  <2>4. QED
    BY <2>1, <2>2, <2>3, UpsertConsistent
<1>3. QED
  BY <1>1, <1>2

\* seed_local_history: only gids no engine collection lists become rows.
LEMMA SeedLocalHistoryConsistent ==
  ASSUME NEW s \in Store, Consistent(s),
         NEW H \in SUBSET Gid, NEW rec \in [Gid -> Status]
  PROVE  /\ SeedLocalHistory(s, H, rec) \in Store
         /\ Consistent(SeedLocalHistory(s, H, rec))
<1> DEFINE only == H \ EngineOwned(s)
           hint == (H \cap EngineOwned(s)) \ Known(s)
           new == only \cup hint
           tasks == [x \in Gid |-> IF x \in new THEN rec[x] ELSE s.tasks[x]]
           fromHistory == s.fromHistory \cup only \cup hint
           patched == only # {} \/ hint # {} \/ s.history # only
           r == [s EXCEPT !.tasks = tasks, !.fromHistory = fromHistory,
                   !.historyOnly = only, !.history = only, !.patched = patched]
<1>1. SeedLocalHistory(s, H, rec) = r
  BY DEF SeedLocalHistory
<1>2. only \in SUBSET Gid /\ hint = {} /\ fromHistory = s.fromHistory \cup only
  BY DEF Consistent, Listed
<1>3. tasks \in [Gid -> Entry] /\ {x \in Gid : tasks[x] # "absent"} = Known(s) \cup only
  BY <1>2 DEF Store, Entry, Status, Known
<1>4. only \cap EngineOwned(s) = {} /\ patched \in BOOLEAN
  OBVIOUS
<1>5. fromHistory \in SUBSET Gid
  BY <1>2 DEF Store
<1> HIDE DEF only, hint, tasks, fromHistory, patched
<1>6. /\ r \in Store /\ r.tasks = tasks /\ r.fromHistory = fromHistory
      /\ r.active = s.active /\ r.waiting = s.waiting
      /\ r.stopped = s.stopped /\ r.loaded = s.loaded /\ r.pages = s.pages
      /\ r.history = only /\ r.historyOnly = only
  BY <1>2, <1>3, <1>4, <1>5 DEF Store
<1>7. Known(r) = Known(s) \cup only /\ Paged(r) = Paged(s)
      /\ EngineOwned(r) = EngineOwned(s) /\ Live(r) = Live(s)
  BY <1>3, <1>6 DEF Known, Paged, EngineOwned, Live
<1> HIDE DEF r
<1>8. Consistent(r)
  BY <1>2, <1>4, <1>6, <1>7 DEF Consistent, HasOneOwner, HasFreshIndexes, Listed
<1>9. QED
  BY <1>1, <1>6, <1>8

\* remove_history_only: nothing the engine lists is touched.
LEMMA RemoveHistoryOnlyConsistent ==
  ASSUME NEW s \in Store, Consistent(s), NEW S \in SUBSET Gid
  PROVE  /\ RemoveHistoryOnly(s, S) \in Store
         /\ Consistent(RemoveHistoryOnly(s, S))
<1> DEFINE gone == S \cap s.historyOnly
           fg   == Forget(s, gone)
           patched == gone \cap Known(s) # {} \/ s.history \cap S # {}
           r    == [fg EXCEPT !.historyOnly = fg.historyOnly \ gone,
                      !.history = fg.history \ S, !.patched = patched]
<1>1. RemoveHistoryOnly(s, S) = r
  BY DEF RemoveHistoryOnly, HistoryEntries
<1>2. fg = Forget(s, gone) /\ gone \in SUBSET Gid /\ patched \in BOOLEAN
  OBVIOUS
<1>3. gone \subseteq s.historyOnly /\ s.historyOnly \ gone = s.historyOnly \ S
  OBVIOUS
<1> HIDE DEF gone, fg, patched
<1>4. /\ fg \in Store
      /\ Known(fg) = Known(s) \ gone
      /\ fg.fromHistory = s.fromHistory \ gone
      /\ fg.active = s.active /\ fg.waiting = s.waiting
      /\ fg.stopped = s.stopped /\ fg.loaded = s.loaded /\ fg.pages = s.pages
      /\ fg.history = s.history /\ fg.historyOnly = s.historyOnly
  BY <1>2, ForgetFacts
<1> DEFINE only == fg.historyOnly \ gone
           rest == fg.history \ S
<1>4a. only \in SUBSET Gid /\ rest \in SUBSET Gid
  BY <1>4 DEF Store
<1> HIDE DEF only, rest
<1>4b. r = [fg EXCEPT !.historyOnly = only, !.history = rest, !.patched = patched]
  BY DEF only, rest
<1>4c. r \in Store
  BY <1>2, <1>4, <1>4a, <1>4b DEF Store
<1>4d. /\ r.tasks = fg.tasks /\ r.fromHistory = fg.fromHistory
       /\ r.active = fg.active /\ r.waiting = fg.waiting
       /\ r.stopped = fg.stopped /\ r.loaded = fg.loaded /\ r.pages = fg.pages
       /\ r.history = rest /\ r.historyOnly = only
  BY <1>4, <1>4b DEF Store
<1>5. /\ r \in Store /\ r.tasks = fg.tasks /\ r.fromHistory = fg.fromHistory
      /\ r.active = fg.active /\ r.waiting = fg.waiting
      /\ r.stopped = fg.stopped /\ r.loaded = fg.loaded /\ r.pages = fg.pages
      /\ r.history = fg.history \ S /\ r.historyOnly = fg.historyOnly \ gone
  BY <1>4c, <1>4d DEF only, rest
<1>6. Known(r) = Known(s) \ gone /\ Paged(r) = Paged(s)
      /\ EngineOwned(r) = EngineOwned(s) /\ Live(r) = Live(s)
  BY <1>4, <1>5 DEF Known, Paged, EngineOwned, Live
<1> HIDE DEF r
<1>7. Consistent(r)
  BY <1>3, <1>4, <1>5, <1>6 DEF Consistent, HasOneOwner, HasFreshIndexes, Listed
<1>8. QED
  BY <1>1, <1>5, <1>7

-----------------------------------------------------------------------------
(* What the calls on behalf of a session leave alone: its generation and   *)
(* its staleness.                                                          *)

HasSession(s) == {"gen", "stale"} \subseteq DOMAIN s
SameSession(s, u) == HasSession(u) /\ u.gen = s.gen /\ u.stale = s.stale

\* The private helpers write orders, entries and pages only.
LEMMA HelpersKeepSession ==
  ASSUME NEW s, HasSession(s), NEW S, NEW st
  PROVE  /\ SameSession(s, Upsert(s, S, st))
         /\ SameSession(s, RebuildStopped(s))
         /\ SameSession(s, CutPages(s, S))
         /\ SameSession(s, Forget(s, S))
<1>1. SameSession(s, Upsert(s, S, st))
  BY DEF Upsert, HasSession, SameSession
<1>2. SameSession(s, RebuildStopped(s))
  BY DEF RebuildStopped, HasSession, SameSession
<1>3. SameSession(s, CutPages(s, S))
  BY DEF CutPages, HasSession, SameSession
<1>4. SameSession(s, Forget(s, S))
  BY DEF Forget, HasSession, SameSession
<1>5. QED
  BY <1>1, <1>2, <1>3, <1>4

\* No answer of the engine and no history row changes the generation of the
\* store, or what it says of its own staleness.
LEMMA OperationsKeepSession ==
  ASSUME NEW s, HasSession(s), NEW S, NEW st, NEW A, NEW W, NEW offset, NEW total, NEW H
  PROVE  /\ SameSession(s, ReconcileLive(s, A, W, st))
         /\ SameSession(s, ApplyStoppedPage(s, offset, total, S, st))
         /\ SameSession(s, RemoveTasks(s, S))
         /\ SameSession(s, SeedLocalHistory(s, H, st))
         /\ SameSession(s, RemoveHistoryOnly(s, S))
<1>1. SameSession(s, ReconcileLive(s, A, W, st))
  <2> DEFINE up   == Upsert(s, A \cup W, st)
             pg   == CutPages(up, A \cup W)
             cut  == RebuildStopped(pg)
             gone == (Live(s) \ (A \cup W)) \ cut.stopped
             fg   == Forget(cut, gone)
  <2>1. SameSession(s, fg)
    <3>1. SameSession(s, up)
      BY HelpersKeepSession
    <3>2. SameSession(up, pg)
      BY <3>1, HelpersKeepSession DEF SameSession
    <3>3. SameSession(pg, cut)
      BY <3>2, HelpersKeepSession DEF SameSession
    <3>4. SameSession(cut, fg)
      BY <3>3, HelpersKeepSession DEF SameSession
    <3> HIDE DEF up, pg, cut, fg
    <3>5. QED
      BY <3>1, <3>2, <3>3, <3>4 DEF SameSession
  <2>2. \E a, b, c, d : ReconcileLive(s, A, W, st) =
           [[[[fg EXCEPT !.seeding = a] EXCEPT !.active = b] EXCEPT !.waiting = c] EXCEPT !.patched = d]
    BY DEF ReconcileLive
  <2> HIDE DEF fg
  <2>3. QED
    BY <2>1, <2>2 DEF SameSession, HasSession
<1>2. SameSession(s, ApplyStoppedPage(s, offset, total, S, st))
  <2> DEFINE up   == Upsert(s, S, st)
             keep == KeptPages(s, offset, total)
             put  == [up EXCEPT
                       !.active  = @ \ S,
                       !.waiting = @ \ S,
                       !.loaded  = keep,
                       !.pages   = [o \in Offset |-> IF o \notin keep THEN {}
                                                     ELSE IF o = offset THEN S ELSE @[o]],
                       !.total   = IF total = NoTotal THEN @ ELSE total]
             cut  == RebuildStopped(put)
  <2>1. SameSession(s, up)
    BY HelpersKeepSession
  <2>2. \E b : ApplyStoppedPage(s, offset, total, S, st) = [cut EXCEPT !.patched = b]
    BY DEF ApplyStoppedPage
  <2>3. SameSession(up, put)
    <3> HIDE DEF up, keep
    <3>1. QED
      BY <2>1 DEF SameSession, HasSession
  <2>4. SameSession(put, cut)
    BY <2>3, HelpersKeepSession DEF SameSession
  <2> HIDE DEF up, put, cut
  <2>5. QED
    BY <2>1, <2>2, <2>3, <2>4 DEF SameSession, HasSession
<1>3. SameSession(s, RemoveTasks(s, S))
  <2> DEFINE fg  == Forget(s, S)
             pg  == CutPages(fg, S)
             put == [pg EXCEPT
                      !.seeding     = @ \ (S \cap Known(s)),
                      !.historyOnly = @ \ S,
                      !.active      = @ \ S,
                      !.waiting     = @ \ S,
                      !.history     = @ \ S]
             cut == RebuildStopped(put)
  <2>1. SameSession(s, fg)
    BY HelpersKeepSession
  <2>2. SameSession(fg, pg)
    BY <2>1, HelpersKeepSession DEF SameSession
  <2>3. \E b : RemoveTasks(s, S) = [cut EXCEPT !.patched = b]
    BY DEF RemoveTasks
  <2>4. SameSession(pg, put)
    <3> HIDE DEF pg
    <3>1. QED
      BY <2>2 DEF SameSession, HasSession
  <2>5. SameSession(put, cut)
    BY <2>4, HelpersKeepSession DEF SameSession
  <2> HIDE DEF fg, pg, put, cut
  <2>6. QED
    BY <2>1, <2>2, <2>3, <2>4, <2>5 DEF SameSession, HasSession
<1>4. SameSession(s, SeedLocalHistory(s, H, st))
  BY DEF SeedLocalHistory, SameSession, HasSession
<1>5. SameSession(s, RemoveHistoryOnly(s, S))
  <2> DEFINE gone == HistoryEntries(s, S)
             fg   == Forget(s, gone)
  <2>1. SameSession(s, fg)
    BY HelpersKeepSession
  <2>2. \E a, b, c : RemoveHistoryOnly(s, S) =
           [[[fg EXCEPT !.historyOnly = a] EXCEPT !.history = b] EXCEPT !.patched = c]
    BY DEF RemoveHistoryOnly
  <2> HIDE DEF fg
  <2>3. QED
    BY <2>1, <2>2 DEF SameSession, HasSession
<1>6. QED
  BY <1>1, <1>2, <1>3, <1>4, <1>5

-----------------------------------------------------------------------------
(* Where the statuses come from: an entry of u is the one s had, or none,  *)
(* or the one the call brought for a gid of S.                             *)

TasksFrom(s, S, st, u) ==
  \A x \in Gid : \/ u.tasks[x] = s.tasks[x]
                 \/ u.tasks[x] = "absent"
                 \/ x \in S /\ u.tasks[x] = st[x]

HasTasks(s) == "tasks" \in DOMAIN s
SameTasks(s, u) == HasTasks(u) /\ u.tasks = s.tasks

\* Neither rebuilding the stopped order nor cutting pages touches an entry.
LEMMA HelpersKeepTasks ==
  ASSUME NEW s, HasTasks(s), NEW S
  PROVE  SameTasks(s, RebuildStopped(s)) /\ SameTasks(s, CutPages(s, S))
  BY DEF RebuildStopped, CutPages, SameTasks, HasTasks

\* Forgetting a gid leaves every other entry alone.
LEMMA ForgetWritesTasks ==
  ASSUME NEW s, HasTasks(s), NEW S, NEW st
  PROVE  TasksFrom(s, {}, st, Forget(s, S)) /\ HasTasks(Forget(s, S))
  BY DEF Forget, TasksFrom, HasTasks

\* upsert writes the entries it is called for.
LEMMA UpsertWritesTasks ==
  ASSUME NEW s, HasTasks(s), NEW S, NEW st
  PROVE  TasksFrom(s, S, st, Upsert(s, S, st)) /\ HasTasks(Upsert(s, S, st))
  BY DEF Upsert, TasksFrom, HasTasks

\* An engine answer or a set of history rows writes the statuses it brings.
LEMMA OperationsWriteTasks ==
  ASSUME NEW s, HasTasks(s), NEW S, NEW st, NEW A, NEW W, NEW offset, NEW total, NEW H
  PROVE  /\ TasksFrom(s, A \cup W, st, ReconcileLive(s, A, W, st))
         /\ TasksFrom(s, S, st, ApplyStoppedPage(s, offset, total, S, st))
         /\ TasksFrom(s, {}, st, RemoveTasks(s, S))
         /\ TasksFrom(s, H, st, SeedLocalHistory(s, H, st))
         /\ TasksFrom(s, {}, st, RemoveHistoryOnly(s, S))
<1>1. TasksFrom(s, A \cup W, st, ReconcileLive(s, A, W, st))
  <2> DEFINE up   == Upsert(s, A \cup W, st)
             pg   == CutPages(up, A \cup W)
             cut  == RebuildStopped(pg)
             gone == (Live(s) \ (A \cup W)) \ cut.stopped
             fg   == Forget(cut, gone)
  <2>1. TasksFrom(s, A \cup W, st, up) /\ HasTasks(up)
    BY UpsertWritesTasks
  <2>2. SameTasks(up, pg)
    BY <2>1, HelpersKeepTasks
  <2>3. SameTasks(pg, cut)
    BY <2>2, HelpersKeepTasks DEF SameTasks
  <2>4. TasksFrom(cut, {}, st, fg) /\ HasTasks(fg)
    BY <2>3, ForgetWritesTasks DEF SameTasks
  <2>5. \E a, b, c, d : ReconcileLive(s, A, W, st) =
           [[[[fg EXCEPT !.seeding = a] EXCEPT !.active = b] EXCEPT !.waiting = c] EXCEPT !.patched = d]
    BY DEF ReconcileLive
  <2> HIDE DEF up, pg, cut, fg
  <2>6. ReconcileLive(s, A, W, st).tasks = fg.tasks
    BY <2>4, <2>5 DEF HasTasks
  <2>7. QED
    BY <2>1, <2>2, <2>3, <2>4, <2>6 DEF TasksFrom, SameTasks
<1>2. TasksFrom(s, S, st, ApplyStoppedPage(s, offset, total, S, st))
  <2> DEFINE up   == Upsert(s, S, st)
             keep == KeptPages(s, offset, total)
             put  == [up EXCEPT
                       !.active  = @ \ S,
                       !.waiting = @ \ S,
                       !.loaded  = keep,
                       !.pages   = [o \in Offset |-> IF o \notin keep THEN {}
                                                     ELSE IF o = offset THEN S ELSE @[o]],
                       !.total   = IF total = NoTotal THEN @ ELSE total]
             cut  == RebuildStopped(put)
  <2>1. TasksFrom(s, S, st, up) /\ HasTasks(up)
    BY UpsertWritesTasks
  <2>2. \E b : ApplyStoppedPage(s, offset, total, S, st) = [cut EXCEPT !.patched = b]
    BY DEF ApplyStoppedPage
  <2>3. SameTasks(up, put)
    <3> HIDE DEF up, keep
    <3>1. QED
      BY <2>1 DEF SameTasks, HasTasks
  <2>4. SameTasks(put, cut)
    BY <2>3, HelpersKeepTasks DEF SameTasks
  <2> HIDE DEF up, put, cut
  <2>5. ApplyStoppedPage(s, offset, total, S, st).tasks = cut.tasks
    BY <2>2, <2>4 DEF SameTasks, HasTasks
  <2>6. QED
    BY <2>1, <2>3, <2>4, <2>5 DEF TasksFrom, SameTasks
<1>3. TasksFrom(s, {}, st, RemoveTasks(s, S))
  <2> DEFINE fg  == Forget(s, S)
             pg  == CutPages(fg, S)
             put == [pg EXCEPT
                      !.seeding     = @ \ (S \cap Known(s)),
                      !.historyOnly = @ \ S,
                      !.active      = @ \ S,
                      !.waiting     = @ \ S,
                      !.history     = @ \ S]
             cut == RebuildStopped(put)
  <2>1. TasksFrom(s, {}, st, fg) /\ HasTasks(fg)
    BY ForgetWritesTasks
  <2>2. SameTasks(fg, pg)
    BY <2>1, HelpersKeepTasks
  <2>3. \E b : RemoveTasks(s, S) = [cut EXCEPT !.patched = b]
    BY DEF RemoveTasks
  <2>4. SameTasks(pg, put)
    <3> HIDE DEF pg
    <3>1. QED
      BY <2>2 DEF SameTasks, HasTasks
  <2>5. SameTasks(put, cut)
    BY <2>4, HelpersKeepTasks DEF SameTasks
  <2> HIDE DEF fg, pg, put, cut
  <2>6. RemoveTasks(s, S).tasks = cut.tasks
    BY <2>3, <2>5 DEF SameTasks, HasTasks
  <2>7. QED
    BY <2>1, <2>2, <2>4, <2>5, <2>6 DEF TasksFrom, SameTasks
<1>4. TasksFrom(s, H, st, SeedLocalHistory(s, H, st))
  BY DEF SeedLocalHistory, TasksFrom, HasTasks
<1>5. TasksFrom(s, {}, st, RemoveHistoryOnly(s, S))
  <2> DEFINE gone == HistoryEntries(s, S)
             fg   == Forget(s, gone)
  <2>1. TasksFrom(s, {}, st, fg) /\ HasTasks(fg)
    BY ForgetWritesTasks
  <2>2. \E a, b, c : RemoveHistoryOnly(s, S) =
           [[[fg EXCEPT !.historyOnly = a] EXCEPT !.history = b] EXCEPT !.patched = c]
    BY DEF RemoveHistoryOnly
  <2> HIDE DEF fg
  <2>3. RemoveHistoryOnly(s, S).tasks = fg.tasks
    BY <2>1, <2>2 DEF HasTasks
  <2>4. QED
    BY <2>1, <2>3 DEF TasksFrom
<1>6. QED
  BY <1>1, <1>2, <1>3, <1>4, <1>5

-----------------------------------------------------------------------------
(* Stopped paging *)

\* The pages of a set of offsets hold a number of entries.
LEMMA PageLengthsAreNatural ==
  ASSUME NEW s \in Store, NEW S \in SUBSET Offset
  PROVE  PageLengths(s, S) \in Nat
<1> DEFINE entries == {e \in S \X Gid : e[2] \in s.pages[e[1]]}
<1>1. IsFiniteSet(S)
  BY OffsetsAreFinite, FS_Subset
<1>2. IsFiniteSet(S \X Gid)
  BY <1>1, GidIsFinite, FS_Product
<1>3. IsFiniteSet(entries)
  BY <1>2, FS_Subset
<1>4. QED
  BY <1>3, FS_CardinalityType DEF PageLengths

\* The offset the next page is asked under is a number, gap or not.
LEMMA NextStoppedOffsetIsNatural ==
  ASSUME NEW s \in Store
  PROVE  NextStoppedOffset(s) \in Nat
<1>1. s.loaded \in SUBSET Offset
  BY DEF Store
<1>2. \A o : {p \in s.loaded : p < o} \in SUBSET Offset
  BY <1>1
<1>3. \A o : LengthBefore(s, o) \in Nat
  BY <1>2, PageLengthsAreNatural DEF LengthBefore
<1>4. QED
  BY <1>1, <1>3, PageLengthsAreNatural DEF NextStoppedOffset

\* Page lengths count a gid once for every page it is on.
LEMMA PageLengthsCountTwice ==
  ASSUME NEW s \in Store, NEW S \in SUBSET Offset
  PROVE  LET held == UNION {s.pages[o] : o \in S}
         IN  /\ IsFiniteSet(held) /\ Cardinality(held) <= PageLengths(s, S)
             /\ Cardinality(held) = PageLengths(s, S) <=>
                  \A o, p \in S : o # p => s.pages[o] \cap s.pages[p] = {}
<1> DEFINE held == UNION {s.pages[o] : o \in S}
           E == {e \in S \X Gid : e[2] \in s.pages[e[1]]}
           h == [e \in E |-> e[2]]
<1>1. IsFiniteSet(E)
  <2>1. IsFiniteSet(S \X Gid)
    BY OffsetsAreFinite, GidIsFinite, FS_Subset, FS_Product
  <2>2. QED
    BY <2>1, FS_Subset
<1>2. \A o \in S : s.pages[o] \subseteq Gid
  BY DEF Store
<1>3. \A e : e \in E <=> \E o \in S : \E x \in s.pages[o] : e = <<o, x>>
  BY <1>2
<1>4. h \in Surjection(E, held)
  <2>1. \A e \in E : e[2] \in held
    OBVIOUS
  <2>2. h \in [E -> held]
    BY <2>1
  <2>3. ASSUME NEW x \in held
        PROVE  \E e \in E : h[e] = x
    <3>1. PICK o \in S : x \in s.pages[o]
      OBVIOUS
    <3>2. <<o, x>> \in E
      BY <1>3, <3>1
    <3>3. h[<<o, x>>] = x
      BY <3>2
    <3>4. QED
      BY <3>2, <3>3
  <2>4. QED
    BY <2>2, <2>3 DEF Surjection
<1>5. h \in Injection(E, held) <=> \A o, p \in S : o # p => s.pages[o] \cap s.pages[p] = {}
  <2>1. h \in [E -> held]
    BY <1>4 DEF Surjection
  <2>2. ASSUME h \in Injection(E, held), NEW o \in S, NEW p \in S, o # p
        PROVE  s.pages[o] \cap s.pages[p] = {}
    <3>1. SUFFICES ASSUME NEW x \in s.pages[o], x \in s.pages[p]
                   PROVE  FALSE
      OBVIOUS
    <3>2. <<o, x>> \in E /\ <<p, x>> \in E /\ <<o, x>> # <<p, x>>
      BY <1>3, <2>2, <3>1
    <3>3. h[<<o, x>>] = x /\ h[<<p, x>>] = x
      BY <3>2
    <3> HIDE DEF h, E
    <3>4. QED
      BY <2>1, <2>2, <3>2, <3>3 DEF Injection, IsInjective
  <2>3. ASSUME \A o, p \in S : o # p => s.pages[o] \cap s.pages[p] = {},
               NEW d \in E, NEW e \in E, h[d] = h[e]
        PROVE  d = e
    <3>1. PICK o \in S : \E x \in s.pages[o] : d = <<o, x>>
      BY <1>3
    <3>2. PICK p \in S : \E y \in s.pages[p] : e = <<p, y>>
      BY <1>3
    <3>3. PICK x \in s.pages[o], y \in s.pages[p] : d = <<o, x>> /\ e = <<p, y>>
      BY <3>1, <3>2
    <3>3a. x = y
      BY <2>3, <3>3
    <3>4. o = p
      BY <2>3, <3>3, <3>3a
    <3>5. QED
      BY <3>3, <3>3a, <3>4
  <2> HIDE DEF h
  <2>4. QED
    BY <2>1, <2>2, <2>3 DEF Injection, IsInjective
<1>6. PageLengths(s, S) = Cardinality(E)
  BY DEF PageLengths
<1> HIDE DEF h, E, held
<1>7. IsFiniteSet(held) /\ Cardinality(held) <= Cardinality(E)
      /\ (Cardinality(held) = Cardinality(E) <=> h \in Injection(E, held))
  BY <1>1, <1>4, FS_Surjection
<1>8. QED
  BY <1>5, <1>6, <1>7 DEF held

\* A set of offsets has a least one: the intervals below them are finite sets,
\* and among finite sets inclusion is well-founded.
LEMMA LeastOffset ==
  ASSUME NEW S \in SUBSET Nat, S # {}
  PROVE  Min(S) \in S /\ \A o \in S : Min(S) <= o
<1> DEFINE T == {0 .. x : x \in S}
           R == StrictSubsetOrdering(Nat)
<1>1. T \subseteq FiniteSubsetsOf(Nat)
  <2>1. ASSUME NEW x \in S
        PROVE  0 .. x \subseteq Nat /\ IsFiniteSet(0 .. x)
    <3>1. 0 \in Int /\ x \in Int /\ 0 .. x \subseteq Nat
      OBVIOUS
    <3>2. QED
      BY <3>1, FS_Interval
  <2>2. QED
    BY <2>1 DEF FiniteSubsetsOf
<1>2. T # {}
  OBVIOUS
<1>3. PICK I \in T : \A J \in T : ~ (<<J, I>> \in R)
  <2> HIDE DEF T, R
  <2>1. IsWellFoundedOn(R, FiniteSubsetsOf(Nat))
    BY FS_StrictSubsetOrderingWellFounded DEF R
  <2>2. QED
    BY <1>1, <1>2, <2>1, WFMin
<1>4. PICK x \in S : I = 0 .. x
  OBVIOUS
<1>5. ASSUME NEW y \in S
      PROVE  x <= y
  <2>1. SUFFICES ASSUME y < x
                 PROVE  FALSE
    OBVIOUS
  <2>2. 0 .. y \subseteq 0 .. x /\ x \in 0 .. x /\ x \notin 0 .. y /\ 0 .. x \subseteq Nat
    BY <2>1
  <2>3. <<0 .. y, 0 .. x>> \in R
    BY <2>2 DEF StrictSubsetOrdering
  <2>4. QED
    BY <1>3, <1>4, <2>3
<1>6. QED
  BY <1>5 DEF Min

\* next_stopped_offset.  Without a gap it is at least the number of distinct
\* gids that the pages hold, and that number, as its comment says, exactly if no
\* gid is on two pages.  With a gap it lies in front of a page that is loaded,
\* and no page before that one starts beyond what the pages before it hold.
THEOREM NextOffsetIsInFrontOfTheGap ==
  ASSUME NEW s \in Store, HasFreshIndexes(s)
  PROVE  /\ Gaps(s) = {} =>
              /\ Cardinality(s.stopped) <= NextStoppedOffset(s)
              /\ Cardinality(s.stopped) = NextStoppedOffset(s) <=>
                   \A o, p \in s.loaded : o # p => s.pages[o] \cap s.pages[p] = {}
         /\ Gaps(s) # {} =>
              \E o \in s.loaded : /\ NextStoppedOffset(s) = LengthBefore(s, o)
                                  /\ NextStoppedOffset(s) < o
                                  /\ \A p \in s.loaded : p < o => p <= LengthBefore(s, p)
<1>1. s.loaded \in SUBSET Offset /\ s.loaded \subseteq Nat
  BY OffsetsAreNaturals DEF Store
<1>2. ASSUME Gaps(s) = {}
      PROVE  /\ Cardinality(s.stopped) <= NextStoppedOffset(s)
             /\ Cardinality(s.stopped) = NextStoppedOffset(s) <=>
                  \A o, p \in s.loaded : o # p => s.pages[o] \cap s.pages[p] = {}
  <2>1. s.stopped = UNION {s.pages[o] : o \in s.loaded}
    BY <1>1 DEF HasFreshIndexes, Paged
  <2>2. NextStoppedOffset(s) = PageLengths(s, s.loaded)
    BY <1>2 DEF NextStoppedOffset
  <2>3. QED
    BY <1>1, <2>1, <2>2, PageLengthsCountTwice
<1>3. ASSUME Gaps(s) # {}
      PROVE  \E o \in s.loaded : /\ NextStoppedOffset(s) = LengthBefore(s, o)
                                 /\ NextStoppedOffset(s) < o
                                 /\ \A p \in s.loaded : p < o => p <= LengthBefore(s, p)
  <2> DEFINE o == Min(Gaps(s))
  <2>1. Gaps(s) \in SUBSET Nat /\ Gaps(s) \subseteq s.loaded
    BY <1>1 DEF Gaps
  <2>2. o \in Gaps(s) /\ \A p \in Gaps(s) : o <= p
    BY <1>3, <2>1, LeastOffset
  <2>3. NextStoppedOffset(s) = LengthBefore(s, o)
    BY <1>3 DEF NextStoppedOffset
  <2> HIDE DEF o
  <2>4. \A p \in s.loaded : p \in Nat /\ LengthBefore(s, p) \in Nat
    <3>1. \A p : {q \in s.loaded : q < p} \in SUBSET Offset
      BY <1>1
    <3>2. QED
      BY <1>1, <3>1, PageLengthsAreNatural DEF LengthBefore
  <2>5. o \in s.loaded /\ o > LengthBefore(s, o)
    BY <2>2 DEF Gaps
  <2>6. ASSUME NEW p \in s.loaded, p < o
        PROVE  p <= LengthBefore(s, p)
    <3>1. p \notin Gaps(s)
      BY <2>2, <2>4, <2>5, <2>6
    <3>2. QED
      BY <2>4, <3>1 DEF Gaps
  <2>7. LengthBefore(s, o) < o
    BY <2>4, <2>5
  <2>8. QED
    BY <2>3, <2>5, <2>6, <2>7
<1>4. QED
  BY <1>2, <1>3
=============================================================================
