-------------------------- MODULE StoreMachineProofs --------------------------
(***************************************************************************)
(* The store is well-typed and consistent in every reachable state, for    *)
(* any number of gids, any page size and any sequence of calls.  The       *)
(* inductive invariant is TypeOK together with the four parts of           *)
(* Consistent; none of the four is inductive alone (the page cut of        *)
(* reconcile_live keeps ListedTasksAreKnown only because of OneOwner, and  *)
(* rebuild_stopped_order keeps the history index only because the index    *)
(* was fresh before it).                                                   *)
(***************************************************************************)
EXTENDS StoreMachine, DownloadStoreProofs, FiniteSetTheorems

IInv == TypeOK /\ Consistent(store)

LEMMA InitIInv == Init => IInv
  BY NewStoreConsistent DEF Init, IInv, TypeOK

\* What each call passes to the store.
LivePolled(s, u) ==
  \E A \in SUBSET Gid : \E W \in SUBSET Gid : \E st \in Reports(A \cup W) :
    LiveIsUnique(A, W) /\ u = ReconcileLive(s, A, W, st)
PageStored(s, u) ==
  \E offset \in Offset : \E total \in Nat \cup {NoTotal} :
    \E P \in SUBSET Gid : \E st \in Reports(P) :
      /\ total # NoTotal => offset < total \/ P = {}
      /\ u = ApplyStoppedPage(s, offset, total, P, st)
OtherCall(s, u) ==
  \/ \E b \in BOOLEAN : u = SetStale(s, b)
  \/ \E x \in Gid : \E status \in Entry : u = ApplyTaskSnapshot(s, x, status)
  \/ \E H \in SUBSET Gid : \E rec \in [Gid -> Status] : u = SeedLocalHistory(s, H, rec)
  \/ \E S \in SUBSET Gid : u = RemoveHistoryOnly(s, S)
Called(s, u) ==
  \/ u = BeginSession(s, s.gen + 1)
  \/ LivePolled(s, u) \/ PageStored(s, u) \/ OtherCall(s, u)

\* A step is one of these calls: a page that is truncated to the total fits
\* in front of it.
LEMMA StepIsACall == Next => Called(store, store')
<1> SUFFICES ASSUME Next
             PROVE  Called(store, store')
  OBVIOUS
<1>1. CASE BeginSessionCall
  BY <1>1 DEF BeginSessionCall, Called
<1>2. ASSUME NEW g, SetStaleCall(g)
      PROVE  OtherCall(store, store')
  BY <1>2 DEF SetStaleCall, OtherCall
<1>3. ASSUME NEW g, ReconcileLiveCall(g)
      PROVE  LivePolled(store, store')
  <2>1. PICK A \in SUBSET Gid, W \in SUBSET Gid : \E S \in SUBSET A :
          /\ LiveIsUnique(A, W)
          /\ store' = ReconcileLive(store, A, W,
                        [x \in A \cup W |-> IF x \in S THEN "Seeding"
                                            ELSE IF x \in A THEN "Active" ELSE "Waiting"])
    BY <1>3 DEF ReconcileLiveCall
  <2>2. PICK S \in SUBSET A :
          /\ LiveIsUnique(A, W)
          /\ store' = ReconcileLive(store, A, W,
                        [x \in A \cup W |-> IF x \in S THEN "Seeding"
                                            ELSE IF x \in A THEN "Active" ELSE "Waiting"])
    BY <2>1
  <2> DEFINE st == [x \in A \cup W |-> IF x \in S THEN "Seeding"
                                       ELSE IF x \in A THEN "Active" ELSE "Waiting"]
  <2>3. st \in Reports(A \cup W)
    BY DEF Reports, Status
  <2>4. store' = ReconcileLive(store, A, W, st)
    BY <2>2
  <2> HIDE DEF st
  <2>5. QED
    BY <2>2, <2>3, <2>4 DEF LivePolled
<1>4. ASSUME NEW g, ApplyStoppedPageCall(g)
      PROVE  PageStored(store, store')
  <2>1. PICK offset \in Offset, total \in Totals, P \in SUBSET Gid :
          /\ PageIsValid(offset, total)
          /\ Cardinality(P) <= PageSize
          /\ total # NoTotal => offset + Cardinality(P) <= total
          /\ \E st \in [P -> {"Complete", "Removed"}] :
               store' = ApplyStoppedPage(store, offset, total, P, st)
    BY <1>4 DEF ApplyStoppedPageCall
  <2>2. PICK st \in [P -> {"Complete", "Removed"}] :
          store' = ApplyStoppedPage(store, offset, total, P, st)
    BY <2>1
  <2>3. st \in Reports(P)
    BY DEF Reports, Status
  <2>4. total \in Nat \cup {NoTotal}
    BY StoreBounds DEF Totals
  <2>5. total # NoTotal => offset < total \/ P = {}
    <3>1. IsFiniteSet(P) /\ Cardinality(P) \in Nat
      BY GidIsFinite, FS_Subset, FS_CardinalityType
    <3>2. P # {} => Cardinality(P) # 0
      BY <3>1, FS_EmptySet
    <3>3. QED
      BY <2>1, <2>4, <3>1, <3>2, OffsetsAreNaturals
  <2>6. QED
    BY <2>2, <2>3, <2>4, <2>5 DEF PageStored
<1>5. ASSUME NEW g, ApplyTaskSnapshotCall(g)
      PROVE  OtherCall(store, store')
  BY <1>5 DEF ApplyTaskSnapshotCall, OtherCall
<1>6. ASSUME NEW g, SeedLocalHistoryCall(g)
      PROVE  OtherCall(store, store')
  <2>1. PICK H \in SUBSET Gid :
          store' = SeedLocalHistory(store, H, [x \in Gid |-> "Complete"])
    BY <1>6 DEF SeedLocalHistoryCall
  <2>2. [x \in Gid |-> "Complete"] \in [Gid -> Status]
    BY DEF Status
  <2>3. QED
    BY <2>1, <2>2 DEF OtherCall
<1>7. ASSUME NEW g, RemoveHistoryOnlyCall(g)
      PROVE  OtherCall(store, store')
  BY <1>7 DEF RemoveHistoryOnlyCall, OtherCall
<1>8. QED
  BY <1>1, <1>2, <1>3, <1>4, <1>5, <1>6, <1>7 DEF Next, Called

LEMMA CallsConsistent ==
  ASSUME NEW s \in Store, Consistent(s), NEW u, Called(s, u)
  PROVE  u \in Store /\ Consistent(u)
<1>1. CASE u = BeginSession(s, s.gen + 1)
  <2>1. s.gen + 1 \in Nat
    BY DEF Store
  <2>2. QED
    BY <1>1, <2>1, SessionCallsConsistent
<1>2. CASE LivePolled(s, u)
  BY <1>2, ReconcileLiveConsistent DEF LivePolled
<1>3. CASE PageStored(s, u)
  BY <1>3, ApplyStoppedPageConsistent DEF PageStored
<1>4. CASE OtherCall(s, u)
  <2>1. 0 \in Nat
    OBVIOUS
  <2>2. QED
    BY <1>4, <2>1, SessionCallsConsistent, ApplyTaskSnapshotConsistent,
       SeedLocalHistoryConsistent, RemoveHistoryOnlyConsistent DEF OtherCall
<1>5. QED
  BY <1>1, <1>2, <1>3, <1>4 DEF Called

LEMMA NextIInv == IInv /\ [Next]_store => IInv'
<1>1. CASE Next
  BY <1>1, StepIsACall, CallsConsistent DEF IInv, TypeOK
<1>2. CASE UNCHANGED store
  BY <1>2 DEF IInv, TypeOK
<1>3. QED
  BY <1>1, <1>2

LEMMA StoreInvariant == Spec => []IInv
<1>1. Init => IInv
  BY InitIInv
<1>2. IInv /\ [Next]_store => IInv'
  BY NextIInv
<1>3. QED
  BY <1>1, <1>2, PTL DEF Spec

\* The store keeps its type (crates/ariadeck-application/src/store.rs).
THEOREM StoreTypeCorrect == Spec => []TypeOK
<1>1. IInv => TypeOK
  BY DEF IInv
<1>2. QED
  BY <1>1, StoreInvariant, PTL

\* No gid is ever listed by two collections, whatever order answers arrive in.
THEOREM StoreOneOwner == Spec => []OneOwner
<1>1. IInv => OneOwner
  BY DEF IInv, Consistent, OneOwner
<1>2. QED
  BY <1>1, StoreInvariant, PTL

\* Every listed gid has a task entry to render.
THEOREM StoreListedTasksAreKnown == Spec => []ListedTasksAreKnown
<1>1. IInv => ListedTasksAreKnown
  BY DEF IInv, Consistent, ListedTasksAreKnown
<1>2. QED
  BY <1>1, StoreInvariant, PTL

\* stopped_order and history_order are never stale copies.
THEOREM StoreDerivedStateIsFresh == Spec => []DerivedStateIsFresh
<1>1. IInv => DerivedStateIsFresh
  BY DEF IInv, Consistent, DerivedStateIsFresh
<1>2. QED
  BY <1>1, StoreInvariant, PTL

\* Live and stopped lists show what the engine said, never a history row.
THEOREM StoreEngineListsShowEngineData == Spec => []EngineListsShowEngineData
<1>1. IInv => EngineListsShowEngineData
  BY DEF IInv, Consistent, EngineListsShowEngineData
<1>2. QED
  BY <1>1, StoreInvariant, PTL

-----------------------------------------------------------------------------
(* No silent change *)

\* What only history lists was built from a history row.
HistoryIsLabelled(s) == s.historyOnly \subseteq s.fromHistory

\* A call made on s that returns u tells of what it changed.
Tells(s, u) == HistoryIsLabelled(u) /\ (~u.patched => Visible(u) = Visible(s))

LEMMA LooksTheSame ==
  ASSUME NEW s, NEW u,
         u.gen = s.gen, u.stale = s.stale, u.tasks = s.tasks, u.active = s.active,
         u.waiting = s.waiting, u.stopped = s.stopped, u.history = s.history
  PROVE  Visible(u) = Visible(s)
<1>1. Listed(u) = Listed(s)
  BY DEF Listed, EngineOwned, Live
<1>2. QED
  BY <1>1 DEF Visible

\* The entries after an upsert and after a removal of entries.
LEMMA EntriesWritten ==
  ASSUME NEW s \in Store, NEW S \in SUBSET Gid, NEW st \in Reports(S),
         NEW u, u = Upsert(s, S, st)
  PROVE  u.tasks = [x \in Gid |-> IF x \in S THEN st[x] ELSE s.tasks[x]]
BY DEF Upsert, Store

LEMMA EntriesForgotten ==
  ASSUME NEW s \in Store, NEW S \in SUBSET Gid, NEW u, u = Forget(s, S)
  PROVE  u.tasks = [x \in Gid |-> IF x \in S THEN "absent" ELSE s.tasks[x]]
BY DEF Forget, Store

LEMMA EntriesUntouched ==
  ASSUME NEW s \in Store, NEW S \in SUBSET Gid, NEW st,
         ~UpsertPatches(s, S, st)
  PROVE  /\ [x \in Gid |-> IF x \in S THEN st[x] ELSE s.tasks[x]] = s.tasks
         /\ S \cap s.fromHistory = {}
<1>1. \A x \in S : s.tasks[x] = st[x] /\ x \notin s.fromHistory
  BY DEF UpsertPatches
<1>2. \A x \in Gid : (IF x \in S THEN st[x] ELSE s.tasks[x]) = s.tasks[x]
  BY <1>1
<1>3. s.tasks = [x \in Gid |-> s.tasks[x]]
  BY DEF Store
<1>4. QED
  BY <1>1, <1>2, <1>3

\* What Consistent says, field by field.
LEMMA ConsistentFields ==
  ASSUME NEW s \in Store, Consistent(s)
  PROVE  /\ s.history = s.historyOnly /\ s.stopped = Paged(s)
         /\ Live(s) \cup s.stopped \cup s.history \subseteq Known(s)
         /\ (Live(s) \cup s.stopped) \cap s.history = {}
         /\ Live(s) \cap s.stopped = {} /\ s.active \cap s.waiting = {}
         /\ Live(s) = s.active \cup s.waiting /\ HasSession(s)
BY DEF Consistent, HasFreshIndexes, HasOneOwner, EngineOwned, Listed, Live, Store, HasSession

LEMMA SessionCallsTell ==
  ASSUME NEW s \in Store, HistoryIsLabelled(s), NEW g \in Nat, NEW b \in BOOLEAN
  PROVE  Tells(s, BeginSession(s, g)) /\ Tells(s, SetStale(s, b))
<1>1. Tells(s, SetStale(s, b))
  <2> DEFINE r == [s EXCEPT !.stale = b, !.patched = s.stale # b]
  <2>1. SetStale(s, b) = r
    BY DEF SetStale
  <2>2. /\ r.gen = s.gen /\ r.tasks = s.tasks /\ r.active = s.active
        /\ r.waiting = s.waiting /\ r.stopped = s.stopped /\ r.history = s.history
        /\ r.historyOnly = s.historyOnly /\ r.fromHistory = s.fromHistory
        /\ r.stale = b /\ r.patched = (s.stale # b)
    BY DEF Store
  <2> HIDE DEF r
  <2>3. QED
    BY <2>1, <2>2, LooksTheSame DEF Tells, HistoryIsLabelled
<1>2. Tells(s, BeginSession(s, g))
  <2> DEFINE seeding == IF s.gen # g THEN {} ELSE s.seeding
             r == [s EXCEPT !.gen = g, !.seeding = seeding, !.stale = TRUE,
                            !.patched = s.gen # g \/ ~s.stale]
  <2>1. BeginSession(s, g) = r
    BY DEF BeginSession
  <2> HIDE DEF seeding
  <2>2. /\ r.gen = g /\ r.tasks = s.tasks /\ r.active = s.active
        /\ r.waiting = s.waiting /\ r.stopped = s.stopped /\ r.history = s.history
        /\ r.historyOnly = s.historyOnly /\ r.fromHistory = s.fromHistory
        /\ r.stale = TRUE /\ r.patched = (s.gen # g \/ ~s.stale) /\ s.stale \in BOOLEAN
    BY DEF Store
  <2> HIDE DEF r
  <2>3. QED
    BY <2>1, <2>2, LooksTheSame DEF Tells, HistoryIsLabelled
<1>3. QED
  BY <1>1, <1>2

\* An upsert of a task that history lists shows in the stopped order, a live
\* task is in no history, and what is gone was listed.
LEMMA ReconcileLiveTells ==
  ASSUME NEW s \in Store, Consistent(s), HistoryIsLabelled(s),
         NEW A \in SUBSET Gid, NEW W \in SUBSET Gid, LiveIsUnique(A, W),
         NEW st \in Reports(A \cup W)
  PROVE  Tells(s, ReconcileLive(s, A, W, st))
<1> DEFINE live == A \cup W
           up   == Upsert(s, live, st)
           pg   == CutPages(up, live)
           cut  == RebuildStopped(pg)
           gone == (Live(s) \ live) \ cut.stopped
           fg   == Forget(cut, gone)
           seeding == fg.seeding \ gone
           patched == \/ UpsertPatches(s, live, st)
                      \/ cut.stopped # s.stopped
                      \/ gone # {}
                      \/ A # s.active \/ W # s.waiting
           r    == [fg EXCEPT !.seeding = seeding, !.active = A, !.waiting = W,
                              !.patched = patched]
<1>1. ReconcileLive(s, A, W, st) = r
  BY DEF ReconcileLive
<1>0. /\ up = Upsert(s, live, st) /\ live \in SUBSET Gid /\ st \in Reports(live)
  OBVIOUS
<1>0a. HasSession(s)
  BY ConsistentFields
<1>2. SameSession(s, ReconcileLive(s, A, W, st))
  BY <1>0a, OperationsKeepSession
<1> HIDE DEF up, live
<1>3. /\ up \in Store /\ up.fromHistory = s.fromHistory \ live
      /\ up.historyOnly = s.historyOnly \ live
      /\ up.history = s.history \ (live \cap s.historyOnly)
      /\ up.stopped = s.stopped
  BY <1>0, UpsertFacts
<1>3a. up.tasks = [x \in Gid |-> IF x \in live THEN st[x] ELSE s.tasks[x]]
  BY <1>0, EntriesWritten
<1>4. /\ pg \in Store /\ pg.tasks = up.tasks /\ pg.fromHistory = up.fromHistory
      /\ pg.historyOnly = up.historyOnly /\ pg.history = up.history
  BY <1>0, <1>3, CutPagesFacts
<1> HIDE DEF pg
<1>5. /\ cut \in Store /\ cut.tasks = pg.tasks /\ cut.fromHistory = pg.fromHistory
      /\ cut.historyOnly = pg.historyOnly \ cut.stopped
      /\ pg.history = pg.historyOnly => cut.history = cut.historyOnly
  BY <1>4, RebuildStoppedFacts
<1>6. gone \in SUBSET Gid /\ gone \subseteq Live(s)
  BY DEF Live, Store
<1> HIDE DEF cut, gone
<1>7. /\ fg \in Store /\ fg.fromHistory = cut.fromHistory \ gone
      /\ fg.stopped = cut.stopped /\ fg.history = cut.history /\ fg.historyOnly = cut.historyOnly
  BY <1>5, <1>6, ForgetFacts
<1>7a. fg.tasks = [x \in Gid |-> IF x \in gone THEN "absent" ELSE cut.tasks[x]]
  BY <1>5, <1>6, EntriesForgotten
<1> HIDE DEF fg
<1>8. seeding \in SUBSET Gid /\ patched \in BOOLEAN
  BY <1>7 DEF Store, UpsertPatches
<1> HIDE DEF seeding
<1>8a. patched = ( \/ UpsertPatches(s, live, st)
                   \/ cut.stopped # s.stopped
                   \/ gone # {}
                   \/ A # s.active \/ W # s.waiting )
  OBVIOUS
<1> HIDE DEF patched
<1>9. /\ r.active = A /\ r.waiting = W /\ r.patched = patched
      /\ r.tasks = fg.tasks /\ r.fromHistory = fg.fromHistory
      /\ r.stopped = fg.stopped /\ r.history = fg.history /\ r.historyOnly = fg.historyOnly
  BY <1>7, <1>8 DEF Store
<1> HIDE DEF r
<1>10. HistoryIsLabelled(r)
  BY <1>3, <1>4, <1>5, <1>6, <1>7, <1>9, ConsistentFields DEF HistoryIsLabelled
<1>11. ASSUME ~r.patched
       PROVE  Visible(r) = Visible(s)
  <2>1. /\ ~UpsertPatches(s, live, st) /\ cut.stopped = s.stopped /\ gone = {}
        /\ A = s.active /\ W = s.waiting
    BY <1>8a, <1>9, <1>11
  <2>2. up.tasks = s.tasks
    BY <1>0, <1>3a, <2>1, EntriesUntouched
  <2>3. fg.tasks = cut.tasks
    <3>1. cut.tasks = [x \in Gid |-> cut.tasks[x]]
      BY <1>5 DEF Store
    <3>2. fg.tasks = [x \in Gid |-> cut.tasks[x]]
      BY <1>7a, <2>1
    <3>3. QED
      BY <3>1, <3>2
  <2>4. live \cap s.history = {} /\ s.stopped \cap s.history = {} /\ s.history = s.historyOnly
    <3>1. live = Live(s)
      BY <2>1 DEF live, Live
    <3>2. QED
      BY <3>1, ConsistentFields
  <2>5. fg.history = s.history
    BY <1>3, <1>4, <1>5, <1>7, <2>1, <2>4
  <2>6. r.gen = s.gen /\ r.stale = s.stale
    BY <1>1, <1>2 DEF SameSession
  <2>7. QED
    BY <1>4, <1>5, <1>7, <1>9, <2>1, <2>2, <2>3, <2>5, <2>6, LooksTheSame
<1>12. QED
  BY <1>1, <1>10, <1>11 DEF Tells

LEMMA ApplyStoppedPageTells ==
  ASSUME NEW s \in Store, Consistent(s), HistoryIsLabelled(s),
         NEW offset \in Offset, NEW total \in Nat \cup {NoTotal},
         NEW P \in SUBSET Gid, NEW st \in Reports(P),
         total # NoTotal => offset < total \/ P = {}
  PROVE  Tells(s, ApplyStoppedPage(s, offset, total, P, st))
<1> DEFINE up      == Upsert(s, P, st)
           keep    == KeptPages(s, offset, total)
           pages   == [o \in Offset |-> IF o \notin keep THEN {}
                                        ELSE IF o = offset THEN P ELSE up.pages[o]]
           newTotal == IF total = NoTotal THEN up.total ELSE total
           put     == [up EXCEPT !.active = up.active \ P, !.waiting = up.waiting \ P,
                         !.loaded = keep, !.pages = pages, !.total = newTotal]
           cut     == RebuildStopped(put)
           patched == \/ UpsertPatches(s, P, st)
                      \/ cut.active # s.active \/ cut.waiting # s.waiting
                      \/ cut.stopped # s.stopped
           r       == [cut EXCEPT !.patched = patched]
<1>0. up = Upsert(s, P, st)
  OBVIOUS
<1>0a. HasSession(s)
  BY ConsistentFields
<1>1. ApplyStoppedPage(s, offset, total, P, st) = r
  BY DEF ApplyStoppedPage
<1>2. SameSession(s, ApplyStoppedPage(s, offset, total, P, st))
  BY <1>0a, OperationsKeepSession
<1> HIDE DEF up
<1>3. /\ up \in Store /\ up.fromHistory = s.fromHistory \ P /\ Known(up) = Known(s) \cup P
      /\ up.historyOnly = s.historyOnly \ P
      /\ up.history = s.history \ (P \cap s.historyOnly)
      /\ up.pages = s.pages
  BY <1>0, UpsertFacts
<1>3a. up.tasks = [x \in Gid |-> IF x \in P THEN st[x] ELSE s.tasks[x]]
  BY <1>0, EntriesWritten
<1>4. keep \in SUBSET Offset
  BY DEF Store, KeptPages
<1>5. pages \in [Offset -> SUBSET Gid]
  BY <1>3 DEF Store
<1>6. newTotal \in Nat \cup {NoTotal}
  BY <1>3 DEF Store
<1>7. P \subseteq UNION {pages[o] : o \in Offset}
  <2>1. CASE P = {}
    BY <2>1
  <2>2. CASE P # {}
    <3>1. offset \in keep
      BY <2>2 DEF KeptPages
    <3>2. pages[offset] = P
      BY <3>1
    <3>3. QED
      BY <3>2
  <2>3. QED
    BY <2>1, <2>2
<1> HIDE DEF keep, pages, newTotal
<1>8. /\ put \in Store /\ put.tasks = up.tasks /\ put.fromHistory = up.fromHistory
      /\ put.history = up.history /\ put.historyOnly = up.historyOnly /\ put.pages = pages
  BY <1>3, <1>4, <1>5, <1>6 DEF Store
<1>9. P \subseteq Paged(put) \cap Known(put)
  BY <1>3, <1>7, <1>8 DEF Known, Paged
<1> HIDE DEF put
<1>10. /\ cut \in Store /\ cut.tasks = put.tasks /\ cut.fromHistory = put.fromHistory
       /\ cut.stopped = Paged(put) \cap Known(put)
       /\ cut.historyOnly = put.historyOnly \ cut.stopped
       /\ put.history = put.historyOnly => cut.history = cut.historyOnly
  BY <1>8, RebuildStoppedFacts
<1> HIDE DEF cut
<1>11. patched \in BOOLEAN
  BY DEF UpsertPatches
<1>11a. patched = ( \/ UpsertPatches(s, P, st)
                    \/ cut.active # s.active \/ cut.waiting # s.waiting
                    \/ cut.stopped # s.stopped )
  OBVIOUS
<1> HIDE DEF patched
<1>12. /\ r.tasks = cut.tasks /\ r.fromHistory = cut.fromHistory /\ r.patched = patched
       /\ r.active = cut.active /\ r.waiting = cut.waiting /\ r.stopped = cut.stopped
       /\ r.history = cut.history /\ r.historyOnly = cut.historyOnly
  BY <1>10, <1>11 DEF Store
<1> HIDE DEF r
<1>13. HistoryIsLabelled(r)
  BY <1>3, <1>8, <1>10, <1>12 DEF HistoryIsLabelled
<1>14. ASSUME ~r.patched
       PROVE  Visible(r) = Visible(s)
  <2>1. /\ ~UpsertPatches(s, P, st) /\ cut.stopped = s.stopped
        /\ cut.active = s.active /\ cut.waiting = s.waiting
    BY <1>11a, <1>12, <1>14
  <2>2. up.tasks = s.tasks
    BY <1>3a, <2>1, EntriesUntouched
  <2>3. P \cap s.history = {} /\ s.stopped \cap s.history = {} /\ s.history = s.historyOnly
    BY <1>9, <1>10, <2>1, ConsistentFields
  <2>4. cut.history = s.history
    BY <1>3, <1>8, <1>10, <2>1, <2>3
  <2>5. r.gen = s.gen /\ r.stale = s.stale
    BY <1>1, <1>2 DEF SameSession
  <2>6. QED
    BY <1>8, <1>10, <1>12, <2>1, <2>2, <2>4, <2>5, LooksTheSame
<1>15. QED
  BY <1>1, <1>13, <1>14 DEF Tells

\* A removal that tells of nothing found no entry.
LEMMA RemoveTasksTells ==
  ASSUME NEW s \in Store, Consistent(s), HistoryIsLabelled(s), NEW S \in SUBSET Gid
  PROVE  Tells(s, RemoveTasks(s, S))
<1> DEFINE fg  == Forget(s, S)
           pg  == CutPages(fg, S)
           put == [pg EXCEPT !.seeding = pg.seeding \ (S \cap Known(s)),
                     !.historyOnly = pg.historyOnly \ S, !.active = pg.active \ S,
                     !.waiting = pg.waiting \ S, !.history = pg.history \ S]
           cut == RebuildStopped(put)
           patched == \/ S \cap Known(s) # {}
                      \/ cut.history # s.history \/ cut.active # s.active
                      \/ cut.waiting # s.waiting \/ cut.stopped # s.stopped
           r   == [cut EXCEPT !.patched = patched]
<1>1. RemoveTasks(s, S) = r
  BY DEF RemoveTasks
<1>1a. HasSession(s)
  BY ConsistentFields
<1>1b. SameSession(s, RemoveTasks(s, S))
  BY <1>1a, OperationsKeepSession
<1>2. fg = Forget(s, S) /\ pg = CutPages(fg, S)
  OBVIOUS
<1> HIDE DEF fg, pg
<1>3. /\ fg \in Store /\ fg.fromHistory = s.fromHistory \ S
      /\ fg.historyOnly = s.historyOnly
  BY <1>2, ForgetFacts
<1>3a. fg.tasks = [x \in Gid |-> IF x \in S THEN "absent" ELSE s.tasks[x]]
  BY <1>2, EntriesForgotten
<1>4. /\ pg \in Store /\ pg.tasks = fg.tasks /\ pg.fromHistory = fg.fromHistory
      /\ pg.historyOnly = fg.historyOnly
  BY <1>2, <1>3, CutPagesFacts
<1>5. /\ put \in Store /\ put.tasks = pg.tasks /\ put.fromHistory = pg.fromHistory
      /\ put.historyOnly = pg.historyOnly \ S
  BY <1>4 DEF Store
<1>6. cut = RebuildStopped(put)
  OBVIOUS
<1> HIDE DEF put, cut
<1>7. /\ cut \in Store /\ cut.tasks = put.tasks /\ cut.fromHistory = put.fromHistory
      /\ cut.historyOnly = put.historyOnly \ cut.stopped
  BY <1>5, <1>6, RebuildStoppedFacts
<1>8. patched \in BOOLEAN
  OBVIOUS
<1>8a. patched = ( \/ S \cap Known(s) # {}
                   \/ cut.history # s.history \/ cut.active # s.active
                   \/ cut.waiting # s.waiting \/ cut.stopped # s.stopped )
  OBVIOUS
<1> HIDE DEF patched
<1>9. /\ r.tasks = cut.tasks /\ r.fromHistory = cut.fromHistory /\ r.patched = patched
      /\ r.active = cut.active /\ r.waiting = cut.waiting /\ r.stopped = cut.stopped
      /\ r.history = cut.history /\ r.historyOnly = cut.historyOnly
  BY <1>7, <1>8 DEF Store
<1> HIDE DEF r
<1>10. HistoryIsLabelled(r)
  BY <1>3, <1>4, <1>5, <1>7, <1>9 DEF HistoryIsLabelled
<1>11. ASSUME ~r.patched
       PROVE  Visible(r) = Visible(s)
  <2>1. /\ S \cap Known(s) = {} /\ cut.history = s.history /\ cut.active = s.active
        /\ cut.waiting = s.waiting /\ cut.stopped = s.stopped
    BY <1>8a, <1>9, <1>11
  <2>2. fg.tasks = s.tasks
    <3>1. \A x \in Gid : (IF x \in S THEN "absent" ELSE s.tasks[x]) = s.tasks[x]
      BY <2>1 DEF Known
    <3>2. s.tasks = [x \in Gid |-> s.tasks[x]]
      BY DEF Store
    <3>3. QED
      BY <1>3a, <3>1, <3>2
  <2>3. r.gen = s.gen /\ r.stale = s.stale
    BY <1>1, <1>1b DEF SameSession
  <2>4. QED
    BY <1>4, <1>5, <1>7, <1>9, <2>1, <2>2, <2>3, LooksTheSame
<1>12. QED
  BY <1>1, <1>10, <1>11 DEF Tells

\* A snapshot tells of nothing when the entry is what the engine just said.
LEMMA ApplyTaskSnapshotTells ==
  ASSUME NEW s \in Store, Consistent(s), HistoryIsLabelled(s),
         NEW x \in Gid, NEW status \in Entry
  PROVE  Tells(s, ApplyTaskSnapshot(s, x, status))
<1>1. CASE status = "absent"
  BY <1>1, RemoveTasksTells DEF ApplyTaskSnapshot
<1>2. CASE status # "absent"
  <2> DEFINE S == {x}
             st == [y \in S |-> status]
             up == Upsert(s, S, st)
             patched == UpsertPatches(s, S, st)
             r == [up EXCEPT !.patched = patched]
  <2>1. ApplyTaskSnapshot(s, x, status) = r
    BY <1>2 DEF ApplyTaskSnapshot
  <2>2. S \in SUBSET Gid /\ patched \in BOOLEAN
    BY DEF UpsertPatches
  <2>3. st \in Reports(S)
    BY <1>2 DEF Entry, Reports
  <2>4. up = Upsert(s, S, st)
    OBVIOUS
  <2> HIDE DEF up, st, S
  <2>5. /\ up \in Store /\ up.fromHistory = s.fromHistory \ S
        /\ up.historyOnly = s.historyOnly \ S
        /\ up.history = s.history \ (S \cap s.historyOnly)
        /\ up.active = s.active /\ up.waiting = s.waiting /\ up.stopped = s.stopped
    BY <2>2, <2>3, <2>4, UpsertFacts
  <2>6. up.tasks = [y \in Gid |-> IF y \in S THEN st[y] ELSE s.tasks[y]]
    BY <2>2, <2>3, <2>4, EntriesWritten
  <2>6a. HasSession(s)
    BY ConsistentFields
  <2>6b. SameSession(s, up)
    BY <2>4, <2>6a, HelpersKeepSession
  <2>6c. patched = UpsertPatches(s, S, st)
    OBVIOUS
  <2> HIDE DEF patched
  <2>7. /\ r.tasks = up.tasks /\ r.fromHistory = up.fromHistory /\ r.patched = patched
        /\ r.active = up.active /\ r.waiting = up.waiting /\ r.stopped = up.stopped
        /\ r.history = up.history /\ r.historyOnly = up.historyOnly
        /\ r.gen = up.gen /\ r.stale = up.stale
    BY <2>2, <2>5 DEF Store
  <2> HIDE DEF r
  <2>8. HistoryIsLabelled(r)
    BY <2>5, <2>7 DEF HistoryIsLabelled
  <2>9. ASSUME ~r.patched
        PROVE  Visible(r) = Visible(s)
    <3>1. ~UpsertPatches(s, S, st)
      BY <2>6c, <2>7, <2>9
    <3>2. up.tasks = s.tasks /\ S \cap s.fromHistory = {}
      BY <2>2, <2>6, <3>1, EntriesUntouched
    <3>3. up.history = s.history
      BY <2>5, <3>2 DEF HistoryIsLabelled
    <3>4. up.gen = s.gen /\ up.stale = s.stale
      BY <2>6b DEF SameSession
    <3>5. QED
      BY <2>5, <2>7, <3>2, <3>3, <3>4, LooksTheSame
  <2>10. QED
    BY <2>1, <2>8, <2>9 DEF Tells
<1>3. QED
  BY <1>1, <1>2

LEMMA SeedLocalHistoryTells ==
  ASSUME NEW s \in Store, Consistent(s), HistoryIsLabelled(s),
         NEW H \in SUBSET Gid, NEW rec \in [Gid -> Status]
  PROVE  Tells(s, SeedLocalHistory(s, H, rec))
<1> DEFINE only == H \ EngineOwned(s)
           hint == (H \cap EngineOwned(s)) \ Known(s)
           new == only \cup hint
           tasks == [x \in Gid |-> IF x \in new THEN rec[x] ELSE s.tasks[x]]
           fromHistory == s.fromHistory \cup only \cup hint
           patched == only # {} \/ hint # {} \/ s.history # only
           r == [s EXCEPT !.tasks = tasks, !.fromHistory = fromHistory,
                   !.historyOnly = only, !.history = only, !.patched = patched]
<1>1. SeedLocalHistory(s, H, rec) = r
  BY DEF SeedLocalHistory
<1>2. patched \in BOOLEAN
  OBVIOUS
<1>3. only \subseteq fromHistory
  OBVIOUS
<1>4. ~patched => tasks = s.tasks /\ s.history = only
  <2>1. ~patched => new = {} /\ s.history = only
    OBVIOUS
  <2>2. s.tasks = [x \in Gid |-> s.tasks[x]]
    BY DEF Store
  <2> HIDE DEF new, patched, only, hint
  <2>3. new = {} => tasks = [x \in Gid |-> s.tasks[x]]
    OBVIOUS
  <2>4. QED
    BY <2>1, <2>2, <2>3
<1> HIDE DEF only, hint, tasks, fromHistory, patched
<1>5. /\ r.tasks = tasks /\ r.fromHistory = fromHistory /\ r.patched = patched
      /\ r.active = s.active /\ r.waiting = s.waiting /\ r.stopped = s.stopped
      /\ r.history = only /\ r.historyOnly = only /\ r.gen = s.gen /\ r.stale = s.stale
  BY <1>2 DEF Store
<1> HIDE DEF r
<1>6. HistoryIsLabelled(r)
  BY <1>3, <1>5 DEF HistoryIsLabelled
<1>7. ~r.patched => Visible(r) = Visible(s)
  BY <1>4, <1>5, LooksTheSame
<1>8. QED
  BY <1>1, <1>6, <1>7 DEF Tells

LEMMA RemoveHistoryOnlyTells ==
  ASSUME NEW s \in Store, Consistent(s), HistoryIsLabelled(s), NEW S \in SUBSET Gid
  PROVE  Tells(s, RemoveHistoryOnly(s, S))
<1> DEFINE gone == S \cap s.historyOnly
           fg   == Forget(s, gone)
           only == fg.historyOnly \ gone
           rest == fg.history \ S
           patched == gone \cap Known(s) # {} \/ s.history \cap S # {}
           r    == [fg EXCEPT !.historyOnly = only, !.history = rest, !.patched = patched]
<1>1. RemoveHistoryOnly(s, S) = r
  BY DEF RemoveHistoryOnly, HistoryEntries
<1>1a. HasSession(s) /\ s.history = s.historyOnly
  BY ConsistentFields
<1>1b. SameSession(s, RemoveHistoryOnly(s, S))
  BY <1>1a, OperationsKeepSession
<1>2. fg = Forget(s, gone) /\ gone \in SUBSET Gid /\ patched \in BOOLEAN
  OBVIOUS
<1>3. ~patched => gone = {} /\ s.history \ S = s.history
  BY <1>1a
<1> HIDE DEF gone, fg, patched
<1>4. /\ fg \in Store /\ fg.fromHistory = s.fromHistory \ gone
      /\ fg.active = s.active /\ fg.waiting = s.waiting /\ fg.stopped = s.stopped
      /\ fg.history = s.history /\ fg.historyOnly = s.historyOnly
  BY <1>2, ForgetFacts
<1>5. fg.tasks = [x \in Gid |-> IF x \in gone THEN "absent" ELSE s.tasks[x]]
  BY <1>2, EntriesForgotten
<1>6. only \in SUBSET Gid /\ rest \in SUBSET Gid
  BY <1>4 DEF Store
<1>6a. only = s.historyOnly \ gone /\ rest = s.history \ S
  BY <1>4
<1> HIDE DEF only, rest
<1>7. /\ r.tasks = fg.tasks /\ r.fromHistory = fg.fromHistory /\ r.patched = patched
      /\ r.active = fg.active /\ r.waiting = fg.waiting /\ r.stopped = fg.stopped
      /\ r.history = rest /\ r.historyOnly = only
  BY <1>2, <1>4, <1>6 DEF Store
<1> HIDE DEF r
<1>8. HistoryIsLabelled(r)
  BY <1>4, <1>6a, <1>7 DEF HistoryIsLabelled
<1>9. ASSUME ~r.patched
      PROVE  Visible(r) = Visible(s)
  <2>1. gone = {} /\ rest = s.history
    BY <1>3, <1>6a, <1>7, <1>9
  <2>2. fg.tasks = s.tasks
    <3>1. fg.tasks = [x \in Gid |-> s.tasks[x]]
      BY <1>5, <2>1
    <3>2. QED
      BY <3>1 DEF Store
  <2>3. r.gen = s.gen /\ r.stale = s.stale
    BY <1>1, <1>1b DEF SameSession
  <2>4. QED
    BY <1>4, <1>7, <2>1, <2>2, <2>3, LooksTheSame
<1>10. QED
  BY <1>1, <1>8, <1>9 DEF Tells

LEMMA CallsTell ==
  ASSUME NEW s \in Store, Consistent(s), HistoryIsLabelled(s), NEW u, Called(s, u)
  PROVE  Tells(s, u)
<1>1. CASE u = BeginSession(s, s.gen + 1)
  <2>1. s.gen + 1 \in Nat
    BY DEF Store
  <2>2. QED
    BY <1>1, <2>1, SessionCallsTell
<1>2. CASE LivePolled(s, u)
  BY <1>2, ReconcileLiveTells DEF LivePolled
<1>3. CASE PageStored(s, u)
  BY <1>3, ApplyStoppedPageTells DEF PageStored
<1>4. CASE OtherCall(s, u)
  <2>1. 0 \in Nat
    OBVIOUS
  <2>2. QED
    BY <1>4, <2>1, SessionCallsTell, ApplyTaskSnapshotTells,
       SeedLocalHistoryTells, RemoveHistoryOnlyTells DEF OtherCall
<1>5. QED
  BY <1>1, <1>2, <1>3, <1>4 DEF Called

\* The four parts of Consistent and the label of what history lists.
LabelledInv == IInv /\ HistoryIsLabelled(store)

LEMMA LabelledInvariant == Spec => []LabelledInv
<1>1. Init => LabelledInv
  BY InitIInv DEF Init, LabelledInv, HistoryIsLabelled, NewStore
<1>2. LabelledInv /\ [Next]_store => LabelledInv'
  <2>1. CASE Next
    BY <2>1, NextIInv, StepIsACall, CallsTell DEF LabelledInv, IInv, TypeOK, Tells
  <2>2. CASE UNCHANGED store
    BY <2>2, NextIInv DEF LabelledInv
  <2>3. QED
    BY <2>1, <2>2
<1>3. QED
  BY <1>1, <1>2, PTL DEF Spec

\* No silent change: whenever a call changes the session, the staleness, an
\* order or the entry of a listed task, the patch it returns is not empty, so
\* emit_patch (sync.rs) tells the subscribers.  That needs the label: a snapshot
\* takes a task out of history, and only the label makes its entry differ.
THEOREM StoreChangesArePatched == Spec => ChangesArePatched
<1>1. LabelledInv /\ [Next]_store
        => [Visible(store') # Visible(store) => store'.patched]_store
  <2>1. CASE Next
    BY <2>1, StepIsACall, CallsTell DEF LabelledInv, IInv, TypeOK, Tells
  <2>2. CASE UNCHANGED store
    BY <2>2
  <2>3. QED
    BY <2>1, <2>2
<1>2. QED
  BY <1>1, LabelledInvariant, PTL DEF Spec, ChangesArePatched
=============================================================================
