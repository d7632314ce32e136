--------------------------- MODULE PersistenceProofs ---------------------------
(***************************************************************************)
(* What is on the disk.  DocumentFile keeps the damaged originals and       *)
(* implements SavedDocument, for any writers, documents and damaged         *)
(* contents; cores.json names no core whose directory is gone, for any      *)
(* number of threads, versions and installations.                           *)
(***************************************************************************)
EXTENDS DocumentFile, CoreRegistry, TLAPS

-----------------------------------------------------------------------------
(***************************************************************************)
(* The documents.                                                            *)
(***************************************************************************)
\* A writer has a goal while it saves, and what it is about to put in place is
\* that goal and complete.
SaversHaveGoals ==
  \A w \in Writer :
    /\ stage[w] = "idle" <=> goal[w] = NoValue
    /\ stage[w] \in {"replace", "retry"} => temp[w] = goal[w]

\* Nobody saves before the start has got to it.
StartComesFirst ==
  start \in {"off", "read", "preserved", "copied"} => \A w \in Writer : stage[w] = "idle"

\* What the start resets is no document.
OnlyDamageIsReset ==
  /\ start = "copied" => path \in Bad
  /\ start = "preserved" => path \in Bad \cup {Absent}

\* Past the decision of the start, and while anybody saves, no damaged content
\* depends on the file any more.
NothingAtStake ==
  \/ start \in {"on", "saving", "preserved", "copied"}
  \/ \E w \in Writer : stage[w] # "idle"
  => spoilt \subseteq aside

FileInv ==
  /\ FileTypeOK
  /\ SaversHaveGoals
  /\ StartComesFirst
  /\ OnlyDamageIsReset
  /\ NothingAtStake
  /\ OriginalIsPreserved

USE StarterWrites, DefaultIsAValue, ContentsDiffer, TornIsNoDocument

LEMMA FileInitInv == FileInit => FileInv
BY SMT DEF FileInit, FileInv, FileTypeOK, Kind, Content, SaversHaveGoals, StartComesFirst,
       OnlyDamageIsReset, NothingAtStake, OriginalIsPreserved

\* The steps of a writer.
LEMMA BeginSaveInv ==
  ASSUME FileInv, NEW w \in Writer, NEW v \in Value, BeginSave(w, v)
  PROVE  FileInv'
BY SMT DEF FileInv, FileTypeOK, Kind, Content, SaversHaveGoals, StartComesFirst,
  OnlyDamageIsReset, NothingAtStake, OriginalIsPreserved, BeginSave, StartsSaving, fixed

LEMMA CreateTempInv ==
  ASSUME FileInv, NEW w \in Writer, CreateTemp(w)
  PROVE  FileInv'
BY SMT DEF FileInv, FileTypeOK, Kind, Content, SaversHaveGoals, StartComesFirst,
  OnlyDamageIsReset, NothingAtStake, OriginalIsPreserved, CreateTemp, fixed, found

LEMMA WriteTempInv ==
  ASSUME FileInv, NEW w \in Writer, WriteTemp(w)
  PROVE  FileInv'
BY SMT DEF FileInv, FileTypeOK, Kind, Content, SaversHaveGoals, StartComesFirst,
  OnlyDamageIsReset, NothingAtStake, OriginalIsPreserved, WriteTemp, fixed, found

LEMMA ReplaceInv ==
  ASSUME FileInv, NEW w \in Writer, Replace(w)
  PROVE  FileInv'
BY SMT DEF FileInv, FileTypeOK, Kind, Content, SaversHaveGoals, StartComesFirst,
  OnlyDamageIsReset, NothingAtStake, OriginalIsPreserved, Replace, Returns, fixed, found

LEMMA RemoveTargetInv ==
  ASSUME FileInv, NEW w \in Writer, RemoveTarget(w)
  PROVE  FileInv'
BY SMT DEF FileInv, FileTypeOK, Kind, Content, SaversHaveGoals, StartComesFirst,
  OnlyDamageIsReset, NothingAtStake, OriginalIsPreserved, RemoveTarget, fixed, found

LEMMA SaveFailsInv ==
  ASSUME FileInv, NEW w \in Writer, SaveFails(w)
  PROVE  FileInv'
BY SMT DEF FileInv, FileTypeOK, Kind, Content, SaversHaveGoals, StartComesFirst,
  OnlyDamageIsReset, NothingAtStake, OriginalIsPreserved, SaveFails, Returns, fixed, found

\* The steps of a start, of an end, and of whoever writes the file in between.
LEMMA LaunchInv == FileInv /\ Launch => FileInv'
BY SMT DEF FileInv, FileTypeOK, Kind, Content, SaversHaveGoals, StartComesFirst,
  OnlyDamageIsReset, NothingAtStake, OriginalIsPreserved, Launch, fixed, writers, found

LEMMA ReadGoodInv == FileInv /\ ReadGood => FileInv'
BY SMT DEF FileInv, FileTypeOK, Kind, Content, SaversHaveGoals, StartComesFirst,
  OnlyDamageIsReset, NothingAtStake, OriginalIsPreserved, ReadGood, fixed, writers, found

LEMMA ReadNothingInv == FileInv /\ ReadNothing => FileInv'
BY SMT DEF FileInv, FileTypeOK, Kind, Content, SaversHaveGoals, StartComesFirst,
  OnlyDamageIsReset, NothingAtStake, OriginalIsPreserved, ReadNothing, StartsSaving, fixed, found

LEMMA ReadUnusableInv == FileInv /\ ReadUnusable => FileInv'
BY SMT DEF FileInv, FileTypeOK, Kind, Content, SaversHaveGoals, StartComesFirst,
  OnlyDamageIsReset, NothingAtStake, OriginalIsPreserved, ReadUnusable, fixed, writers, found

LEMMA PreserveInv == FileInv /\ Preserve => FileInv'
BY SMT DEF FileInv, FileTypeOK, Kind, Content, SaversHaveGoals, StartComesFirst,
  OnlyDamageIsReset, NothingAtStake, OriginalIsPreserved, Preserve, PutAside, Recovered, fixed,
  writers

LEMMA PreserveCopyInv == FileInv /\ PreserveCopy => FileInv'
BY SMT DEF FileInv, FileTypeOK, Kind, Content, SaversHaveGoals, StartComesFirst,
  OnlyDamageIsReset, NothingAtStake, OriginalIsPreserved, PreserveCopy, fixed, writers

LEMMA RemoveCopiedInv == FileInv /\ RemoveCopied => FileInv'
BY SMT DEF FileInv, FileTypeOK, Kind, Content, SaversHaveGoals, StartComesFirst,
  OnlyDamageIsReset, NothingAtStake, OriginalIsPreserved, RemoveCopied, fixed, writers, found

LEMMA SaveDefaultsInv == FileInv /\ SaveDefaults => FileInv'
BY SMT DEF FileInv, FileTypeOK, Kind, Content, SaversHaveGoals, StartComesFirst,
  OnlyDamageIsReset, NothingAtStake, OriginalIsPreserved, SaveDefaults, StartsSaving, fixed, found

LEMMA EndInv == FileInv /\ End => FileInv'
BY SMT DEF FileInv, FileTypeOK, Kind, Content, SaversHaveGoals, StartComesFirst,
  OnlyDamageIsReset, NothingAtStake, OriginalIsPreserved, End, fixed, found

LEMMA ArrivesInv ==
  ASSUME FileInv, NEW c \in Value \cup Bad, Arrives(c)
  PROVE  FileInv'
BY SMT DEF FileInv, FileTypeOK, Kind, Content, SaversHaveGoals, StartComesFirst,
  OnlyDamageIsReset, NothingAtStake, OriginalIsPreserved, Arrives, fixed, writers

LEMMA FileStutterInv == FileInv /\ UNCHANGED fileVars => FileInv'
BY SMT DEF FileInv, FileTypeOK, Kind, Content, SaversHaveGoals, StartComesFirst,
  OnlyDamageIsReset, NothingAtStake, OriginalIsPreserved, fileVars

\* Every step keeps the invariant.
LEMMA FileStepInv == FileInv /\ [FileNext]_fileVars => FileInv'
<1> SUFFICES ASSUME FileInv, [FileNext]_fileVars PROVE FileInv'
  OBVIOUS
<1>1. ASSUME NEW w \in Writer, NEW v \in Value, BeginSave(w, v) PROVE FileInv'
  BY <1>1, BeginSaveInv
<1>2. ASSUME NEW w \in Writer,
             CreateTemp(w) \/ WriteTemp(w) \/ Replace(w) \/ RemoveTarget(w) \/ SaveFails(w)
      PROVE  FileInv'
  BY <1>2, CreateTempInv, WriteTempInv, ReplaceInv, RemoveTargetInv, SaveFailsInv
<1>3. CASE Launch \/ ReadGood \/ ReadNothing \/ ReadUnusable
  BY <1>3, LaunchInv, ReadGoodInv, ReadNothingInv, ReadUnusableInv
<1>4. CASE Preserve \/ PreserveCopy \/ RemoveCopied \/ SaveDefaults \/ End
  BY <1>4, PreserveInv, PreserveCopyInv, RemoveCopiedInv, SaveDefaultsInv, EndInv
<1>5. ASSUME NEW c \in Value \cup Bad, Arrives(c) PROVE FileInv'
  BY <1>5, ArrivesInv
<1>6. CASE UNCHANGED fileVars
  BY <1>6, FileStutterInv
<1> QED
  BY <1>1, <1>2, <1>3, <1>4, <1>5, <1>6 DEF FileNext

\* The invariant holds in every reachable state.
THEOREM FileInvariant == FileSpec => []FileInv
BY FileInitInv, FileStepInv, PTL DEF FileSpec

\* Every variable keeps its type.
THEOREM FileTypeCorrect == FileSpec => []FileTypeOK
<1>1. FileInv => FileTypeOK
  BY DEF FileInv
<1> QED
  BY <1>1, FileInvariant, PTL

\* Damaged contents a start resets are in a backup, whatever fails and wherever
\* the desktop ends.
THEOREM PreservedOriginals == FileSpec => []OriginalIsPreserved
<1>1. FileInv => OriginalIsPreserved
  BY DEF FileInv
<1> QED
  BY <1>1, FileInvariant, PTL

-----------------------------------------------------------------------------
(***************************************************************************)
(* The refinement: one lemma for the steps that are a step of               *)
(* SavedDocument, one for those the document does not see.                  *)
(***************************************************************************)
LEMMA InitIsSaved == FileInit => Saved!DocumentInit
BY SMT DEF FileInit, Saved!DocumentInit

LEMMA BeginIsSaved ==
  ASSUME FileInv, NEW w \in Writer, NEW v \in Value, BeginSave(w, v)
  PROVE  Saved!Begin(w, v)
BY SMT DEF FileInv, FileTypeOK, Kind, Content, SaversHaveGoals, StartComesFirst,
  OnlyDamageIsReset, NothingAtStake, OriginalIsPreserved, BeginSave, StartsSaving, fixed,
  Saved!Begin

LEMMA ReplaceIsSaved ==
  ASSUME FileInv, NEW w \in Writer, Replace(w)
  PROVE  Saved!Succeed(w)
BY SMT DEF FileInv, FileTypeOK, Kind, Content, SaversHaveGoals, StartComesFirst,
  OnlyDamageIsReset, NothingAtStake, OriginalIsPreserved, Replace, Returns, fixed, found,
  Saved!Succeed, Saved!Return

LEMMA RemoveTargetIsSaved ==
  ASSUME FileInv, NEW w \in Writer, RemoveTarget(w)
  PROVE  Saved!Lose(w)
BY SMT DEF FileInv, FileTypeOK, Kind, Content, SaversHaveGoals, StartComesFirst,
  OnlyDamageIsReset, NothingAtStake, OriginalIsPreserved, RemoveTarget, fixed, found, Saved!Lose

LEMMA SaveFailsIsSaved ==
  ASSUME FileInv, NEW w \in Writer, SaveFails(w)
  PROVE  Saved!Fail(w)
BY SMT DEF FileInv, FileTypeOK, Kind, Content, SaversHaveGoals, StartComesFirst,
  OnlyDamageIsReset, NothingAtStake, OriginalIsPreserved, SaveFails, Returns, fixed, found,
  Saved!Fail, Saved!Return

\* The temporary files are not the document, and reading changes nothing.
LEMMA UnseenBySaved ==
  ASSUME FileInv,
         \/ \E w \in Writer : CreateTemp(w) \/ WriteTemp(w)
         \/ ReadGood \/ ReadUnusable \/ PreserveCopy
  PROVE  UNCHANGED Saved!documentVars
BY SMT DEF CreateTemp, WriteTemp, ReadGood, ReadUnusable, PreserveCopy, fixed, found, writers,
  Saved!documentVars

LEMMA LaunchIsSaved == Launch => Saved!Open
BY SMT DEF Launch, fixed, writers, found, Saved!Open

LEMMA PreserveIsSaved == Preserve => Saved!SetAside
BY SMT DEF Preserve, PutAside, fixed, writers, Saved!SetAside

LEMMA RemoveCopiedIsSaved ==
  FileInv /\ RemoveCopied => Saved!SetAside \/ UNCHANGED Saved!documentVars
BY SMT DEF FileInv, OnlyDamageIsReset, RemoveCopied, fixed, writers, found, Saved!SetAside,
  Saved!documentVars

\* A start that makes up a document saves it, or puts an empty session in place.
LEMMA ReadNothingIsSaved ==
  FileInv /\ ReadNothing =>
    Saved!Begin(Starter, Default) \/ Saved!Initialize \/ UNCHANGED Saved!documentVars
BY SMT DEF FileInv, FileTypeOK, Kind, Content, SaversHaveGoals, StartComesFirst,
  OnlyDamageIsReset, NothingAtStake, OriginalIsPreserved, ReadNothing, StartsSaving, fixed,
  found, Saved!Begin, Saved!Initialize,
  Saved!documentVars

LEMMA SaveDefaultsIsSaved ==
  FileInv /\ SaveDefaults => Saved!Begin(Starter, Default) \/ Saved!Initialize
BY SMT DEF FileInv, FileTypeOK, Kind, Content, SaversHaveGoals, StartComesFirst,
  OnlyDamageIsReset, NothingAtStake, OriginalIsPreserved, SaveDefaults, StartsSaving, fixed,
  found, Saved!Begin, Saved!Initialize

LEMMA EndIsSaved == End => Saved!Crash
BY SMT DEF End, fixed, found, Saved!Crash

LEMMA ArrivesIsSaved ==
  ASSUME NEW c \in Value \cup Bad, Arrives(c)
  PROVE  Saved!Arrive
BY SMT DEF Arrives, fixed, writers, Saved!Arrive

LEMMA StutterIsSaved == UNCHANGED fileVars => UNCHANGED Saved!documentVars
BY SMT DEF fileVars, Saved!documentVars

LEMMA StepIsSaved ==
  FileInv /\ [FileNext]_fileVars => [Saved!DocumentNext]_Saved!documentVars
<1> SUFFICES ASSUME FileInv, [FileNext]_fileVars
             PROVE  Saved!DocumentNext \/ UNCHANGED Saved!documentVars
  OBVIOUS
<1>1. ASSUME NEW w \in Writer, NEW v \in Value, BeginSave(w, v) PROVE Saved!DocumentNext
  BY <1>1, BeginIsSaved DEF Saved!DocumentNext
<1>2. ASSUME NEW w \in Writer, Replace(w) \/ RemoveTarget(w) \/ SaveFails(w)
      PROVE  Saved!DocumentNext
  BY <1>2, ReplaceIsSaved, RemoveTargetIsSaved, SaveFailsIsSaved DEF Saved!DocumentNext
<1>3. CASE \/ \E w \in Writer : CreateTemp(w) \/ WriteTemp(w)
           \/ ReadGood \/ ReadUnusable \/ PreserveCopy
  BY <1>3, UnseenBySaved
<1>4. CASE Launch \/ Preserve \/ End
  BY <1>4, LaunchIsSaved, PreserveIsSaved, EndIsSaved DEF Saved!DocumentNext
<1>5. CASE RemoveCopied \/ ReadNothing \/ SaveDefaults
  BY <1>5, RemoveCopiedIsSaved, ReadNothingIsSaved, SaveDefaultsIsSaved DEF Saved!DocumentNext
<1>6. ASSUME NEW c \in Value \cup Bad, Arrives(c) PROVE Saved!DocumentNext
  BY <1>6, ArrivesIsSaved DEF Saved!DocumentNext
<1>7. CASE UNCHANGED fileVars
  BY <1>7, StutterIsSaved
<1> QED
  BY <1>1, <1>2, <1>3, <1>4, <1>5, <1>6, <1>7 DEF FileNext

\* Saves are atomic: the file is changed by whole saves, by the start that sets
\* damage aside, and by nobody else while the desktop runs.
THEOREM FileImplementsSavedDocument == FileSpec => RefinesDocument
BY InitIsSaved, FileInvariant, StepIsSaved, PTL DEF FileSpec, RefinesDocument, Saved!DocumentSpec

-----------------------------------------------------------------------------
(***************************************************************************)
(* The registry of cores.                                                    *)
(***************************************************************************)
\* A core of the registry or of a copy that somebody may write back.
Listed(k) == k \in cores \/ \E c \in Caller : Holds(c, k)

\* c has made a directory and is going to list it.
Adds(c) == step[c].at \in {"load", "add"}

Clears(c) == step[c].at = "clear"

\* The directory is gone, or about to go.
Goes(d) == dirs[d] = Nowhere \/ \E c \in Caller : Clears(c) /\ step[c].core.dir = d

\* The directories of linked cores are as old as the cores.
DirsAreMade ==
  /\ \A k \in Core : Listed(k) => k.dir \in Version \cup 1 .. made
  /\ \A c \in Caller : Adds(c) \/ Clears(c) => step[c].core.dir \in Version \cup 1 .. made
  /\ \A c \in Caller : step[c].at = "staged" => step[c].core.dir \in Version

\* What an operation is about is in its copy, and no copy names a core it has
\* not; the one that is removed is not active.
Names(ch, S) == {ch.active, ch.last} \subseteq {k.id : k \in S} \cup {0}
CopiesAreWhole ==
  /\ Names(choice, cores)
  /\ \A c \in Caller : step[c].at \in {"add", "activate", "remove"} =>
       Names(step[c].choice, step[c].cores)
  /\ \A c \in Caller : step[c].at \in {"activate", "remove"} => step[c].core \in step[c].cores
  /\ \A c \in Caller : step[c].at = "remove" => step[c].choice.active # step[c].core.id

\* But for the revived: a directory is that of one listed or coming core, which
\* is not the one that somebody clears; and one thread clears it.
DirsAreShared ==
  /\ \A k, l \in Core : Listed(k) /\ Listed(l) /\ k.dir = l.dir => k = l \/ k.dir \in revived
  /\ \A k \in Core, c \in Caller :
       Listed(k) /\ Adds(c) /\ k.dir = step[c].core.dir => k.dir \in revived
  /\ \A c, d \in Caller :
       Adds(c) /\ Adds(d) /\ step[c].core.dir = step[d].core.dir => c = d \/ step[c].core.dir \in revived
  /\ \A c, d \in Caller :
       Clears(c) /\ Clears(d) /\ step[c].core.dir = step[d].core.dir => c = d \/ step[c].core.dir \in revived
NoneGoes ==
  /\ \A k \in Core : Listed(k) /\ Goes(k.dir) => k.dir \in revived
  /\ \A c \in Caller, d \in Dir : Adds(c) /\ d = step[c].core.dir /\ Goes(d) => d \in revived
  /\ \A c \in Caller : Clears(c) /\ dirs[step[c].core.dir] = Nowhere => step[c].core.dir \in revived

RegistryInv ==
  /\ RegistryTypeOK
  /\ DirsAreMade
  /\ CopiesAreWhole
  /\ DirsAreShared
  /\ NoneGoes

USE CoresAreBounded, DirectoriesDiffer

LEMMA InvImpliesPresent == RegistryInv => RegisteredIsPresent
BY DEF RegistryInv, RegisteredIsPresent, NoneGoes, CopiesAreWhole, Names, Listed, Goes,
   RegistryTypeOK

-----------------------------------------------------------------------------
\* The records of the callers.
LEMMA StepKinds ==
  ASSUME RegistryTypeOK, NEW c \in Caller
  PROVE  /\ step[c].at \in {"ready", "staged", "load", "clear", "add", "activate", "remove"}
         /\ step[c].at = "ready" <=> step[c] = Ready
         /\ step[c].at \in {"staged", "load", "clear"} => step[c] \in Midway
         /\ step[c].at \in {"add", "activate", "remove"} => step[c] \in Holding
BY SMT DEF RegistryTypeOK, Ready, Midway, Holding

LEMMA CoreFields ==
  /\ \A r \in Midway : r.core \in Core
  /\ \A r \in Holding : r.core \in Core /\ r.cores \in SUBSET Core /\ r.choice \in Chosen
  /\ \A k \in Core : k.id \in 1 .. MaxCores /\ k.dir \in Dir
BY SMT DEF Midway, Holding, Core

LEMMA MovesTo ==
  ASSUME RegistryTypeOK, NEW c \in Caller, NEW s \in {Ready} \cup Midway \cup Holding, Moves(c, s)
  PROVE  /\ step' \in [Caller -> {Ready} \cup Midway \cup Holding]
         /\ step'[c] = s
         /\ \A d \in Caller \ {c} : step'[d] = step[d]
BY DEF RegistryTypeOK, Moves

LEMMA LoadedKind ==
  ASSUME RegistryTypeOK, NEW at \in {"add", "activate", "remove"}, NEW k \in Core
  PROVE  /\ Loaded(at, k) \in Holding
         /\ Loaded(at, k).at = at /\ Loaded(at, k).core = k
         /\ Loaded(at, k).cores = cores /\ Loaded(at, k).choice = choice
BY SMT DEF RegistryTypeOK, Loaded, Holding

LEMMA MidwayKind ==
  ASSUME NEW at \in {"staged", "load", "clear"}, NEW k \in Core
  PROVE  LET r == [at |-> at, core |-> k] IN r \in Midway /\ r.at = at /\ r.core = k
BY SMT DEF Midway

\* Directories stay and nobody adds, clears or lists more than before.
LEMMA Shrinks ==
  ASSUME RegistryTypeOK, DirsAreShared, NoneGoes,
         \A k \in Core : Listed(k)' => Listed(k),
         \A c \in Caller : Adds(c)' => Adds(c) /\ step'[c].core = step[c].core,
         \A c \in Caller : Clears(c)' => Clears(c) /\ step'[c].core = step[c].core,
         dirs' = dirs, revived' = revived
  PROVE  DirsAreShared' /\ NoneGoes'
<1>1. DirsAreShared'
  BY Zenon DEF DirsAreShared
<1>2. \A d : Goes(d)' => Goes(d)
  BY DEF Goes
<1>3. NoneGoes'
  BY <1>2, Zenon DEF NoneGoes
<1> QED
  BY <1>1, <1>3

LEMMA RegistryInitInv == RegistryInit => RegistryInv
<1> SUFFICES ASSUME RegistryInit PROVE RegistryInv
  OBVIOUS
<1>1. \A c \in Caller : step[c] = Ready /\ step[c].at = "ready"
  BY DEF RegistryInit, Ready
<1>2. RegistryTypeOK
  BY SMT DEF RegistryInit, RegistryTypeOK, Chosen, Nowhere
<1>3. /\ \A k \in Core : ~Listed(k)
      /\ \A c \in Caller : ~Adds(c) /\ ~Clears(c)
  BY <1>1 DEF RegistryInit, Listed, Holds, Adds, Clears
<1>4. DirsAreMade /\ DirsAreShared /\ NoneGoes
  BY <1>1, <1>3 DEF DirsAreMade, DirsAreShared, NoneGoes
<1>5. CopiesAreWhole
  BY <1>1 DEF RegistryInit, CopiesAreWhole, Names
<1> QED
  BY <1>2, <1>4, <1>5 DEF RegistryInv

-----------------------------------------------------------------------------
\* The steps that make no directory and clear none.
LEMMA GiveUpInv ==
  ASSUME RegistryInv, NEW c \in Caller, GiveUp(c)
  PROVE  RegistryInv'
<1>1. /\ RegistryTypeOK /\ DirsAreMade /\ CopiesAreWhole /\ DirsAreShared /\ NoneGoes
      /\ Moves(c, Ready) /\ UNCHANGED <<cores, choice, dirs, made, revived>>
  BY DEF RegistryInv, GiveUp, registry
<1>2. /\ step' \in [Caller -> {Ready} \cup Midway \cup Holding]
      /\ step'[c] = Ready /\ step'[c].at = "ready"
      /\ \A d \in Caller \ {c} : step'[d] = step[d]
  BY <1>1, MovesTo DEF Ready
<1>3. RegistryTypeOK'
  BY <1>1, <1>2 DEF RegistryTypeOK
<1>4. /\ \A k \in Core : Listed(k)' => Listed(k)
      /\ \A d \in Caller : Adds(d)' => Adds(d) /\ step'[d].core = step[d].core
      /\ \A d \in Caller : Clears(d)' => Clears(d) /\ step'[d].core = step[d].core
  BY <1>1, <1>2 DEF Listed, Holds, Adds, Clears
<1>5. DirsAreShared' /\ NoneGoes'
  BY <1>1, <1>4, Shrinks
<1>6. DirsAreMade'
  BY <1>1, <1>2, <1>4 DEF DirsAreMade
<1>7. CopiesAreWhole'
  BY <1>1, <1>2 DEF CopiesAreWhole
<1> QED
  BY <1>3, <1>5, <1>6, <1>7 DEF RegistryInv

LEMMA InstallInv ==
  ASSUME RegistryInv, NEW c \in Caller, NEW v \in Version, Install(c, v)
  PROVE  RegistryInv'
<1> DEFINE k == [id |-> made + 1, dir |-> v]
           s == [at |-> "staged", core |-> k]
<1>1. /\ RegistryTypeOK /\ DirsAreMade /\ CopiesAreWhole /\ DirsAreShared /\ NoneGoes
      /\ Moves(c, s) /\ made' = made + 1 /\ made' \in 0 .. MaxCores
      /\ UNCHANGED <<cores, choice, dirs, revived>>
  BY SMT DEF RegistryInv, RegistryTypeOK, Install, registry
<1>2. k \in Core /\ k.dir = v
  BY <1>1, SMT DEF RegistryTypeOK, Core, Dir
<1>3. s \in Midway /\ s.at = "staged" /\ s.core = k
  BY <1>2, MidwayKind
<1> HIDE DEF s, k
<1>4. /\ step' \in [Caller -> {Ready} \cup Midway \cup Holding]
      /\ step'[c] = s
      /\ \A d \in Caller \ {c} : step'[d] = step[d]
  BY <1>1, <1>3, MovesTo
<1>5. RegistryTypeOK'
  BY <1>1, <1>4 DEF RegistryTypeOK
<1>6. /\ \A l \in Core : Listed(l)' => Listed(l)
      /\ \A d \in Caller : Adds(d)' => Adds(d) /\ step'[d].core = step[d].core
      /\ \A d \in Caller : Clears(d)' => Clears(d) /\ step'[d].core = step[d].core
  BY <1>1, <1>3, <1>4 DEF Listed, Holds, Adds, Clears
<1>7. DirsAreShared' /\ NoneGoes'
  BY <1>1, <1>6, Shrinks
<1>8. 1 .. made \subseteq 1 .. made'
  BY <1>1, SMT DEF RegistryTypeOK
<1>9. DirsAreMade'
  BY <1>1, <1>2, <1>3, <1>4, <1>6, <1>8 DEF DirsAreMade
<1>10. CopiesAreWhole'
  BY <1>1, <1>3, <1>4 DEF CopiesAreWhole
<1> QED
  BY <1>5, <1>7, <1>9, <1>10 DEF RegistryInv

LEMMA LoadToAddInv ==
  ASSUME RegistryInv, NEW c \in Caller, LoadToAdd(c)
  PROVE  RegistryInv'
<1> DEFINE s == Loaded("add", step[c].core)
<1>1. /\ RegistryTypeOK /\ DirsAreMade /\ CopiesAreWhole /\ DirsAreShared /\ NoneGoes
      /\ step[c].at = "load" /\ Moves(c, s) /\ UNCHANGED <<cores, choice, dirs, made, revived>>
  BY DEF RegistryInv, LoadToAdd, registry
<1>2. /\ s \in Holding /\ s.at = "add" /\ s.core = step[c].core
      /\ s.cores = cores /\ s.choice = choice
  BY <1>1, StepKinds, CoreFields, LoadedKind
<1> HIDE DEF s
<1>3. /\ step' \in [Caller -> {Ready} \cup Midway \cup Holding]
      /\ step'[c] = s
      /\ \A d \in Caller \ {c} : step'[d] = step[d]
  BY <1>1, <1>2, MovesTo
<1>4. RegistryTypeOK'
  BY <1>1, <1>3 DEF RegistryTypeOK
<1>5. /\ \A l \in Core : Listed(l)' => Listed(l)
      /\ \A d \in Caller : Adds(d)' => Adds(d) /\ step'[d].core = step[d].core
      /\ \A d \in Caller : Clears(d)' => Clears(d) /\ step'[d].core = step[d].core
  BY <1>1, <1>2, <1>3 DEF Listed, Holds, Adds, Clears
<1>6. DirsAreShared' /\ NoneGoes'
  BY <1>1, <1>5, Shrinks
<1>7. DirsAreMade'
  BY <1>1, <1>2, <1>3, <1>5 DEF DirsAreMade
<1>8. CopiesAreWhole'
  BY <1>1, <1>2, <1>3 DEF CopiesAreWhole
<1> QED
  BY <1>4, <1>6, <1>7, <1>8 DEF RegistryInv

LEMMA ActivateInv ==
  ASSUME RegistryInv, NEW c \in Caller, NEW k \in cores, Activate(c, k)
  PROVE  RegistryInv'
<1> DEFINE s == Loaded("activate", k)
<1>1. /\ RegistryTypeOK /\ DirsAreMade /\ CopiesAreWhole /\ DirsAreShared /\ NoneGoes
      /\ step[c] = Ready /\ Moves(c, s)
      /\ UNCHANGED <<cores, choice, dirs, made, revived>>
  BY DEF RegistryInv, Activate, registry, Free
<1>2. /\ s \in Holding /\ s.at = "activate" /\ s.core = k
      /\ s.cores = cores /\ s.choice = choice
  BY <1>1, LoadedKind DEF RegistryTypeOK
<1> HIDE DEF s
<1>3. /\ step' \in [Caller -> {Ready} \cup Midway \cup Holding]
      /\ step'[c] = s
      /\ \A d \in Caller \ {c} : step'[d] = step[d]
  BY <1>1, <1>2, MovesTo
<1>4. RegistryTypeOK'
  BY <1>1, <1>3 DEF RegistryTypeOK
<1>5. /\ \A l \in Core : Listed(l)' => Listed(l)
      /\ \A d \in Caller : Adds(d)' => Adds(d) /\ step'[d].core = step[d].core
      /\ \A d \in Caller : Clears(d)' => Clears(d) /\ step'[d].core = step[d].core
  BY <1>1, <1>2, <1>3 DEF Listed, Holds, Adds, Clears
<1>6. DirsAreShared' /\ NoneGoes'
  BY <1>1, <1>5, Shrinks
<1>7. DirsAreMade'
  BY <1>1, <1>2, <1>3, <1>5 DEF DirsAreMade
<1>8. CopiesAreWhole'
  BY <1>1, <1>2, <1>3 DEF CopiesAreWhole
<1> QED
  BY <1>4, <1>6, <1>7, <1>8 DEF RegistryInv

LEMMA RemoveCoreInv ==
  ASSUME RegistryInv, NEW c \in Caller, NEW k \in cores, RemoveCore(c, k)
  PROVE  RegistryInv'
<1> DEFINE s == Loaded("remove", k)
<1>1. /\ RegistryTypeOK /\ DirsAreMade /\ CopiesAreWhole /\ DirsAreShared /\ NoneGoes
      /\ step[c] = Ready /\ choice.active # k.id /\ Moves(c, s)
      /\ UNCHANGED <<cores, choice, dirs, made, revived>>
  BY DEF RegistryInv, RemoveCore, registry, Free
<1>2. /\ s \in Holding /\ s.at = "remove" /\ s.core = k
      /\ s.cores = cores /\ s.choice = choice
  BY <1>1, LoadedKind DEF RegistryTypeOK
<1> HIDE DEF s
<1>3. /\ step' \in [Caller -> {Ready} \cup Midway \cup Holding]
      /\ step'[c] = s
      /\ \A d \in Caller \ {c} : step'[d] = step[d]
  BY <1>1, <1>2, MovesTo
<1>4. RegistryTypeOK'
  BY <1>1, <1>3 DEF RegistryTypeOK
<1>5. /\ \A l \in Core : Listed(l)' => Listed(l)
      /\ \A d \in Caller : Adds(d)' => Adds(d) /\ step'[d].core = step[d].core
      /\ \A d \in Caller : Clears(d)' => Clears(d) /\ step'[d].core = step[d].core
  BY <1>1, <1>2, <1>3 DEF Listed, Holds, Adds, Clears
<1>6. DirsAreShared' /\ NoneGoes'
  BY <1>1, <1>5, Shrinks
<1>7. DirsAreMade'
  BY <1>1, <1>2, <1>3, <1>5 DEF DirsAreMade
<1>8. CopiesAreWhole'
  BY <1>1, <1>2, <1>3 DEF CopiesAreWhole
<1> QED
  BY <1>4, <1>6, <1>7, <1>8 DEF RegistryInv

LEMMA SaveActivatedInv ==
  ASSUME RegistryInv, NEW c \in Caller, SaveActivated(c)
  PROVE  RegistryInv'
<1>1. /\ RegistryTypeOK /\ DirsAreMade /\ CopiesAreWhole /\ DirsAreShared /\ NoneGoes
      /\ step[c].at = "activate" /\ cores' = step[c].cores
      /\ choice' = Activated(step[c].choice, step[c].core.id)
      /\ Moves(c, Ready) /\ UNCHANGED <<dirs, made, revived>>
  BY DEF RegistryInv, SaveActivated
<1>2. /\ step[c].cores \in SUBSET Core /\ step[c].core \in Core /\ step[c].choice \in Chosen
      /\ step[c].core \in step[c].cores /\ Names(step[c].choice, step[c].cores)
  BY <1>1, StepKinds, CoreFields DEF CopiesAreWhole
<1>3. /\ step' \in [Caller -> {Ready} \cup Midway \cup Holding]
      /\ step'[c] = Ready /\ step'[c].at = "ready"
      /\ \A d \in Caller \ {c} : step'[d] = step[d]
  BY <1>1, MovesTo DEF Ready
<1>4. choice' \in Chosen
  BY <1>1, <1>2, CoreFields, SMT DEF Activated, Chosen
<1>5. RegistryTypeOK'
  BY <1>1, <1>2, <1>3, <1>4 DEF RegistryTypeOK
<1>6. /\ \A k \in Core : Listed(k)' => Listed(k)
      /\ \A d \in Caller : Adds(d)' => Adds(d) /\ step'[d].core = step[d].core
      /\ \A d \in Caller : Clears(d)' => Clears(d) /\ step'[d].core = step[d].core
  BY <1>1, <1>3 DEF Listed, Holds, Adds, Clears
<1>7. DirsAreShared' /\ NoneGoes'
  BY <1>1, <1>6, Shrinks
<1>8. DirsAreMade'
  BY <1>1, <1>3, <1>6 DEF DirsAreMade
<1>9. Names(choice', cores')
  BY <1>1, <1>2, SMT DEF Names, Activated, Chosen
<1>10. CopiesAreWhole'
  BY <1>1, <1>3, <1>9 DEF CopiesAreWhole
<1> QED
  BY <1>5, <1>7, <1>8, <1>10 DEF RegistryInv

LEMMA RestartDesktopInv ==
  ASSUME RegistryInv, RestartDesktop
  PROVE  RegistryInv'
<1>1. /\ RegistryTypeOK /\ DirsAreMade /\ CopiesAreWhole /\ DirsAreShared /\ NoneGoes
      /\ step' = [c \in Caller |-> Ready] /\ UNCHANGED <<cores, dirs, made, revived>>
      /\ choice' = choice \/ choice' = [choice EXCEPT !.last = choice.active]
  BY DEF RegistryInv, RestartDesktop
<1>2. \A c \in Caller : step'[c] = Ready /\ step'[c].at = "ready"
  BY <1>1 DEF Ready
<1>3. choice' \in Chosen /\ Names(choice', cores')
  BY <1>1, SMT DEF CopiesAreWhole, Names, RegistryTypeOK, Chosen
<1>4. RegistryTypeOK'
  BY <1>1, <1>3 DEF RegistryTypeOK
<1>5. /\ \A k \in Core : Listed(k)' => Listed(k)
      /\ \A d \in Caller : Adds(d)' => Adds(d) /\ step'[d].core = step[d].core
      /\ \A d \in Caller : Clears(d)' => Clears(d) /\ step'[d].core = step[d].core
  BY <1>1, <1>2 DEF Listed, Holds, Adds, Clears
<1>6. DirsAreShared' /\ NoneGoes'
  BY <1>1, <1>5, Shrinks
<1>7. DirsAreMade' /\ CopiesAreWhole'
  BY <1>1, <1>2, <1>3, <1>5 DEF DirsAreMade, CopiesAreWhole
<1> QED
  BY <1>4, <1>6, <1>7 DEF RegistryInv

-----------------------------------------------------------------------------
\* What was coming is listed.
LEMMA SaveAddedInv ==
  ASSUME RegistryInv, NEW c \in Caller, SaveAdded(c)
  PROVE  RegistryInv'
<1>1. /\ RegistryTypeOK /\ DirsAreMade /\ CopiesAreWhole /\ DirsAreShared /\ NoneGoes
      /\ step[c].at = "add" /\ cores' = step[c].cores \cup {step[c].core}
      /\ choice' = IF step[c].choice.active = 0
                   THEN [active |-> step[c].core.id, last |-> step[c].core.id] ELSE step[c].choice
      /\ Moves(c, Ready) /\ UNCHANGED <<dirs, made, revived>>
  BY DEF RegistryInv, SaveAdded
<1>2. /\ step[c].cores \in SUBSET Core /\ step[c].core \in Core /\ step[c].choice \in Chosen
      /\ Names(step[c].choice, step[c].cores)
  BY <1>1, StepKinds, CoreFields DEF CopiesAreWhole
<1>3. /\ step' \in [Caller -> {Ready} \cup Midway \cup Holding]
      /\ step'[c] = Ready /\ step'[c].at = "ready"
      /\ \A d \in Caller \ {c} : step'[d] = step[d]
  BY <1>1, MovesTo DEF Ready
<1>4. choice' \in Chosen
  BY <1>1, <1>2, CoreFields, SMT DEF Chosen
<1>5. RegistryTypeOK'
  BY <1>1, <1>2, <1>3, <1>4 DEF RegistryTypeOK
<1>6. /\ \A k \in Core : Listed(k)' => Listed(k) \/ k = step[c].core
      /\ Adds(c)
      /\ \A d \in Caller : Adds(d)' => d # c /\ Adds(d) /\ step'[d].core = step[d].core
      /\ \A d \in Caller : Clears(d)' => Clears(d) /\ step'[d].core = step[d].core
  BY <1>1, <1>3 DEF Listed, Holds, Adds, Clears
<1>7. \A d : Goes(d)' => Goes(d)
  BY <1>1, <1>6 DEF Goes
<1>8. DirsAreShared'
  BY <1>1, <1>2, <1>6, Zenon DEF DirsAreShared
<1>9. NoneGoes'
  <2>1. \A l \in Core : Listed(l)' /\ Goes(l.dir)' => l.dir \in revived'
    BY <1>1, <1>2, <1>6, <1>7, CoreFields DEF NoneGoes
  <2>2. \A d \in Caller, x \in Dir : Adds(d)' /\ x = step'[d].core.dir /\ Goes(x)' => x \in revived'
    BY <1>1, <1>6, <1>7 DEF NoneGoes
  <2>3. \A d \in Caller : Clears(d)' /\ dirs'[step'[d].core.dir] = Nowhere =>
          step'[d].core.dir \in revived'
    BY <1>1, <1>6 DEF NoneGoes
  <2> QED
    BY <2>1, <2>2, <2>3 DEF NoneGoes
<1>10. DirsAreMade'
  BY <1>1, <1>2, <1>3, <1>6 DEF DirsAreMade
<1>11. Names(choice', cores')
  BY <1>1, <1>2, SMT DEF Names, Chosen
<1>12. CopiesAreWhole'
  BY <1>1, <1>3, <1>11 DEF CopiesAreWhole
<1> QED
  BY <1>5, <1>8, <1>9, <1>10, <1>12 DEF RegistryInv

\* A directory that was gone: whatever is still listed in it is revived.
LEMMA PromoteInv ==
  ASSUME RegistryInv, NEW c \in Caller, Promote(c)
  PROVE  RegistryInv'
<1> DEFINE k == step[c].core
           s == [step[c] EXCEPT !.at = "load"]
<1>1. /\ RegistryTypeOK /\ DirsAreMade /\ CopiesAreWhole /\ DirsAreShared /\ NoneGoes
      /\ step[c].at = "staged" /\ dirs[k.dir] = Nowhere
      /\ dirs' = [dirs EXCEPT ![k.dir] = k.id]
      /\ Moves(c, s) /\ UNCHANGED <<cores, choice, made, revived>>
  BY DEF RegistryInv, Promote, registry
<1>2. /\ step[c] \in Midway /\ k \in Core
      /\ k.id \in 1 .. MaxCores /\ k.dir \in Dir /\ k.dir \in Version
  BY <1>1, StepKinds, CoreFields DEF DirsAreMade
<1>3. s \in Midway /\ s.at = "load" /\ s.core = k
  BY <1>2, SMT DEF Midway
<1>4. /\ dirs' \in [Dir -> 0 .. MaxCores]
      /\ dirs'[k.dir] # Nowhere
      /\ \A d \in Dir \ {k.dir} : dirs'[d] = dirs[d]
  BY <1>1, <1>2, SMT DEF RegistryTypeOK, Nowhere
<1> HIDE DEF s
<1>5. /\ step' \in [Caller -> {Ready} \cup Midway \cup Holding]
      /\ step'[c] = s
      /\ \A d \in Caller \ {c} : step'[d] = step[d]
  BY <1>1, <1>3, MovesTo
<1>6. RegistryTypeOK'
  BY <1>1, <1>4, <1>5 DEF RegistryTypeOK
<1>7. /\ \A l \in Core : Listed(l)' => Listed(l)
      /\ \A d \in Caller : d # c /\ Adds(d)' => Adds(d) /\ step'[d].core = step[d].core
      /\ step'[c].core = k
      /\ \A d \in Caller : Clears(d)' => Clears(d) /\ step'[d].core = step[d].core
  BY <1>1, <1>3, <1>5 DEF Listed, Holds, Adds, Clears
<1>8. /\ \A d \in Dir : Goes(d)' => Goes(d)
      /\ Goes(k.dir)
      /\ \A d \in Caller : Clears(d) => step[d].core \in Core /\ step[d].core.dir \in Dir
      /\ \A d \in Dir : d = k.dir /\ Goes(d)' => d \in revived
  BY <1>1, <1>2, <1>4, <1>7, StepKinds, CoreFields DEF Goes, NoneGoes, Clears
<1>9. \A d \in Caller : Adds(d) => step[d].core \in Core /\ step[d].core.dir \in Dir
  BY <1>1, StepKinds, CoreFields DEF Adds
<1> HIDE DEF k
<1>10. DirsAreShared'
  <2>1. \A l, m \in Core :
          Listed(l)' /\ Listed(m)' /\ l.dir = m.dir => l = m \/ l.dir \in revived'
    BY <1>1, <1>7 DEF DirsAreShared
  <2>2. \A l \in Core, d \in Caller :
          Listed(l)' /\ Adds(d)' /\ l.dir = step'[d].core.dir => l.dir \in revived'
    BY <1>1, <1>2, <1>7, <1>8, <1>9 DEF DirsAreShared, NoneGoes
  <2>3. \A d, e \in Caller :
          Adds(d)' /\ Adds(e)' /\ step'[d].core.dir = step'[e].core.dir =>
            d = e \/ step'[d].core.dir \in revived'
    BY <1>1, <1>2, <1>7, <1>8, <1>9 DEF DirsAreShared, NoneGoes
  <2>4. \A d, e \in Caller :
          Clears(d)' /\ Clears(e)' /\ step'[d].core.dir = step'[e].core.dir =>
            d = e \/ step'[d].core.dir \in revived'
    BY <1>1, <1>7 DEF DirsAreShared
  <2> QED
    BY <2>1, <2>2, <2>3, <2>4 DEF DirsAreShared
<1>11. NoneGoes'
  <2>1. \A l \in Core : Listed(l)' /\ Goes(l.dir)' => l.dir \in revived'
    BY <1>1, <1>7, <1>8, CoreFields DEF NoneGoes
  <2>2. \A d \in Caller, x \in Dir : Adds(d)' /\ x = step'[d].core.dir /\ Goes(x)' => x \in revived'
    BY <1>1, <1>7, <1>8, <1>9 DEF NoneGoes
  <2>3. \A d \in Caller : Clears(d)' /\ dirs'[step'[d].core.dir] = Nowhere =>
          step'[d].core.dir \in revived'
    BY <1>1, <1>4, <1>7, <1>8 DEF NoneGoes
  <2> QED
    BY <2>1, <2>2, <2>3 DEF NoneGoes
<1>12. DirsAreMade'
  BY <1>1, <1>2, <1>3, <1>5, <1>7 DEF DirsAreMade, k
<1>13. CopiesAreWhole'
  BY <1>1, <1>3, <1>5 DEF CopiesAreWhole
<1> QED
  BY <1>6, <1>10, <1>11, <1>12, <1>13 DEF RegistryInv

\* A directory of its own.
LEMMA LinkInv ==
  ASSUME RegistryInv, NEW c \in Caller, Link(c)
  PROVE  RegistryInv'
<1> DEFINE n == made + 1
           k == [id |-> n, dir |-> n]
           s == [at |-> "load", core |-> k]
<1>1. /\ RegistryTypeOK /\ DirsAreMade /\ CopiesAreWhole /\ DirsAreShared /\ NoneGoes
      /\ made' = n /\ n \in 1 .. MaxCores
      /\ dirs' = [dirs EXCEPT ![n] = n]
      /\ Moves(c, s) /\ UNCHANGED <<cores, choice, revived>>
  BY SMT DEF RegistryInv, RegistryTypeOK, Link, registry
<1>2. n \in Dir /\ n \notin Version \cup 1 .. made /\ 1 .. made \subseteq 1 .. made' /\ n \in 1 .. made'
  BY <1>1, SMT DEF RegistryTypeOK, Dir
<1>3. k \in Core /\ k.dir = n
  BY <1>1, <1>2, SMT DEF Core
<1>4. s \in Midway /\ s.at = "load" /\ s.core = k
  BY <1>3, MidwayKind
<1>5. /\ dirs' \in [Dir -> 0 .. MaxCores]
      /\ dirs'[n] # Nowhere
      /\ \A d \in Dir \ {n} : dirs'[d] = dirs[d]
  BY <1>1, <1>2, SMT DEF RegistryTypeOK, Nowhere
<1> HIDE DEF s, k, n
<1>6. /\ step' \in [Caller -> {Ready} \cup Midway \cup Holding]
      /\ step'[c] = s
      /\ \A d \in Caller \ {c} : step'[d] = step[d]
  BY <1>1, <1>4, MovesTo
<1>7. RegistryTypeOK'
  BY <1>1, <1>5, <1>6 DEF RegistryTypeOK
<1>8. /\ \A l \in Core : Listed(l)' => Listed(l)
      /\ \A d \in Caller : d # c /\ Adds(d)' => Adds(d) /\ step'[d].core = step[d].core
      /\ step'[c].core = k
      /\ \A d \in Caller : Clears(d)' => Clears(d) /\ step'[d].core = step[d].core
  BY <1>1, <1>4, <1>6 DEF Listed, Holds, Adds, Clears
<1>9. /\ \A l \in Core : Listed(l) => l.dir # n
      /\ \A d \in Caller : Adds(d) \/ Clears(d) => step[d].core.dir # n /\ step[d].core.dir \in Dir
  BY <1>1, <1>2, StepKinds, CoreFields DEF DirsAreMade, Adds, Clears
<1>10. \A d \in Dir : Goes(d)' => Goes(d) /\ d # n
  BY <1>5, <1>8, <1>9 DEF Goes
<1>11. DirsAreShared'
  <2>1. \A l, m \in Core :
          Listed(l)' /\ Listed(m)' /\ l.dir = m.dir => l = m \/ l.dir \in revived'
    BY <1>1, <1>8 DEF DirsAreShared
  <2>2. \A l \in Core, d \in Caller :
          Listed(l)' /\ Adds(d)' /\ l.dir = step'[d].core.dir => l.dir \in revived'
    BY <1>1, <1>3, <1>8, <1>9 DEF DirsAreShared
  <2>3. \A d, e \in Caller :
          Adds(d)' /\ Adds(e)' /\ step'[d].core.dir = step'[e].core.dir =>
            d = e \/ step'[d].core.dir \in revived'
    BY <1>1, <1>3, <1>8, <1>9 DEF DirsAreShared
  <2>4. \A d, e \in Caller :
          Clears(d)' /\ Clears(e)' /\ step'[d].core.dir = step'[e].core.dir =>
            d = e \/ step'[d].core.dir \in revived'
    BY <1>1, <1>8 DEF DirsAreShared
  <2> QED
    BY <2>1, <2>2, <2>3, <2>4 DEF DirsAreShared
<1>12. NoneGoes'
  <2>1. \A l \in Core : Listed(l)' /\ Goes(l.dir)' => l.dir \in revived'
    BY <1>1, <1>8, <1>10, CoreFields DEF NoneGoes
  <2>2. \A d \in Caller, x \in Dir : Adds(d)' /\ x = step'[d].core.dir /\ Goes(x)' => x \in revived'
    BY <1>1, <1>3, <1>8, <1>9, <1>10 DEF NoneGoes
  <2>3. \A d \in Caller : Clears(d)' /\ dirs'[step'[d].core.dir] = Nowhere =>
          step'[d].core.dir \in revived'
    BY <1>1, <1>5, <1>8, <1>9 DEF NoneGoes
  <2> QED
    BY <2>1, <2>2, <2>3 DEF NoneGoes
<1>13. DirsAreMade'
  BY <1>1, <1>2, <1>3, <1>4, <1>6, <1>8 DEF DirsAreMade
<1>14. CopiesAreWhole'
  BY <1>1, <1>4, <1>6 DEF CopiesAreWhole
<1> QED
  BY <1>7, <1>11, <1>12, <1>13, <1>14 DEF RegistryInv

-----------------------------------------------------------------------------
\* The directory of what is no longer listed goes.
LEMMA SaveRemovedInv ==
  ASSUME RegistryInv, NEW c \in Caller, SaveRemoved(c)
  PROVE  RegistryInv'
<1> DEFINE k == step[c].core
           s == [at |-> "clear", core |-> k]
<1>1. /\ RegistryTypeOK /\ DirsAreMade /\ CopiesAreWhole /\ DirsAreShared /\ NoneGoes
      /\ step[c].at = "remove" /\ cores' = step[c].cores \ {k}
      /\ choice' = WithoutLast(step[c].choice, k.id)
      /\ Moves(c, s) /\ UNCHANGED <<dirs, made>>
      /\ revived' = IF \E d \in Caller \ {c} : Holds(d, k) THEN revived \cup {k.dir} ELSE revived
  BY DEF RegistryInv, SaveRemoved
<1>2. /\ step[c].cores \in SUBSET Core /\ k \in Core /\ step[c].choice \in Chosen
      /\ k.dir \in Dir /\ k \in step[c].cores /\ Names(step[c].choice, step[c].cores)
      /\ step[c].choice.active # k.id
      /\ Holds(c, k)
  BY <1>1, StepKinds, CoreFields DEF CopiesAreWhole, Holds
<1>3. s \in Midway /\ s.at = "clear" /\ s.core = k
  BY <1>2, MidwayKind
<1>4. revived \subseteq revived' /\ revived' \subseteq Dir
  BY <1>1, <1>2 DEF RegistryTypeOK
<1>5. choice' \in Chosen /\ Names(choice', cores')
  BY <1>1, <1>2, SMT DEF Names, WithoutLast, Chosen
<1> HIDE DEF s
<1>6. /\ step' \in [Caller -> {Ready} \cup Midway \cup Holding]
      /\ step'[c] = s
      /\ \A d \in Caller \ {c} : step'[d] = step[d]
  BY <1>1, <1>3, MovesTo
<1>7. RegistryTypeOK'
  BY <1>1, <1>2, <1>4, <1>5, <1>6 DEF RegistryTypeOK
<1>8. /\ \A l \in Core : Listed(l)' => Listed(l) /\ (l = k => k.dir \in revived')
      /\ \A d \in Caller : Adds(d)' => Adds(d) /\ step'[d].core = step[d].core
      /\ \A d \in Caller : d # c /\ Clears(d)' => Clears(d) /\ step'[d].core = step[d].core
      /\ step'[c].core = k
  BY <1>1, <1>2, <1>3, <1>6 DEF Listed, Holds, Adds, Clears
<1>9. /\ \A d \in Dir : Goes(d)' => Goes(d) \/ d = k.dir
      /\ Listed(k)
      /\ \A d \in Caller : Adds(d) \/ Clears(d) => step[d].core \in Core /\ step[d].core.dir \in Dir
      /\ \A d \in Caller : Clears(d) => Goes(step[d].core.dir)
  BY <1>1, <1>2, <1>8, StepKinds, CoreFields DEF Goes, Listed, Adds, Clears
<1> HIDE DEF k
<1>10. /\ \A l \in Core : Listed(l)' /\ l.dir = k.dir => k.dir \in revived'
       /\ \A d \in Caller : Adds(d) /\ step[d].core.dir = k.dir => k.dir \in revived
       /\ \A d \in Caller : Clears(d) /\ step[d].core.dir = k.dir => k.dir \in revived
       /\ dirs[k.dir] = Nowhere => k.dir \in revived
  <2>1. \A l \in Core : Listed(l)' /\ l.dir = k.dir => k.dir \in revived'
    BY <1>1, <1>2, <1>4, <1>8, <1>9 DEF DirsAreShared
  <2>2. \A d \in Caller : Adds(d) /\ step[d].core.dir = k.dir => k.dir \in revived
    BY <1>1, <1>2, <1>9 DEF DirsAreShared
  <2>3. \A d \in Caller : Clears(d) /\ step[d].core.dir = k.dir => k.dir \in revived
    BY <1>1, <1>2, <1>9 DEF NoneGoes
  <2>4. dirs[k.dir] = Nowhere => k.dir \in revived
    BY <1>1, <1>2, <1>9 DEF NoneGoes, Goes
  <2> QED
    BY <2>1, <2>2, <2>3, <2>4
<1>11. DirsAreShared'
  <2>1. \A l, m \in Core :
          Listed(l)' /\ Listed(m)' /\ l.dir = m.dir => l = m \/ l.dir \in revived'
    BY <1>1, <1>4, <1>8 DEF DirsAreShared
  <2>2. \A l \in Core, d \in Caller :
          Listed(l)' /\ Adds(d)' /\ l.dir = step'[d].core.dir => l.dir \in revived'
    BY <1>1, <1>4, <1>8 DEF DirsAreShared
  <2>3. \A d, e \in Caller :
          Adds(d)' /\ Adds(e)' /\ step'[d].core.dir = step'[e].core.dir =>
            d = e \/ step'[d].core.dir \in revived'
    BY <1>1, <1>4, <1>8 DEF DirsAreShared
  <2>4. \A d, e \in Caller :
          Clears(d)' /\ Clears(e)' /\ step'[d].core.dir = step'[e].core.dir =>
            d = e \/ step'[d].core.dir \in revived'
    BY <1>1, <1>4, <1>8, <1>10 DEF DirsAreShared
  <2> QED
    BY <2>1, <2>2, <2>3, <2>4 DEF DirsAreShared
<1>12. NoneGoes'
  <2>1. \A l \in Core : Listed(l)' /\ Goes(l.dir)' => l.dir \in revived'
    BY <1>1, <1>4, <1>8, <1>9, <1>10, CoreFields DEF NoneGoes
  <2>2. \A d \in Caller, x \in Dir : Adds(d)' /\ x = step'[d].core.dir /\ Goes(x)' => x \in revived'
    BY <1>1, <1>4, <1>8, <1>9, <1>10 DEF NoneGoes
  <2>3. \A d \in Caller : Clears(d)' /\ dirs'[step'[d].core.dir] = Nowhere =>
          step'[d].core.dir \in revived'
    BY <1>1, <1>4, <1>8, <1>10 DEF NoneGoes
  <2> QED
    BY <2>1, <2>2, <2>3 DEF NoneGoes
<1>13. DirsAreMade'
  <2>1. k.dir \in Version \cup 1 .. made
    BY <1>1, <1>2, <1>9 DEF DirsAreMade
  <2> QED
    BY <2>1, <1>1, <1>3, <1>6, <1>8 DEF DirsAreMade
<1>14. CopiesAreWhole'
  BY <1>1, <1>3, <1>5, <1>6 DEF CopiesAreWhole
<1> QED
  BY <1>7, <1>11, <1>12, <1>13, <1>14 DEF RegistryInv

\* It is gone.
LEMMA ClearInv ==
  ASSUME RegistryInv, NEW c \in Caller, Clear(c)
  PROVE  RegistryInv'
<1> DEFINE v == step[c].core.dir
<1>1. /\ RegistryTypeOK /\ DirsAreMade /\ CopiesAreWhole /\ DirsAreShared /\ NoneGoes
      /\ step[c].at = "clear" /\ dirs' = [dirs EXCEPT ![v] = Nowhere]
      /\ Moves(c, Ready) /\ UNCHANGED <<cores, choice, made, revived>>
  BY DEF RegistryInv, Clear, registry
<1>2. Clears(c) /\ v \in Dir
  BY <1>1, StepKinds, CoreFields DEF Clears
<1>3. /\ dirs' \in [Dir -> 0 .. MaxCores]
      /\ \A d \in Dir \ {v} : dirs'[d] = dirs[d]
  BY <1>1, <1>2, SMT DEF RegistryTypeOK, Nowhere
<1>4. /\ step' \in [Caller -> {Ready} \cup Midway \cup Holding]
      /\ step'[c] = Ready /\ step'[c].at = "ready"
      /\ \A d \in Caller \ {c} : step'[d] = step[d]
  BY <1>1, MovesTo DEF Ready
<1>5. RegistryTypeOK'
  BY <1>1, <1>3, <1>4 DEF RegistryTypeOK
<1>6. /\ \A l \in Core : Listed(l)' => Listed(l)
      /\ \A d \in Caller : Adds(d)' => Adds(d) /\ step'[d].core = step[d].core
      /\ \A d \in Caller : Clears(d)' => d # c /\ Clears(d) /\ step'[d].core = step[d].core
  BY <1>1, <1>4 DEF Listed, Holds, Adds, Clears
<1>7. /\ \A d \in Dir : Goes(d)' => Goes(d)
      /\ \A d \in Caller : Clears(d) => step[d].core.dir \in Dir
  BY <1>2, <1>3, <1>6, <1>1, StepKinds, CoreFields DEF Goes, Clears
<1> HIDE DEF v
<1>8. DirsAreShared'
  BY <1>1, <1>6, Zenon DEF DirsAreShared
<1>9. NoneGoes'
  <2>1. \A l \in Core : Listed(l)' /\ Goes(l.dir)' => l.dir \in revived'
    BY <1>1, <1>6, <1>7, CoreFields DEF NoneGoes
  <2>2. \A d \in Caller, x \in Dir : Adds(d)' /\ x = step'[d].core.dir /\ Goes(x)' => x \in revived'
    BY <1>1, <1>6, <1>7 DEF NoneGoes
  <2>3. \A d \in Caller : Clears(d)' /\ dirs'[step'[d].core.dir] = Nowhere =>
          step'[d].core.dir \in revived'
    BY <1>1, <1>2, <1>3, <1>6, <1>7 DEF NoneGoes, DirsAreShared, v
  <2> QED
    BY <2>1, <2>2, <2>3 DEF NoneGoes
<1>10. DirsAreMade' /\ CopiesAreWhole'
  BY <1>1, <1>4, <1>6 DEF DirsAreMade, CopiesAreWhole
<1> QED
  BY <1>5, <1>8, <1>9, <1>10 DEF RegistryInv

LEMMA RegistryStutterInv == RegistryInv /\ UNCHANGED registryVars => RegistryInv'
<1> SUFFICES ASSUME RegistryInv, UNCHANGED registryVars PROVE RegistryInv'
  OBVIOUS
<1>1. RegistryTypeOK' /\ DirsAreMade' /\ CopiesAreWhole'
  BY DEF RegistryInv, registryVars, RegistryTypeOK, DirsAreMade, CopiesAreWhole, Listed, Holds,
     Adds, Clears
<1>2. DirsAreShared' /\ NoneGoes'
  BY Shrinks DEF RegistryInv, registryVars, Listed, Holds, Adds, Clears
<1> QED
  BY <1>1, <1>2 DEF RegistryInv

LEMMA RegistryStepInv == RegistryInv /\ [RegistryNext]_registryVars => RegistryInv'
<1> SUFFICES ASSUME RegistryInv, [RegistryNext]_registryVars PROVE RegistryInv'
  OBVIOUS
<1>1. ASSUME NEW c \in Caller, NEW v \in Version, Install(c, v) PROVE RegistryInv'
  BY <1>1, InstallInv
<1>2. ASSUME NEW c \in Caller, Promote(c) \/ LoadToAdd(c) \/ SaveAdded(c) \/ GiveUp(c)
      PROVE  RegistryInv'
  BY <1>2, PromoteInv, LoadToAddInv, SaveAddedInv, GiveUpInv
<1>3. ASSUME NEW c \in Shell, Link(c) \/ SaveActivated(c) \/ SaveRemoved(c) \/ Clear(c)
      PROVE  RegistryInv'
  BY <1>3, LinkInv, SaveActivatedInv, SaveRemovedInv, ClearInv DEF Caller
<1>4. ASSUME NEW c \in Shell, NEW k \in cores, Activate(c, k) \/ RemoveCore(c, k)
      PROVE  RegistryInv'
  BY <1>4, ActivateInv, RemoveCoreInv DEF Caller
<1>5. CASE RestartDesktop
  BY <1>5, RestartDesktopInv
<1>6. CASE UNCHANGED registryVars
  BY <1>6, RegistryStutterInv
<1> QED
  BY <1>1, <1>2, <1>3, <1>4, <1>5, <1>6 DEF RegistryNext

\* The invariant holds in every reachable state.
THEOREM RegistryInvariant == RegistrySpec => []RegistryInv
BY RegistryInitInv, RegistryStepInv, PTL DEF RegistrySpec

\* Every variable keeps its type.
THEOREM RegistryTypeCorrect == RegistrySpec => []RegistryTypeOK
<1>1. RegistryInv => RegistryTypeOK
  BY DEF RegistryInv
<1> QED
  BY <1>1, RegistryInvariant, PTL

\* The registry names nothing that is not there, whatever fails or is killed,
\* but for what one thread took from under another.
THEOREM RegisteredCoresArePresent == RegistrySpec => []RegisteredIsPresent
BY InvImpliesPresent, RegistryInvariant, PTL
===============================================================================
