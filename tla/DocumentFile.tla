------------------------------ MODULE DocumentFile ------------------------------
(***************************************************************************)
(* How a document gets to disk and is read back when the desktop starts:    *)
(*   settings  settings.json (ariadeck-settings/src/lib.rs)                 *)
(*   catalog   profiles.json (ariadeck-engine/src/lib.rs)                   *)
(*   bag       environment.json of a profile (profile_env.rs)               *)
(*   registry  the core registry (ariadeck-engine/src/cores.rs)             *)
(*   session   aria2's session file, which the engine host checks           *)
(* Every call on the file system may fail, and the desktop may be killed    *)
(* between any two.                                                         *)
(*                                                                          *)
(* Bounds: saves of a bag or of the registry, whose temporary file has a    *)
(* fixed name, do not overlap; the machine does not lose its power.         *)
(***************************************************************************)
EXTENDS Naturals, FiniteSets

CONSTANTS
  Writer,   \* threads that save
  Starter,  \* the one that reads, and saves defaults, at the start
  Value,    \* the documents
  Default,  \* the one a start makes up; for the session an empty file
  Bad,      \* contents that are no document
  Absent,   \* there is no file
  NoValue   \* nothing is being saved

ASSUME StarterWrites == Starter \in Writer
ASSUME DefaultIsAValue == Default \in Value
ASSUME ContentsDiffer ==
  Value \cap Bad = {} /\ Absent \notin Value \cup Bad /\ NoValue \notin Value

Torn == "torn"
ASSUME TornIsNoDocument == Torn \notin Value \cup Bad \cup {Absent}

VARIABLES
  kind,    \* which document
  windows, \* a rename may be refused while the target is open elsewhere
  path,    \* the file
  temp,    \* the temporary file of each writer
  aside,   \* what the backup files hold
  stage,   \* where each writer is
  goal,    \* what it saves
  start,   \* where the start of the desktop is
  spoilt   \* history: damaged contents that nobody has been told are given up

fileVars == <<kind, windows, path, temp, aside, stage, goal, start, spoilt>>

Kind      == {"settings", "catalog", "bag", "registry", "session"}
Recovered == {"settings", "catalog", "session"}  \* the damaged file is moved away
FixedTemp == {"bag", "registry"}
Content   == Value \cup Bad \cup {Absent}

FileTypeOK ==
  /\ kind \in Kind
  /\ windows \in BOOLEAN
  /\ path \in Content
  /\ temp \in [Writer -> Value \cup {Absent, Torn}]
  /\ aside \subseteq Bad
  /\ stage \in [Writer -> {"idle", "create", "write", "replace", "retry"}]
  /\ goal \in [Writer -> Value \cup {NoValue}]
  /\ start \in {"off", "read", "preserved", "copied", "saving", "on", "blind"}
  /\ spoilt \subseteq Bad

FileInit ==
  /\ kind \in Kind
  /\ windows \in BOOLEAN
  /\ path = Absent
  /\ temp = [w \in Writer |-> Absent]
  /\ aside = {}
  /\ stage = [w \in Writer |-> "idle"]
  /\ goal = [w \in Writer |-> NoValue]
  /\ start = "off"
  /\ spoilt = {}

-----------------------------------------------------------------------------
\* save, save_catalog, ProfileEnvironmentStore::save, atomic_write.
fixed == <<kind, windows>>
found == <<aside, spoilt>>

StartsSaving(w, v) ==
  /\ stage' = [stage EXCEPT ![w] = "create"]
  /\ goal' = [goal EXCEPT ![w] = v]

\* A desktop that could not read its settings has no worker to save them, but
\* a profile switch still does; the catalog and the bag are saved as ever; the
\* registry is loaded again before every change.
BeginSave(w, v) ==
  /\ start \in {"on", "blind"} /\ kind # "session"
  /\ stage[w] = "idle"
  /\ kind \in FixedTemp => \A u \in Writer : stage[u] = "idle"
  /\ kind = "registry" => path \notin Bad
  /\ StartsSaving(w, v)
  /\ spoilt' = IF start = "blind" THEN {} ELSE spoilt
  /\ UNCHANGED <<fixed, path, temp, aside, start>>

CreateInPlace(w) ==
  /\ stage[w] = "create"
  /\ path' = Torn
  /\ stage' = [stage EXCEPT ![w] = "write"]
  /\ UNCHANGED <<fixed, temp, found, goal, start>>
CreateTemp(w) ==
  /\ stage[w] = "create"
  /\ temp' = [temp EXCEPT ![w] = Torn]
  /\ stage' = [stage EXCEPT ![w] = "write"]
  /\ UNCHANGED <<fixed, path, found, goal, start>>

\* write_all, flush, sync_all
WriteTemp(w) ==
  /\ stage[w] = "write"
  /\ temp' = [temp EXCEPT ![w] = goal[w]]
  /\ stage' = [stage EXCEPT ![w] = "replace"]
  /\ UNCHANGED <<fixed, path, found, goal, start>>

Returns(w, after) ==
  /\ stage' = [stage EXCEPT ![w] = "idle"]
  /\ goal' = [goal EXCEPT ![w] = NoValue]
  /\ temp' = [temp EXCEPT ![w] = Absent]
  /\ start' = IF start = "saving" THEN after ELSE start
  /\ UNCHANGED <<fixed, found>>

\* replace_file, or a plain rename.
Replace(w) ==
  /\ stage[w] \in {"replace", "retry"}
  /\ path' = temp[w]
  /\ Returns(w, "on")

\* On Windows settings.json and profiles.json are removed when they cannot be
\* replaced.
RemoveTarget(w) ==
  /\ stage[w] = "replace"
  /\ windows /\ kind \in {"settings", "catalog"} /\ path # Absent
  /\ path' = Absent
  /\ stage' = [stage EXCEPT ![w] = "retry"]
  /\ UNCHANGED <<fixed, temp, found, goal, start>>

\* Any call fails: the temporary file is removed and the error returned.
SaveFails(w) ==
  /\ stage[w] # "idle"
  /\ UNCHANGED path
  /\ Returns(w, "blind")

-----------------------------------------------------------------------------
\* load_or_initialize, load_catalog_or_recover, ProfileEnvironmentStore::
\* load_or_initialize, load_or_default, prepare_session_file.
writers == <<temp, stage, goal>>

Launch ==
  /\ start = "off"
  /\ start' = "read"
  /\ UNCHANGED <<fixed, path, writers, found>>

ReadGood ==
  /\ start = "read" /\ path \in Value
  /\ start' = "on"
  /\ UNCHANGED <<fixed, path, writers, found>>

ReadNothing ==
  /\ start = "read" /\ path = Absent
  /\ IF kind \in {"settings", "catalog", "bag"}
     THEN start' = "saving" /\ StartsSaving(Starter, Default) /\ UNCHANGED path
     ELSE /\ start' = "on"
          /\ path' = IF kind = "session" THEN Default ELSE path
          /\ UNCHANGED <<stage, goal>>
  /\ UNCHANGED <<fixed, temp, found>>

\* A bag or a registry that is no document is left alone; so is a file that
\* cannot be moved away.  The desktop reports it and runs without.
ReadUnusable ==
  /\ start = "read" /\ path \in Bad /\ kind # "session"
  /\ start' = "blind"
  /\ UNCHANGED <<fixed, path, writers, found>>

Forget == path' = Absent /\ UNCHANGED aside
PutAside == path' = Absent /\ aside' = aside \cup {path}

\* preserve_corrupt_document, backup_corrupt_file: a rename.
Preserve ==
  /\ start = "read" /\ path \in Bad /\ kind \in Recovered
  /\ PutAside
  /\ start' = "preserved"
  /\ UNCHANGED <<fixed, writers, spoilt>>

\* preserve_corrupt_document_bytes when the rename fails: a copy, and then the
\* file is removed as far as that goes.
PreserveCopy ==
  /\ start = "read" /\ path \in Bad /\ kind = "catalog"
  /\ aside' = aside \cup {path}
  /\ start' = "copied"
  /\ UNCHANGED <<fixed, path, writers, spoilt>>
RemoveCopied ==
  /\ start = "copied"
  /\ path' \in {path, Absent}
  /\ start' = "preserved"
  /\ UNCHANGED <<fixed, writers, found>>

SaveDefaults ==
  /\ start = "preserved"
  /\ IF kind = "session"
     THEN start' = "on" /\ path' = Default /\ UNCHANGED <<stage, goal>>
     ELSE start' = "saving" /\ StartsSaving(Starter, Default) /\ UNCHANGED path
  /\ UNCHANGED <<fixed, temp, found>>

\* An error of any of these, or the end of the desktop at any point.
End ==
  /\ start # "off"
  /\ start' = "off"
  /\ stage' = [w \in Writer |-> "idle"]
  /\ goal' = [w \in Writer |-> NoValue]
  /\ temp' = [w \in Writer |-> Absent]
  /\ UNCHANGED <<fixed, path, found>>

\* While the desktop is away somebody else writes the file: aria2 its session,
\* or a damaged one takes its place, each content once.
Arrives(c) ==
  /\ start = "off" /\ path \notin Bad /\ c \notin spoilt \cup aside
  /\ path' = c
  /\ spoilt' = spoilt \cup ({c} \cap Bad)
  /\ UNCHANGED <<fixed, writers, aside, start>>

FileNext ==
  \/ \E w \in Writer : \/ \E v \in Value : BeginSave(w, v)
                       \/ CreateTemp(w) \/ WriteTemp(w) \/ Replace(w)
                       \/ RemoveTarget(w) \/ SaveFails(w)
  \/ Launch \/ ReadGood \/ ReadNothing \/ ReadUnusable
  \/ Preserve \/ PreserveCopy \/ RemoveCopied \/ SaveDefaults \/ End
  \/ \E c \in Value \cup Bad : Arrives(c)

FileSpec == FileInit /\ [][FileNext]_fileVars
-----------------------------------------------------------------------------
Saved == INSTANCE SavedDocument WITH
  doc <- path, saving <- goal, running <- start # "off",
  fragile <- windows /\ kind \in {"settings", "catalog"}

\* A document on disk is changed by whole saves only, wherever the desktop is
\* killed and whatever call fails; a save that reports an error has changed
\* nothing, but for the fallback of Windows, which may lose the document.
RefinesDocument == Saved!DocumentSpec

\* The damaged content a start resets is in a backup before anything takes its
\* place, so that a crash in between leaves it for the next start or the user;
\* only a desktop that has reported that it could not read the file replaces
\* it without one.
OriginalIsPreserved == \A b \in spoilt : path = b \/ b \in aside
=============================================================================
