------------------------------ MODULE CoreRegistry ------------------------------
(***************************************************************************)
(* The aria2 executables the desktop manages (ariadeck-engine/src/cores.rs): *)
(* a directory with a manifest for each, and cores.json, which lists them    *)
(* and names the active one and the last that worked.  Every operation       *)
(* reads cores.json, changes its copy and writes it whole; nothing excludes  *)
(* the UI thread, which carries out the user's commands, from the worker     *)
(* that installs a download, and the desktop may end between any two steps.  *)
(*                                                                           *)
(* A core is the number of its installation and its directory: that of its   *)
(* version, or for a linked one a directory of its own, which is called by   *)
(* that number.  How cores.json gets to disk is module DocumentFile.         *)
(***************************************************************************)
EXTENDS Naturals

CONSTANTS
  Version,  \* of aria2, which is also the directory of an installation
  Shell,    \* threads that carry out the user's commands
  Worker,   \* threads that install downloads
  MaxCores  \* bound: installations and links made

ASSUME CoresAreBounded == MaxCores \in Nat
ASSUME DirectoriesDiffer == Version \cap (1 .. MaxCores) = {}

VARIABLES
  cores,  \* installations of cores.json
  choice, \* its active_id and last_working_id
  dirs,   \* the manifest in each directory
  step,   \* where each caller is in its operation
  made,   \* installations and links made
  revived \* history: directories a caller removed while another held a copy with them

registryVars == <<cores, choice, dirs, step, made, revived>>

Caller  == Shell \cup Worker
Dir     == Version \cup 1 .. MaxCores
Core    == [id : 1 .. MaxCores, dir : Dir]
Chosen == [active : 0 .. MaxCores, last : 0 .. MaxCores]  \* 0: None
Nowhere == 0

Ready   == [at |-> "ready"]
Midway  == [at : {"staged", "load", "clear"}, core : Core]
Holding == [at : {"add", "activate", "remove"}, core : Core,
            cores : SUBSET Core, choice : Chosen]  \* with the copy it has read

RegistryTypeOK ==
  /\ cores \subseteq Core
  /\ choice \in Chosen
  /\ dirs \in [Dir -> 0 .. MaxCores]
  /\ step \in [Caller -> {Ready} \cup Midway \cup Holding]
  /\ made \in 0 .. MaxCores
  /\ revived \subseteq Dir

RegistryInit ==
  /\ cores = {}
  /\ choice = [active |-> 0, last |-> 0]
  /\ dirs = [d \in Dir |-> Nowhere]
  /\ step = [c \in Caller |-> Ready]
  /\ made = 0
  /\ revived = {}

-----------------------------------------------------------------------------
registry == <<cores, choice>>

Moves(c, s) == step' = [step EXCEPT ![c] = s]
Free(c)    == step[c] = Ready
Loaded(at, core) == [at |-> at, core |-> core, cores |-> cores, choice |-> choice]

\* Any call fails: what was done stays done, but for the staging directory.
GiveUp(c) ==
  /\ ~Free(c)
  /\ Moves(c, Ready)
  /\ UNCHANGED <<registry, dirs, made, revived>>

\* install_executable, up to the promotion of the staging directory.
Install(c, v) ==
  /\ Free(c) /\ made < MaxCores
  /\ dirs[v] = Nowhere
  /\ made' = made + 1
  /\ Moves(c, [at |-> "staged", core |-> [id |-> made', dir |-> v]])
  /\ UNCHANGED <<registry, dirs, revived>>
\* A directory that is not empty is not replaced: the rename fails.
Promote(c) ==
  /\ step[c].at = "staged"
  /\ dirs[step[c].core.dir] = Nowhere
  /\ dirs' = [dirs EXCEPT ![step[c].core.dir] = step[c].core.id]
  /\ Moves(c, [step[c] EXCEPT !.at = "load"])
  /\ UNCHANGED <<registry, made, revived>>

\* link_executable
Link(c) ==
  /\ Free(c) /\ made < MaxCores
  /\ made' = made + 1
  /\ dirs' = [dirs EXCEPT ![made'] = made']
  /\ Moves(c, [at |-> "load", core |-> [id |-> made', dir |-> made']])
  /\ UNCHANGED <<registry, revived>>

LoadToAdd(c) ==
  /\ step[c].at = "load"
  /\ Moves(c, Loaded("add", step[c].core))
  /\ UNCHANGED <<registry, dirs, made, revived>>
SaveAdded(c) ==
  LET s == step[c] IN
  /\ s.at = "add"
  /\ cores' = s.cores \cup {s.core}
  /\ choice' = IF s.choice.active = 0
               THEN [active |-> s.core.id, last |-> s.core.id] ELSE s.choice
  /\ Moves(c, Ready)
  /\ UNCHANGED <<dirs, made, revived>>

\* activate, and rollback_to_last_working when k is last: the core must be in
\* the registry and pass verify, which reads its manifest.
Activate(c, k) ==
  /\ Free(c) /\ k \in cores
  /\ dirs[k.dir] # Nowhere
  /\ Moves(c, Loaded("activate", k))
  /\ UNCHANGED <<registry, dirs, made, revived>>
Activated(ch, id) ==
  [active |-> id, last |-> IF ch.active \notin {0, id} THEN ch.active
                           ELSE IF ch.last = 0 THEN id ELSE ch.last]
SaveActivated(c) ==
  LET s == step[c] IN
  /\ s.at = "activate"
  /\ cores' = s.cores
  /\ choice' = Activated(s.choice, s.core.id)
  /\ Moves(c, Ready)
  /\ UNCHANGED <<dirs, made, revived>>

\* remove
RemoveCore(c, k) ==
  /\ Free(c) /\ k \in cores
  /\ choice.active # k.id
  /\ Moves(c, Loaded("remove", k))
  /\ UNCHANGED <<registry, dirs, made, revived>>
KeepLast(ch, id)  == ch
WithoutLast(ch, id) == IF ch.last = id THEN [ch EXCEPT !.last = ch.active] ELSE ch
Holds(c, k) == step[c].at \in {"add", "activate", "remove"} /\ k \in step[c].cores
SaveRemoved(c) ==
  LET s == step[c] IN
  /\ s.at = "remove"
  /\ cores' = s.cores \ {s.core}
  /\ choice' = WithoutLast(s.choice, s.core.id)
  /\ Moves(c, [at |-> "clear", core |-> s.core])
  /\ revived' = IF \E d \in Caller \ {c} : Holds(d, s.core)
                THEN revived \cup {s.core.dir} ELSE revived
  /\ UNCHANGED <<dirs, made>>
\* Its directory, as far as that goes.
Clear(c) ==
  /\ step[c].at = "clear"
  /\ dirs' = [dirs EXCEPT ![step[c].core.dir] = Nowhere]
  /\ Moves(c, Ready)
  /\ UNCHANGED <<registry, made, revived>>

\* The desktop ends; when it starts again, and aria2 with it, the active core
\* becomes the last that worked (mark_active_as_last_working).
RestartDesktop ==
  /\ step' = [c \in Caller |-> Ready]
  /\ \/ UNCHANGED choice
     \/ choice' = [choice EXCEPT !.last = choice.active]
  /\ UNCHANGED <<cores, dirs, made, revived>>

RegistryNext ==
  \/ \E c \in Caller :
       \/ \E v \in Version : Install(c, v)
       \/ Promote(c) \/ LoadToAdd(c) \/ SaveAdded(c) \/ GiveUp(c)
  \/ \E c \in Shell :
       \/ Link(c)
       \/ \E k \in cores : Activate(c, k) \/ RemoveCore(c, k)
       \/ SaveActivated(c) \/ SaveRemoved(c) \/ Clear(c)
  \/ RestartDesktop

RegistrySpec == RegistryInit /\ [][RegistryNext]_registryVars

-----------------------------------------------------------------------------
\* Wherever an operation fails or the desktop ends, cores.json names no core
\* whose directory is gone, and the active core and the last that worked are
\* in it; only a core that one thread removed between the read and the write
\* of another may come back without its directory.
RegisteredIsPresent ==
  /\ \A k \in cores : dirs[k.dir] = Nowhere => k.dir \in revived
  /\ {choice.active, choice.last} \subseteq {k.id : k \in cores} \cup {0}
=============================================================================
