------------------------------ MODULE ProfileLock ------------------------------
(***************************************************************************)
(* The ownership lock of a managed profile directory                       *)
(* (ariadeck-engine, ProfileOwnershipLock): a file created with            *)
(* create_new that holds the process id of its owner.  Each instance is    *)
(* one AriaDeck process and acquires the lock once, as start-up does; the  *)
(* file system decides one operation at a time, and everything between two *)
(* operations interleaves with the other processes and with crashes.       *)
(* A process id is not reused while its record is on disk.                 *)
(***************************************************************************)

CONSTANTS
  Instance,         \* AriaDeck processes that use the profile
  Leftover,         \* a process that ended before, leaving its lock file
  NoFile,           \* there is no lock file
  Nobody,           \* no process id can be read from the lock file
  ExclusiveHandles  \* an open lock file can be neither read nor removed
                    \* (share_mode(0)): TRUE on Windows only

ASSUME LockAssumption ==
  /\ Leftover \notin Instance
  /\ NoFile \notin Instance \cup {Leftover}
  /\ Nobody \notin Instance \cup {Leftover}
  /\ ExclusiveHandles \in BOOLEAN

VARIABLES
  step,    \* how far each instance is with the lock
  file,    \* who created the file that is at the path
  record,  \* the process id in that file
  seen     \* the process id each instance has read from it

lockVars == <<step, file, record, seen>>

Step == {"Starting", "Exists", "Checking", "Reclaiming", "Removed", "Created",
         "Owned", "Refused", "Failed", "Closed", "Released", "Dead"}

\* process_appears_alive
Alive(p) == p \in Instance /\ step[p] # "Dead"

\* The instance has the file it created open.
HoldsUntilWritten(c) == step[c] = "Created"
Holds(c) == step[c] \in {"Created", "Owned"}

\* The file at the path is open, on a platform where that protects it.
Protected == ExclusiveHandles /\ \E c \in Instance : Holds(c) /\ file = c

At(c, s) == step' = [step EXCEPT ![c] = s]

LockInit ==
  /\ step = [c \in Instance |-> "Starting"]
  /\ file \in {NoFile, Leftover}
  /\ record \in IF file = Leftover THEN {Leftover, Nobody} ELSE {Nobody}
  /\ seen = [c \in Instance |-> Nobody]

\* create_new succeeds: the file is there, still empty.
CreateNew(c) ==
  /\ file = NoFile
  /\ file' = c
  /\ record' = Nobody
  /\ At(c, "Created")

CreateLock(c) ==
  /\ step[c] = "Starting"
  /\ \/ CreateNew(c)
     \/ file # NoFile /\ At(c, "Exists") /\ UNCHANGED <<file, record>>
     \/ At(c, "Failed") /\ UNCHANGED <<file, record>>
  /\ UNCHANGED seen

\* What a write to the open handle changes: a file that was unlinked in the
\* meantime is no longer the one at the path.
Written(c, p) == IF file = c THEN p ELSE record

\* write_lock_record.  A write that fails drops the handle and leaves the
\* file, with or without a record that can be parsed.
WriteRecord(c) ==
  /\ step[c] = "Created"
  /\ \/ At(c, "Owned") /\ record' = Written(c, c)
     \/ At(c, "Failed") /\ \E p \in {c, Nobody} : record' = Written(c, p)
  /\ UNCHANGED <<file, seen>>

\* read_to_string(path).unwrap_or_default()
ReadRecord(c) ==
  /\ step[c] = "Exists"
  /\ seen' = [seen EXCEPT ![c] = IF Protected THEN Nobody ELSE record]
  /\ At(c, "Checking")
  /\ UNCHANGED <<file, record>>

\* A live owner is respected; a dead or unreadable one is reclaimed.
RespectedIfUnreadable(p) == Alive(p) \/ p = Nobody
Respected(p) == Alive(p)

CheckOwner(c) ==
  /\ step[c] = "Checking"
  /\ At(c, IF Respected(seen[c]) THEN "Refused" ELSE "Reclaiming")
  /\ seen' = [seen EXCEPT ![c] = Nobody]
  /\ UNCHANGED <<file, record>>

\* remove_file(path) succeeds: whatever file is there now.
Unlink == file # NoFile /\ ~Protected /\ file' = NoFile /\ record' = Nobody
CannotUnlink == (file = NoFile \/ Protected) /\ UNCHANGED <<file, record>>

RemoveStale(c) ==
  /\ step[c] = "Reclaiming"
  /\ \/ Unlink /\ At(c, "Removed")
     \/ CannotUnlink /\ At(c, "Refused")
  /\ UNCHANGED seen

Recreate(c) ==
  /\ step[c] = "Removed"
  /\ \/ CreateNew(c)
     \/ file # NoFile /\ At(c, "Refused") /\ UNCHANGED <<file, record>>
  /\ UNCHANGED seen

Acquire(c) ==
  \/ CreateLock(c) \/ WriteRecord(c) \/ ReadRecord(c)
  \/ CheckOwner(c) \/ RemoveStale(c) \/ Recreate(c)

\* Drop, first half: the handle is closed.
CloseLock(c) ==
  /\ step[c] = "Owned"
  /\ At(c, "Closed")
  /\ UNCHANGED <<file, record, seen>>

\* Drop, second half: the path is removed, errors are ignored.
UnlinkLock(c) ==
  /\ step[c] = "Closed"
  /\ Unlink \/ CannotUnlink
  /\ At(c, "Released")
  /\ UNCHANGED seen

\* The process ends without running Drop, or ends after it.
Die(c) ==
  /\ Alive(c)
  /\ At(c, "Dead")
  /\ seen' = [seen EXCEPT ![c] = Nobody]
  /\ UNCHANGED <<file, record>>

LockNext ==
  \E c \in Instance : Acquire(c) \/ CloseLock(c) \/ UnlinkLock(c) \/ Die(c)

LockTypeOK ==
  /\ step \in [Instance -> Step]
  /\ file \in Instance \cup {Leftover, NoFile}
  /\ record \in Instance \cup {Leftover, Nobody}
  /\ seen \in [Instance -> Instance \cup {Leftover, Nobody}]

\* At most one instance believes that the profile is its own.  This is what
\* the comment of ProfileOwnershipLock promises on every platform.
ExclusiveOwner ==
  \A c, d \in Instance : step[c] = "Owned" /\ step[d] = "Owned" => c = d

\* The lock file at the path was written by the owner and names it, so that
\* every later contender finds a live owner: no contender, crash or late
\* Drop of a previous owner may have replaced or removed it.
OwnerIsOnRecord ==
  \A c \in Instance : step[c] = "Owned" => file = c /\ record = c

\* An instance that starts when every other one is dead gets the profile,
\* whatever they left behind at the moment they died, unless the file system
\* refuses to create or to write the file.
StaleLockIsReclaimed ==
  \A c \in Instance :
    (step[c] = "Starting" /\ \A d \in Instance \ {c} : step[d] = "Dead")
      ~> step[c] \in {"Owned", "Failed", "Dead"}
=============================================================================
