----------------------------- MODULE SavedDocument -----------------------------
(***************************************************************************)
(* What the desktop relies on of a document it keeps on disk.  A save takes *)
(* effect at once and as a whole or not at all; what is no document is set  *)
(* aside before another takes its place.                                    *)
(***************************************************************************)
CONSTANTS Writer, Value, Bad, Absent, NoValue

VARIABLES
  doc,      \* what the next reader finds
  saving,   \* the value each writer is saving
  running,  \* the desktop runs
  fragile   \* a save may lose the document: it has to be removed first

documentVars == <<doc, saving, running, fragile>>

DocumentInit ==
  /\ doc = Absent
  /\ saving = [w \in Writer |-> NoValue]
  /\ running = FALSE
  /\ fragile \in BOOLEAN

Open == running' = TRUE /\ UNCHANGED <<doc, saving, fragile>>

Begin(w, v) ==
  /\ running /\ saving[w] = NoValue
  /\ saving' = [saving EXCEPT ![w] = v]
  /\ UNCHANGED <<doc, running, fragile>>

Return(w) ==
  /\ saving[w] # NoValue
  /\ saving' = [saving EXCEPT ![w] = NoValue]
  /\ UNCHANGED <<running, fragile>>
Succeed(w) == Return(w) /\ doc' = saving[w]
Fail(w)    == Return(w) /\ UNCHANGED doc

\* The document is removed and the save not over.
Lose(w) ==
  /\ fragile /\ saving[w] # NoValue
  /\ doc' = Absent
  /\ UNCHANGED <<saving, running, fragile>>

\* Without a save: what is no document goes, and the gap is filled.
SetAside   == running /\ doc \in Bad /\ doc' = Absent /\ UNCHANGED <<saving, running, fragile>>
Initialize == running /\ doc \in Bad \cup {Absent} /\ doc' \in Value
              /\ UNCHANGED <<saving, running, fragile>>

\* The desktop ends in the middle of its saves.
Crash ==
  /\ running' = FALSE
  /\ saving' = [w \in Writer |-> NoValue]
  /\ UNCHANGED <<doc, fragile>>

\* Somebody else writes the file.
Arrive == ~running /\ doc' \in Value \cup Bad /\ UNCHANGED <<saving, running, fragile>>

DocumentNext ==
  \/ \E w \in Writer : (\E v \in Value : Begin(w, v)) \/ Succeed(w) \/ Fail(w) \/ Lose(w)
  \/ Open \/ SetAside \/ Initialize \/ Crash \/ Arrive

DocumentSpec == DocumentInit /\ [][DocumentNext]_documentVars
=============================================================================
