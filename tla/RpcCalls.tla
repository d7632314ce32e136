------------------------------- MODULE RpcCalls -------------------------------
(***************************************************************************)
(* What the callers of the transport (rpc/src/client.rs) rely on.  A call   *)
(* carries one or more requests.  It ends once; only then its requests have *)
(* a result: aria2's own value or refusal, or no word from aria2, after     *)
(* which the request may have been executed, may be executed yet, or never. *)
(***************************************************************************)
EXTENDS Naturals

CONSTANTS Call, Size

Of(c)   == {c} \X (1 .. Size[c])
Request == UNION {Of(c) : c \in Call}

VARIABLES
  begun,    \* calls made
  ended,    \* calls that have returned
  executed, \* requests aria2 carried out
  refused,  \* requests it answered with an error
  told      \* what the caller knows of each request

callVars == <<begun, ended, executed, refused, told>>

Result == {"nothing", "value", "refusal", "unknown"}

CallsTypeOK ==
  /\ begun \subseteq Call
  /\ ended \subseteq begun
  /\ executed \subseteq Request
  /\ refused \subseteq Request
  /\ told \in [Request -> Result]

CallsInit ==
  /\ begun = {}
  /\ ended = {}
  /\ executed = {}
  /\ refused = {}
  /\ told = [r \in Request |-> "nothing"]

Begin(c) ==
  /\ c \notin begun
  /\ begun' = begun \cup {c}
  /\ UNCHANGED <<ended, executed, refused, told>>

\* aria2 decides on the requests of a call, once and together.
Decide(c) ==
  /\ c \in begun
  /\ Of(c) \cap (executed \cup refused) = {}
  /\ \E good \in SUBSET Of(c) :
       /\ executed' = executed \cup good
       /\ refused' = refused \cup (Of(c) \ good)
  /\ UNCHANGED <<begun, ended, told>>

\* A result is aria2's own decision or no knowledge at all.
Truth(r) == {"unknown"} \cup (IF r \in executed THEN {"value"} ELSE {})
                        \cup (IF r \in refused THEN {"refusal"} ELSE {})

End(c) ==
  /\ c \in begun \ ended
  /\ ended' = ended \cup {c}
  /\ \E t \in [Of(c) -> Result] :
       /\ \A r \in Of(c) : t[r] \in Truth(r)
       /\ told' = [r \in Request |-> IF r \in Of(c) THEN t[r] ELSE told[r]]
  /\ UNCHANGED <<begun, executed, refused>>

CallsNext == \E c \in Call : Begin(c) \/ Decide(c) \/ End(c)

CallsSpec == CallsInit /\ [][CallsNext]_callVars
=============================================================================
