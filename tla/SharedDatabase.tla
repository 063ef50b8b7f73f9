--------------------------- MODULE SharedDatabase ---------------------------
(***************************************************************************)
(* What the tabs of one origin are promised about their common database,   *)
(* abstractly: there is one, and every request takes effect on it at one   *)
(* instant between being asked and being answered ok.  A request answered  *)
(* as refused has no effect, ever; one whose outcome is unknown may take   *)
(* effect late, or never.                                                  *)
(*                                                                         *)
(* A write stays, once it took effect.  Only where durability is eventual  *)
(* may what is not yet safe be lost, and a flush makes everything safe.    *)
(***************************************************************************)
CONSTANTS Writes, Reads, Flushes     \* the requests, each made once at most

VARIABLES
  eventual,  \* whether writes are answered before they are durable
  store,     \* the writes in effect
  safe,      \* those of them that cannot be lost any more
  asked,     \* requests made
  served,    \* requests that took effect
  answer,    \* of each request
  result     \* of each read: the writes it saw

vars == <<eventual, store, safe, asked, served, answer, result>>

Requests == Writes \cup Reads \cup Flushes
Answers  == {"none", "ok", "unknown", "refused"}

Init ==
  /\ eventual \in BOOLEAN
  /\ store = {} /\ safe = {} /\ asked = {} /\ served = {}
  /\ answer = [r \in Requests |-> "none"]
  /\ result = [r \in Reads |-> {}]

\* An answer is given once, and honestly.
Honest(r) ==
  \/ answer'[r] = answer[r]
  \/ /\ answer[r] = "none" /\ r \in asked'
     /\ \/ answer'[r] = "ok" /\ r \in served'
        \/ answer'[r] = "refused" /\ r \notin served'
        \/ answer'[r] = "unknown"

Answering == \A r \in Requests : Honest(r)

Ask(r) ==
  /\ r \notin asked
  /\ asked' = asked \cup {r}
  /\ Answering
  /\ UNCHANGED <<eventual, store, safe, served, result>>

\* The requests R take effect, together.
Serve(R) ==
  /\ R \subseteq asked \ served
  /\ \A r \in R : answer[r] # "refused"
  /\ served' = served \cup R
  /\ store' = store \cup (R \cap Writes)
  /\ result' = [r \in Reads |-> IF r \in R THEN store ELSE result[r]]
  /\ safe \subseteq safe' /\ safe' \subseteq store'
  /\ ~ eventual \/ R \cap Flushes # {} => safe' = store'
  /\ Answering
  /\ UNCHANGED <<eventual, asked>>

\* The device fails; what was not safe is gone.
Lose ==
  /\ eventual
  /\ safe \subseteq store' /\ store' \subseteq store
  /\ safe \subseteq safe' /\ safe' \subseteq store'
  /\ Answering
  /\ UNCHANGED <<eventual, asked, served, result>>

Next ==
  \/ \E r \in Requests : Ask(r)
  \/ \E R \in SUBSET Requests : Serve(R)
  \/ Lose

Spec == Init /\ [][Next]_vars

=============================================================================
