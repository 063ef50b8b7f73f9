----------------------------- MODULE WriteQueue -----------------------------
(***************************************************************************)
(* The write path of the query layer put together: local writes, immediate *)
(* writes, the drain loop, hydration, and the backend they talk to, all    *)
(* over one collection.                                                    *)
(***************************************************************************)
EXTENDS DirectWrites, Drain, Hydration

CONSTANT Answerable   \* documents whose writes get an answer (for progress only)

ASSUME AnswerableAssumption == Answerable \subseteq Docs

VARIABLE raced  \* history: edits committed inside another actor's window

vars == <<localVars, serverVars, callVars, direct, drainVars, responses, fetch, raced>>

Init ==
  /\ LocalInit /\ BackendInit /\ WritesInit /\ DirectInit
  /\ DrainInit /\ HydrationInit
  /\ raced = {}

(***************************************************************************)
(* Between reading a document and writing it back, an actor has a window   *)
(* open on it, and no write of the collection is conditional on what was   *)
(* read.  AtRisk(d, e) lists the windows that can undo an edit e committed *)
(* inside them; two overlapping updates, for instance, do not.             *)
(***************************************************************************)
AtRisk(d, e) ==
  \/ DrainOpen(d) \/ HydrationOpen(d) \/ DirectOpen(d)
  \/ \E w \in Callers :
       /\ call[w] # None /\ call[w].doc = d
       /\ \/ call[w].kind = "drop" \/ call[w].next = Cancel
          \/ e.kind = "delete" /\ call[w].kind = "update" /\ call[w].next # "delete"

NewEdits(d) == made'[d] \ made[d]

RecordRaces ==
  raced' = raced \cup UNION {{e \in NewEdits(d) : AtRisk(d, e)'} : d \in Docs}

Writes ==
  LocalWriteStep /\ UNCHANGED <<serverVars, direct, drainVars, responses, fetch>> /\ RecordRaces

Directs == DirectStep /\ UNCHANGED <<drainVars, responses, fetch>> /\ RecordRaces

Drains == DrainStep /\ UNCHANGED <<callVars, direct, responses, fetch>> /\ RecordRaces

Strays ==
  /\ \E d \in Docs : StrayArrives(d)
  /\ UNCHANGED <<callVars, direct, drainVars, responses, fetch>>
  /\ RecordRaces

Hydrates ==
  /\ "refetch" \in Operations
  /\ HydrationStep
  /\ UNCHANGED <<callVars, direct, drainVars>>
  /\ RecordRaces

Next == Writes \/ Directs \/ Drains \/ Strays \/ Hydrates

Spec == Init /\ [][Next]_vars

(***************************************************************************)
(* Types.                                                                  *)
(***************************************************************************)
TypeOK ==
  /\ LocalTypeOK /\ BackendTypeOK /\ WritesTypeOK /\ DirectTypeOK
  /\ DrainTypeOK /\ HydrationTypeOK
  /\ raced \in Content

(***************************************************************************)
(* An edit is queued while its document owes it to the server: a delete    *)
(* is owed by a tombstone only.                                            *)
(***************************************************************************)
Queued(d, e) ==
  /\ Present(d) /\ Owes(store[d])
  /\ e \in store[d].val
  /\ e.kind = "delete" => store[d].op = "delete"

\* No write is lost in silence: an edit the user saw committed is queued
\* until the server has taken it, unless the user gave it up or it fell into
\* the window between another actor's read and write of the same document.
\* Reloads, retries, lost replies, refetches and tab changes lose nothing.
NoSilentLoss ==
  \A d \in Docs : \A e \in made[d] :
    Queued(d, e) \/ e \in accepted \/ e \in abandoned \/ e \in raced

\* The optimism is honest: whatever content a document shows was either
\* written on this device or confirmed by the server, whichever way of
\* writing brought it here and however it failed.  The server has to upsert
\* where immediate writes are made: the 409 of a strict one counts as done
\* (sendThenStore), and what it did not take would be shown.
ShownIsAccountedFor ==
  \A d \in Docs : Present(d) => store[d].val \subseteq made[d] \cup accepted

\* Once the queue has let go of a document this device wrote, and nothing of
\* it was given up or fell into a window, the device and the server agree on
\* it: the same content, or gone from both.
Converged ==
  \A d \in Docs :
    /\ made[d] # {} /\ made[d] \cap (abandoned \cup raced) = {}
    /\ Present(d) => store[d].sync = "synced"
    => server[d] = IF Present(d) THEN store[d].val ELSE None

\* Writes of one document reach the server in the order they were made: it
\* never takes one older than the one it took last.  One request at a time
\* per document is what makes this so.
PerDocumentOrder == [][\A d \in Docs : served'[d] >= served[d]]_vars

(***************************************************************************)
(* Progress.  The drain is asked for again and again (a timer, a trigger,  *)
(* the next write), no fetch hangs for ever, and time passes.  A page that *)
(* reloads again and again stays long enough some time, and the server     *)
(* gives some definite answer to a write of an Answerable document that is *)
(* sent again and again.  Users owe nothing.                               *)
(***************************************************************************)
Drained(A) == A /\ UNCHANGED <<callVars, direct, responses, fetch>> /\ RecordRaces

\* Anything but "try again later".
Answered(t, d) == req[t][d] # None /\ req[t][d].outcome # "retry"

Advances(t, d) == Received(t, d) \/ Refused(t, d, "retry") \/ Check(t, d)

Ends(t, d) == TransportFailure(t, d) \/ Settle(t, d)

Fairness ==
  /\ \A t \in Tabs :
       /\ SF_vars(Drained(Begin(t)))
       /\ SF_vars(Drained(Select(t)))
       /\ WF_vars(Drained(End(t)))
       /\ \A d \in Docs :
            /\ WF_vars(Drained(Advances(t, d) \/ Ends(t, d)))
            /\ SF_vars(Drained(Ends(t, d)))
       /\ \A d \in Answerable :
            /\ SF_vars(Drained(Received(t, d)))
            /\ SF_vars(Drained(Answered(t, d) /\ Check(t, d)))
            /\ SF_vars(Drained(Answered(t, d) /\ Settle(t, d)))
  /\ \A d \in Docs : WF_vars(Drained(BackoffElapses(d)))

FairSpec == Spec /\ Fairness

\* A queued write that has a route does not stay queued for ever: it is
\* confirmed, or parked as failed.  Other documents do not keep it waiting,
\* not even one whose every attempt fails and is tried again.
QueueDrains ==
  \A d \in Answerable :
    (Present(d) /\ store[d].sync = "pending" /\ store[d].routed)
      ~> ~(Present(d) /\ store[d].sync = "pending" /\ store[d].routed)

=============================================================================
