------------------------------ MODULE Hydration -----------------------------
(***************************************************************************)
(* Writing a query's response into the collection.  One hydration runs at  *)
(* a time per collection: it reads which documents exist, then refreshes   *)
(* the settled ones one by one, then inserts the new ones in one commit.   *)
(***************************************************************************)
EXTENDS Backend, FiniteSets

CONSTANT MaxResponses   \* bound on the responses waiting at one time

ASSUME HydrationAssumption == MaxResponses \in Nat

VARIABLES
  responses,  \* answers to queries, on their way or waiting for their turn
  fetch       \* the one being written, or None

Rows == [Docs -> {None} \cup Content]

\* todo: documents still to refresh; fresh: documents still to insert
Fetch ==
  [ rows : Rows, seen : [Docs -> Document \cup {None}],
    todo : SUBSET Docs, fresh : SUBSET Docs ]

HydrationTypeOK == responses \subseteq Rows /\ fetch \in Fetch \cup {None}

HydrationInit == responses = {} /\ fetch = None

\* The server answers a query; the answer may be long on its way, and come
\* after one that was given later.
FetchAnswered ==
  /\ Cardinality(responses) < MaxResponses
  /\ \E d \in Docs : server[d] # None
  /\ responses' = responses \cup {server}
  /\ UNCHANGED <<fetch, localVars, serverVars>>

\* Fault: a bulk upsert.
RefreshableUnchecked(d) == Present(d)

\* Left alone: what still owes the server something.
Refreshable(d) == Present(d) /\ ~ Owes(store[d])

\* One read tells which documents exist and which are busy.
HydrateRead(rows) ==
  /\ fetch = None /\ rows \in responses
  /\ responses' = responses \ {rows}
  /\ LET Named == {d \in Docs : rows[d] # None}
         Idle  == {d \in Named : Refreshable(d)}
     IN  fetch' = [rows |-> rows, todo |-> Idle,
                   seen |-> [d \in Docs |-> IF d \in Idle THEN store[d] ELSE None],
                   fresh |-> {d \in Named : ~ Present(d)}]
  /\ UNCHANGED <<localVars, serverVars>>

HydrateDoc(d) ==
  /\ fetch # None /\ d \in fetch.todo
  /\ ApplyCanonical(d, fetch.seen[d], fetch.rows[d])
  /\ fetch' = [fetch EXCEPT !.todo = @ \ {d}]
  /\ UNCHANGED <<responses, clock, serverVars>>

\* insertMany: all of them, or an error and none.
HydrateFresh ==
  /\ fetch # None /\ fetch.todo = {}
  /\ IF \A d \in fetch.fresh : ~ Present(d)
     THEN store' = [d \in Docs |-> IF d \in fetch.fresh
                                   THEN StampSynced(fetch.rows[d]) ELSE store[d]]
     ELSE UNCHANGED store
  /\ fetch' = None
  /\ UNCHANGED <<responses, rank, clock, serverVars>>

\* The answer is lost, or writing it fails: the next one has its turn.
FetchDropped ==
  /\ \/ fetch # None /\ fetch' = None /\ UNCHANGED responses
     \/ \E rows \in responses : responses' = responses \ {rows} /\ UNCHANGED fetch
  /\ UNCHANGED <<localVars, serverVars>>

HydrationStep ==
  \/ FetchAnswered \/ HydrateFresh \/ FetchDropped
  \/ \E rows \in responses : HydrateRead(rows)
  \/ \E d \in Docs : HydrateDoc(d)

\* The hydration has read d as settled and not yet refreshed it.
HydrationOpen(d) == fetch # None /\ d \in fetch.todo

=============================================================================
