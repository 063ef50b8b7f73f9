----------------------------- MODULE LocalStore -----------------------------
(***************************************************************************)
(* The local collection as the query layer uses it: single-document        *)
(* operations addressed by _id, each one atomic and durable.  Everything   *)
(* between two of them is an await, where other callers run.               *)
(***************************************************************************)
EXTENDS Envelope, FiniteSets

CONSTANT Docs       \* document ids of one managed collection

ASSUME DocsAssumption == IsFiniteSet(Docs)

VARIABLES
  store,  \* the collection: the document stored under each id, or None
  rank,   \* position of each id in _changed_at order, 1 the oldest
  clock   \* how many revisions nextRevision() has given out

localVars == <<store, rank, clock>>

Synced == {StampSynced({})}

\* A session may open on a collection that already holds fetched documents.
LocalInit ==
  /\ store \in [Docs -> Synced \cup {None}]
  /\ rank \in [Docs -> 1 .. Cardinality(Docs)]
  /\ \A c, d \in Docs : rank[c] = rank[d] => c = d
  /\ clock = 0

LocalTypeOK ==
  /\ store \in [Docs -> Document \cup {None}]
  /\ rank \in [Docs -> Nat]
  /\ clock \in Nat

Present(d) == store[d] # None

\* Fault: the stamp is forgotten.
TouchForgotten(d) == UNCHANGED rank

\* The engine stamps _changed_at on every write: d becomes the youngest.
Touch(d) ==
  rank' = [x \in Docs |-> IF x = d THEN Cardinality(Docs)
                          ELSE IF rank[x] > rank[d] THEN rank[x] - 1
                          ELSE rank[x]]

\* collection.insert, where no document of that id exists
InsertOne(d, doc) ==
  /\ ~ Present(d)
  /\ store' = [store EXCEPT ![d] = doc]
  /\ Touch(d)

\* collection.updateOne({_id}, ...): a document that is gone matches nothing,
\* and the caller is not told.
UpdateOne(d, doc) ==
  IF Present(d)
  THEN store' = [store EXCEPT ![d] = doc] /\ Touch(d)
  ELSE UNCHANGED <<store, rank>>

\* collection.deleteOne({_id})
DeleteOne(d) ==
  /\ store' = [store EXCEPT ![d] = None]
  /\ UNCHANGED rank

(***************************************************************************)
(* Replace the local shape with a canonical one.  A field is unset when    *)
(* the document as it was read carried it: an _op stamped since then       *)
(* stays, on a document that is synced.                                    *)
(***************************************************************************)
Canonical(d, seen, val) ==
  [StampSynced(val) EXCEPT !.op = IF seen.op = NoOp THEN store[d].op ELSE NoOp,
                           !.routed = ~seen.routed /\ store[d].routed]

\* Read as absent, the document is inserted: an error if it is there by now.
ApplyCanonical(d, seen, val) ==
  IF seen # None THEN UpdateOne(d, Canonical(d, seen, val))
  ELSE IF Present(d) THEN UNCHANGED <<store, rank>>
  ELSE InsertOne(d, StampSynced(val))

=============================================================================
