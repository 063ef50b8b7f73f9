---------------------------- MODULE LocalWrites -----------------------------
(***************************************************************************)
(* Optimistic and queued mutations (writeLocal) and the decisions          *)
(* useSyncStatus offers on a failed write (retry, discard).                *)
(*                                                                         *)
(* An update, a delete and a discard read the document in one step and     *)
(* write it in another: call[w] holds what was read in between.            *)
(***************************************************************************)
EXTENDS LocalStore

CONSTANTS
  Callers,      \* writes that can be between their read and their write
  Operations,   \* the operations this instance exercises
  Routes,       \* whether a hook names a url: a set of booleans
  MaxEdits      \* bound on the number of local writes

AllOperations == {"insert", "update", "delete", "retry", "discard",
                  "immediate", "refetch"}

ASSUME WritesAssumption ==
  /\ Operations \subseteq AllOperations
  /\ Routes \subseteq BOOLEAN
  /\ MaxEdits \in Nat

VARIABLES
  call,       \* what each caller has read and is about to act on, or None
  made,       \* history: the edits committed on each document
  abandoned   \* history: the edits their user cancelled or discarded

callVars == <<call, made, abandoned>>

Call ==
  [ kind : {"update", "delete", "retry", "discard", "drop"}, doc : Docs,
    next : Ops \cup {NoOp, Cancel}, seen : Document, routed : BOOLEAN ]

WritesTypeOK ==
  /\ call \in [Callers -> Call \cup {None}]
  /\ made \in [Docs -> Content]
  /\ abandoned \in Content

WritesInit ==
  /\ call = [w \in Callers |-> None]
  /\ made = [d \in Docs |-> {}]
  /\ abandoned = {}

Finish(w) == call' = [call EXCEPT ![w] = None]

\* useMutation's insert: the pending document is stored in one step.
Insert(d, routed) ==
  LET edit == EditFor(clock + 1, "insert")
  IN  /\ "insert" \in Operations
      /\ clock < MaxEdits
      /\ InsertOne(d, StampPending("insert", clock + 1, {edit}, routed))
      /\ clock' = clock + 1
      /\ made' = [made EXCEPT ![d] = @ \cup {edit}]
      /\ UNCHANGED <<call, abandoned>>

\* writeLocal reads the document it is about to change.  A missing one is
\* an error thrown before anything happened.
FindExisting(w, d, kind, routed) ==
  /\ kind \in Operations
  /\ call[w] = None
  /\ Present(d)
  /\ call' = [call EXCEPT ![w] =
       [kind |-> kind, doc |-> d, seen |-> store[d], routed |-> routed,
        next |-> Coalesce(PendingOp(store[d]), kind)]]
  /\ UNCHANGED <<localVars, made, abandoned>>

\* Fault: the null of coalesce is not told apart.
CommittableUnchecked(w) == call[w] # None /\ call[w].kind \in {"update", "delete"}

Committable(w) ==
  call[w] # None /\ call[w].kind \in {"update", "delete"} /\ call[w].next # Cancel

\* ... and then writes: the new fields are merged into whatever is stored
\* now, the envelope is the one computed from what was read.
CommitWrite(w) ==
  LET d    == call[w].doc
      edit == EditFor(clock + 1, call[w].kind)
  IN  /\ Committable(w)
      /\ clock < MaxEdits
      /\ UpdateOne(d, StampPending(call[w].next, clock + 1,
                                   store[d].val \cup {edit}, call[w].routed))
      /\ clock' = clock + 1
      /\ made' = IF Present(d) THEN [made EXCEPT ![d] = @ \cup {edit}] ELSE made
      /\ Finish(w)
      /\ UNCHANGED abandoned

\* A delete of a document whose insert is still queued removes it outright.
CancelInsert(w) ==
  /\ call[w] # None
  /\ call[w].kind = "delete" /\ call[w].next = Cancel
  /\ DeleteOne(call[w].doc)
  /\ abandoned' = abandoned \cup call[w].seen.val
  /\ Finish(w)
  /\ UNCHANGED <<clock, made>>

(***************************************************************************)
(* useSyncStatus: the user decides on an id of the list of failed writes.  *)
(* The list trails the store, so the decision may find another document    *)
(* than the one the user saw.                                              *)
(***************************************************************************)
Decide(w, d, kind) ==
  /\ kind \in Operations
  /\ call[w] = None
  /\ Present(d) /\ store[d].sync = "failed"
  /\ call' = [call EXCEPT ![w] =
       [kind |-> kind, doc |-> d, seen |-> store[d], routed |-> FALSE, next |-> NoOp]]
  /\ UNCHANGED <<localVars, made, abandoned>>

\* retry: the write is queued again, due at once.
Retry(w) ==
  LET d == call[w].doc
  IN  /\ call[w] # None /\ call[w].kind = "retry"
      /\ UpdateOne(d, [store[d] EXCEPT !.sync = "pending", !.due = TRUE])
      /\ Finish(w)
      /\ UNCHANGED <<clock, made, abandoned>>

\* discard reads the document ...
FindDiscarded(w) ==
  LET d == call[w].doc
  IN  /\ call[w] # None /\ call[w].kind = "discard"
      /\ IF Present(d)
         THEN call' = [call EXCEPT ![w] =
                [@ EXCEPT !.kind = "drop", !.seen = store[d],
                          !.next = IF store[d].op = "insert" THEN Cancel ELSE NoOp]]
         ELSE Finish(w)
      /\ UNCHANGED <<localVars, made, abandoned>>

\* ... and drops its write: an insert with its document, anything else by
\* settling the document as it stands.
Discard(w) ==
  LET d == call[w].doc
  IN  /\ call[w] # None /\ call[w].kind = "drop"
      /\ IF call[w].next = Cancel
         THEN DeleteOne(d)
         ELSE UpdateOne(d, [store[d] EXCEPT !.sync = "synced", !.op = NoOp,
                                            !.due = TRUE])
      /\ abandoned' = abandoned \cup call[w].seen.val
      /\ Finish(w)
      /\ UNCHANGED <<clock, made>>

\* The page goes away between the read and the write.
CallerGone(w) ==
  /\ call[w] # None
  /\ Finish(w)
  /\ UNCHANGED <<localVars, made, abandoned>>

LocalWriteStep ==
  \/ \E d \in Docs, routed \in Routes : Insert(d, routed)
  \/ \E w \in Callers, d \in Docs, kind \in {"update", "delete"}, routed \in Routes :
        FindExisting(w, d, kind, routed)
  \/ \E w \in Callers, d \in Docs, kind \in {"retry", "discard"} : Decide(w, d, kind)
  \/ \E w \in Callers :
       \/ CommitWrite(w) \/ CancelInsert(w)
       \/ Retry(w) \/ FindDiscarded(w) \/ Discard(w)
       \/ CallerGone(w)

=============================================================================
