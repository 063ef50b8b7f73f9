------------------------------ MODULE Envelope ------------------------------
(***************************************************************************)
(* The sync envelope: the fields the query layer keeps on every document   *)
(* it manages, and the pure functions that stamp and fold them.            *)
(*                                                                         *)
(* A document's application fields are abstracted to its content, the set  *)
(* of edits it carries: merging a partial update adds an edit, replacing   *)
(* the document by a server body takes the edits of that body.             *)
(***************************************************************************)
EXTENDS Naturals

CONSTANT None       \* no document, no server row, no response body, no call

Ops    == {"insert", "update", "delete"}
NoOp   == "none"    \* _op unset or null
Cancel == "cancel"  \* coalesce's null: the write cancels what was pending

\* One local write. n is the number nextRevision() gave it.
Edit    == [n : Nat, kind : {"write", "delete"}]
Content == SUBSET Edit

Document ==
  [ sync   : {"synced", "pending", "failed"},   \* _sync
    op     : Ops \cup {NoOp},                   \* _op
    rev    : Nat,                               \* _revision, 0 for null
    val    : Content,                           \* the application's fields
    due    : BOOLEAN,                           \* _retry_at <= now
    routed : BOOLEAN ]                          \* _endpoint is stamped

\* The document type has a value to spare for "there is no such document".
ASSUME NoneAssumption == None \notin Document

EditFor(n, op) == [n |-> n, kind |-> IF op = "delete" THEN "delete" ELSE "write"]

(***************************************************************************)
(* Stamps.                                                                 *)
(***************************************************************************)
StampSynced(val) ==
  [sync |-> "synced", op |-> NoOp, rev |-> 0, val |-> val,
   due |-> TRUE, routed |-> FALSE]

StampPending(op, rev, val, routed) ==
  [sync |-> "pending", op |-> op, rev |-> rev, val |-> val,
   due |-> TRUE, routed |-> routed]

\* What a document still owes the server: a settled one owes nothing,
\* whatever _op was left behind on it.
Owes(doc) == doc.sync \in {"pending", "failed"}

PendingOp(doc) == IF Owes(doc) THEN doc.op ELSE NoOp

(***************************************************************************)
(* Fold a new write into the one already pending: at most one operation is *)
(* pending per document.                                                   *)
(***************************************************************************)
Coalesce(pending, next) ==
  CASE pending = NoOp     -> next
    [] pending = "insert" -> IF next = "delete" THEN Cancel ELSE "insert"
    [] pending = "update" -> IF next = "delete" THEN "delete" ELSE "update"
    [] pending = "delete" -> "delete"

=============================================================================
