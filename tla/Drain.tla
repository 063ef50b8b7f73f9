------------------------------- MODULE Drain --------------------------------
(***************************************************************************)
(* The drain loop: a cycle picks the queued writes that are due, sends     *)
(* them side by side, and settles each on its reply.  One cycle runs per   *)
(* tab at a time, and it starts on the tab that owns the storage.          *)
(*                                                                         *)
(* req[t][d] is one run of sendOne: what was captured when it was sent,    *)
(* and how far it has come.                                                *)
(***************************************************************************)
EXTENDS Backend

CONSTANTS
  Tabs,     \* sessions that may drain
  Batch,    \* most documents a cycle picks
  Handoff   \* TRUE: ownership of the storage may move between tabs

ASSUME DrainAssumption == Batch \in Nat \ {0} /\ Handoff \in BOOLEAN

VARIABLES
  primary,  \* the tab that owns the storage
  cycle,    \* where each tab's runDrain is
  req       \* sendOne of each tab and document, or None

drainVars == <<primary, cycle, req>>

Request ==
  [ pc : {"sent", "replied", "checked"},
    op : Ops \cup {NoOp}, rev : Nat, val : Content,  \* captured when sent
    outcome : Outcomes \cup {"none"},                \* of the reply
    body : {None} \cup Content,                      \* its document
    seen : Document \cup {None} ]                    \* the read before the write

DrainTypeOK ==
  /\ primary \in Tabs
  /\ cycle \in [Tabs -> {"idle", "selecting", "sending"}]
  /\ req \in [Tabs -> [Docs -> Request \cup {None}]]

NoRequests == [d \in Docs |-> None]

DrainInit ==
  /\ primary \in Tabs
  /\ cycle = [t \in Tabs |-> "idle"]
  /\ req = [t \in Tabs |-> NoRequests]

InState(t, d, pc) == req[t][d] # None /\ req[t][d].pc = pc

Close(t, d) == req' = [req EXCEPT ![t][d] = None]

\* Fault: every tab drains.
OwnerUnchecked(t) == t \in Tabs

Owner(t) == primary = t

\* runDrain skips while a cycle runs; drainOnce skips on a secondary tab.
Begin(t) ==
  /\ cycle[t] = "idle"
  /\ Owner(t)
  /\ cycle' = [cycle EXCEPT ![t] = "selecting"]
  /\ UNCHANGED <<localVars, serverVars, primary, req>>

Due == {d \in Docs : Present(d) /\ store[d].sync = "pending" /\ store[d].due}

\* The oldest Batch of them, by _changed_at.
Picked == {d \in Due : Cardinality({x \in Due : rank[x] < rank[d]}) < Batch}

\* A document without a route is picked, and left as it is.
Sendable == {d \in Picked : store[d].routed}

SendOf(doc) ==
  [pc |-> "sent", op |-> doc.op, rev |-> doc.rev, val |-> doc.val,
   outcome |-> "none", body |-> None, seen |-> None]

Select(t) ==
  /\ cycle[t] = "selecting"
  /\ req' = [req EXCEPT ![t] =
       [d \in Docs |-> IF d \in Sendable THEN SendOf(store[d]) ELSE None]]
  /\ cycle' = [cycle EXCEPT ![t] = "sending"]
  /\ UNCHANGED <<localVars, serverVars, primary>>

\* Every sendOne has returned.
End(t) ==
  /\ cycle[t] = "sending"
  /\ req[t] = NoRequests
  /\ cycle' = [cycle EXCEPT ![t] = "idle"]
  /\ UNCHANGED <<localVars, serverVars, primary, req>>

(***************************************************************************)
(* The request and its reply.  A write without an operation has no verb:   *)
(* fetch refuses it, and it fails like a request the network lost.         *)
(***************************************************************************)
Answer(t, d, outcome, body) ==
  req' = [req EXCEPT ![t][d].pc = "replied", ![t][d].outcome = outcome,
                     ![t][d].body = body]

\* The body of a success may be missing or unreadable.
Received(t, d) ==
  /\ InState(t, d, "sent")
  /\ req[t][d].op \in Ops
  /\ Serve(d, req[t][d].op, req[t][d].rev, req[t][d].val)
  /\ LET reply == Handle(server[d], req[t][d].op, req[t][d].val)
     IN  \E body \in {reply.body, None} : Answer(t, d, reply.outcome, body)
  /\ UNCHANGED <<localVars, stray, primary, cycle>>

\* 5xx, 408 and 429 on one hand, any other 4xx on the other: nothing was done.
Refused(t, d, outcome) ==
  /\ InState(t, d, "sent")
  /\ req[t][d].op \in Ops
  /\ Answer(t, d, outcome, None)
  /\ UNCHANGED <<localVars, serverVars, primary, cycle>>

\* Fault: a failed attempt counts as a sent one.
DeferAsDone(d) == UpdateOne(d, StampSynced(store[d].val))

\* Back off: the write stays queued and is not due for a while.
Defer(d) == UpdateOne(d, [store[d] EXCEPT !.due = FALSE])

\* A request nobody waits for any more is lost, or is still on its way.
Abandon(t, S) ==
  stray' = [d \in Docs |->
    IF d \in S /\ Cardinality(stray[d]) < MaxStrays
    THEN stray[d] \cup {[op |-> req[t][d].op, rev |-> req[t][d].rev, val |-> req[t][d].val]}
    ELSE stray[d]]

InNetwork(t) == {d \in Docs : InState(t, d, "sent") /\ req[t][d].op \in Ops}

\* The fetch rejects: the request was lost, or its reply was.
TransportFailure(t, d) ==
  /\ InState(t, d, "sent") \/ InState(t, d, "replied")
  /\ \E S \in SUBSET ({d} \cap InNetwork(t)) : Abandon(t, S)
  /\ Defer(d)
  /\ Close(t, d)
  /\ UNCHANGED <<server, accepted, served, clock, primary, cycle>>

(***************************************************************************)
(* Settling.  sendOne reads the document first, and stops when it is gone  *)
(* or was edited while the request was in flight ...                       *)
(***************************************************************************)
\* Fault: the revision is not compared.
SupersededIfGone(t, d) == ~ Present(d) \/ req[t][d] = None

Superseded(t, d) == ~ Present(d) \/ store[d].rev # req[t][d].rev

Check(t, d) ==
  /\ InState(t, d, "replied")
  /\ IF Superseded(t, d)
     THEN Close(t, d)
     ELSE req' = [req EXCEPT ![t][d].pc = "checked", ![t][d].seen = store[d]]
  /\ UNCHANGED <<localVars, serverVars, primary, cycle>>

\* Fault: a confirmed delete leaves its tombstone as a document.
SettledAlike(t, d) ==
  /\ req[t][d].outcome \in {"ok", "applied"}
  /\ ApplyCanonical(d, req[t][d].seen, req[t][d].seen.val)

\* Fault: a 409 is nothing the queue knows of.
SettledOkOnly(t, d) ==
  /\ req[t][d].outcome = "ok"
  /\ IF req[t][d].op = "delete"
     THEN DeleteOne(d)
     ELSE ApplyCanonical(d, req[t][d].seen, req[t][d].seen.val)

\* ... and then acts on the outcome.
Settled(t, d) ==
  /\ req[t][d].outcome \in {"ok", "applied"}
  /\ IF req[t][d].op = "delete"
     THEN DeleteOne(d)
     ELSE ApplyCanonical(d, req[t][d].seen,
            IF req[t][d].body = None THEN req[t][d].seen.val
                                     ELSE req[t][d].body)

Failed(t, d) ==
  /\ req[t][d].outcome = "terminal"
  /\ UpdateOne(d, [store[d] EXCEPT !.sync = "failed"])

Deferred(t, d) ==
  /\ req[t][d].outcome = "retry"
  /\ Defer(d)

Settle(t, d) ==
  /\ InState(t, d, "checked")
  /\ Settled(t, d) \/ Failed(t, d) \/ Deferred(t, d)
  /\ Close(t, d)
  /\ UNCHANGED <<serverVars, clock, primary, cycle>>

(***************************************************************************)
(* The surroundings: time passes, the page reloads, ownership moves.       *)
(***************************************************************************)
BackoffElapses(d) ==
  /\ Present(d) /\ ~ store[d].due
  /\ store' = [store EXCEPT ![d].due = TRUE]
  /\ UNCHANGED <<rank, clock, serverVars, drainVars>>

\* The queue is on the documents: a reload forgets the cycle, not the writes.
Reload(t) ==
  /\ cycle[t] # "idle"
  /\ \E S \in SUBSET InNetwork(t) : Abandon(t, S)
  /\ cycle' = [cycle EXCEPT ![t] = "idle"]
  /\ req' = [req EXCEPT ![t] = NoRequests]
  /\ UNCHANGED <<localVars, server, accepted, served, primary>>

OwnershipMoves(t) ==
  /\ Handoff
  /\ primary # t
  /\ primary' = t
  /\ UNCHANGED <<localVars, serverVars, cycle, req>>

DrainStep ==
  \/ \E t \in Tabs : Begin(t) \/ Select(t) \/ End(t) \/ Reload(t) \/ OwnershipMoves(t)
  \/ \E t \in Tabs, d \in Docs :
       \/ Received(t, d)
       \/ \E outcome \in {"retry", "terminal"} : Refused(t, d, outcome)
       \/ TransportFailure(t, d)
       \/ Check(t, d)
       \/ Settle(t, d)
  \/ \E d \in Docs : BackoffElapses(d)

\* A sendOne that has read d, and will replace or remove it.
DrainOpen(d) ==
  \E t \in Tabs : InState(t, d, "checked") /\ req[t][d].outcome \in {"ok", "applied"}

=============================================================================
