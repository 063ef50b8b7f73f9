------------------------------ MODULE Webhook ------------------------------
(***************************************************************************)
(* The change webhook: a collection wrapped so that every committed        *)
(* mutation queues an event, and the dispatcher that delivers the events,  *)
(* one document's in order, with retries, to an endpoint that keeps a copy *)
(* of the collection.                                                      *)
(*                                                                         *)
(* A document is abstracted to the number of commits that touched it and   *)
(* whether it is there.  What the engine does for a call is one step, what *)
(* its answer runs in the client another: a worker and the queue of React  *)
(* Native answer in the order the engine worked, the thread pool of Node   *)
(* does not.                                                               *)
(***************************************************************************)
EXTENDS Integers, Sequences, FiniteSetsExt

CONSTANTS
  None,         \* no write under way
  Docs,         \* documents of one reported collection
  Stored,       \* those it holds when it is wrapped
  Writers,      \* places for a write under way
  MaxQueue,     \* max_queue
  Retries,      \* retries
  MaxCommits    \* bound on what the writes change, counted by document

Ops == {"insert", "update", "delete"}

Image == [ n : Nat, there : BOOLEAN ]

\* ids is what the wrapper resolved, filter what the engine has yet to match;
\* image, of a write answered, what is to be told of each of ids.
Write ==
  [ op : Ops, filter : SUBSET Docs, many : BOOLEAN, ids : SUBSET Docs,
    pc : {"resolved", "committed", "answered"}, image : [Docs -> Image] ]

ASSUME WebhookAssumption ==
  /\ IsFiniteSet(Docs) /\ IsFiniteSet(Writers) /\ Stored \subseteq Docs
  /\ MaxQueue \in Nat \ {0} /\ Retries \in Nat /\ MaxCommits \in Nat
  /\ None \notin Write

VARIABLES
  inOrder,    \* the engine's answers come in the order it worked: not on Node
  store,      \* the collection
  writes,     \* each wrapped mutation under way
  ahead,      \* the answers that come before that of each write
  chains,     \* the events queued for a document, the first in delivery
  made,       \* eventSequence, counted for each document
  delivery,   \* deliver(), of the first event of each chain
  stats,      \* pending, delivered, failed, dropped
  wire,       \* requests on their way, those given up by the client too
  heard,      \* the Idempotency-Keys the endpoint has taken
  copy,       \* the endpoint's copy of the collection
  told,       \* history: the latest commit an event of each document reports
  crossed,    \* history: documents with an event queued behind a later one's
  owed,       \* history: documents whose last change no last event reports
  given       \* history: documents an event of which has failed

books == <<told, crossed, owed>>
vars == <<inOrder, store, writes, ahead, chains, made, delivery, stats, wire, heard, copy, books, given>>

Event == [ id : Nat \ {0}, op : Ops, n : Nat ]
Request == [ doc : Docs, attempt : 0 .. Retries, event : Event ]

TypeOK ==
  /\ inOrder \in BOOLEAN
  /\ store \in [Docs -> Image] /\ copy \in [Docs -> Image]
  /\ writes \in [Writers -> Write \cup {None}]
  /\ ahead \in [Writers -> SUBSET Writers]
  /\ chains \in [Docs -> Seq(Event)] /\ made \in [Docs -> Nat]
  /\ delivery \in [Docs -> [ pc : {"idle", "sent", "taken"}, attempt : 0 .. Retries ]]
  /\ stats \in [ pending : 0 .. MaxQueue, delivered : Nat, failed : Nat, dropped : Nat ]
  /\ wire \subseteq Request
  /\ heard \subseteq Docs \X (Nat \ {0})
  /\ told \in [Docs -> Nat]
  /\ crossed \subseteq Docs /\ owed \subseteq Docs /\ given \subseteq Docs

Init ==
  /\ inOrder \in BOOLEAN
  /\ store = [d \in Docs |-> [n |-> 0, there |-> d \in Stored]]
  /\ copy = store
  /\ writes = [w \in Writers |-> None] /\ ahead = [w \in Writers |-> {}]
  /\ chains = [d \in Docs |-> <<>>] /\ made = [d \in Docs |-> 0]
  /\ delivery = [d \in Docs |-> [pc |-> "idle", attempt |-> 0]]
  /\ stats = [pending |-> 0, delivered |-> 0, failed |-> 0, dropped |-> 0]
  /\ wire = {} /\ heard = {}
  /\ told = [d \in Docs |-> 0] /\ crossed = {} /\ owed = {} /\ given = {}

-----------------------------------------------------------------------------
(***************************************************************************)
(* emit: the events of one call, one for each of the documents ids.        *)
(***************************************************************************)

Room == MaxQueue - stats.pending

\* The first of ids that fit are queued, the others are dropped.
Fitting(ids) ==
  {kept \in SUBSET ids :
     Cardinality(kept) = IF Cardinality(ids) <= Room THEN Cardinality(ids) ELSE Room}

\* An event of d with this image is queued behind a later commit's.
Late(d, image) == image[d].n < told[d]

\* The image is not what d is, and no later write is there to tell it.
Misleads(d, image) ==
  Late(d, image) \/ (image[d].n = store[d].n /\ image[d] # store[d])

\* Fault: what is gone is reported as the call would have left it.
OpOfCall(op, image) == op

\* What is gone is reported as deleted, whatever the call was.
OpOf(op, image) == IF image.there THEN op ELSE "delete"

Emit(ids, op, image) ==
  \E kept \in Fitting(ids) :
    /\ chains' = [d \in Docs |->
         IF d \in kept
           THEN Append(chains[d],
                       [id |-> made[d] + 1, n |-> image[d].n, op |-> OpOf(op, image[d])])
           ELSE chains[d]]
    /\ made' = [d \in Docs |-> IF d \in kept THEN made[d] + 1 ELSE made[d]]
    /\ stats' = [stats EXCEPT !.pending = @ + Cardinality(kept),
                              !.dropped = @ + Cardinality(ids \ kept)]
    /\ told' = [d \in Docs |->
         IF d \in kept /\ ~Late(d, image) THEN image[d].n ELSE told[d]]
    /\ crossed' = crossed \cup {d \in kept : Late(d, image)}
    /\ owed' = (owed \ {d \in kept : image[d] = store[d]})
               \cup (ids \ kept) \cup {d \in kept : Misleads(d, image)}

Quietly == UNCHANGED <<chains, made, stats, told, crossed>>

-----------------------------------------------------------------------------
(***************************************************************************)
(* wrapCollectionWithWebhook.                                              *)
(***************************************************************************)

There(S) == {d \in S : store[d].there}

\* What an engine call with this filter reaches: findOne, updateOne and
\* deleteOne stop at the first match of one scan order.
Reached(filter, many) ==
  IF many \/ There(filter) = {} THEN There(filter)
  ELSE {CHOOSE d \in There(filter) : TRUE}

Cost(filter, many) == IF many THEN Cardinality(filter) ELSE 1

\* What is committed, and what the writes under way may still commit.
Commits ==
  MapThenSumSet(LAMBDA d : store[d].n, Docs) +
  MapThenSumSet(LAMBDA w : Cost(writes[w].filter, writes[w].many),
                {w \in Writers : writes[w] # None /\ writes[w].pc = "resolved"})

\* The collection once an engine call has changed the documents S.
Changed(S, op) ==
  [d \in Docs |->
     IF d \in S THEN [n |-> store[d].n + 1, there |-> op # "delete"] ELSE store[d]]

\* idsFor and docsFor: an update by _id is not looked up, a delete always is.
ResolvedIds(op, filter, many) ==
  IF op = "update" /\ Cardinality(filter) = 1 THEN filter ELSE Reached(filter, many)

Untold == [d \in Docs |-> [n |-> 0, there |-> FALSE]]

\* insert and insertMany commit at once, the other writes resolve first.
InsertDocs(w, S) ==
  /\ writes[w] = None
  /\ S # {} /\ There(S) = {} /\ Commits + Cardinality(S) <= MaxCommits
  /\ store' = Changed(S, "insert")
  /\ writes' = [writes EXCEPT ![w] =
       [op |-> "insert", filter |-> {}, many |-> FALSE, ids |-> S,
        pc |-> "committed", image |-> Untold]]
  /\ Quietly /\ UNCHANGED <<inOrder, ahead, delivery, wire, heard, copy, owed, given>>

Resolve(w, op, filter, many) ==
  /\ writes[w] = None
  /\ op # "insert" /\ filter # {} /\ (many => Cardinality(filter) > 1)
  /\ Commits + Cost(filter, many) <= MaxCommits
  /\ writes' = [writes EXCEPT ![w] =
       [op |-> op, filter |-> filter, many |-> many,
        ids |-> ResolvedIds(op, filter, many), pc |-> "resolved", image |-> Untold]]
  /\ Quietly /\ UNCHANGED <<inOrder, store, ahead, delivery, wire, heard, copy, owed, given>>

At(w, pc) == writes[w] # None /\ writes[w].pc = pc

\* The call of w returns or rejects.
Leaves(w) ==
  /\ writes' = [writes EXCEPT ![w] = None]
  /\ ahead' = [v \in Writers |-> IF v = w THEN {} ELSE ahead[v] \ {w}]

\* changed is false, or n is 0: nothing is reported.
NothingReached(w) ==
  /\ At(w, "resolved") /\ There(writes[w].filter) = {}
  /\ Leaves(w)
  /\ Quietly /\ UNCHANGED <<inOrder, store, delivery, wire, heard, copy, owed, given>>

\* What was reached and not resolved is a missed notification.
CommitUpdate(w) ==
  LET W == writes[w]
      S == Reached(W.filter, W.many) IN
  /\ At(w, "resolved") /\ W.op = "update" /\ S # {}
  /\ store' = Changed(S, "update")
  /\ writes' = [writes EXCEPT ![w] =
       [W EXCEPT !.pc = "committed", !.filter = {}, !.many = FALSE]]
  /\ owed' = owed \cup (S \ W.ids)
  /\ Quietly /\ UNCHANGED <<inOrder, ahead, delivery, wire, heard, copy, given>>

\* The engine has worked for w, and its answer is on its way.
Worked(w, image) ==
  /\ writes' = [writes EXCEPT ![w] =
       [@ EXCEPT !.pc = "answered", !.filter = {}, !.many = FALSE, !.image = image]]
  /\ ahead' = [ahead EXCEPT ![w] =
       IF inOrder THEN {v \in Writers : At(v, "answered")} ELSE {}]

\* Every document resolved is taken to be deleted, those still there too.
CommitDelete(w) ==
  LET W == writes[w]
      S == Reached(W.filter, W.many) IN
  /\ At(w, "resolved") /\ W.op = "delete" /\ S # {}
  /\ store' = Changed(S, "delete")
  /\ Worked(w, [d \in Docs |->
                   IF d \in W.ids THEN [n |-> store'[d].n, there |-> FALSE] ELSE Untold[d]])
  /\ owed' = owed \cup (S \ W.ids)
  /\ Quietly /\ UNCHANGED <<inOrder, delivery, wire, heard, copy, given>>

\* The find of emitPostImages, at the engine.
ReadImages(w) ==
  /\ At(w, "committed")
  /\ Worked(w, [d \in Docs |-> IF d \in writes[w].ids THEN store[d] ELSE Untold[d]])
  /\ Quietly /\ UNCHANGED <<inOrder, store, delivery, wire, heard, copy, owed, given>>

\* Fault: the answer of a delete is told without waiting for those before it.
ReportAtOnce(w) ==
  LET W == writes[w] IN
  /\ At(w, "answered") /\ (W.op # "delete" => ahead[w] = {})
  /\ Emit(W.ids, W.op, W.image) /\ Leaves(w)
  /\ UNCHANGED <<inOrder, store, delivery, wire, heard, copy, given>>

\* The answer is there: its events are queued.
Report(w) ==
  LET W == writes[w] IN
  /\ At(w, "answered") /\ ahead[w] = {}
  /\ Emit(W.ids, W.op, W.image) /\ Leaves(w)
  /\ UNCHANGED <<inOrder, store, delivery, wire, heard, copy, given>>

\* An engine call fails, or its answer is lost: the write rejects, which
\* may be committed.
Rejected(w) ==
  /\ writes[w] # None
  /\ owed' = IF At(w, "resolved") THEN owed ELSE owed \cup writes[w].ids
  /\ Leaves(w)
  /\ Quietly /\ UNCHANGED <<inOrder, store, delivery, wire, heard, copy, given>>

-----------------------------------------------------------------------------
(***************************************************************************)
(* deliver, and the endpoint.                                              *)
(***************************************************************************)

RequestOf(d) == [doc |-> d, attempt |-> delivery[d].attempt, event |-> Head(chains[d])]

Send(d) ==
  /\ chains[d] # <<>> /\ delivery[d].pc = "idle"
  /\ delivery' = [delivery EXCEPT ![d].pc = "sent"]
  /\ wire' = wire \cup {RequestOf(d)}
  /\ UNCHANGED <<inOrder, store, writes, ahead, chains, made, stats, heard, copy, books, given>>

\* Fault: every attempt has a key of its own.
KeyOfAttempt(r) == <<r.doc, r.event.id + r.event.id + r.attempt>>

KeyOf(r) == <<r.doc, r.event.id>>

AwaitedBy(r) ==
  /\ chains[r.doc] # <<>> /\ delivery[r.doc].pc = "sent" /\ r = RequestOf(r.doc)

\* The endpoint takes a request once: POST and PUT store, DELETE removes.
Arrive(r) ==
  /\ wire' = wire \ {r}
  /\ heard' = heard \cup {KeyOf(r)}
  /\ copy' = IF KeyOf(r) \in heard THEN copy
             ELSE [copy EXCEPT ![r.doc] = [n |-> r.event.n, there |-> r.event.op # "delete"]]
  /\ delivery' = IF AwaitedBy(r) THEN [delivery EXCEPT ![r.doc].pc = "taken"] ELSE delivery
  /\ UNCHANGED <<inOrder, store, writes, ahead, chains, made, stats, books, given>>

\* Fault: only a delivered event stops being pending.
SettleDelivered(d, outcome) ==
  /\ chains' = [chains EXCEPT ![d] = Tail(@)]
  /\ delivery' = [delivery EXCEPT ![d] = [pc |-> "idle", attempt |-> 0]]
  /\ stats' = IF outcome = "failed" THEN [stats EXCEPT !.failed = @ + 1]
              ELSE [stats EXCEPT !.delivered = @ + 1, !.pending = @ - 1]

\* The promise of the first event settles: finally() lets the next one start.
Settle(d, outcome) ==
  /\ chains' = [chains EXCEPT ![d] = Tail(@)]
  /\ delivery' = [delivery EXCEPT ![d] = [pc |-> "idle", attempt |-> 0]]
  /\ stats' = IF outcome = "failed"
                THEN [stats EXCEPT !.failed = @ + 1, !.pending = @ - 1]
                ELSE [stats EXCEPT !.delivered = @ + 1, !.pending = @ - 1]

Delivered(d) ==
  /\ delivery[d].pc = "taken"
  /\ Settle(d, "delivered")
  /\ UNCHANGED <<inOrder, store, writes, ahead, made, wire, heard, copy, books, given>>

\* A 4xx is final: the endpoint has not taken this request.
Refused(d) ==
  /\ delivery[d].pc = "sent" /\ RequestOf(d) \in wire
  /\ Settle(d, "failed")
  /\ wire' = wire \ {RequestOf(d)}
  /\ given' = given \cup {d}
  /\ UNCHANGED <<inOrder, store, writes, ahead, made, heard, copy, books>>

\* Fault: the last attempt is followed by another.
ErroredForever(d) ==
  /\ delivery[d].pc # "idle"
  /\ delivery' = [delivery EXCEPT ![d].pc = "idle"]
  /\ UNCHANGED <<inOrder, store, writes, ahead, chains, made, stats, wire, heard, copy, books, given>>

\* Fault: one attempt more than there should be.
ErroredOnceMore(d) ==
  /\ delivery[d].pc # "idle" /\ delivery[d].attempt <= Retries
  /\ delivery' = [delivery EXCEPT ![d] = [pc |-> "idle", attempt |-> @.attempt + 1]]
  /\ UNCHANGED <<inOrder, store, writes, ahead, chains, made, stats, wire, heard, copy, books, given>>

\* A 5xx or a network error: the request may yet arrive, or have arrived.
Errored(d) ==
  /\ delivery[d].pc # "idle"
  /\ IF delivery[d].attempt < Retries
       THEN /\ delivery' = [delivery EXCEPT ![d] = [pc |-> "idle", attempt |-> @.attempt + 1]]
            /\ UNCHANGED <<chains, stats, given>>
       ELSE Settle(d, "failed") /\ given' = given \cup {d}
  /\ UNCHANGED <<inOrder, store, writes, ahead, made, wire, heard, copy, books>>

-----------------------------------------------------------------------------
Returned(w) ==
  NothingReached(w) \/ CommitUpdate(w) \/ CommitDelete(w) \/ ReadImages(w) \/ Report(w)

Answer(d) == Delivered(d) \/ Refused(d) \/ Errored(d)

Next ==
  \/ \E w \in Writers, S \in SUBSET Docs :
       \/ InsertDocs(w, S)
       \/ \E op \in Ops, many \in BOOLEAN : Resolve(w, op, S, many)
  \/ \E w \in Writers : Returned(w) \/ Rejected(w)
  \/ \E d \in Docs : Send(d) \/ Answer(d)
  \/ \E r \in wire : Arrive(r)

\* An engine call returns, and a request ends: fetch has the runtime's limits.
Fairness ==
  /\ \A w \in Writers : WF_vars(Returned(w))
  /\ \A d \in Docs : WF_vars(Send(d)) /\ WF_vars(Answer(d))

Spec == Init /\ [][Next]_vars /\ Fairness

-----------------------------------------------------------------------------
(***************************************************************************)
(* Properties.                                                             *)
(***************************************************************************)

\* One place for each of the count[d] events of each document d
Places(count) == UNION {{d} \X (1 .. count[d]) : d \in Docs}
Queued == Places([d \in Docs |-> Len(chains[d])])

\* The counters and the chains agree, whatever the deliveries come to: the
\* limit of the queue is set against pending, and flush waits for it to be 0.
Accounted ==
  /\ stats.pending = Cardinality(Queued)
  /\ stats.pending + stats.delivered + stats.failed = Cardinality(Places(made))

Quiet == (\A w \in Writers : writes[w] = None) /\ (\A d \in Docs : chains[d] = <<>>)

\* Once all is delivered the endpoint has every document as the collection
\* has it, but for the documents an event of which was dropped or failed, or
\* was last queued behind a later one, the writes of which rejected after the
\* commit, or whose resolved ids drifted.  Concurrent writes, post-images read
\* after a later write, and retries of a request that had arrived do not
\* break it.
Converges == Quiet => \A d \in Docs \ (owed \cup given) : copy[d] = store[d]

\* Where the engine's answers come in order, so do a document's events: none
\* is queued behind that of a later commit, however writes overlap, reject, or
\* read each other's post-images.
EventsInOrder == inOrder => crossed = {}

\* Delivery keeps the order of the chain: a document at the endpoint never
\* goes back to an earlier commit, unless its events were queued out of order,
\* or one was given up: its request may arrive after later ones.
NeverOvertaken ==
  [][\A d \in Docs \ (crossed \cup given) : copy'[d].n >= copy[d].n]_vars

\* With an endpoint whose requests end, flush finds the queue empty in the end:
\* no chain stays behind an event that cannot be delivered.
Drains == stats.pending > 0 ~> stats.pending = 0
=============================================================================
