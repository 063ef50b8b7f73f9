-------------------------- MODULE WorkerOwnership --------------------------
(***************************************************************************)
(* The web worker of each tab, and how the tabs of one origin share one    *)
(* database.  The worker that holds the Web Lock owns the storage; every   *)
(* other forwards its commands to it over a broadcast channel, and waits   *)
(* for the lock in case the owner goes away.  Each worker works through    *)
(* one queue, its own commands and forwarded requests alike.               *)
(*                                                                         *)
(* A worker owns the storage at most once in its life, so the epoch of an  *)
(* ownership is the worker.  Databases are unencrypted and all tabs have   *)
(* the same configuration; sizes are within their limits.                  *)
(***************************************************************************)
EXTENDS Naturals, Sequences

CONSTANTS
  None,
  Workers,                  \* one for each tab
  Writes, Reads, Flushes,   \* the requests, each made once at most
  MaxPending,               \* MAX_PENDING, the places of a queue
  Backends,                 \* what the browser offers: a set
  Durabilities,             \* flush_every_write: a set
  StorageFails              \* whether opening and saving may fail

Requests == Writes \cup Reads \cup Flushes
Hello    == "hello"

ASSUME OwnershipAssumption ==
  /\ MaxPending \in Nat \ {0}
  /\ Backends \subseteq {"opfs", "indexeddb"}
  /\ Durabilities \subseteq BOOLEAN
  /\ StorageFails \in BOOLEAN
  /\ None \notin Workers /\ None \notin Requests
  /\ Hello \notin Requests \cup {None}
  /\ Writes \cap Reads = {} /\ Writes \cap Flushes = {} /\ Reads \cap Flushes = {}

VARIABLES
  backend, immediate,  \* frozen when the first worker starts
  phase,     \* of each worker: "new", "opening", "hello", "ready", "gone"
  lock,      \* the worker that holds the Web Lock
  waiting,   \* the workers whose request for it is pending
  known,     \* ownerEpoch of each worker
  db,        \* the owner's database in memory, and its snapshot state
  queue,     \* of each worker: the jobs accepted, the first one in progress
  step,      \* of each first job: "idle", "remote" or "saving"
  inbox,     \* of each worker: channel messages on their way, in order
  durable    \* the writes that are in the storage

vars == <<backend, immediate, phase, lock, waiting, known, db, queue, step,
          inbox, durable>>

VARIABLES
  answer,    \* what each request's caller was told
  result,    \* what each read saw
  done,      \* reads and flushes carried out
  lost,      \* writes carried out and lost with the owner's memory
  sentTo     \* the epoch each request was forwarded to

history == <<answer, result, done, lost, sentTo>>
all     == <<vars, history>>

Outcomes == {"ok", "unknown", "refused"}

Job == [kind : {"command", "request", "open", "flush", "close"},
        request : Requests \cup {Hello, None},
        from : Workers \cup {None}, epoch : Workers \cup {None}]

Message ==
  [type : {"owner"}, epoch : Workers]
  \cup [type : {"request"}, request : Requests \cup {Hello}, from : Workers,
        epoch : Workers \cup {None}]
  \cup [type : {"response"}, request : Requests \cup {Hello},
        outcome : Outcomes, epoch : Workers]

Closed == [open |-> FALSE, memory |-> {}, dirty |-> FALSE, failing |-> FALSE,
           timer |-> FALSE, saving |-> {}]

Owns(w) == lock = w /\ db.open

\* Every variable stays within its set; only a forwarded command is awaited,
\* only the owner saves, and no queue outgrows its places.
TypeOK ==
  /\ backend \in {"opfs", "indexeddb"} /\ immediate \in BOOLEAN
  /\ phase \in [Workers -> {"new", "opening", "hello", "ready", "gone"}]
  /\ lock \in Workers \cup {None}
  /\ waiting \subseteq Workers
  /\ known \in [Workers -> Workers \cup {None}]
  /\ db \in [open : BOOLEAN, memory : SUBSET Writes, dirty : BOOLEAN,
             failing : BOOLEAN, timer : BOOLEAN,
             saving : SUBSET Writes]
  /\ queue \in [Workers -> Seq(Job)]
  /\ step \in [Workers -> {"idle", "remote", "saving"}]
  /\ inbox \in [Workers -> Seq(Message)]
  /\ durable \subseteq Writes
  /\ answer \in [Requests -> Outcomes \cup {"none"}]
  /\ result \in [Reads -> SUBSET Writes]
  /\ done \subseteq Reads \cup Flushes
  /\ lost \subseteq Writes
  /\ sentTo \in [Requests -> Workers \cup {None}]
  /\ \A w \in Workers :
       /\ Len(queue[w]) <= MaxPending
       /\ step[w] # "idle" => queue[w] # <<>>
       /\ step[w] = "remote" => Head(queue[w]).kind = "command" /\ ~ Owns(w)
       /\ step[w] = "saving" => Head(queue[w]).kind # "open" /\ Owns(w)

Init ==
  /\ backend \in Backends /\ immediate \in Durabilities
  /\ phase = [w \in Workers |-> "new"]
  /\ lock = None /\ waiting = {}
  /\ known = [w \in Workers |-> None]
  /\ db = Closed
  /\ queue = [w \in Workers |-> <<>>]
  /\ step = [w \in Workers |-> "idle"]
  /\ inbox = [w \in Workers |-> <<>>]
  /\ durable = {}
  /\ answer = [r \in Requests |-> "none"]
  /\ result = [r \in Reads |-> {}]
  /\ done = {} /\ lost = {}
  /\ sentTo = [r \in Requests |-> None]

(***************************************************************************)
(* The channel, and the queue.                                             *)
(***************************************************************************)
Listening(w) == {v \in Workers \ {w} : phase[v] \notin {"new", "gone"}}

Post(box, to, m) ==
  [v \in Workers |-> IF v \in to THEN Append(box[v], m) ELSE box[v]]

\* Fault: one place too many.
FullOffByOne(w) == Len(queue[w]) > MaxPending

Full(w) == Len(queue[w]) >= MaxPending

Enqueue(w, j) == queue' = [queue EXCEPT ![w] = Append(@, j)]

\* The first job of w, not yet begun.
Begins(w, kinds) ==
  /\ queue[w] # <<>> /\ step[w] = "idle"
  /\ Head(queue[w]).kind \in kinds

\* The first job of w ends: its command is answered, its request responded to.
Finish(w, outcome, box) ==
  LET j == Head(queue[w]) IN
  /\ queue' = [queue EXCEPT ![w] = Tail(@)]
  /\ step' = [step EXCEPT ![w] = "idle"]
  /\ answer' = [r \in Requests |->
       IF j.kind = "command" /\ r = j.request THEN outcome ELSE answer[r]]
  /\ inbox' = IF j.kind = "request" /\ j.from \in Listening(w)
              THEN Post(box, {j.from}, [type |-> "response", outcome |-> outcome,
                                        request |-> j.request, epoch |-> w])
              ELSE box

(***************************************************************************)
(* The end of a worker, by close or otherwise.  What it held is free, its  *)
(* commands are answered, and nobody responds to the requests it had.      *)
(***************************************************************************)
Leave(w, outcome) ==
  /\ phase' = [phase EXCEPT ![w] = "gone"]
  /\ lock' = IF lock = w THEN None ELSE lock
  /\ waiting' = waiting \ {w}
  /\ known' = [known EXCEPT ![w] = None]
  /\ db' = IF lock = w THEN Closed ELSE db
  /\ queue' = [queue EXCEPT ![w] = <<>>]
  /\ step' = [step EXCEPT ![w] = "idle"]
  /\ inbox' = [inbox EXCEPT ![w] = <<>>]
  /\ answer' = [r \in Requests |->
       IF \E i \in DOMAIN queue[w] : queue[w][i].kind = "command"
                                     /\ queue[w][i].request = r
       THEN outcome ELSE answer[r]]
  /\ lost' = IF lock = w /\ ~ immediate
             THEN lost \cup (db.memory \ durable') ELSE lost
  /\ UNCHANGED <<backend, immediate, result, done, sentTo>>

(***************************************************************************)
(* init: the lock if it is free, otherwise hello to whoever owns it.       *)
(***************************************************************************)
Available == lock = None /\ waiting = {}

InitAlone(w) ==
  /\ phase[w] = "new" /\ Available
  /\ phase' = [phase EXCEPT ![w] = "opening"]
  /\ lock' = w
  /\ UNCHANGED <<backend, immediate, waiting, known, db, queue, step, inbox,
                 durable, history>>

InitOther(w) ==
  /\ phase[w] = "new" /\ ~ Available
  /\ phase' = [phase EXCEPT ![w] = "hello"]
  /\ inbox' = Post(inbox, Listening(w), [type |-> "request", request |-> Hello,
                                         from |-> w, epoch |-> None])
  /\ UNCHANGED <<backend, immediate, lock, waiting, known, db, queue, step,
                 durable, history>>

\* openOwner, up to the announcement
Open(w) ==
  /\ db' = [Closed EXCEPT !.open = TRUE, !.memory = durable]
  /\ known' = [known EXCEPT ![w] = w]
  /\ inbox' = Post(inbox, Listening(w), [type |-> "owner", epoch |-> w])
  /\ UNCHANGED <<backend, immediate, lock, waiting, step, durable, history>>

InitOpens(w) ==
  /\ phase[w] = "opening"
  /\ phase' = [phase EXCEPT ![w] = "ready"]
  /\ Open(w)
  /\ UNCHANGED queue

\* The tab terminates a worker whose init failed.
InitOpenFails(w) ==
  /\ phase[w] = "opening" /\ StorageFails
  /\ UNCHANGED durable
  /\ Leave(w, "unknown")

HelloTimesOut(w) ==
  /\ phase[w] = "hello"
  /\ UNCHANGED durable
  /\ Leave(w, "unknown")

(***************************************************************************)
(* The lock passes to a waiting worker.  Its forwarded command is          *)
(* rejected, and opening is queued behind the commands it has already      *)
(* accepted; with no place left it gives the lock up, for good.            *)
(***************************************************************************)
LockGranted(w) ==
  /\ lock = None /\ w \in waiting
  /\ waiting' = waiting \ {w}
  /\ LET rest == IF step[w] = "remote" THEN Tail(queue[w]) ELSE queue[w]
         open == [kind |-> "open", request |-> None, from |-> None, epoch |-> None]
     IN IF Full(w)
        THEN lock' = None /\ queue' = [queue EXCEPT ![w] = rest]
        ELSE lock' = w /\ queue' = [queue EXCEPT ![w] = Append(rest, open)]
  /\ step' = [step EXCEPT ![w] = "idle"]
  /\ answer' = [r \in Requests |->
       IF step[w] = "remote" /\ r = Head(queue[w]).request
       THEN "unknown" ELSE answer[r]]
  /\ UNCHANGED <<backend, immediate, phase, known, db, inbox, durable,
                 result, done, lost, sentTo>>

TakesOver(w) ==
  /\ Begins(w, {"open"})
  /\ queue' = [queue EXCEPT ![w] = Tail(@)]
  /\ Open(w)
  /\ UNCHANGED phase

TakeOverFails(w) ==
  /\ Begins(w, {"open"}) /\ StorageFails
  /\ lock' = None
  /\ queue' = [queue EXCEPT ![w] = Tail(@)]
  /\ UNCHANGED <<backend, immediate, phase, waiting, known, db, step, inbox,
                 durable, history>>

(***************************************************************************)
(* Commands.                                                               *)
(***************************************************************************)
Closing(w) == \E i \in DOMAIN queue[w] : queue[w][i].kind = "close"

Asked ==
  {r \in Requests : \/ answer[r] # "none"
                    \/ \E w \in Workers : \E i \in DOMAIN queue[w] :
                         queue[w][i].kind = "command" /\ queue[w][i].request = r}

Issue(w, r) ==
  /\ phase[w] = "ready" /\ ~ Closing(w) /\ r \notin Asked
  /\ IF Full(w)
     THEN answer' = [answer EXCEPT ![r] = "refused"] /\ UNCHANGED queue
     ELSE /\ Enqueue(w, [kind |-> "command", request |-> r, from |-> None,
                         epoch |-> None])
          /\ UNCHANGED answer
  /\ UNCHANGED <<backend, immediate, phase, lock, waiting, known, db, step,
                 inbox, durable, result, done, lost, sentTo>>

Forward(w) ==
  /\ Begins(w, {"command"}) /\ ~ Owns(w)
  /\ LET r == Head(queue[w]).request IN
     /\ inbox' = Post(inbox, Listening(w), [type |-> "request", request |-> r,
                                            from |-> w, epoch |-> known[w]])
     /\ sentTo' = [sentTo EXCEPT ![r] = known[w]]
  /\ step' = [step EXCEPT ![w] = "remote"]
  /\ UNCHANGED <<backend, immediate, phase, lock, waiting, known, db, queue,
                 durable, answer, result, done, lost>>

\* Fault: a worker that has been granted the lock waits for a response for ever.
TimeoutOfOthers(w) ==
  /\ step[w] = "remote" /\ lock # w
  /\ Finish(w, "unknown", inbox)
  /\ UNCHANGED <<backend, immediate, phase, lock, waiting, known, db, durable,
                 result, done, lost, sentTo>>

\* Thirty seconds without a response.
Timeout(w) ==
  /\ step[w] = "remote"
  /\ Finish(w, "unknown", inbox)
  /\ UNCHANGED <<backend, immediate, phase, lock, waiting, known, db, durable,
                 result, done, lost, sentTo>>

(***************************************************************************)
(* The owner carries out the first job of its queue: executeOwned.         *)
(***************************************************************************)
\* Fault: the epoch of a request is not looked at.
StaleNever(w, j) == FALSE

Stale(w, j) == j.kind = "request" /\ j.epoch \notin {None, w}

Refused(w, j) ==
  \/ Stale(w, j)
  \/ db.failing /\ immediate /\ j.request \in Writes \cup Reads

Performs(w, R) ==
  /\ Owns(w) /\ Begins(w, {"command", "request"})
  /\ Head(queue[w]).request \in R
  /\ UNCHANGED <<backend, immediate, phase, lock, waiting, known, lost, sentTo>>

Refuse(w) ==
  /\ Performs(w, Requests \cup {Hello})
  /\ Refused(w, Head(queue[w]))
  /\ Finish(w, "refused", inbox)
  /\ UNCHANGED <<db, durable, result, done>>

Greet(w) ==
  /\ Performs(w, {Hello}) /\ ~ Refused(w, Head(queue[w]))
  /\ Finish(w, "ok", inbox)
  /\ UNCHANGED <<db, durable, result, done>>

Read(w) ==
  /\ Performs(w, Reads) /\ ~ Refused(w, Head(queue[w]))
  /\ result' = [result EXCEPT ![Head(queue[w]).request] = db.memory]
  /\ done' = done \cup {Head(queue[w]).request}
  /\ Finish(w, "ok", inbox)
  /\ UNCHANGED <<db, durable>>

\* Fault: the memory counts as clean before the save is over.
SavingMarksClean(base, w) ==
  /\ db' = [base EXCEPT !.saving = base.memory, !.timer = FALSE, !.dirty = FALSE]
  /\ step' = [step EXCEPT ![w] = "saving"]
  /\ UNCHANGED <<queue, inbox, durable, answer, result, done>>

\* flushSnapshot begins: what is in memory now is on its way to IndexedDB.
Saving(base, w) ==
  /\ db' = [base EXCEPT !.saving = base.memory, !.timer = FALSE]
  /\ step' = [step EXCEPT ![w] = "saving"]
  /\ UNCHANGED <<queue, inbox, durable, answer, result, done>>

\* Fault: no write waits for its save.
SavesFirstNever == FALSE

\* The caller of a write waits until it is saved.
SavesFirst == backend = "indexeddb" /\ immediate

Write(w) ==
  /\ Performs(w, Writes) /\ ~ Refused(w, Head(queue[w]))
  /\ LET written == [db EXCEPT !.memory = @ \cup {Head(queue[w]).request},
                               !.dirty = (backend = "indexeddb")]
     IN \/ /\ SavesFirst
           /\ Saving(written, w)
        \/ /\ ~ SavesFirst
           /\ db' = [written EXCEPT !.timer = (backend = "indexeddb")]
           /\ durable' = IF immediate /\ backend = "opfs"
                         THEN written.memory ELSE durable
           /\ Finish(w, "ok", inbox)
           /\ UNCHANGED <<result, done>>

Flush(w) ==
  /\ Performs(w, Flushes) /\ ~ Refused(w, Head(queue[w]))
  /\ \/ db.dirty /\ Saving(db, w)
     \/ /\ ~ db.dirty
        /\ db' = [db EXCEPT !.timer = FALSE]
        /\ durable' = IF backend = "opfs" THEN db.memory ELSE durable
        /\ done' = done \cup {Head(queue[w]).request}
        /\ Finish(w, "ok", inbox)
        /\ UNCHANGED result

(***************************************************************************)
(* The timer of an eventual write, and the end of a save.                  *)
(***************************************************************************)
\* Fault: a flush that finds no place is dropped without a trace.
TimerFiresUnnoted ==
  /\ db.timer
  /\ IF Full(lock)
     THEN UNCHANGED queue
     ELSE Enqueue(lock, [kind |-> "flush", request |-> None, from |-> None,
                         epoch |-> None])
  /\ db' = [db EXCEPT !.timer = FALSE]
  /\ UNCHANGED <<backend, immediate, phase, lock, waiting, known, step, inbox,
                 durable, history>>

TimerFires ==
  /\ db.timer
  /\ IF Full(lock)
     THEN db' = [db EXCEPT !.timer = FALSE, !.failing = TRUE] /\ UNCHANGED queue
     ELSE /\ db' = [db EXCEPT !.timer = FALSE]
          /\ Enqueue(lock, [kind |-> "flush", request |-> None, from |-> None,
                            epoch |-> None])
  /\ UNCHANGED <<backend, immediate, phase, lock, waiting, known, step, inbox,
                 durable, history>>

TimedFlush(w) ==
  /\ Owns(w) /\ Begins(w, {"flush"})
  /\ \/ db.dirty /\ Saving(db, w)
     \/ /\ ~ db.dirty
        /\ db' = [db EXCEPT !.timer = FALSE]
        /\ Finish(w, "ok", inbox)
        /\ UNCHANGED <<durable, result, done>>
  /\ UNCHANGED <<backend, immediate, phase, lock, waiting, known, lost, sentTo>>

SaveDone(w) ==
  /\ step[w] = "saving"
  /\ durable' = db.saving
  /\ IF Head(queue[w]).kind = "close"
     THEN Leave(w, "refused")
     ELSE /\ db' = [db EXCEPT !.saving = {}, !.dirty = FALSE, !.failing = FALSE]
          /\ done' = done \cup ({Head(queue[w]).request} \cap Flushes)
          /\ Finish(w, "ok", inbox)
          /\ UNCHANGED <<backend, immediate, phase, lock, waiting, known,
                         result, lost, sentTo>>

SaveFails(w) ==
  /\ step[w] = "saving" /\ StorageFails
  /\ UNCHANGED durable
  /\ IF Head(queue[w]).kind = "close"
     THEN Leave(w, "refused")
     ELSE /\ db' = [db EXCEPT !.saving = {}, !.failing = TRUE]
          /\ Finish(w, "unknown", inbox)
          /\ UNCHANGED <<backend, immediate, phase, lock, waiting, known,
                         result, done, lost, sentTo>>

(***************************************************************************)
(* Messages from the channel.                                              *)
(***************************************************************************)
Receives(w, type) ==
  /\ inbox[w] # <<>> /\ Head(inbox[w]).type = type
  /\ UNCHANGED <<backend, immediate, lock, db, durable, result, done, sentTo>>

Rest(w) == [inbox EXCEPT ![w] = Tail(@)]

\* An announcement of another owner rejects what waits for the one known.
OnOwner(w) ==
  LET epoch == Head(inbox[w]).epoch
      changed == known[w] \notin {None, epoch}
  IN
  /\ Receives(w, "owner")
  /\ \/ /\ changed /\ phase[w] = "hello"
        /\ Leave(w, "unknown")
     \/ /\ changed /\ step[w] = "remote"
        /\ Finish(w, "unknown", Rest(w))
        /\ known' = [known EXCEPT ![w] = epoch]
        /\ UNCHANGED <<phase, waiting, lost>>
     \/ /\ ~ (changed /\ (phase[w] = "hello" \/ step[w] = "remote"))
        /\ known' = IF Owns(w) THEN known ELSE [known EXCEPT ![w] = epoch]
        /\ inbox' = Rest(w)
        /\ UNCHANGED <<phase, waiting, queue, step, answer, lost>>

Awaits(w, r) == step[w] = "remote" /\ Head(queue[w]).request = r

\* A response to a request that no longer waits is ignored.
OnResponse(w) ==
  LET m == Head(inbox[w]) IN
  /\ Receives(w, "response")
  /\ \/ /\ phase[w] = "hello" /\ m.request = Hello /\ m.outcome # "ok"
        /\ Leave(w, "unknown")
     \/ /\ phase[w] = "hello" /\ m.request = Hello /\ m.outcome = "ok"
        /\ phase' = [phase EXCEPT ![w] = "ready"]
        /\ known' = [known EXCEPT ![w] = m.epoch]
        /\ waiting' = waiting \cup {w}
        /\ inbox' = Rest(w)
        /\ UNCHANGED <<queue, step, answer, lost>>
     \/ /\ Awaits(w, m.request)
        /\ Finish(w, m.outcome, Rest(w))
        /\ UNCHANGED <<phase, waiting, known, lost>>
     \/ /\ ~ (phase[w] = "hello" /\ m.request = Hello)
        /\ ~ Awaits(w, m.request)
        /\ inbox' = Rest(w)
        /\ UNCHANGED <<phase, waiting, known, queue, step, answer, lost>>

\* Only the owner takes requests, and refuses those it has no place for.
OnRequest(w) ==
  LET m == Head(inbox[w]) IN
  /\ Receives(w, "request")
  /\ IF Owns(w) /\ ~ Full(w)
     THEN Enqueue(w, [kind |-> "request", request |-> m.request,
                      from |-> m.from, epoch |-> m.epoch])
     ELSE UNCHANGED queue
  /\ inbox' = IF Owns(w) /\ Full(w) /\ m.from \in Listening(w)
              THEN Post(Rest(w), {m.from}, [type |-> "response", epoch |-> w,
                          request |-> m.request, outcome |-> "refused"])
              ELSE Rest(w)
  /\ UNCHANGED <<phase, waiting, known, step, answer, lost>>

(***************************************************************************)
(* close, and the end of a tab that does not close.                        *)
(***************************************************************************)
\* A worker whose queue has no place for close is terminated without it.
Close(w) ==
  /\ phase[w] = "ready" /\ ~ Closing(w) /\ ~ Full(w)
  /\ Enqueue(w, [kind |-> "close", request |-> None, from |-> None,
                 epoch |-> None])
  /\ UNCHANGED <<backend, immediate, phase, lock, waiting, known, db, step,
                 inbox, durable, history>>

Closes(w) ==
  /\ Begins(w, {"close"})
  /\ \/ /\ Owns(w) /\ db.dirty
        /\ Saving(db, w)
        /\ UNCHANGED <<backend, immediate, phase, lock, waiting, known, lost,
                       sentTo>>
     \/ /\ ~ (Owns(w) /\ db.dirty)
        /\ durable' = IF Owns(w) /\ backend = "opfs" THEN db.memory ELSE durable
        /\ Leave(w, "refused")

\* What a crash leaves in the storage: a save in progress has landed or not,
\* and of eventual writes to the file any may have reached it.
Survivors(w) ==
  IF ~ Owns(w) THEN {durable}
  ELSE IF backend = "opfs"
       THEN {S \in SUBSET db.memory : durable \subseteq S}
       ELSE {durable} \cup (IF step[w] = "saving" THEN {db.saving} ELSE {})

Crash(w) ==
  /\ phase[w] \notin {"new", "gone"}
  /\ durable' \in Survivors(w)
  /\ Leave(w, "unknown")

-----------------------------------------------------------------------------
Opens(w) == InitOpens(w) \/ InitOpenFails(w) \/ TakesOver(w) \/ TakeOverFails(w)

Works(w) ==
  \/ Forward(w)
  \/ Refuse(w)
  \/ Greet(w)
  \/ Read(w)
  \/ Write(w)
  \/ Flush(w)
  \/ TimedFlush(w)
  \/ Closes(w)

Saves(w) == SaveDone(w) \/ SaveFails(w)

Receive(w) == OnOwner(w) \/ OnResponse(w) \/ OnRequest(w)

Next ==
  \/ \E w \in Workers :
       \/ InitAlone(w) \/ InitOther(w)
       \/ Opens(w)
       \/ HelloTimesOut(w)
       \/ LockGranted(w)
       \/ \E r \in Requests : Issue(w, r)
       \/ Works(w) \/ Saves(w)
       \/ Timeout(w)
       \/ Receive(w)
       \/ Close(w) \/ Crash(w)
  \/ TimerFires

Spec == Init /\ [][Next]_all

\* The event loop of a living worker turns, the browser grants the lock and
\* ends a transaction, and timers fire.  Nobody has to call or close anything.
Fairness ==
  /\ \A w \in Workers :
       /\ WF_all(Opens(w)) /\ WF_all(HelloTimesOut(w)) /\ WF_all(LockGranted(w))
       /\ WF_all(Works(w)) /\ WF_all(Saves(w)) /\ WF_all(Timeout(w))
       /\ WF_all(Receive(w))
  /\ WF_all(TimerFires)

FairSpec == Spec /\ Fairness

(***************************************************************************)
(* Properties.                                                             *)
(***************************************************************************)
\* The writes in effect: with eventual durability those in the memory of the
\* owner, otherwise those in the storage.
Store == IF db.open /\ ~ immediate THEN db.memory ELSE durable

Served == Store \cup lost \cup done

Shared == INSTANCE SharedDatabase WITH
  eventual <- ~ immediate, store <- Store, safe <- durable, asked <- Asked,
  served <- Served

\* All tabs together are one database: each request takes effect at one
\* instant before it is answered ok, a read sees every write answered before
\* it was issued, a refused request has no effect, a write answered ok is
\* durable or, where durability is eventual, is after the next flush.
OneDatabase == Shared!Spec

\* A forwarded request takes effect at the owner it was sent to, or never: what
\* was given up as unknown when the owner changed is not done by the next one.
FencedByEpoch ==
  [][\A r \in (Served' \ Served) \ Served : sentTo[r] \in {None, lock}]_all

\* Every request is answered, whatever happens to the owner and the channel.
Answered == \A r \in Requests : r \in Asked ~> answer[r] # "none"

\* With the snapshot in IndexedDB an eventual write becomes durable without a
\* flush, unless it is lost with its owner first or a save fails.
SavedInTime ==
  \A r \in Writes :
    backend = "indexeddb" /\ r \in Store ~> r \in durable \cup lost \/ db.failing

=============================================================================
