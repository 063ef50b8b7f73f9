----------------------- MODULE WorkerOwnershipProofs -----------------------
(***************************************************************************)
(* The tabs of one origin share one database, for any number of tabs and   *)
(* requests, however the owner changes, crashes, saves or fails to.        *)
(*                                                                         *)
(* The invariant has three parts: who holds the lock and what is in memory *)
(* and in the storage; what a worker will have heard of who owns the       *)
(* database when it comes to a message; and where each request is, so that *)
(* none takes effect twice, and a refused one never.                       *)
(***************************************************************************)
EXTENDS WorkerOwnership, SequenceTheorems, TLAPS

-----------------------------------------------------------------------------
(***************************************************************************)
(* What is in a queue, and in an inbox.                                    *)
(***************************************************************************)

Elems(q) == {q[i] : i \in 1 .. Len(q)}

\* Those of R that a job of this kind is about
RequestsOf(q, kind, R) == {r \in R : \E j \in Elems(q) : j.kind = kind /\ j.request = r}

Once(q, kind, R) ==
  \A i, j \in 1 .. Len(q) :
    q[i].kind = kind /\ q[j].kind = kind /\ q[i].request \in R
      /\ q[i].request = q[j].request => i = j

Commands(q)  == RequestsOf(q, "command", Requests)
Forwarded(q) == RequestsOf(q, "request", Requests)
Opening(q)   == RequestsOf(q, "open", {None})

\* What the fields of a job can be
JobOK(j) ==
  /\ j.kind = "command" => j.request \in Requests
  /\ j.kind = "request" => j.request \in Requests \cup {Hello} /\ j.from \in Workers
  /\ j.kind \in {"open", "flush", "close"} => j.request = None

\* A queue within its places, that opens the storage once at most
QueueOK(q) ==
  /\ q \in Seq(Job) /\ Len(q) <= MaxPending
  /\ \A j \in Elems(q) : JobOK(j)
  /\ Once(q, "open", {None})

\* t is q without its first element.
Rests(t, q) ==
  /\ Len(q) \in Nat \ {0} /\ Len(t) = Len(q) - 1 /\ Head(q) = q[1]
  /\ \A i \in 1 .. Len(t) : t[i] = q[i + 1] /\ i + 1 \in 1 .. Len(q)
  /\ Elems(q) = Elems(t) \cup {Head(q)}

LEMMA ElemsTail ==
  ASSUME NEW S, NEW q \in Seq(S), q # <<>>
  PROVE  Tail(q) \in Seq(S) /\ Head(q) \in S /\ Rests(Tail(q), q)
<1> DEFINE t == Tail(q)
<1>1. t \in Seq(S) /\ Len(q) \in Nat \ {0} /\ Len(t) = Len(q) - 1
      /\ Head(q) = q[1] /\ Head(q) \in S
  OBVIOUS
<1>2. \A i \in 1 .. Len(t) : t[i] = q[i + 1] /\ i + 1 \in 1 .. Len(q)
  OBVIOUS
<1>3. \A i \in 1 .. Len(q) : i = 1 \/ (i - 1 \in 1 .. Len(t) /\ (i - 1) + 1 = i)
  BY <1>1
<1>4. Elems(q) \subseteq Elems(t) \cup {Head(q)}
  <2>1. ASSUME NEW i \in 1 .. Len(q) PROVE q[i] \in Elems(t) \cup {Head(q)}
    <3>1. CASE i = 1
      BY <1>1, <3>1
    <3>2. CASE i - 1 \in 1 .. Len(t) /\ (i - 1) + 1 = i
      BY <1>2, <3>2 DEF Elems
    <3> QED
      BY <1>3, <3>1, <3>2
  <2> QED
    BY <2>1 DEF Elems
<1>5. Elems(t) \cup {Head(q)} \subseteq Elems(q)
  <2>1. 1 \in 1 .. Len(q)
    BY <1>1
  <2> QED
    BY <1>1, <1>2, <2>1 DEF Elems
<1> QED
  BY <1>1, <1>2, <1>4, <1>5 DEF Rests

\* a is q and x behind it.
Extends(a, q, x) ==
  /\ Len(q) \in Nat /\ Len(a) = Len(q) + 1 /\ a[Len(a)] = x /\ a # <<>>
  /\ \A i \in 1 .. Len(q) : a[i] = q[i]
  /\ \A i \in 1 .. Len(a) : i \in 1 .. Len(q) \/ i = Len(a)
  /\ Elems(a) = Elems(q) \cup {x}

LEMMA ElemsAppend ==
  ASSUME NEW S, NEW q \in Seq(S), NEW x \in S
  PROVE  Append(q, x) \in Seq(S) /\ Extends(Append(q, x), q, x)
<1> DEFINE a == Append(q, x)
<1>1. /\ a \in Seq(S) /\ Len(q) \in Nat /\ Len(a) = Len(q) + 1 /\ a[Len(a)] = x /\ a # <<>>
      /\ \A i \in 1 .. Len(q) : a[i] = q[i]
  OBVIOUS
<1>2. /\ \A i \in 1 .. Len(a) : i \in 1 .. Len(q) \/ i = Len(a)
      /\ \A i \in 1 .. Len(q) : i \in 1 .. Len(a)
      /\ Len(a) \in 1 .. Len(a)
  BY <1>1
<1>3. Elems(a) = Elems(q) \cup {x}
  BY <1>1, <1>2 DEF Elems
<1> QED
  BY <1>1, <1>2, <1>3 DEF Extends

LEMMA ElemsEmpty == Elems(<<>>) = {}
BY DEF Elems

LEMMA OnceTail ==
  ASSUME NEW t, NEW q, Rests(t, q), NEW kind, NEW R, Once(q, kind, R)
  PROVE  /\ Once(t, kind, R)
         /\ Head(q).kind = kind =>
              RequestsOf(t, kind, R) = RequestsOf(q, kind, R) \ {Head(q).request}
         /\ Head(q).kind # kind => RequestsOf(t, kind, R) = RequestsOf(q, kind, R)
<1>1. /\ Len(q) \in Nat \ {0} /\ Len(t) = Len(q) - 1 /\ Head(q) = q[1]
      /\ \A i \in 1 .. Len(t) : t[i] = q[i + 1] /\ i + 1 \in 1 .. Len(q)
      /\ Elems(q) = Elems(t) \cup {Head(q)}
  BY DEF Rests
<1>2. Once(t, kind, R)
  <2> SUFFICES ASSUME NEW i \in 1 .. Len(t), NEW j \in 1 .. Len(t),
                      t[i].kind = kind /\ t[j].kind = kind /\ t[i].request \in R
                        /\ t[i].request = t[j].request
               PROVE  i = j
    BY DEF Once
  <2>1. i + 1 = j + 1
    BY <1>1 DEF Once
  <2> QED
    BY <2>1
<1>3. ASSUME Head(q).kind = kind, Head(q).request \in RequestsOf(t, kind, R) PROVE FALSE
  <2>1. PICK j \in Elems(t) : j.kind = kind /\ j.request = Head(q).request
    BY <1>3 DEF RequestsOf
  <2>2. PICK i \in 1 .. Len(t) : t[i] = j
    BY DEF Elems
  <2>3. 1 \in 1 .. Len(q) /\ i + 1 # 1
    BY <1>1
  <2>4. q[1].request \in R
    BY <1>1, <1>3 DEF RequestsOf
  <2>5. q[1].kind = kind /\ q[i + 1].kind = kind /\ q[1].request = q[i + 1].request
        /\ i + 1 \in 1 .. Len(q)
    BY <1>1, <1>3, <2>1, <2>2
  <2> QED
    BY <2>3, <2>4, <2>5 DEF Once
<1> QED
  BY <1>1, <1>2, <1>3 DEF RequestsOf

LEMMA OnceAppend ==
  ASSUME NEW a, NEW q, NEW x, Extends(a, q, x), NEW kind, NEW R,
         Once(q, kind, R), x.kind = kind => x.request \notin RequestsOf(q, kind, R)
  PROVE  /\ Once(a, kind, R)
         /\ x.kind = kind => RequestsOf(a, kind, R) = RequestsOf(q, kind, R) \cup ({x.request} \cap R)
         /\ x.kind # kind => RequestsOf(a, kind, R) = RequestsOf(q, kind, R)
<1>1. /\ Len(q) \in Nat /\ Len(a) = Len(q) + 1 /\ a[Len(a)] = x
      /\ \A i \in 1 .. Len(q) : a[i] = q[i]
      /\ \A i \in 1 .. Len(a) : i \in 1 .. Len(q) \/ i = Len(a)
      /\ Elems(a) = Elems(q) \cup {x}
  BY DEF Extends
<1>2. \A i \in 1 .. Len(q) : q[i] \in Elems(q)
  BY DEF Elems
<1>3. Once(a, kind, R)
  BY <1>1, <1>2 DEF Once, RequestsOf
<1> QED
  BY <1>1, <1>3 DEF RequestsOf

\* What a queue is like without its first job.
Shortened(t, q) ==
  /\ QueueOK(t) /\ Head(q) \in Job /\ JobOK(Head(q)) /\ Head(q) \in Elems(q)
  /\ Opening(t) \subseteq Opening(q)
  /\ Head(q).kind = "open" => Opening(t) = {} /\ Opening(q) # {}

LEMMA QueueTail ==
  ASSUME NEW q, QueueOK(q), q # <<>>
  PROVE  Shortened(Tail(q), q)
<1> DEFINE t == Tail(q)
<1>1. t \in Seq(Job) /\ Head(q) \in Job /\ Rests(t, q)
  BY ElemsTail DEF QueueOK
<1>2. Len(t) <= MaxPending /\ Elems(q) = Elems(t) \cup {Head(q)}
  BY <1>1, OwnershipAssumption DEF QueueOK, Rests
<1>3. JobOK(Head(q)) /\ \A j \in Elems(t) : JobOK(j)
  BY <1>2 DEF QueueOK
<1>4. /\ Once(t, "open", {None})
      /\ Head(q).kind = "open" => Opening(t) = Opening(q) \ {Head(q).request}
      /\ Head(q).kind # "open" => Opening(t) = Opening(q)
  <2>1. Once(q, "open", {None})
    BY DEF QueueOK
  <2> HIDE DEF t
  <2>3. Once(t, "open", {None})
    BY <1>1, <2>1, OnceTail
  <2>4. Head(q).kind = "open" => Opening(t) = Opening(q) \ {Head(q).request}
    BY <1>1, <2>1, OnceTail DEF Opening
  <2>5. Head(q).kind # "open" => Opening(t) = Opening(q)
    BY <1>1, <2>1, OnceTail DEF Opening
  <2> QED
    BY <2>3, <2>4, <2>5
<1>5. Head(q).kind = "open" => Head(q).request = None
  BY <1>3 DEF JobOK
<1>6. Opening(t) \subseteq {None} /\ (Head(q).kind = "open" => Opening(q) # {})
  BY <1>2, <1>5 DEF Opening, RequestsOf
<1> QED
  BY <1>1, <1>2, <1>3, <1>4, <1>5, <1>6 DEF QueueOK, Shortened

\* What a queue is like with one job more.
Lengthened(a, q, x) ==
  /\ QueueOK(a) /\ a # <<>> /\ (q # <<>> => Head(a) = Head(q))
  /\ x.kind # "open" => Opening(a) = Opening(q)

LEMMA QueueAppend ==
  ASSUME NEW q, QueueOK(q), Len(q) < MaxPending, NEW x \in Job, JobOK(x),
         x.kind = "open" => Opening(q) = {}
  PROVE  Lengthened(Append(q, x), q, x)
<1> DEFINE a == Append(q, x)
<1>1. a \in Seq(Job) /\ Extends(a, q, x)
  BY ElemsAppend DEF QueueOK
<1>2. Len(a) <= MaxPending /\ a # <<>> /\ Elems(a) = Elems(q) \cup {x}
  BY <1>1, OwnershipAssumption DEF Extends
<1>3. q # <<>> => Head(a) = Head(q)
  BY DEF QueueOK
<1>4. x.kind = "open" => x.request \notin RequestsOf(q, "open", {None})
  BY DEF Opening
<1>5. Once(a, "open", {None}) /\ (x.kind # "open" => Opening(a) = Opening(q))
  BY <1>1, <1>4, OnceAppend DEF QueueOK, Opening
<1>6. \A j \in Elems(a) : JobOK(j)
  BY <1>2 DEF QueueOK
<1> QED
  BY <1>1, <1>2, <1>3, <1>5, <1>6 DEF QueueOK, Lengthened

LEMMA QueueEmpty == QueueOK(<<>>) /\ Opening(<<>>) = {}
BY OwnershipAssumption, ElemsEmpty DEF QueueOK, Once, Opening, RequestsOf

-----------------------------------------------------------------------------
(***************************************************************************)
(* Who holds the lock, and what is in memory and in the storage.           *)
(***************************************************************************)

Databases == [open : BOOLEAN, memory : SUBSET Writes, dirty : BOOLEAN,
              failing : BOOLEAN, timer : BOOLEAN, saving : SUBSET Writes]

Shapes ==
  /\ backend \in {"opfs", "indexeddb"} /\ immediate \in BOOLEAN
  /\ phase \in [Workers -> {"new", "opening", "hello", "ready", "gone"}]
  /\ lock \in Workers \cup {None}
  /\ waiting \subseteq Workers
  /\ known \in [Workers -> Workers \cup {None}]
  /\ db \in Databases
  /\ queue \in [Workers -> Seq(Job)]
  /\ step \in [Workers -> {"idle", "remote", "saving"}]
  /\ inbox \in [Workers -> Seq(Message)]
  /\ durable \subseteq Writes
  /\ answer \in [Requests -> Outcomes \cup {"none"}]
  /\ result \in [Reads -> SUBSET Writes]
  /\ done \subseteq Reads \cup Flushes
  /\ lost \subseteq Writes
  /\ sentTo \in [Requests -> Workers \cup {None}]

\* The first job of a worker, and how far it is: while it saves, what is on
\* its way to the storage is what is in memory.
StepOK(w) ==
  /\ step[w] # "idle" => queue[w] # <<>>
  /\ step[w] = "remote" => Head(queue[w]).kind = "command" /\ ~ Owns(w)
  /\ step[w] = "saving" =>
       /\ Head(queue[w]).kind # "open" /\ Owns(w)
       /\ db.saving = db.memory
       /\ \/ Head(queue[w]).kind \in {"flush", "close"}
          \/ Head(queue[w]).request \in Flushes
          \/ Head(queue[w]).request \in Writes \cap db.memory

\* A worker that is not running has nothing; one that opens holds the lock.
PhaseOK(w) ==
  /\ phase[w] \in {"new", "gone"} =>
       queue[w] = <<>> /\ inbox[w] = <<>> /\ known[w] = None
  /\ phase[w] \in {"opening", "hello"} => queue[w] = <<>>
  /\ phase[w] = "opening" => lock = w /\ ~ db.open
  /\ phase[w] = "ready" => known[w] # None
  /\ lock = w => phase[w] \in {"opening", "ready"}
  /\ w \in waiting => phase[w] = "ready" /\ lock # w

JobsOK(w) == QueueOK(queue[w]) /\ (Opening(queue[w]) # {} => lock = w /\ ~ db.open)

WorkerOK(w) == StepOK(w) /\ PhaseOK(w) /\ JobsOK(w)

\* What is in the storage is in memory; a memory that is clean, or that saves
\* each write, is the storage.
HoldOK ==
  /\ db.open => lock \in Workers /\ durable \subseteq db.memory
  /\ ~ db.open => db = Closed
  /\ db.open /\ backend = "indexeddb" /\ ~ db.dirty => db.memory = durable
  /\ db.open /\ immediate /\ ~ db.failing /\ step[lock] # "saving" => db.memory = durable
  /\ immediate => lost = {}

HoldInv == Shapes /\ HoldOK /\ \A w \in Workers : WorkerOK(w)

LEMMA HoldTypes == HoldInv => TypeOK
BY DEF HoldInv, Shapes, Databases, WorkerOK, StepOK, JobsOK, QueueOK, TypeOK

\* A step of another worker leaves v as it is, its inbox aside.
Aside(v) ==
  /\ queue'[v] = queue[v] /\ step'[v] = step[v] /\ phase'[v] = phase[v]
  /\ known'[v] = known[v] /\ (v \in waiting' <=> v \in waiting)
  /\ (lock' = v <=> lock = v) /\ (lock = v => db' = db /\ durable' = durable)
  /\ phase[v] \in {"new", "gone"} => inbox'[v] = inbox[v]

LEMMA OthersStay ==
  ASSUME NEW v \in Workers, WorkerOK(v), Aside(v)
  PROVE  WorkerOK(v)'
BY DEF WorkerOK, StepOK, PhaseOK, JobsOK, Owns, Aside

LEMMA HoldStays ==
  ASSUME HoldOK, UNCHANGED <<backend, immediate, lock, db, durable, lost>>,
         db.open /\ step[lock] = "saving" => step'[lock] = "saving"
  PROVE  HoldOK'
BY DEF HoldOK

LEMMA PostType ==
  ASSUME NEW box \in [Workers -> Seq(Message)], NEW to, NEW m \in Message
  PROVE  /\ Post(box, to, m) \in [Workers -> Seq(Message)]
         /\ \A v \in Workers : Post(box, to, m)[v]
                               = IF v \in to THEN Append(box[v], m) ELSE box[v]
<1>1. \A v \in Workers : box[v] \in Seq(Message) /\ Append(box[v], m) \in Seq(Message)
  OBVIOUS
<1> QED
  BY <1>1 DEF Post

LEMMA RestType ==
  ASSUME Shapes, NEW w \in Workers, inbox[w] # <<>>
  PROVE  /\ Rest(w) \in [Workers -> Seq(Message)] /\ Head(inbox[w]) \in Message
         /\ Rest(w)[w] = Tail(inbox[w]) /\ \A v \in Workers \ {w} : Rest(w)[v] = inbox[v]
<1>1. inbox[w] \in Seq(Message) /\ inbox \in [Workers -> Seq(Message)]
  BY DEF Shapes
<1>2. Tail(inbox[w]) \in Seq(Message) /\ Head(inbox[w]) \in Message
  BY <1>1
<1> QED
  BY <1>1, <1>2 DEF Rest

LEMMA MessageParts ==
  ASSUME NEW m \in Message
  PROVE  /\ m.type \in {"owner", "request", "response"} /\ m.epoch \in Workers \cup {None}
         /\ m.type \in {"owner", "response"} => m.epoch \in Workers
         /\ m.type \in {"request", "response"} => m.request \in Requests \cup {Hello}
         /\ m.type = "request" => m.from \in Workers
         /\ m.type = "response" => m.outcome \in Outcomes
BY DEF Message

LEMMA MessageMakes ==
  /\ \A e \in Workers : [type |-> "owner", epoch |-> e] \in Message
  /\ \A w \in Workers, r \in Requests \cup {Hello}, e \in Workers \cup {None} :
       [type |-> "request", request |-> r, from |-> w, epoch |-> e] \in Message
  /\ \A w \in Workers, r \in Requests \cup {Hello}, o \in Outcomes :
       [type |-> "response", outcome |-> o, request |-> r, epoch |-> w] \in Message
BY DEF Message

\* The queues of others, and the inboxes of those not running, stay.
Keeps(w) ==
  /\ \A v \in Workers \ {w} : queue'[v] = queue[v] /\ step'[v] = step[v]
  /\ \A v \in Workers : phase[v] \in {"new", "gone"} => inbox'[v] = inbox[v]

Finishes(w) ==
  /\ queue' \in [Workers -> Seq(Job)] /\ queue'[w] = Tail(queue[w])
  /\ step' \in [Workers -> {"idle", "remote", "saving"}] /\ step'[w] = "idle"
  /\ inbox' \in [Workers -> Seq(Message)]
  /\ answer' \in [Requests -> Outcomes \cup {"none"}]
  /\ Keeps(w)

LEMMA FinishEffect ==
  ASSUME Shapes, NEW w \in Workers, JobsOK(w), queue[w] # <<>>,
         NEW outcome \in Outcomes, NEW box \in [Workers -> Seq(Message)],
         \A v \in Workers : phase[v] \in {"new", "gone"} => box[v] = inbox[v],
         Finish(w, outcome, box)
  PROVE  Finishes(w)
<1> DEFINE j == Head(queue[w])
           m == [type |-> "response", outcome |-> outcome, request |-> j.request, epoch |-> w]
<1>1. queue[w] \in Seq(Job) /\ Tail(queue[w]) \in Seq(Job) /\ j \in Job /\ JobOK(j)
  BY QueueTail DEF JobsOK, Shortened, QueueOK
<1>2. /\ queue' \in [Workers -> Seq(Job)] /\ queue'[w] = Tail(queue[w])
      /\ step' \in [Workers -> {"idle", "remote", "saving"}] /\ step'[w] = "idle"
      /\ \A v \in Workers \ {w} : queue'[v] = queue[v] /\ step'[v] = step[v]
  BY <1>1 DEF Finish, Shapes
<1>3. answer' \in [Requests -> Outcomes \cup {"none"}]
  BY DEF Finish, Shapes
<1>4. CASE j.kind = "request" /\ j.from \in Listening(w)
  <2>1. m \in Message
    BY <1>1, <1>4, MessageMakes DEF JobOK
  <2>2. inbox' = Post(box, {j.from}, m)
    BY <1>4 DEF Finish
  <2> HIDE DEF m
  <2>3. /\ inbox' \in [Workers -> Seq(Message)]
        /\ \A v \in Workers : inbox'[v]
                             = IF v \in {j.from} THEN Append(box[v], m) ELSE box[v]
    BY <2>1, <2>2, PostType
  <2>4. phase[j.from] \notin {"new", "gone"}
    BY <1>4 DEF Listening
  <2> HIDE DEF j
  <2>5. \A v \in Workers : phase[v] \in {"new", "gone"} => inbox'[v] = inbox[v]
    BY <2>3, <2>4
  <2> QED
    BY <1>2, <1>3, <2>3, <2>5 DEF Finishes, Keeps
<1>5. CASE ~ (j.kind = "request" /\ j.from \in Listening(w))
  <2>1. inbox' = box
    BY <1>5 DEF Finish
  <2> QED
    BY <1>2, <1>3, <2>1 DEF Finishes, Keeps
<1> QED
  BY <1>4, <1>5

\* The first job of w ends, whatever that does to the database.
LEMMA FinishHolds ==
  ASSUME HoldInv, NEW w \in Workers, queue[w] # <<>>, Finishes(w),
         UNCHANGED <<backend, immediate, phase, lock, waiting, sentTo>>,
         known' \in [Workers -> Workers \cup {None}], known'[w] # None,
         \A v \in Workers \ {w} : known'[v] = known[v],
         db' \in Databases, db'.open = db.open, lock # w => db' = db /\ durable' = durable,
         durable' \subseteq Writes, result' \in [Reads -> SUBSET Writes],
         done' \subseteq Reads \cup Flushes, lost' \subseteq Writes
  PROVE  Shapes' /\ \A v \in Workers : WorkerOK(v)'
<1>1. Shapes'
  BY DEF HoldInv, Shapes, Finishes
<1>2. ASSUME NEW v \in Workers \ {w} PROVE WorkerOK(v)'
  <2>1. Aside(v)
    BY <1>2 DEF Aside, Finishes, Keeps
  <2> QED
    BY <2>1, OthersStay DEF HoldInv
<1>3. WorkerOK(w) /\ phase[w] = "ready"
  BY DEF HoldInv, WorkerOK, PhaseOK, Shapes
<1>4. StepOK(w)'
  BY DEF StepOK, Finishes
<1>5. PhaseOK(w)'
  BY <1>3 DEF WorkerOK, PhaseOK
<1>6. JobsOK(w)'
  BY <1>3, QueueTail DEF WorkerOK, JobsOK, Shortened, Finishes
<1> QED
  BY <1>1, <1>2, <1>4, <1>5, <1>6 DEF WorkerOK

\* A worker goes away, with what it has.
LEMMA LeaveHolds ==
  ASSUME HoldInv, NEW w \in Workers, phase[w] \notin {"new", "gone"},
         NEW outcome \in Outcomes, Leave(w, outcome),
         durable' \subseteq Writes, ~ Owns(w) => durable' = durable
  PROVE  HoldInv'
<1>1. Shapes
  BY DEF HoldInv
<1>2. /\ phase' = [phase EXCEPT ![w] = "gone"] /\ queue' = [queue EXCEPT ![w] = <<>>]
      /\ step' = [step EXCEPT ![w] = "idle"] /\ inbox' = [inbox EXCEPT ![w] = <<>>]
      /\ known' = [known EXCEPT ![w] = None] /\ waiting' = waiting \ {w}
      /\ lock' = (IF lock = w THEN None ELSE lock)
      /\ db' = (IF lock = w THEN Closed ELSE db)
      /\ lost' = (IF lock = w /\ ~ immediate THEN lost \cup (db.memory \ durable') ELSE lost)
      /\ UNCHANGED <<backend, immediate, result, done, sentTo>>
  BY DEF Leave
<1>3. answer' \in [Requests -> Outcomes \cup {"none"}]
  BY <1>1 DEF Leave, Shapes
<1>4. db' \in Databases /\ lost' \subseteq Writes
  <2>1. Closed \in Databases /\ db \in Databases
    BY <1>1 DEF Closed, Databases, Shapes
  <2>2. db.memory \subseteq Writes /\ lost \subseteq Writes
    BY <1>1 DEF Databases, Shapes
  <2> QED
    BY <1>2, <2>1, <2>2
<1>5. queue' \in [Workers -> Seq(Job)] /\ inbox' \in [Workers -> Seq(Message)]
  <2>1. <<>> \in Seq(Job) /\ <<>> \in Seq(Message)
    OBVIOUS
  <2> QED
    BY <1>1, <1>2, <2>1 DEF Shapes
<1>6. Shapes'
  <2>1. /\ phase' \in [Workers -> {"new", "opening", "hello", "ready", "gone"}]
        /\ step' \in [Workers -> {"idle", "remote", "saving"}]
        /\ known' \in [Workers -> Workers \cup {None}]
    BY <1>1, <1>2 DEF Shapes
  <2>2. lock' \in Workers \cup {None} /\ waiting' \subseteq Workers
    BY <1>1, <1>2 DEF Shapes
  <2> QED
    BY <1>1, <1>2, <1>3, <1>4, <1>5, <2>1, <2>2 DEF Shapes
<1>7. ASSUME NEW v \in Workers \ {w} PROVE WorkerOK(v)'
  <2>1. queue'[v] = queue[v] /\ step'[v] = step[v] /\ phase'[v] = phase[v]
        /\ known'[v] = known[v] /\ inbox'[v] = inbox[v]
    BY <1>1, <1>2 DEF Shapes
  <2>2. (lock' = v <=> lock = v) /\ (v \in waiting' <=> v \in waiting)
    BY <1>2, OwnershipAssumption
  <2>3. lock = v => db' = db /\ durable' = durable
    BY <1>2 DEF Owns
  <2>4. Aside(v)
    BY <2>1, <2>2, <2>3 DEF Aside
  <2> QED
    BY <2>4, OthersStay DEF HoldInv
<1>8. WorkerOK(w)'
  <2>1. queue'[w] = <<>> /\ step'[w] = "idle" /\ phase'[w] = "gone" /\ known'[w] = None
        /\ inbox'[w] = <<>> /\ w \notin waiting' /\ lock' # w
    BY <1>1, <1>2, OwnershipAssumption DEF Shapes
  <2> QED
    BY <2>1, QueueEmpty DEF WorkerOK, StepOK, PhaseOK, JobsOK
<1>9. HoldOK'
  <2>0. HoldOK
    BY DEF HoldInv
  <2>1. CASE lock = w
    BY <1>2, <2>0, <2>1 DEF HoldOK, Closed
  <2>2. CASE lock # w
    <3>1. db.open => step'[lock] = step[lock]
      BY <1>1, <1>2, <2>0, <2>2 DEF Shapes, HoldOK
    <3> QED
      BY <1>2, <2>0, <2>2, <3>1, HoldStays DEF Owns
  <2> QED
    BY <2>1, <2>2
<1> QED
  BY <1>6, <1>7, <1>8, <1>9 DEF HoldInv

\* A save begins.
LEMMA SavingHolds ==
  ASSUME HoldInv, NEW w \in Workers, Owns(w), queue[w] # <<>>,
         NEW base \in Databases, base.open, base.dirty, durable \subseteq base.memory,
         \/ Head(queue[w]).kind \in {"flush", "close"}
         \/ Head(queue[w]).request \in Flushes
         \/ Head(queue[w]).request \in Writes \cap base.memory,
         Head(queue[w]).kind # "open", Saving(base, w),
         UNCHANGED <<backend, immediate, phase, lock, waiting, known, lost, sentTo>>
  PROVE  HoldInv'
<1>1. Shapes /\ HoldOK /\ WorkerOK(w)
  BY DEF HoldInv
<1>2. /\ db'.open = TRUE /\ db'.memory = base.memory /\ db'.dirty = TRUE
      /\ db'.saving = base.memory
  BY DEF Saving, Databases
<1>3. db' \in Databases
  BY DEF Saving, Databases
<1>4. step' = [step EXCEPT ![w] = "saving"]
      /\ UNCHANGED <<queue, inbox, durable, answer, result, done>>
  BY DEF Saving
<1>5. Shapes'
  BY <1>1, <1>3, <1>4 DEF Shapes
<1>6. ASSUME NEW v \in Workers \ {w} PROVE WorkerOK(v)'
  <2>1. Aside(v)
    BY <1>1, <1>4, <1>6 DEF Aside, Shapes, Owns
  <2> QED
    BY <2>1, OthersStay DEF HoldInv
<1>7. step'[w] = "saving" /\ lock = w
  BY <1>1, <1>4 DEF Shapes, Owns
<1>8. WorkerOK(w)'
  BY <1>1, <1>2, <1>4, <1>7 DEF WorkerOK, StepOK, PhaseOK, JobsOK, Owns
<1>9. HoldOK'
  BY <1>1, <1>2, <1>4, <1>7 DEF HoldOK, Owns
<1> QED
  BY <1>5, <1>6, <1>8, <1>9 DEF HoldInv

\* A job is accepted; of the database only the timer and the failure may change.
LEMMA EnqueueHolds ==
  ASSUME HoldInv, NEW w \in Workers, phase[w] = "ready", ~ Full(w),
         NEW j \in Job, JobOK(j), j.kind # "open", Enqueue(w, j),
         UNCHANGED <<backend, immediate, phase, lock, waiting, known, step, durable, result,
                     done, lost, sentTo>>,
         db' = db \/ (lock = w /\ db.open /\ \E t \in BOOLEAN : db' = [db EXCEPT !.timer = t]),
         inbox' \in [Workers -> Seq(Message)],
         \A v \in Workers : phase[v] \in {"new", "gone"} => inbox'[v] = inbox[v],
         answer' \in [Requests -> Outcomes \cup {"none"}]
  PROVE  HoldInv'
<1>1. Shapes /\ HoldOK /\ WorkerOK(w)
  BY DEF HoldInv
<1>2. queue[w] \in Seq(Job) /\ Len(queue[w]) < MaxPending
  BY <1>1, OwnershipAssumption DEF Shapes, Full
<1>3. queue'[w] = Append(queue[w], j) /\ \A v \in Workers \ {w} : queue'[v] = queue[v]
  BY <1>1 DEF Enqueue, Shapes
<1>4. Lengthened(queue'[w], queue[w], j)
  BY <1>1, <1>2, <1>3, QueueAppend DEF WorkerOK, JobsOK
<1>5. queue' \in [Workers -> Seq(Job)]
  BY <1>1, <1>2 DEF Enqueue, Shapes
<1>6. /\ db' \in Databases /\ db'.open = db.open /\ db'.memory = db.memory
      /\ db'.saving = db.saving /\ db'.dirty = db.dirty /\ db'.failing = db.failing
      /\ ~ db.open => db' = db
  <2>1. CASE db' = db
    BY <1>1, <2>1 DEF Shapes
  <2>2. ASSUME NEW t \in BOOLEAN, db' = [db EXCEPT !.timer = t], db.open PROVE <1>6!1
    BY <1>1, <2>2 DEF Shapes, Databases
  <2> QED
    BY <1>1, <2>1, <2>2 DEF Shapes, Databases
<1>7. Shapes'
  BY <1>1, <1>5, <1>6 DEF Shapes
<1>8. ASSUME NEW v \in Workers \ {w} PROVE WorkerOK(v)'
  <2>1. Aside(v)
    BY <1>3, <1>8 DEF Aside
  <2> QED
    BY <2>1, OthersStay DEF HoldInv
<1>9. WorkerOK(w)'
  <2>1. queue'[w] # <<>> /\ QueueOK(queue'[w]) /\ Opening(queue'[w]) = Opening(queue[w])
        /\ (queue[w] # <<>> => Head(queue'[w]) = Head(queue[w]))
    BY <1>4 DEF Lengthened
  <2>2. StepOK(w)'
    BY <1>1, <1>6, <2>1 DEF WorkerOK, StepOK, Owns
  <2>3. PhaseOK(w)'
    BY <1>1 DEF WorkerOK, PhaseOK
  <2>4. JobsOK(w)'
    BY <1>1, <1>6, <2>1 DEF WorkerOK, JobsOK
  <2> QED
    BY <2>2, <2>3, <2>4 DEF WorkerOK
<1>10. HoldOK'
  BY <1>1, <1>6 DEF HoldOK
<1> QED
  BY <1>7, <1>8, <1>9, <1>10 DEF HoldInv

LEMMA AcceptHolds ==
  ASSUME HoldInv, NEW w \in Workers, phase[w] = "ready", ~ Full(w),
         NEW j \in Job, JobOK(j), j.kind # "open", Enqueue(w, j),
         UNCHANGED <<backend, immediate, phase, lock, waiting, known, db, step, durable, result,
                     done, lost, sentTo>>,
         inbox' \in [Workers -> Seq(Message)],
         \A v \in Workers : phase[v] \in {"new", "gone"} => inbox'[v] = inbox[v],
         answer' \in [Requests -> Outcomes \cup {"none"}]
  PROVE  HoldInv'
<1>1. db' = db \/ (lock = w /\ db.open /\ \E t \in BOOLEAN : db' = [db EXCEPT !.timer = t])
  OBVIOUS
<1>2. UNCHANGED <<backend, immediate, phase, lock, waiting, known, step, durable, result,
                  done, lost, sentTo>>
  OBVIOUS
<1> QED
  BY <1>1, <1>2, EnqueueHolds

\* Messages come and go, and with them who is known to own the database.
LEMMA MailHolds ==
  ASSUME HoldInv,
         UNCHANGED <<backend, immediate, phase, lock, waiting, db, queue, step, durable,
                     result, done, lost, sentTo>>,
         inbox' \in [Workers -> Seq(Message)], known' \in [Workers -> Workers \cup {None}],
         \A v \in Workers : phase[v] \in {"new", "gone"} => inbox'[v] = inbox[v]
                                                            /\ known'[v] = known[v],
         \A v \in Workers : phase[v] = "ready" => known'[v] # None,
         answer' \in [Requests -> Outcomes \cup {"none"}]
  PROVE  HoldInv'
<1>1. Shapes /\ HoldOK
  BY DEF HoldInv
<1>2. Shapes'
  BY <1>1 DEF Shapes
<1>3. HoldOK'
  BY <1>1, HoldStays
<1>4. ASSUME NEW v \in Workers PROVE WorkerOK(v)'
  <2>1. WorkerOK(v)
    BY DEF HoldInv
  <2> QED
    BY <2>1 DEF WorkerOK, StepOK, PhaseOK, JobsOK, Owns
<1> QED
  BY <1>2, <1>3, <1>4 DEF HoldInv

\* What is known of a worker that has a job.
LEMMA AtWork ==
  ASSUME HoldInv, NEW w \in Workers, queue[w] # <<>>
  PROVE  /\ Shapes /\ HoldOK /\ StepOK(w) /\ PhaseOK(w) /\ JobsOK(w)
         /\ Shortened(Tail(queue[w]), queue[w])
         /\ phase[w] = "ready" /\ known[w] # None
<1>1. Shapes /\ HoldOK /\ StepOK(w) /\ PhaseOK(w) /\ JobsOK(w)
  BY DEF HoldInv, WorkerOK
<1>2. phase[w] = "ready" /\ known[w] # None
  BY <1>1 DEF Shapes, PhaseOK
<1> QED
  BY <1>1, <1>2, QueueTail DEF JobsOK, PhaseOK

LEMMA InitAloneHolds == ASSUME HoldInv, NEW w \in Workers, InitAlone(w) PROVE HoldInv'
<1>1. Shapes /\ HoldOK /\ WorkerOK(w)
  BY DEF HoldInv
<1>2. /\ phase[w] = "new" /\ lock = None /\ waiting = {} /\ phase' = [phase EXCEPT ![w] = "opening"]
      /\ lock' = w
      /\ UNCHANGED <<backend, immediate, waiting, known, db, queue, step, inbox, durable, history>>
  BY DEF InitAlone, Available
<1>3. Shapes'
  BY <1>1, <1>2 DEF Shapes, history
<1>4. ~ db.open
  BY <1>1, <1>2, OwnershipAssumption DEF HoldOK
<1>5. ASSUME NEW v \in Workers \ {w} PROVE WorkerOK(v)'
  <2>1. Aside(v)
    BY <1>1, <1>2, <1>5, OwnershipAssumption DEF Aside, Shapes
  <2> QED
    BY <2>1, OthersStay DEF HoldInv
<1>6. WorkerOK(w)'
  BY <1>1, <1>2, <1>4 DEF WorkerOK, StepOK, PhaseOK, JobsOK, Owns, Shapes
<1>7. HoldOK'
  BY <1>1, <1>2, <1>4 DEF HoldOK, history
<1> QED
  BY <1>3, <1>5, <1>6, <1>7 DEF HoldInv

LEMMA InitOtherHolds == ASSUME HoldInv, NEW w \in Workers, InitOther(w) PROVE HoldInv'
<1>1. Shapes /\ HoldOK /\ WorkerOK(w)
  BY DEF HoldInv
<1> DEFINE m == [type |-> "request", request |-> Hello, from |-> w, epoch |-> None]
<1>2. /\ phase[w] = "new" /\ phase' = [phase EXCEPT ![w] = "hello"]
      /\ inbox' = Post(inbox, Listening(w), m)
      /\ UNCHANGED <<backend, immediate, lock, waiting, known, db, queue, step, durable, history>>
  BY DEF InitOther
<1>3. m \in Message
  BY MessageMakes
<1> HIDE DEF m
<1>4. /\ inbox' \in [Workers -> Seq(Message)]
      /\ \A v \in Workers : v \notin Listening(w) => inbox'[v] = inbox[v]
  <2>1. inbox \in [Workers -> Seq(Message)]
    BY <1>1 DEF Shapes
  <2> QED
    BY <1>2, <1>3, <2>1, PostType
<1>5. Shapes'
  BY <1>1, <1>2, <1>4 DEF Shapes, history
<1>6. ASSUME NEW v \in Workers \ {w} PROVE WorkerOK(v)'
  <2>1. Aside(v)
    BY <1>1, <1>2, <1>4, <1>6 DEF Aside, Shapes, Listening
  <2> QED
    BY <2>1, OthersStay DEF HoldInv
<1>7. WorkerOK(w)'
  BY <1>1, <1>2 DEF WorkerOK, StepOK, PhaseOK, JobsOK, Owns, Shapes
<1>8. HoldOK'
  BY <1>1, <1>2, HoldStays DEF history
<1> QED
  BY <1>5, <1>6, <1>7, <1>8 DEF HoldInv

\* What opening the storage does
Opened(w) ==
  /\ db' \in Databases /\ db'.open = TRUE /\ db'.memory = durable
  /\ known' = [known EXCEPT ![w] = w]
  /\ inbox' \in [Workers -> Seq(Message)]
  /\ \A v \in Workers : v \notin Listening(w) => inbox'[v] = inbox[v]
  /\ \A v \in Listening(w) : inbox'[v] = Append(inbox[v], [type |-> "owner", epoch |-> w])
  /\ UNCHANGED <<backend, immediate, lock, waiting, step, durable, history>>

LEMMA OpenEffect == ASSUME Shapes, NEW w \in Workers, Open(w) PROVE Opened(w)
<1> DEFINE m == [type |-> "owner", epoch |-> w]
<1>1. m \in Message /\ inbox' = Post(inbox, Listening(w), m)
  BY MessageMakes DEF Open
<1>2. Listening(w) \subseteq Workers
  BY DEF Listening
<1>3. /\ inbox' \in [Workers -> Seq(Message)]
      /\ \A v \in Workers : v \notin Listening(w) => inbox'[v] = inbox[v]
      /\ \A v \in Listening(w) : inbox'[v] = Append(inbox[v], m)
  <2>1. inbox \in [Workers -> Seq(Message)]
    BY DEF Shapes
  <2> HIDE DEF m
  <2>2. /\ inbox' \in [Workers -> Seq(Message)]
        /\ \A v \in Workers : inbox'[v] = IF v \in Listening(w) THEN Append(inbox[v], m)
                                          ELSE inbox[v]
    BY <1>1, <2>1, PostType
  <2> QED
    BY <1>2, <2>2
<1>4. db' \in Databases /\ db'.open = TRUE /\ db'.memory = durable
  BY DEF Open, Closed, Databases, Shapes
<1> QED
  BY <1>3, <1>4 DEF Open, Opened

LEMMA OpenHolds ==
  ASSUME HoldInv, NEW w \in Workers, lock = w, ~ db.open, Open(w),
         phase' \in [Workers -> {"new", "opening", "hello", "ready", "gone"}],
         phase'[w] = "ready", queue' \in [Workers -> Seq(Job)], QueueOK(queue'[w]),
         Opening(queue'[w]) = {}, step[w] = "idle",
         \A v \in Workers \ {w} : phase'[v] = phase[v] /\ queue'[v] = queue[v]
  PROVE  HoldInv'
<1>1. Shapes /\ HoldOK /\ WorkerOK(w) /\ Opened(w)
  BY OpenEffect DEF HoldInv
<1>2. known' \in [Workers -> Workers \cup {None}] /\ known'[w] = w
      /\ \A v \in Workers \ {w} : known'[v] = known[v]
  BY <1>1 DEF Opened, Shapes
<1>3. Shapes'
  BY <1>1, <1>2 DEF Shapes, Opened, history
<1>4. ASSUME NEW v \in Workers \ {w} PROVE WorkerOK(v)'
  <2>1. Aside(v)
    BY <1>1, <1>2, <1>4 DEF Aside, Opened, Listening
  <2> QED
    BY <2>1, OthersStay DEF HoldInv
<1>5. WorkerOK(w)'
  BY <1>1, <1>2, OwnershipAssumption DEF WorkerOK, StepOK, PhaseOK, JobsOK, Owns, Opened
<1>6. HoldOK'
  BY <1>1 DEF HoldOK, Opened, history
<1> QED
  BY <1>3, <1>4, <1>5, <1>6 DEF HoldInv

LEMMA InitOpensHolds == ASSUME HoldInv, NEW w \in Workers, InitOpens(w) PROVE HoldInv'
<1>1. Shapes /\ PhaseOK(w) /\ StepOK(w)
  BY DEF HoldInv, WorkerOK
<1>2. phase[w] = "opening" /\ phase' = [phase EXCEPT ![w] = "ready"] /\ Open(w) /\ queue' = queue
  BY DEF InitOpens
<1>3. lock = w /\ ~ db.open /\ queue[w] = <<>> /\ step[w] = "idle"
  BY <1>1, <1>2 DEF PhaseOK, StepOK
<1>4. phase' \in [Workers -> {"new", "opening", "hello", "ready", "gone"}] /\ phase'[w] = "ready"
      /\ \A v \in Workers \ {w} : phase'[v] = phase[v]
  BY <1>1, <1>2 DEF Shapes
<1>5. queue' \in [Workers -> Seq(Job)] /\ QueueOK(queue'[w]) /\ Opening(queue'[w]) = {}
  BY <1>1, <1>2, <1>3, QueueEmpty DEF Shapes
<1> QED
  BY <1>2, <1>3, <1>4, <1>5, OpenHolds

\* The first job of w opens the storage.
LEMMA FirstOpens ==
  ASSUME HoldInv, NEW w \in Workers, Begins(w, {"open"})
  PROVE  /\ Shapes /\ HoldOK /\ WorkerOK(w) /\ lock = w /\ ~ db.open /\ step[w] = "idle"
         /\ phase[w] = "ready" /\ QueueOK(Tail(queue[w])) /\ Opening(Tail(queue[w])) = {}
<1>1. queue[w] # <<>> /\ step[w] = "idle" /\ Head(queue[w]).kind = "open"
  BY DEF Begins
<1>2. Shapes /\ HoldOK /\ WorkerOK(w)
  BY DEF HoldInv
<1>3. Shortened(Tail(queue[w]), queue[w])
  BY <1>1, <1>2, QueueTail DEF WorkerOK, JobsOK
<1>4. lock = w /\ ~ db.open /\ QueueOK(Tail(queue[w])) /\ Opening(Tail(queue[w])) = {}
  BY <1>1, <1>2, <1>3 DEF WorkerOK, JobsOK, Shortened
<1> QED
  BY <1>1, <1>2, <1>4 DEF WorkerOK, PhaseOK, Shapes

LEMMA TakesOverHolds == ASSUME HoldInv, NEW w \in Workers, TakesOver(w) PROVE HoldInv'
<1>1. /\ Shapes /\ HoldOK /\ WorkerOK(w) /\ lock = w /\ ~ db.open /\ step[w] = "idle"
      /\ phase[w] = "ready" /\ QueueOK(Tail(queue[w])) /\ Opening(Tail(queue[w])) = {}
  BY FirstOpens DEF TakesOver
<1>2. queue' = [queue EXCEPT ![w] = Tail(@)] /\ Open(w) /\ phase' = phase
  BY DEF TakesOver
<1>3. queue' \in [Workers -> Seq(Job)] /\ queue'[w] = Tail(queue[w])
      /\ \A v \in Workers \ {w} : queue'[v] = queue[v]
  BY <1>1, <1>2 DEF Shapes, QueueOK
<1> QED
  BY <1>1, <1>2, <1>3, OpenHolds DEF Shapes

LEMMA TakeOverFailsHolds == ASSUME HoldInv, NEW w \in Workers, TakeOverFails(w) PROVE HoldInv'
<1>1. /\ Shapes /\ HoldOK /\ WorkerOK(w) /\ lock = w /\ ~ db.open /\ step[w] = "idle"
      /\ phase[w] = "ready" /\ QueueOK(Tail(queue[w])) /\ Opening(Tail(queue[w])) = {}
  BY FirstOpens DEF TakeOverFails
<1>2. /\ queue' = [queue EXCEPT ![w] = Tail(@)] /\ lock' = None
      /\ UNCHANGED <<backend, immediate, phase, waiting, known, db, step, inbox, durable, history>>
  BY DEF TakeOverFails
<1>3. queue' \in [Workers -> Seq(Job)] /\ queue'[w] = Tail(queue[w])
      /\ \A v \in Workers \ {w} : queue'[v] = queue[v]
  BY <1>1, <1>2 DEF Shapes, QueueOK
<1>4. Shapes'
  BY <1>1, <1>2, <1>3 DEF Shapes, history
<1>5. ASSUME NEW v \in Workers \ {w} PROVE WorkerOK(v)'
  <2>1. Aside(v)
    BY <1>1, <1>2, <1>3, <1>5, OwnershipAssumption DEF Aside
  <2> QED
    BY <2>1, OthersStay DEF HoldInv
<1>6. WorkerOK(w)'
  BY <1>1, <1>2, <1>3, OwnershipAssumption DEF WorkerOK, StepOK, PhaseOK, JobsOK, Owns
<1>7. HoldOK'
  BY <1>1, <1>2 DEF HoldOK, history
<1> QED
  BY <1>4, <1>5, <1>6, <1>7 DEF HoldInv

LEMMA LockGrantedHolds == ASSUME HoldInv, NEW w \in Workers, LockGranted(w) PROVE HoldInv'
<1> DEFINE open == [kind |-> "open", request |-> None, from |-> None, epoch |-> None]
           rest == IF step[w] = "remote" THEN Tail(queue[w]) ELSE queue[w]
<1>1. Shapes /\ HoldOK /\ WorkerOK(w)
  BY DEF HoldInv
<1>2. /\ lock = None /\ w \in waiting /\ waiting' = waiting \ {w}
      /\ step' = [step EXCEPT ![w] = "idle"]
      /\ \/ Full(w) /\ lock' = None /\ queue' = [queue EXCEPT ![w] = rest]
         \/ ~ Full(w) /\ lock' = w /\ queue' = [queue EXCEPT ![w] = Append(rest, open)]
      /\ UNCHANGED <<backend, immediate, phase, known, db, inbox, durable, result, done, lost, sentTo>>
  BY DEF LockGranted
<1>3. phase[w] = "ready" /\ ~ db.open /\ Opening(queue[w]) = {} /\ queue[w] \in Seq(Job)
  BY <1>1, <1>2, OwnershipAssumption DEF WorkerOK, PhaseOK, JobsOK, HoldOK, QueueOK
<1>4. QueueOK(rest) /\ Opening(rest) = {} /\ (~ Full(w) => Len(rest) < MaxPending)
  <2>1. CASE step[w] = "remote"
    <3>1. queue[w] # <<>>
      BY <1>1, <2>1 DEF WorkerOK, StepOK
    <3>2. Shortened(Tail(queue[w]), queue[w])
      BY <1>1, <3>1, QueueTail DEF WorkerOK, JobsOK
    <3>3. Len(Tail(queue[w])) = Len(queue[w]) - 1 /\ Len(queue[w]) \in Nat
      BY <1>3, <3>1
    <3>4. ~ Full(w) => Len(Tail(queue[w])) < MaxPending
      BY <3>3, OwnershipAssumption DEF Full
    <3> QED
      BY <1>3, <2>1, <3>2, <3>4 DEF Shortened
  <2>2. CASE step[w] # "remote"
    <3>1. ~ Full(w) => Len(queue[w]) < MaxPending
      BY <1>3, OwnershipAssumption DEF Full
    <3> QED
      BY <1>1, <1>3, <2>2, <3>1 DEF WorkerOK, JobsOK
  <2> QED
    BY <2>1, <2>2
<1> HIDE DEF rest
<1>5. open \in Job /\ JobOK(open) /\ open.kind = "open"
  BY DEF Job, JobOK
<1> HIDE DEF open
<1>6. ~ Full(w) => Lengthened(Append(rest, open), rest, open)
  BY <1>4, <1>5, QueueAppend
<1>7. /\ queue' \in [Workers -> Seq(Job)] /\ QueueOK(queue'[w])
      /\ Opening(queue'[w]) # {} => lock' = w
      /\ \A v \in Workers \ {w} : queue'[v] = queue[v]
  <2>1. rest \in Seq(Job) /\ (~ Full(w) => Append(rest, open) \in Seq(Job))
    BY <1>4, <1>6 DEF QueueOK, Lengthened
  <2>2. CASE Full(w)
    BY <1>1, <1>2, <1>4, <2>1, <2>2 DEF Shapes
  <2>3. CASE ~ Full(w)
    BY <1>1, <1>2, <1>6, <2>1, <2>3 DEF Shapes, Lengthened
  <2> QED
    BY <2>2, <2>3
<1>8. answer' \in [Requests -> Outcomes \cup {"none"}]
  BY <1>1 DEF LockGranted, Shapes, Outcomes
<1>9. Shapes'
  BY <1>1, <1>2, <1>7, <1>8 DEF Shapes
<1>10. ASSUME NEW v \in Workers \ {w} PROVE WorkerOK(v)'
  <2>1. Aside(v)
    BY <1>1, <1>2, <1>7, <1>10, OwnershipAssumption DEF Aside, Shapes
  <2> QED
    BY <2>1, OthersStay DEF HoldInv
<1>11. WorkerOK(w)'
  <2>1. step'[w] = "idle" /\ w \notin waiting' /\ db' = db /\ phase'[w] = "ready"
        /\ known'[w] = known[w]
    BY <1>1, <1>2, <1>3 DEF Shapes
  <2>2. StepOK(w)'
    BY <2>1 DEF StepOK
  <2>3. PhaseOK(w)'
    BY <1>1, <1>3, <2>1 DEF WorkerOK, PhaseOK
  <2>4. JobsOK(w)'
    BY <1>3, <1>7, <2>1 DEF JobsOK
  <2> QED
    BY <2>2, <2>3, <2>4 DEF WorkerOK
<1>12. HoldOK'
  BY <1>1, <1>2, <1>3 DEF HoldOK
<1> QED
  BY <1>9, <1>10, <1>11, <1>12 DEF HoldInv

LEMMA NewJobs ==
  /\ \A r \in Requests : LET j == [kind |-> "command", request |-> r, from |-> None, epoch |-> None]
                         IN j \in Job /\ JobOK(j) /\ j.kind # "open"
  /\ \A k \in {"flush", "close"} :
       LET j == [kind |-> k, request |-> None, from |-> None, epoch |-> None]
       IN j \in Job /\ JobOK(j) /\ j.kind # "open"
  /\ \A m \in Message : m.type = "request" =>
       LET j == [kind |-> "request", request |-> m.request, from |-> m.from, epoch |-> m.epoch]
       IN j \in Job /\ JobOK(j) /\ j.kind # "open"
<1>1. \A m \in Message : m.type = "request" =>
        m.request \in Requests \cup {Hello} /\ m.from \in Workers /\ m.epoch \in Workers \cup {None}
  BY MessageParts
<1> QED
  BY <1>1 DEF Job, JobOK

LEMMA IssueHolds ==
  ASSUME HoldInv, NEW w \in Workers, NEW r \in Requests, Issue(w, r) PROVE HoldInv'
<1> DEFINE j == [kind |-> "command", request |-> r, from |-> None, epoch |-> None]
<1>1. /\ phase[w] = "ready"
      /\ \/ Full(w) /\ answer' = [answer EXCEPT ![r] = "refused"] /\ queue' = queue
         \/ ~ Full(w) /\ Enqueue(w, j) /\ answer' = answer
      /\ UNCHANGED <<backend, immediate, phase, lock, waiting, known, db, step,
                     inbox, durable, result, done, lost, sentTo>>
  BY DEF Issue
<1>2. inbox' \in [Workers -> Seq(Message)] /\ known' \in [Workers -> Workers \cup {None}]
      /\ answer' \in [Requests -> Outcomes \cup {"none"}]
      /\ \A v \in Workers : phase[v] = "ready" => known[v] # None
  BY <1>1 DEF HoldInv, Shapes, Outcomes, WorkerOK, PhaseOK
<1>3. CASE queue' = queue
  BY <1>1, <1>2, <1>3, MailHolds
<1>4. CASE ~ Full(w) /\ Enqueue(w, j)
  <2>1. j \in Job /\ JobOK(j) /\ j.kind # "open"
    BY NewJobs
  <2> HIDE DEF j
  <2> QED
    BY <1>1, <1>2, <1>4, <2>1, AcceptHolds
<1> QED
  BY <1>1, <1>3, <1>4

LEMMA CloseHolds == ASSUME HoldInv, NEW w \in Workers, Close(w) PROVE HoldInv'
<1> DEFINE j == [kind |-> "close", request |-> None, from |-> None, epoch |-> None]
<1>1. /\ phase[w] = "ready" /\ ~ Full(w) /\ Enqueue(w, j)
      /\ UNCHANGED <<backend, immediate, phase, lock, waiting, known, db, step, inbox, durable, history>>
  BY DEF Close
<1>2. inbox' \in [Workers -> Seq(Message)] /\ answer' \in [Requests -> Outcomes \cup {"none"}]
      /\ UNCHANGED <<result, done, lost, sentTo>>
  BY <1>1 DEF HoldInv, Shapes, history
<1>3. j \in Job /\ JobOK(j) /\ j.kind # "open"
  BY NewJobs
<1> HIDE DEF j
<1> QED
  BY <1>1, <1>2, <1>3, AcceptHolds

LEMMA TimerFiresHolds == ASSUME HoldInv, TimerFires PROVE HoldInv'
<1> DEFINE j == [kind |-> "flush", request |-> None, from |-> None, epoch |-> None]
<1>1. Shapes /\ HoldOK
  BY DEF HoldInv
<1>2. /\ db.timer
      /\ \/ Full(lock) /\ db' = [db EXCEPT !.timer = FALSE, !.failing = TRUE] /\ queue' = queue
         \/ ~ Full(lock) /\ db' = [db EXCEPT !.timer = FALSE] /\ Enqueue(lock, j)
      /\ UNCHANGED <<backend, immediate, phase, lock, waiting, known, step, inbox, durable, history>>
  BY DEF TimerFires
<1>3. db.open /\ lock \in Workers
  BY <1>1, <1>2 DEF HoldOK, Closed
<1>4. WorkerOK(lock) /\ phase[lock] = "ready"
  BY <1>1, <1>3 DEF HoldInv, WorkerOK, PhaseOK, Shapes
<1>5. inbox' \in [Workers -> Seq(Message)] /\ answer' \in [Requests -> Outcomes \cup {"none"}]
      /\ UNCHANGED <<result, done, lost, sentTo, answer>>
  BY <1>1, <1>2 DEF Shapes, history
<1>6. CASE ~ Full(lock) /\ db' = [db EXCEPT !.timer = FALSE] /\ Enqueue(lock, j)
  <2>1. j \in Job /\ JobOK(j) /\ j.kind # "open"
    BY NewJobs
  <2>2. PICK w \in Workers : w = lock
    BY <1>3
  <2> HIDE DEF j
  <2> QED
    BY <1>2, <1>3, <1>4, <1>5, <1>6, <2>1, <2>2, EnqueueHolds
<1>7. CASE Full(lock) /\ db' = [db EXCEPT !.timer = FALSE, !.failing = TRUE] /\ queue' = queue
  <2>1. /\ db'.open = db.open /\ db'.memory = db.memory /\ db'.saving = db.saving
        /\ db'.dirty = db.dirty /\ db'.failing = TRUE
    BY <1>1, <1>7 DEF Shapes, Databases
  <2>2. db' \in Databases
    BY <1>1, <1>7 DEF Shapes, Databases
  <2>3. Shapes'
    BY <1>1, <1>2, <1>5, <1>7, <2>2 DEF Shapes
  <2>4. ASSUME NEW v \in Workers PROVE WorkerOK(v)'
    <3>1. WorkerOK(v)
      BY DEF HoldInv
    <3> QED
      BY <1>2, <1>7, <2>1, <3>1 DEF WorkerOK, StepOK, PhaseOK, JobsOK, Owns
  <2>5. HoldOK'
    BY <1>1, <1>2, <1>3, <1>5, <2>1 DEF HoldOK
  <2> QED
    BY <2>3, <2>4, <2>5 DEF HoldInv
<1> QED
  BY <1>2, <1>6, <1>7

LEMMA ForwardHolds == ASSUME HoldInv, NEW w \in Workers, Forward(w) PROVE HoldInv'
<1> DEFINE r == Head(queue[w]).request
           m == [type |-> "request", request |-> r, from |-> w, epoch |-> known[w]]
<1>1. /\ queue[w] # <<>> /\ step[w] = "idle" /\ Head(queue[w]).kind = "command" /\ ~ Owns(w)
      /\ inbox' = Post(inbox, Listening(w), m) /\ sentTo' = [sentTo EXCEPT ![r] = known[w]]
      /\ step' = [step EXCEPT ![w] = "remote"]
      /\ UNCHANGED <<backend, immediate, phase, lock, waiting, known, db, queue,
                     durable, answer, result, done, lost>>
  BY DEF Forward, Begins
<1>2. Shapes /\ HoldOK /\ WorkerOK(w) /\ r \in Requests
  BY <1>1, AtWork DEF HoldInv, Shortened, JobOK
<1>3. m \in Message /\ known[w] \in Workers \cup {None} /\ inbox \in [Workers -> Seq(Message)]
  BY <1>2, MessageMakes DEF Shapes
<1> HIDE DEF m
<1>4. /\ inbox' \in [Workers -> Seq(Message)]
      /\ \A v \in Workers : v \notin Listening(w) => inbox'[v] = inbox[v]
  BY <1>1, <1>3, PostType
<1> HIDE DEF r
<1>5. Shapes'
  BY <1>1, <1>2, <1>3, <1>4 DEF Shapes
<1>6. ASSUME NEW v \in Workers \ {w} PROVE WorkerOK(v)'
  <2>1. Aside(v)
    BY <1>1, <1>2, <1>4, <1>6 DEF Aside, Shapes, Listening
  <2> QED
    BY <2>1, OthersStay DEF HoldInv
<1>7. step'[w] = "remote" /\ inbox'[w] = inbox[w]
  BY <1>1, <1>2, <1>4 DEF Shapes, Listening
<1>8. WorkerOK(w)'
  BY <1>1, <1>2, <1>7 DEF WorkerOK, StepOK, PhaseOK, JobsOK, Owns
<1>9. HoldOK'
  <2>1. ~ (db.open /\ step[lock] = "saving" /\ lock = w)
    BY <1>1
  <2>2. lock \in Workers \ {w} => step'[lock] = step[lock]
    BY <1>1, <1>2 DEF Shapes
  <2> QED
    BY <1>1, <1>2, <2>1, <2>2 DEF HoldOK
<1> QED
  BY <1>5, <1>6, <1>8, <1>9 DEF HoldInv

LEMMA TimeoutHolds == ASSUME HoldInv, NEW w \in Workers, Timeout(w) PROVE HoldInv'
<1>1. /\ step[w] = "remote" /\ Finish(w, "unknown", inbox)
      /\ UNCHANGED <<backend, immediate, phase, lock, waiting, known, db, durable,
                     result, done, lost, sentTo>>
  BY DEF Timeout
<1>2. Shapes /\ HoldOK /\ StepOK(w) /\ queue[w] # <<>>
  BY <1>1 DEF HoldInv, WorkerOK, StepOK
<1>3. JobsOK(w) /\ known[w] # None
  BY <1>2, AtWork
<1>4. Finishes(w)
  BY <1>1, <1>2, <1>3, FinishEffect DEF Shapes, Outcomes
<1>5. Shapes' /\ \A v \in Workers : WorkerOK(v)'
  BY <1>1, <1>2, <1>3, <1>4, FinishHolds DEF Shapes
<1>6. HoldOK'
  <2>1. db.open /\ step[lock] = "saving" => lock # w /\ step'[lock] = step[lock]
    BY <1>1, <1>2, <1>4 DEF HoldOK, Finishes, Keeps
  <2> QED
    BY <1>1, <1>2, <2>1, HoldStays
<1> QED
  BY <1>5, <1>6 DEF HoldInv

LEMMA InitOpenFailsHolds == ASSUME HoldInv, NEW w \in Workers, InitOpenFails(w) PROVE HoldInv'
<1>1. phase[w] = "opening" /\ durable' = durable /\ Leave(w, "unknown") /\ durable \subseteq Writes
  BY DEF InitOpenFails, HoldInv, Shapes
<1> QED
  BY <1>1, LeaveHolds DEF Outcomes

LEMMA HelloTimesOutHolds == ASSUME HoldInv, NEW w \in Workers, HelloTimesOut(w) PROVE HoldInv'
<1>1. phase[w] = "hello" /\ durable' = durable /\ Leave(w, "unknown") /\ durable \subseteq Writes
  BY DEF HelloTimesOut, HoldInv, Shapes
<1> QED
  BY <1>1, LeaveHolds DEF Outcomes

LEMMA CrashHolds == ASSUME HoldInv, NEW w \in Workers, Crash(w) PROVE HoldInv'
<1>1. phase[w] \notin {"new", "gone"} /\ durable' \in Survivors(w) /\ Leave(w, "unknown")
  BY DEF Crash
<1>2. durable \subseteq Writes /\ db.memory \subseteq Writes /\ db.saving \subseteq Writes
  BY DEF HoldInv, Shapes, Databases
<1>3. durable' \subseteq Writes /\ (~ Owns(w) => durable' = durable)
  BY <1>1, <1>2 DEF Survivors
<1> QED
  BY <1>1, <1>3, LeaveHolds DEF Outcomes

\* The owner ends its first job.
LEMMA OwnerFinishes ==
  ASSUME HoldInv, NEW w \in Workers, Owns(w), queue[w] # <<>>, NEW outcome \in Outcomes,
         Finish(w, outcome, inbox),
         UNCHANGED <<backend, immediate, phase, lock, waiting, known, lost, sentTo>>,
         db' \in Databases, db'.open, durable' \subseteq db'.memory,
         backend = "indexeddb" /\ ~ db'.dirty => db'.memory = durable',
         immediate /\ ~ db'.failing => db'.memory = durable',
         result' \in [Reads -> SUBSET Writes], done' \subseteq Reads \cup Flushes
  PROVE  HoldInv'
<1>1. Shapes /\ HoldOK /\ JobsOK(w) /\ known[w] # None /\ lock = w /\ db.open = TRUE
  BY AtWork DEF Owns, Shapes, Databases
<1>2. db'.open = TRUE /\ durable' \subseteq Writes
  BY DEF Databases
<1>3. Finishes(w)
  BY <1>1, FinishEffect DEF Shapes
<1>4. Shapes' /\ \A v \in Workers : WorkerOK(v)'
  BY <1>1, <1>2, <1>3, FinishHolds DEF Shapes
<1>5. HoldOK'
  BY <1>1, <1>2 DEF HoldOK
<1> QED
  BY <1>4, <1>5 DEF HoldInv

\* The owner at the beginning of a job
LEMMA OwnerBegins ==
  ASSUME HoldInv, NEW w \in Workers, NEW K, Owns(w), Begins(w, K)
  PROVE  /\ Shapes /\ HoldOK /\ queue[w] # <<>> /\ lock = w /\ db \in Databases /\ db.open = TRUE
         /\ durable \subseteq db.memory /\ db.memory \subseteq Writes
         /\ step[w] = "idle" /\ Head(queue[w]).kind \in K
         /\ backend = "indexeddb" /\ ~ db.dirty => db.memory = durable
         /\ immediate /\ ~ db.failing => db.memory = durable
<1>1. Shapes /\ HoldOK
  BY DEF HoldInv
<1>2. queue[w] # <<>> /\ step[w] = "idle" /\ Head(queue[w]).kind \in K /\ lock = w /\ db.open
  BY DEF Begins, Owns
<1> QED
  BY <1>1, <1>2 DEF Shapes, HoldOK, Databases

LEMMA PerformsParts ==
  ASSUME NEW w \in Workers, NEW R, Performs(w, R)
  PROVE  /\ Owns(w) /\ Begins(w, {"command", "request"}) /\ Head(queue[w]).request \in R
         /\ UNCHANGED <<backend, immediate, phase, lock, waiting, known, lost, sentTo>>
BY DEF Performs

LEMMA RefuseHolds == ASSUME HoldInv, NEW w \in Workers, Refuse(w) PROVE HoldInv'
<1>1. /\ Owns(w) /\ Begins(w, {"command", "request"})
      /\ UNCHANGED <<backend, immediate, phase, lock, waiting, known, lost, sentTo>>
  BY PerformsParts DEF Refuse
<1>2. Finish(w, "refused", inbox) /\ UNCHANGED <<db, durable, result, done>>
  BY DEF Refuse
<1> QED
  BY <1>1, <1>2, OwnerBegins, OwnerFinishes DEF Shapes, Outcomes

LEMMA GreetHolds == ASSUME HoldInv, NEW w \in Workers, Greet(w) PROVE HoldInv'
<1>1. /\ Owns(w) /\ Begins(w, {"command", "request"})
      /\ UNCHANGED <<backend, immediate, phase, lock, waiting, known, lost, sentTo>>
  BY PerformsParts DEF Greet
<1>2. Finish(w, "ok", inbox) /\ UNCHANGED <<db, durable, result, done>>
  BY DEF Greet
<1> QED
  BY <1>1, <1>2, OwnerBegins, OwnerFinishes DEF Shapes, Outcomes

LEMMA ReadHolds == ASSUME HoldInv, NEW w \in Workers, Read(w) PROVE HoldInv'
<1>1. /\ Owns(w) /\ Begins(w, {"command", "request"}) /\ Head(queue[w]).request \in Reads
      /\ UNCHANGED <<backend, immediate, phase, lock, waiting, known, lost, sentTo>>
  BY PerformsParts DEF Read
<1>2. /\ Finish(w, "ok", inbox) /\ UNCHANGED <<db, durable>>
      /\ result' = [result EXCEPT ![Head(queue[w]).request] = db.memory]
      /\ done' = done \cup {Head(queue[w]).request}
  BY DEF Read
<1>3. result' \in [Reads -> SUBSET Writes] /\ done' \subseteq Reads \cup Flushes
  BY <1>1, <1>2 DEF HoldInv, Shapes, Databases
<1> QED
  BY <1>1, <1>2, <1>3, OwnerBegins, OwnerFinishes DEF Outcomes

LEMMA WriteHolds == ASSUME HoldInv, NEW w \in Workers, Write(w) PROVE HoldInv'
<1> DEFINE r == Head(queue[w]).request
           written == [db EXCEPT !.memory = @ \cup {r}, !.dirty = (backend = "indexeddb")]
<1>1. /\ Owns(w) /\ Begins(w, {"command", "request"}) /\ r \in Writes
      /\ UNCHANGED <<backend, immediate, phase, lock, waiting, known, lost, sentTo>>
  BY PerformsParts DEF Write
<1>2. /\ Shapes /\ HoldOK /\ queue[w] # <<>> /\ lock = w /\ db \in Databases /\ db.open = TRUE
      /\ durable \subseteq db.memory /\ step[w] = "idle"
      /\ Head(queue[w]).kind \in {"command", "request"}
  BY <1>1, OwnerBegins
<1>3. \/ SavesFirst /\ Saving(written, w)
      \/ /\ ~ SavesFirst
         /\ db' = [written EXCEPT !.timer = (backend = "indexeddb")]
         /\ durable' = (IF immediate /\ backend = "opfs" THEN written.memory ELSE durable)
         /\ Finish(w, "ok", inbox)
         /\ UNCHANGED <<result, done>>
  BY DEF Write
<1>4. /\ written \in Databases /\ written.open = TRUE /\ written.memory = db.memory \cup {r}
      /\ written.dirty = (backend = "indexeddb") /\ written.failing = db.failing
  BY <1>1, <1>2 DEF Databases
<1> HIDE DEF written
<1>5. CASE SavesFirst /\ Saving(written, w)
  <2>1. written.dirty = TRUE /\ durable \subseteq written.memory
        /\ Head(queue[w]).request \in Writes \cap written.memory
    BY <1>1, <1>2, <1>4, <1>5 DEF SavesFirst
  <2> QED
    BY <1>1, <1>2, <1>4, <1>5, <2>1, SavingHolds
<1>6. CASE /\ ~ SavesFirst
           /\ db' = [written EXCEPT !.timer = (backend = "indexeddb")]
           /\ durable' = (IF immediate /\ backend = "opfs" THEN written.memory ELSE durable)
           /\ Finish(w, "ok", inbox)
           /\ UNCHANGED <<result, done>>
  <2>1. /\ db' \in Databases /\ db'.open = TRUE /\ db'.memory = written.memory
        /\ db'.dirty = (backend = "indexeddb")
    BY <1>4, <1>6 DEF Databases
  <2>2. durable' \subseteq db'.memory
    BY <1>2, <1>4, <1>6, <2>1
  <2>3. immediate => db'.memory = durable'
    BY <1>2, <1>4, <1>6, <2>1 DEF SavesFirst, Shapes
  <2>4. backend = "indexeddb" /\ ~ db'.dirty => db'.memory = durable'
    BY <2>1
  <2> QED
    BY <1>1, <1>2, <1>6, <2>1, <2>2, <2>3, <2>4, OwnerFinishes DEF Shapes, Outcomes
<1> QED
  BY <1>3, <1>5, <1>6

LEMMA FlushHolds == ASSUME HoldInv, NEW w \in Workers, Flush(w) PROVE HoldInv'
<1> DEFINE r == Head(queue[w]).request
<1>1. /\ Owns(w) /\ Begins(w, {"command", "request"}) /\ r \in Flushes
      /\ UNCHANGED <<backend, immediate, phase, lock, waiting, known, lost, sentTo>>
  BY PerformsParts DEF Flush
<1>2. /\ Shapes /\ HoldOK /\ queue[w] # <<>> /\ lock = w /\ db \in Databases /\ db.open = TRUE
      /\ durable \subseteq db.memory /\ step[w] = "idle"
      /\ Head(queue[w]).kind \in {"command", "request"}
      /\ backend = "indexeddb" /\ ~ db.dirty => db.memory = durable
      /\ immediate /\ ~ db.failing => db.memory = durable
  BY <1>1, OwnerBegins
<1>3. CASE db.dirty /\ Saving(db, w)
  BY <1>1, <1>2, <1>3, SavingHolds
<1>4. CASE /\ ~ db.dirty /\ db' = [db EXCEPT !.timer = FALSE]
           /\ durable' = (IF backend = "opfs" THEN db.memory ELSE durable)
           /\ done' = done \cup {r} /\ Finish(w, "ok", inbox) /\ result' = result
  <2>1. /\ db' \in Databases /\ db'.open = TRUE /\ db'.memory = db.memory /\ db'.dirty = db.dirty
        /\ db'.failing = db.failing
    BY <1>2, <1>4 DEF Databases
  <2>2. durable' = db'.memory
    BY <1>2, <1>4, <2>1 DEF Shapes
  <2>3. done' \subseteq Reads \cup Flushes
    BY <1>1, <1>2, <1>4 DEF Shapes
  <2> QED
    BY <1>1, <1>2, <1>4, <2>1, <2>2, <2>3, OwnerFinishes DEF Shapes, Outcomes
<1> QED
  BY <1>3, <1>4 DEF Flush

LEMMA TimedFlushHolds == ASSUME HoldInv, NEW w \in Workers, TimedFlush(w) PROVE HoldInv'
<1>1. /\ Owns(w) /\ Begins(w, {"flush"})
      /\ UNCHANGED <<backend, immediate, phase, lock, waiting, known, lost, sentTo>>
  BY DEF TimedFlush
<1>2. /\ Shapes /\ HoldOK /\ queue[w] # <<>> /\ lock = w /\ db \in Databases /\ db.open = TRUE
      /\ durable \subseteq db.memory /\ step[w] = "idle"
      /\ Head(queue[w]).kind \in {"flush"}
      /\ backend = "indexeddb" /\ ~ db.dirty => db.memory = durable
      /\ immediate /\ ~ db.failing => db.memory = durable
  BY <1>1, OwnerBegins
<1>3. CASE db.dirty /\ Saving(db, w)
  BY <1>1, <1>2, <1>3, SavingHolds
<1>4. CASE /\ ~ db.dirty /\ db' = [db EXCEPT !.timer = FALSE]
           /\ Finish(w, "ok", inbox) /\ UNCHANGED <<durable, result, done>>
  <2>1. /\ db' \in Databases /\ db'.open = TRUE /\ db'.memory = db.memory /\ db'.dirty = db.dirty
        /\ db'.failing = db.failing
    BY <1>2, <1>4 DEF Databases
  <2> QED
    BY <1>1, <1>2, <1>4, <2>1, OwnerFinishes DEF Shapes, Outcomes
<1> QED
  BY <1>3, <1>4 DEF TimedFlush

\* The owner in the middle of a save
LEMMA OwnerSaves ==
  ASSUME HoldInv, NEW w \in Workers, step[w] = "saving"
  PROVE  /\ Shapes /\ HoldOK /\ queue[w] # <<>> /\ Owns(w) /\ phase[w] = "ready"
         /\ db \in Databases /\ db.open = TRUE /\ lock = w
         /\ db.saving = db.memory /\ durable \subseteq db.memory /\ db.memory \subseteq Writes
         /\ \/ Head(queue[w]).kind \in {"flush", "close"}
            \/ Head(queue[w]).request \in Flushes
            \/ Head(queue[w]).request \in Writes \cap db.memory
<1>1. Shapes /\ HoldOK /\ StepOK(w)
  BY DEF HoldInv, WorkerOK
<1>2. queue[w] # <<>>
  BY <1>1 DEF StepOK
<1>3. phase[w] = "ready"
  BY <1>2, AtWork
<1> QED
  BY <1>1, <1>2, <1>3 DEF StepOK, Shapes, HoldOK, Databases, Owns

LEMMA SaveDoneHolds == ASSUME HoldInv, NEW w \in Workers, SaveDone(w) PROVE HoldInv'
<1>1. step[w] = "saving" /\ durable' = db.saving
  BY DEF SaveDone
<1>2. /\ Shapes /\ HoldOK /\ queue[w] # <<>> /\ Owns(w) /\ phase[w] = "ready"
      /\ db \in Databases /\ db.open = TRUE
      /\ db.saving = db.memory /\ durable \subseteq db.memory /\ db.memory \subseteq Writes
  BY <1>1, OwnerSaves
<1>3. CASE Leave(w, "refused")
  BY <1>1, <1>2, <1>3, LeaveHolds DEF Outcomes
<1>4. CASE /\ db' = [db EXCEPT !.saving = {}, !.dirty = FALSE, !.failing = FALSE]
           /\ done' = done \cup ({Head(queue[w]).request} \cap Flushes)
           /\ Finish(w, "ok", inbox)
           /\ UNCHANGED <<backend, immediate, phase, lock, waiting, known, result, lost, sentTo>>
  <2>1. db' \in Databases /\ db'.open = TRUE /\ db'.memory = db.memory
    BY <1>2, <1>4 DEF Databases
  <2>2. done' \subseteq Reads \cup Flushes /\ result' \in [Reads -> SUBSET Writes]
    BY <1>2, <1>4 DEF Shapes
  <2> QED
    BY <1>1, <1>2, <1>4, <2>1, <2>2, OwnerFinishes DEF Outcomes
<1> QED
  BY <1>3, <1>4 DEF SaveDone

LEMMA SaveFailsHolds == ASSUME HoldInv, NEW w \in Workers, SaveFails(w) PROVE HoldInv'
<1>1. step[w] = "saving" /\ durable' = durable
  BY DEF SaveFails
<1>2. /\ Shapes /\ HoldOK /\ queue[w] # <<>> /\ Owns(w) /\ phase[w] = "ready"
      /\ db \in Databases /\ db.open = TRUE
      /\ db.saving = db.memory /\ durable \subseteq db.memory /\ db.memory \subseteq Writes
  BY <1>1, OwnerSaves
<1>3. CASE Leave(w, "refused")
  BY <1>1, <1>2, <1>3, LeaveHolds DEF Outcomes
<1>4. CASE /\ db' = [db EXCEPT !.saving = {}, !.failing = TRUE]
           /\ Finish(w, "unknown", inbox)
           /\ UNCHANGED <<backend, immediate, phase, lock, waiting, known, result, done, lost, sentTo>>
  <2>1. /\ db' \in Databases /\ db'.open = TRUE /\ db'.memory = db.memory /\ db'.dirty = db.dirty
        /\ db'.failing = TRUE
    BY <1>2, <1>4 DEF Databases
  <2>2. backend = "indexeddb" /\ ~ db'.dirty => db'.memory = durable'
    BY <1>1, <1>2, <2>1 DEF HoldOK
  <2> QED
    BY <1>1, <1>2, <1>4, <2>1, <2>2, OwnerFinishes DEF Shapes, Outcomes
<1> QED
  BY <1>3, <1>4 DEF SaveFails

LEMMA ClosesHolds == ASSUME HoldInv, NEW w \in Workers, Closes(w) PROVE HoldInv'
<1>1. Begins(w, {"close"})
  BY DEF Closes
<1>2. queue[w] # <<>> /\ Head(queue[w]).kind = "close"
  BY <1>1 DEF Begins
<1>3. Shapes /\ phase[w] = "ready"
  BY <1>2, AtWork
<1>4. CASE /\ Owns(w) /\ db.dirty /\ Saving(db, w)
           /\ UNCHANGED <<backend, immediate, phase, lock, waiting, known, lost, sentTo>>
  <2>1. db \in Databases /\ db.open = TRUE /\ durable \subseteq db.memory
    BY <1>1, <1>4, OwnerBegins
  <2> QED
    BY <1>2, <1>4, <2>1, SavingHolds
<1>5. CASE /\ durable' = (IF Owns(w) /\ backend = "opfs" THEN db.memory ELSE durable)
           /\ Leave(w, "refused")
  <2>1. durable' \subseteq Writes /\ (~ Owns(w) => durable' = durable)
    BY <1>3, <1>5 DEF Shapes, Databases
  <2> QED
    BY <1>3, <1>5, <2>1, LeaveHolds DEF Outcomes
<1> QED
  BY <1>4, <1>5 DEF Closes

\* A worker that has a message
LEMMA Reading ==
  ASSUME HoldInv, NEW w \in Workers, NEW type, Receives(w, type)
  PROVE  /\ Shapes /\ HoldOK /\ WorkerOK(w) /\ inbox[w] # <<>> /\ Head(inbox[w]) \in Message
         /\ Head(inbox[w]).type = type /\ phase[w] \notin {"new", "gone"}
         /\ Rest(w) \in [Workers -> Seq(Message)]
         /\ \A v \in Workers \ {w} : Rest(w)[v] = inbox[v]
         /\ \A v \in Workers : phase[v] \in {"new", "gone"} => Rest(w)[v] = inbox[v]
         /\ \A v \in Workers : phase[v] = "ready" => known[v] # None
         /\ UNCHANGED <<backend, immediate, lock, db, durable, result, done, sentTo>>
<1>1. Shapes /\ HoldOK /\ WorkerOK(w) /\ \A v \in Workers : phase[v] = "ready" => known[v] # None
  BY DEF HoldInv, WorkerOK, PhaseOK
<1>2. inbox[w] # <<>> /\ Head(inbox[w]).type = type
      /\ UNCHANGED <<backend, immediate, lock, db, durable, result, done, sentTo>>
  BY DEF Receives
<1>3. phase[w] \notin {"new", "gone"}
  BY <1>1, <1>2 DEF WorkerOK, PhaseOK
<1> QED
  BY <1>1, <1>2, <1>3, RestType

\* A forwarded command is answered, by a message or by the lack of one.
LEMMA WaitEnds ==
  ASSUME HoldInv, NEW w \in Workers, step[w] = "remote",
         NEW outcome \in Outcomes, NEW box \in [Workers -> Seq(Message)],
         \A v \in Workers : phase[v] \in {"new", "gone"} => box[v] = inbox[v],
         Finish(w, outcome, box),
         UNCHANGED <<backend, immediate, phase, lock, waiting, db, durable,
                     result, done, lost, sentTo>>,
         known' \in [Workers -> Workers \cup {None}], known'[w] # None,
         \A v \in Workers \ {w} : known'[v] = known[v]
  PROVE  HoldInv'
<1>1. Shapes /\ HoldOK /\ StepOK(w) /\ queue[w] # <<>>
  BY DEF HoldInv, WorkerOK, StepOK
<1>2. JobsOK(w)
  BY <1>1, AtWork
<1>3. Finishes(w)
  BY <1>1, <1>2, FinishEffect
<1>4. Shapes' /\ \A v \in Workers : WorkerOK(v)'
  BY <1>1, <1>3, FinishHolds DEF Shapes
<1>5. HoldOK'
  <2>1. db.open /\ step[lock] = "saving" => lock # w /\ step'[lock] = step[lock]
    BY <1>1, <1>3 DEF HoldOK, Finishes, Keeps
  <2> QED
    BY <1>1, <2>1, HoldStays
<1> QED
  BY <1>4, <1>5 DEF HoldInv

LEMMA OnOwnerHolds == ASSUME HoldInv, NEW w \in Workers, OnOwner(w) PROVE HoldInv'
<1> DEFINE e == Head(inbox[w]).epoch
           changed == known[w] \notin {None, e}
<1>1. Receives(w, "owner")
  BY DEF OnOwner
<1>2. /\ Shapes /\ HoldOK /\ WorkerOK(w) /\ inbox[w] # <<>> /\ Head(inbox[w]) \in Message
      /\ Head(inbox[w]).type = "owner" /\ phase[w] \notin {"new", "gone"}
      /\ Rest(w) \in [Workers -> Seq(Message)]
      /\ \A v \in Workers \ {w} : Rest(w)[v] = inbox[v]
      /\ \A v \in Workers : phase[v] \in {"new", "gone"} => Rest(w)[v] = inbox[v]
      /\ \A v \in Workers : phase[v] = "ready" => known[v] # None
      /\ UNCHANGED <<backend, immediate, lock, db, durable, result, done, sentTo>>
  BY <1>1, Reading
<1>3. e \in Workers
  BY <1>2, MessageParts
<1>4. CASE Leave(w, "unknown")
  BY <1>2, <1>4, LeaveHolds DEF Shapes, Outcomes
<1>5. CASE /\ step[w] = "remote" /\ Finish(w, "unknown", Rest(w))
           /\ known' = [known EXCEPT ![w] = e] /\ UNCHANGED <<phase, waiting, lost>>
  <2>1. known' \in [Workers -> Workers \cup {None}] /\ known'[w] # None
        /\ \A v \in Workers \ {w} : known'[v] = known[v]
    BY <1>2, <1>3, <1>5, OwnershipAssumption DEF Shapes
  <2> QED
    BY <1>2, <1>5, <2>1, WaitEnds DEF Outcomes
<1>6. CASE /\ known' = (IF Owns(w) THEN known ELSE [known EXCEPT ![w] = e])
           /\ inbox' = Rest(w)
           /\ UNCHANGED <<phase, waiting, queue, step, answer, lost>>
  <2>1. known' \in [Workers -> Workers \cup {None}]
        /\ \A v \in Workers : known'[v] = known[v] \/ (v = w /\ known'[v] = e)
    BY <1>2, <1>3, <1>6 DEF Shapes
  <2>2. /\ \A v \in Workers : phase[v] \in {"new", "gone"} => inbox'[v] = inbox[v]
                                                              /\ known'[v] = known[v]
        /\ \A v \in Workers : phase[v] = "ready" => known'[v] # None
    BY <1>2, <1>3, <1>6, <2>1, OwnershipAssumption
  <2> QED
    BY <1>2, <1>6, <2>1, <2>2, MailHolds DEF Shapes
<1> QED
  BY <1>4, <1>5, <1>6 DEF OnOwner

LEMMA OnResponseHolds == ASSUME HoldInv, NEW w \in Workers, OnResponse(w) PROVE HoldInv'
<1> DEFINE m == Head(inbox[w])
<1>1. Receives(w, "response")
  BY DEF OnResponse
<1>2. /\ Shapes /\ HoldOK /\ WorkerOK(w) /\ inbox[w] # <<>> /\ m \in Message
      /\ m.type = "response" /\ phase[w] \notin {"new", "gone"}
      /\ Rest(w) \in [Workers -> Seq(Message)]
      /\ \A v \in Workers \ {w} : Rest(w)[v] = inbox[v]
      /\ \A v \in Workers : phase[v] \in {"new", "gone"} => Rest(w)[v] = inbox[v]
      /\ \A v \in Workers : phase[v] = "ready" => known[v] # None
      /\ UNCHANGED <<backend, immediate, lock, db, durable, result, done, sentTo>>
  BY <1>1, Reading
<1>3. m.epoch \in Workers /\ m.outcome \in Outcomes
  BY <1>2, MessageParts
<1>4. CASE Leave(w, "unknown")
  BY <1>2, <1>4, LeaveHolds DEF Shapes, Outcomes
<1>5. CASE /\ phase[w] = "hello"
           /\ phase' = [phase EXCEPT ![w] = "ready"] /\ known' = [known EXCEPT ![w] = m.epoch]
           /\ waiting' = waiting \cup {w} /\ inbox' = Rest(w)
           /\ UNCHANGED <<queue, step, answer, lost>>
  <2>1. Shapes'
    BY <1>2, <1>3, <1>5 DEF Shapes
  <2>2. ASSUME NEW v \in Workers \ {w} PROVE WorkerOK(v)'
    <3>1. Aside(v)
      BY <1>2, <1>5, <2>2 DEF Aside, Shapes
    <3> QED
      BY <3>1, OthersStay DEF HoldInv
  <2>3. WorkerOK(w)'
    <3>1. lock # w /\ queue[w] = <<>> /\ phase'[w] = "ready" /\ known'[w] = m.epoch
      BY <1>2, <1>5 DEF WorkerOK, PhaseOK, Shapes
    <3> QED
      BY <1>2, <1>3, <1>5, <3>1, OwnershipAssumption
      DEF WorkerOK, StepOK, PhaseOK, JobsOK, Owns
  <2>4. HoldOK'
    BY <1>2, <1>5, HoldStays
  <2> QED
    BY <2>1, <2>2, <2>3, <2>4 DEF HoldInv
<1>6. CASE /\ Awaits(w, m.request) /\ Finish(w, m.outcome, Rest(w))
           /\ UNCHANGED <<phase, waiting, known, lost>>
  <2>1. step[w] = "remote" /\ queue[w] # <<>>
    BY <1>2, <1>6 DEF Awaits, WorkerOK, StepOK
  <2>2. known[w] # None
    BY <2>1, AtWork
  <2> QED
    BY <1>2, <1>3, <1>6, <2>1, <2>2, WaitEnds DEF Shapes
<1>7. CASE /\ inbox' = Rest(w) /\ UNCHANGED <<phase, waiting, known, queue, step, answer, lost>>
  <2>1. known' \in [Workers -> Workers \cup {None}]
        /\ answer' \in [Requests -> Outcomes \cup {"none"}]
    BY <1>2, <1>7 DEF Shapes
  <2> QED
    BY <1>2, <1>7, <2>1, MailHolds
<1> QED
  BY <1>4, <1>5, <1>6, <1>7 DEF OnResponse

LEMMA OnRequestHolds == ASSUME HoldInv, NEW w \in Workers, OnRequest(w) PROVE HoldInv'
<1> DEFINE m == Head(inbox[w])
           j == [kind |-> "request", request |-> m.request, from |-> m.from, epoch |-> m.epoch]
           refusal == [type |-> "response", epoch |-> w, request |-> m.request, outcome |-> "refused"]
<1>1. Receives(w, "request")
  BY DEF OnRequest
<1>2. /\ Shapes /\ HoldOK /\ WorkerOK(w) /\ inbox[w] # <<>> /\ m \in Message
      /\ m.type = "request" /\ phase[w] \notin {"new", "gone"}
      /\ Rest(w) \in [Workers -> Seq(Message)]
      /\ \A v \in Workers \ {w} : Rest(w)[v] = inbox[v]
      /\ \A v \in Workers : phase[v] \in {"new", "gone"} => Rest(w)[v] = inbox[v]
      /\ \A v \in Workers : phase[v] = "ready" => known[v] # None
      /\ UNCHANGED <<backend, immediate, lock, db, durable, result, done, sentTo>>
  BY <1>1, Reading
<1>3. /\ \/ Owns(w) /\ ~ Full(w) /\ Enqueue(w, j)
         \/ ~ (Owns(w) /\ ~ Full(w)) /\ queue' = queue
      /\ \/ Owns(w) /\ Full(w) /\ m.from \in Listening(w) /\ inbox' = Post(Rest(w), {m.from}, refusal)
         \/ inbox' = Rest(w)
      /\ UNCHANGED <<phase, waiting, known, step, answer, lost>>
  BY DEF OnRequest
<1>4. /\ inbox' \in [Workers -> Seq(Message)]
      /\ \A v \in Workers : phase[v] \in {"new", "gone"} => inbox'[v] = inbox[v]
  <2>1. CASE m.from \in Listening(w) /\ inbox' = Post(Rest(w), {m.from}, refusal)
    <3>1. refusal \in Message
      <4>1. refusal = [type |-> "response", outcome |-> "refused", request |-> m.request, epoch |-> w]
        OBVIOUS
      <4>2. m.request \in Requests \cup {Hello} /\ "refused" \in Outcomes
        BY <1>2, MessageParts DEF Outcomes
      <4> QED
        BY <4>1, <4>2, MessageMakes
    <3> HIDE DEF refusal
    <3>2. /\ inbox' \in [Workers -> Seq(Message)]
          /\ \A v \in Workers : inbox'[v] = IF v \in {m.from} THEN Append(Rest(w)[v], refusal)
                                            ELSE Rest(w)[v]
      BY <1>2, <2>1, <3>1, PostType
    <3>3. phase[m.from] \notin {"new", "gone"}
      BY <2>1 DEF Listening
    <3> QED
      BY <1>2, <3>2, <3>3
  <2>2. CASE inbox' = Rest(w)
    BY <1>2, <2>2
  <2> QED
    BY <1>3, <2>1, <2>2
<1>5. answer' \in [Requests -> Outcomes \cup {"none"}] /\ known' \in [Workers -> Workers \cup {None}]
  BY <1>2, <1>3 DEF Shapes
<1>6. CASE Owns(w) /\ ~ Full(w) /\ Enqueue(w, j)
  <2>1. j \in Job /\ JobOK(j) /\ j.kind # "open"
    BY <1>2, NewJobs
  <2>2. phase[w] = "ready"
    BY <1>2, <1>6 DEF WorkerOK, PhaseOK, Owns
  <2> HIDE DEF j
  <2> QED
    BY <1>2, <1>3, <1>4, <1>5, <1>6, <2>1, <2>2, AcceptHolds
<1>7. CASE queue' = queue
  BY <1>2, <1>3, <1>4, <1>5, <1>7, MailHolds
<1> QED
  BY <1>3, <1>6, <1>7

LEMMA HoldNext == ASSUME HoldInv, [Next]_all PROVE HoldInv'
<1>1. CASE UNCHANGED all
  BY <1>1 DEF all, vars, history, HoldInv, Shapes, HoldOK, WorkerOK, StepOK, PhaseOK, JobsOK, Owns
<1>2. CASE TimerFires
  BY <1>2, TimerFiresHolds
<1>3. ASSUME NEW w \in Workers, Opens(w) PROVE HoldInv'
  BY <1>3, InitOpensHolds, InitOpenFailsHolds, TakesOverHolds, TakeOverFailsHolds DEF Opens
<1>4. ASSUME NEW w \in Workers, Works(w) PROVE HoldInv'
  BY <1>4, ForwardHolds, RefuseHolds, GreetHolds, ReadHolds, WriteHolds, FlushHolds,
     TimedFlushHolds, ClosesHolds DEF Works
<1>5. ASSUME NEW w \in Workers, Saves(w) PROVE HoldInv'
  BY <1>5, SaveDoneHolds, SaveFailsHolds DEF Saves
<1>6. ASSUME NEW w \in Workers, Receive(w) PROVE HoldInv'
  BY <1>6, OnOwnerHolds, OnResponseHolds, OnRequestHolds DEF Receive
<1> QED
  BY <1>1, <1>2, <1>3, <1>4, <1>5, <1>6, InitAloneHolds, InitOtherHolds, HelloTimesOutHolds,
     LockGrantedHolds, IssueHolds, TimeoutHolds, CloseHolds, CrashHolds DEF Next

LEMMA HoldInit == ASSUME Init PROVE HoldInv
<1>1. Shapes
  BY OwnershipAssumption DEF Init, Shapes, Closed, Databases
<1>2. HoldOK
  BY DEF Init, HoldOK, Closed
<1>3. ASSUME NEW w \in Workers PROVE WorkerOK(w)
  BY QueueEmpty, OwnershipAssumption DEF Init, WorkerOK, StepOK, PhaseOK, JobsOK
<1> QED
  BY <1>1, <1>2, <1>3 DEF HoldInv

\* Every variable stays within its set, only a command that was forwarded is
\* awaited, nobody but the owner saves, and no queue has more than its places:
\* for any number of tabs and requests, whichever tab is the owner when.
THEOREM OwnershipTypes == Spec => []TypeOK
<1>1. Init => HoldInv
  BY HoldInit
<1>2. HoldInv /\ [Next]_all => HoldInv'
  BY HoldNext
<1> QED
  BY <1>1, <1>2, HoldTypes, PTL DEF Spec

-----------------------------------------------------------------------------
(***************************************************************************)
(* Where a request is: a command of the worker it was issued to, a message *)
(* to, or a job of, another it was forwarded to.                           *)
(***************************************************************************)

MailOf(box) == {r \in Requests : \E m \in Elems(box) : m.type = "request" /\ m.request = r}

OnceSent(box) ==
  \A i, j \in 1 .. Len(box) :
    box[i].type = "request" /\ box[j].type = "request" /\ box[i].request \in Requests
      /\ box[i].request = box[j].request => i = j

Own(w)   == Commands(queue[w])
Taken(w) == Forwarded(queue[w])
Mail(w)  == MailOf(inbox[w])

OnceOK(w) ==
  /\ Once(queue[w], "command", Requests) /\ Once(queue[w], "request", Requests)
  /\ OnceSent(inbox[w]) /\ Mail(w) \cap Taken(w) = {}
  /\ Own(w) \cap (Mail(w) \cup Taken(w)) = {}

\* The request a worker is at
Begun(w) == IF step[w] = "idle" THEN {} ELSE {Head(queue[w]).request}

\* What has taken effect, or may when the save is over
Reached == durable \cup db.memory \cup lost \cup done

\* A command has no answer yet, no effect before it is begun, and is forwarded
\* when it is awaited.
CommandsOK(w) ==
  \A r \in Own(w) :
    /\ answer[r] = "none"
    /\ r \in Reached => r \in Begun(w)
    /\ sentTo[r] # None <=> step[w] = "remote" /\ r \in Begun(w)

\* What has taken effect is not asked for again, of the worker it was sent to.
ForwardedOK(w) ==
  /\ \A r \in Mail(w) : r \in Reached => sentTo[r] # w
  /\ \A r \in Taken(w) : r \in Reached => r \in Begun(w) \/ sentTo[r] # w

\* A forwarded request names the epoch it was sent to.
StampsOK(w) ==
  /\ \A m \in Elems(inbox[w]) : m.type = "request" /\ m.request \in Requests =>
       m.epoch # None /\ m.epoch = sentTo[m.request]
  /\ \A j \in Elems(queue[w]) : j.kind = "request" /\ j.request \in Requests =>
       j.epoch # None /\ j.epoch = sentTo[j.request]

SavingOK(w) ==
  step[w] = "saving" /\ Head(queue[w]).kind = "request" => Head(queue[w]).epoch = w

TrackOK(w) == OnceOK(w) /\ CommandsOK(w) /\ ForwardedOK(w) /\ StampsOK(w) /\ SavingOK(w)

TrackInv ==
  /\ \A w \in Workers : TrackOK(w)
  /\ \A w, v \in Workers : w # v => Own(w) \cap Own(v) = {}
  /\ \A r \in Requests : sentTo[r] # None => r \in Asked
  /\ Reached \subseteq Asked
  /\ db.open => \A r \in db.memory \ durable : sentTo[r] \in {None, lock}

LEMMA MailTail ==
  ASSUME NEW t, NEW q, Rests(t, q), OnceSent(q)
  PROVE  /\ OnceSent(t)
         /\ Head(q).type = "request" => MailOf(t) = MailOf(q) \ {Head(q).request}
         /\ Head(q).type # "request" => MailOf(t) = MailOf(q)
<1>1. /\ Len(q) \in Nat \ {0} /\ Len(t) = Len(q) - 1 /\ Head(q) = q[1]
      /\ \A i \in 1 .. Len(t) : t[i] = q[i + 1] /\ i + 1 \in 1 .. Len(q)
      /\ Elems(q) = Elems(t) \cup {Head(q)}
  BY DEF Rests
<1>2. OnceSent(t)
  <2> SUFFICES ASSUME NEW i \in 1 .. Len(t), NEW j \in 1 .. Len(t),
                      t[i].type = "request" /\ t[j].type = "request" /\ t[i].request \in Requests
                        /\ t[i].request = t[j].request
               PROVE  i = j
    BY DEF OnceSent
  <2>1. i + 1 = j + 1
    BY <1>1 DEF OnceSent
  <2> QED
    BY <2>1
<1>3. ASSUME Head(q).type = "request", Head(q).request \in MailOf(t) PROVE FALSE
  <2>1. PICK j \in Elems(t) : j.type = "request" /\ j.request = Head(q).request
    BY <1>3 DEF MailOf
  <2>2. PICK i \in 1 .. Len(t) : t[i] = j
    BY DEF Elems
  <2>3. 1 \in 1 .. Len(q) /\ i + 1 # 1
    BY <1>1
  <2>4. q[1].request \in Requests
    BY <1>1, <1>3 DEF MailOf
  <2>5. q[1].type = "request" /\ q[i + 1].type = "request" /\ q[1].request = q[i + 1].request
        /\ i + 1 \in 1 .. Len(q)
    BY <1>1, <1>3, <2>1, <2>2
  <2> QED
    BY <2>3, <2>4, <2>5 DEF OnceSent
<1> QED
  BY <1>1, <1>2, <1>3 DEF MailOf

LEMMA MailAppend ==
  ASSUME NEW a, NEW q, NEW x, Extends(a, q, x), OnceSent(q),
         x.type = "request" => x.request \notin MailOf(q)
  PROVE  /\ OnceSent(a)
         /\ x.type = "request" => MailOf(a) = MailOf(q) \cup ({x.request} \cap Requests)
         /\ x.type # "request" => MailOf(a) = MailOf(q)
<1>1. /\ Len(q) \in Nat /\ Len(a) = Len(q) + 1 /\ a[Len(a)] = x
      /\ \A i \in 1 .. Len(q) : a[i] = q[i]
      /\ \A i \in 1 .. Len(a) : i \in 1 .. Len(q) \/ i = Len(a)
      /\ Elems(a) = Elems(q) \cup {x}
  BY DEF Extends
<1>2. \A i \in 1 .. Len(q) : q[i] \in Elems(q)
  BY DEF Elems
<1>3. OnceSent(a)
  BY <1>1, <1>2 DEF OnceSent, MailOf
<1> QED
  BY <1>1, <1>3 DEF MailOf

\* What was asked, in terms of the commands in the queues
LEMMA AskedParts ==
  ASSUME Shapes
  PROVE  Asked = {r \in Requests : answer[r] # "none" \/ \E w \in Workers : r \in Own(w)}
<1>1. ASSUME NEW w \in Workers, NEW r \in Requests
      PROVE  r \in Own(w) <=> \E i \in DOMAIN queue[w] : queue[w][i].kind = "command"
                                                       /\ queue[w][i].request = r
  <2>1. DOMAIN queue[w] = 1 .. Len(queue[w])
    BY DEF Shapes
  <2> QED
    BY <2>1 DEF Own, Commands, RequestsOf, Elems
<1> QED
  BY <1>1 DEF Asked

\* No new command or request: what there is goes on, or is over.
QueueShrinks(v) ==
  /\ Once(queue'[v], "command", Requests) /\ Once(queue'[v], "request", Requests)
  /\ \A j \in Elems(queue'[v]) : j.kind \in {"command", "request"} => j \in Elems(queue[v])

MailShrinks(v) ==
  /\ OnceSent(inbox'[v])
  /\ \A m \in Elems(inbox'[v]) : m.type = "request" /\ m.request \in Requests =>
       m \in Elems(inbox[v])

GoesOn(v) ==
  /\ \A r \in Own(v)' : /\ r \in Begun(v) => r \in Begun(v)'
                        /\ (step'[v] = "remote" /\ r \in Begun(v)')
                             <=> (step[v] = "remote" /\ r \in Begun(v))
  /\ \A r \in Taken(v)' : r \in Begun(v) => r \in Begun(v)'
  /\ SavingOK(v)'

Shrinks(v) == QueueShrinks(v) /\ MailShrinks(v) /\ GoesOn(v)

\* The requests of X have taken effect where they are, and are done.
Over(X, v) ==
  \A r \in X : /\ r \in Own(v)' => r \in Begun(v)'
               /\ r \in Taken(v)' => r \in Begun(v)' \/ sentTo[r] # v
               /\ r \in Mail(v)' => sentTo[r] # v

LEMMA ShrinkingSets ==
  ASSUME NEW v \in Workers, QueueShrinks(v), MailShrinks(v)
  PROVE  Own(v)' \subseteq Own(v) /\ Taken(v)' \subseteq Taken(v) /\ Mail(v)' \subseteq Mail(v)
<1>1. Own(v)' \subseteq Own(v) /\ Taken(v)' \subseteq Taken(v)
  BY DEF QueueShrinks, Own, Taken, Commands, Forwarded, RequestsOf
<1>2. Mail(v)' \subseteq Mail(v)
  BY DEF MailShrinks, Mail, MailOf
<1> QED
  BY <1>1, <1>2

LEMMA TracksShrink ==
  ASSUME TrackInv, sentTo' = sentTo, \A v \in Workers : Shrinks(v),
         \A v \in Workers : \A r \in Own(v)' : answer'[r] = answer[r],
         Asked \subseteq Asked',
         NEW X, Reached' \subseteq Reached \cup X, X \subseteq Asked,
         \A v \in Workers : Over(X, v),
         db'.open => \A r \in db'.memory \ durable' : sentTo[r] \in {None, lock'}
  PROVE  TrackInv'
<1>1. ASSUME NEW v \in Workers PROVE TrackOK(v)'
  <2>1. QueueShrinks(v) /\ MailShrinks(v) /\ GoesOn(v) /\ TrackOK(v)
    BY DEF Shrinks, TrackInv
  <2>2. Own(v)' \subseteq Own(v) /\ Taken(v)' \subseteq Taken(v) /\ Mail(v)' \subseteq Mail(v)
    BY <2>1, ShrinkingSets
  <2>3. OnceOK(v)'
    BY <2>1, <2>2 DEF OnceOK, QueueShrinks, MailShrinks, TrackOK
  <2>4. CommandsOK(v)'
    <3> SUFFICES ASSUME NEW r \in Own(v)'
                 PROVE  /\ answer'[r] = "none"
                        /\ r \in Reached' => r \in Begun(v)'
                        /\ sentTo'[r] # None <=> step'[v] = "remote" /\ r \in Begun(v)'
      BY DEF CommandsOK
    <3>1. /\ answer[r] = "none" /\ (r \in Reached => r \in Begun(v))
          /\ (sentTo[r] # None <=> step[v] = "remote" /\ r \in Begun(v))
      BY <2>1, <2>2 DEF TrackOK, CommandsOK
    <3>2. answer'[r] = answer[r]
      OBVIOUS
    <3>3. r \in Begun(v) => r \in Begun(v)'
      BY <2>1 DEF GoesOn
    <3>4. (step'[v] = "remote" /\ r \in Begun(v)') <=> (step[v] = "remote" /\ r \in Begun(v))
      BY <2>1 DEF GoesOn
    <3>5. r \in X => r \in Begun(v)'
      BY DEF Over
    <3> QED
      BY <3>1, <3>2, <3>3, <3>4, <3>5
  <2>5. ForwardedOK(v)'
    BY <2>1, <2>2 DEF TrackOK, ForwardedOK, GoesOn, Over
  <2>6. StampsOK(v)'
    BY <2>1 DEF TrackOK, StampsOK, QueueShrinks, MailShrinks
  <2>7. SavingOK(v)'
    BY <2>1 DEF GoesOn
  <2> QED
    BY <2>3, <2>4, <2>5, <2>6, <2>7 DEF TrackOK
<1>2. ASSUME NEW w \in Workers, NEW v \in Workers, w # v PROVE Own(w)' \cap Own(v)' = {}
  <2>1. Own(w)' \subseteq Own(w) /\ Own(v)' \subseteq Own(v)
    BY ShrinkingSets DEF Shrinks
  <2> QED
    BY <1>2, <2>1 DEF TrackInv
<1>3. \A r \in Requests : sentTo'[r] # None => r \in Asked'
  BY DEF TrackInv
<1>4. Reached' \subseteq Asked'
  BY DEF TrackInv
<1> QED
  BY <1>1, <1>2, <1>3, <1>4 DEF TrackInv

LEMMA SameGoesOn ==
  ASSUME NEW v \in Workers, TrackOK(v), queue'[v] = queue[v], step'[v] = step[v]
  PROVE  QueueShrinks(v) /\ GoesOn(v)
<1>1. QueueShrinks(v)
  BY DEF TrackOK, OnceOK, QueueShrinks
<1>2. Begun(v)' = Begun(v) /\ SavingOK(v)'
  BY DEF TrackOK, SavingOK, Begun
<1> QED
  BY <1>1, <1>2 DEF GoesOn

\* What is not the first job of a worker is not begun.
LEMMA TailGoesOn ==
  ASSUME NEW v \in Workers, TrackOK(v), JobsOK(v), queue[v] # <<>>,
         queue'[v] = Tail(queue[v]), step'[v] = "idle"
  PROVE  /\ QueueShrinks(v) /\ GoesOn(v)
         /\ Head(queue[v]).kind = "command" => Own(v)' = Own(v) \ {Head(queue[v]).request}
         /\ Head(queue[v]).kind # "command" => Own(v)' = Own(v)
         /\ Head(queue[v]).request \notin Own(v)' \cup Taken(v)'
<1> DEFINE q == queue[v]
           j == Head(q)
<1>1. Rests(Tail(q), q) /\ JobOK(j) /\ j \in Elems(q)
  BY QueueTail, ElemsTail DEF JobsOK, QueueOK, Shortened
<1>2. Once(q, "command", Requests) /\ Once(q, "request", Requests)
  BY DEF TrackOK, OnceOK
<1>3. PICK t : t = queue'[v] /\ Rests(t, q)
  BY <1>1
<1>4. Once(t, "command", Requests) /\ Once(t, "request", Requests)
  BY <1>2, <1>3, OnceTail
<1>5. /\ j.kind = "command" => Commands(t) = Commands(q) \ {j.request}
      /\ j.kind # "command" => Commands(t) = Commands(q)
  BY <1>2, <1>3, OnceTail DEF Commands
<1>6. /\ j.kind = "request" => Forwarded(t) = Forwarded(q) \ {j.request}
      /\ j.kind # "request" => Forwarded(t) = Forwarded(q)
  BY <1>2, <1>3, OnceTail DEF Forwarded
<1>7. Elems(t) \subseteq Elems(q)
  BY <1>3 DEF Rests
<1>8. QueueShrinks(v)
  BY <1>3, <1>4, <1>7 DEF QueueShrinks
<1>9. Own(v)' = Commands(t) /\ Taken(v)' = Forwarded(t) /\ Own(v) = Commands(q)
      /\ Taken(v) = Forwarded(q)
  BY <1>3 DEF Own, Taken
<1>10. Own(v) \cap Taken(v) = {} /\ Own(v) \subseteq Requests /\ Taken(v) \subseteq Requests
  BY DEF TrackOK, OnceOK, Own, Taken, Commands, Forwarded, RequestsOf
<1>11. /\ j.kind = "command" => j.request \in Own(v)
       /\ j.kind = "request" /\ j.request \in Requests => j.request \in Taken(v)
       /\ j.kind \notin {"command", "request"} => j.request \notin Requests
  BY <1>1, OwnershipAssumption, QueueTail
  DEF JobOK, Own, Taken, Commands, Forwarded, RequestsOf, JobsOK, Shortened, Job
<1> HIDE DEF j
<1>12. j.request \notin Own(v)' \cup Taken(v)'
  BY <1>5, <1>6, <1>9, <1>10, <1>11
<1>13. Begun(v) \subseteq {j.request} /\ Begun(v)' = {}
  BY DEF Begun, j
<1>14. GoesOn(v)
  BY <1>12, <1>13 DEF GoesOn, SavingOK
<1> QED
  BY <1>5, <1>8, <1>9, <1>12, <1>14 DEF j

LEMMA EmptyGoesOn ==
  ASSUME NEW v \in Workers, queue'[v] = <<>>, step'[v] = "idle"
  PROVE  QueueShrinks(v) /\ GoesOn(v) /\ Own(v)' = {} /\ Taken(v)' = {}
<1>1. QueueShrinks(v)
  BY ElemsEmpty DEF QueueShrinks, Once
<1>2. Own(v)' = {} /\ Taken(v)' = {}
  BY ElemsEmpty DEF Own, Taken, Commands, Forwarded, RequestsOf
<1> QED
  BY <1>1, <1>2 DEF GoesOn, SavingOK

\* Jobs that are not requests change nothing.
LEMMA AppendShrinks ==
  ASSUME NEW v \in Workers, NEW q \in Seq(Job), NEW x \in Job, x.kind \notin {"command", "request"},
         Once(q, "command", Requests), Once(q, "request", Requests), Elems(q) \subseteq Elems(queue[v]),
         queue'[v] = Append(q, x)
  PROVE  /\ QueueShrinks(v) /\ Own(v)' = Commands(q) /\ Taken(v)' = Forwarded(q)
<1>1. PICK a : a = queue'[v] /\ Extends(a, q, x)
  BY ElemsAppend
<1>2. Once(a, "command", Requests) /\ Once(a, "request", Requests)
  BY <1>1, OnceAppend
<1>3. Commands(a) = Commands(q) /\ Forwarded(a) = Forwarded(q)
  <2>1. RequestsOf(a, "command", Requests) = RequestsOf(q, "command", Requests)
    BY <1>1, OnceAppend
  <2>2. RequestsOf(a, "request", Requests) = RequestsOf(q, "request", Requests)
    BY <1>1, OnceAppend
  <2> QED
    BY <2>1, <2>2 DEF Commands, Forwarded
<1>4. Elems(a) = Elems(q) \cup {x}
  BY <1>1 DEF Extends
<1>5. QueueShrinks(v)
  BY <1>1, <1>2, <1>4 DEF QueueShrinks
<1> QED
  BY <1>1, <1>3, <1>5 DEF Own, Taken

LEMMA SameMail ==
  ASSUME NEW v \in Workers, TrackOK(v), inbox'[v] = inbox[v]
  PROVE  MailShrinks(v)
BY DEF TrackOK, OnceOK, MailShrinks

LEMMA TailMail ==
  ASSUME NEW v \in Workers, TrackOK(v), inbox[v] \in Seq(Message), inbox[v] # <<>>,
         inbox'[v] = Tail(inbox[v])
  PROVE  MailShrinks(v)
<1>1. PICK t : t = inbox'[v] /\ Rests(t, inbox[v])
  BY ElemsTail
<1>2. OnceSent(t)
  BY <1>1, MailTail DEF TrackOK, OnceOK
<1>3. Elems(t) \subseteq Elems(inbox[v])
  BY <1>1 DEF Rests
<1> QED
  BY <1>1, <1>2, <1>3 DEF MailShrinks

LEMMA EmptyMail ==
  ASSUME NEW v \in Workers, inbox'[v] = <<>>
  PROVE  MailShrinks(v)
BY ElemsEmpty DEF MailShrinks, OnceSent

LEMMA AppendMail ==
  ASSUME NEW v \in Workers, TrackOK(v), NEW box \in Seq(Message), OnceSent(box),
         Elems(box) \subseteq Elems(inbox[v]),
         NEW m \in Message, m.type = "request" => m.request \notin Requests,
         inbox'[v] = Append(box, m)
  PROVE  MailShrinks(v)
<1>1. PICK a : a = inbox'[v] /\ Extends(a, box, m)
  BY ElemsAppend
<1>2. OnceSent(a)
  BY <1>1, MailAppend DEF MailOf
<1>3. Elems(a) = Elems(box) \cup {m}
  BY <1>1 DEF Extends
<1> QED
  BY <1>1, <1>2, <1>3 DEF MailShrinks

\* The inboxes, with some messages taken from the front
Boxes(box) ==
  /\ box \in [Workers -> Seq(Message)]
  /\ \A v \in Workers : box[v] = inbox[v] \/ (inbox[v] # <<>> /\ box[v] = Tail(inbox[v]))

LEMMA BoxesSame == ASSUME Shapes PROVE Boxes(inbox)
BY DEF Shapes, Boxes

LEMMA BoxesRest == ASSUME Shapes, NEW w \in Workers, inbox[w] # <<>> PROVE Boxes(Rest(w))
BY RestType DEF Boxes

LEMMA BoxShrinks ==
  ASSUME Shapes, TrackInv, NEW box, Boxes(box), NEW v \in Workers
  PROVE  /\ inbox'[v] = box[v] => MailShrinks(v)
         /\ \A m \in Message : inbox'[v] = Append(box[v], m)
              /\ (m.type = "request" => m.request \notin Requests) => MailShrinks(v)
<1>1. TrackOK(v) /\ inbox[v] \in Seq(Message) /\ box[v] \in Seq(Message)
  BY DEF Shapes, TrackInv, Boxes
<1>2. OnceSent(box[v]) /\ Elems(box[v]) \subseteq Elems(inbox[v])
  <2>1. OnceSent(inbox[v])
    BY <1>1 DEF TrackOK, OnceOK
  <2>2. CASE box[v] = inbox[v]
    BY <2>1, <2>2
  <2>3. CASE inbox[v] # <<>> /\ box[v] = Tail(inbox[v])
    <3>1. PICK t : t = box[v] /\ Rests(t, inbox[v])
      BY <1>1, <2>3, ElemsTail
    <3>2. OnceSent(t) /\ Elems(t) \subseteq Elems(inbox[v])
      BY <2>1, <3>1, MailTail DEF Rests
    <3> QED
      BY <3>1, <3>2
  <2> QED
    BY <2>2, <2>3 DEF Boxes
<1>3. ASSUME inbox'[v] = box[v] PROVE MailShrinks(v)
  BY <1>2, <1>3 DEF MailShrinks
<1>4. ASSUME NEW m \in Message, inbox'[v] = Append(box[v], m),
             m.type = "request" => m.request \notin Requests
      PROVE  MailShrinks(v)
  BY <1>1, <1>2, <1>4, AppendMail
<1> QED
  BY <1>3, <1>4

LEMMA PostShrinks ==
  ASSUME Shapes, TrackInv, NEW box, Boxes(box), NEW to, NEW m \in Message,
         m.type = "request" => m.request \notin Requests,
         inbox' = Post(box, to, m), NEW v \in Workers
  PROVE  MailShrinks(v)
<1>1. inbox'[v] = Append(box[v], m) \/ inbox'[v] = box[v]
  <2>1. box \in [Workers -> Seq(Message)]
    BY DEF Boxes
  <2>2. Post(box, to, m)[v] = IF v \in to THEN Append(box[v], m) ELSE box[v]
    BY <2>1, PostType
  <2> QED
    BY <2>2
<1> QED
  BY <1>1, BoxShrinks

\* Nothing new is asked: commands go on, or are answered.
Settles ==
  /\ \A v \in Workers : Shrinks(v)
  /\ \A v \in Workers : \A r \in Own(v)' : answer'[r] = answer[r]
  /\ \A r \in Requests : answer'[r] # answer[r] => \E v \in Workers : r \in Own(v)
  /\ Asked \subseteq Asked'

LEMMA AskedPartsNext ==
  ASSUME Shapes'
  PROVE  Asked' = {r \in Requests : answer'[r] # "none" \/ \E w \in Workers : r \in Own(w)'}
<1>1. ASSUME NEW w \in Workers, NEW r \in Requests
      PROVE  r \in Own(w)' <=> \E i \in DOMAIN queue'[w] : queue'[w][i].kind = "command"
                                                        /\ queue'[w][i].request = r
  <2>1. DOMAIN queue'[w] = 1 .. Len(queue'[w])
    BY DEF Shapes
  <2> QED
    BY <2>1 DEF Own, Commands, RequestsOf, Elems
<1> QED
  BY <1>1 DEF Asked

LEMMA AskedStays ==
  ASSUME Shapes, Shapes',
         \A r \in Requests : answer[r] # "none" => answer'[r] # "none",
         \A v \in Workers : \A r \in Own(v) : r \in Own(v)' \/ answer'[r] # "none"
  PROVE  Asked \subseteq Asked'
BY AskedParts, AskedPartsNext

LEMMA FinishSettles ==
  ASSUME HoldInv, HoldInv', TrackInv, NEW w \in Workers, queue[w] # <<>>,
         NEW outcome \in Outcomes, NEW box, Boxes(box), Finish(w, outcome, box)
  PROVE  /\ Settles
         /\ Head(queue[w]).request \notin Own(w)' \cup Taken(w)'
         /\ \A v \in Workers \ {w} : Own(v)' = Own(v)
<1> DEFINE j == Head(queue[w])
           m == [type |-> "response", outcome |-> outcome, request |-> j.request, epoch |-> w]
<1>1. Shapes /\ Shapes' /\ TrackOK(w) /\ JobsOK(w)
  BY DEF HoldInv, WorkerOK, TrackInv
<1>2. queue'[w] = Tail(queue[w]) /\ step'[w] = "idle"
      /\ \A v \in Workers \ {w} : queue'[v] = queue[v] /\ step'[v] = step[v]
  BY <1>1 DEF Finish, Shapes
<1>3. /\ QueueShrinks(w) /\ GoesOn(w)
      /\ j.kind = "command" => Own(w)' = Own(w) \ {j.request}
      /\ j.kind # "command" => Own(w)' = Own(w)
      /\ j.request \notin Own(w)' \cup Taken(w)'
  BY <1>1, <1>2, TailGoesOn
<1>4. j.kind = "request" => j.request \in Requests \cup {Hello}
  BY <1>1, QueueTail DEF JobsOK, Shortened, JobOK
<1>5. ASSUME NEW v \in Workers PROVE MailShrinks(v)
  <2>1. CASE j.kind = "request" /\ j.from \in Listening(w)
    <3>1. m \in Message /\ m.type # "request"
      BY <1>4, <2>1, MessageMakes
    <3>2. inbox' = Post(box, {j.from}, m)
      BY <2>1 DEF Finish
    <3> HIDE DEF m, j
    <3> QED
      BY <1>1, <3>1, <3>2, PostShrinks
  <2>2. CASE inbox' = box
    BY <1>1, <2>2, BoxShrinks
  <2> QED
    BY <2>1, <2>2 DEF Finish
<1>6. ASSUME NEW v \in Workers \ {w} PROVE QueueShrinks(v) /\ GoesOn(v) /\ Own(v)' = Own(v)
  BY <1>2, <1>6, SameGoesOn DEF TrackInv, Own
<1>7. \A r \in Requests : answer'[r] = IF j.kind = "command" /\ r = j.request THEN outcome
                                       ELSE answer[r]
  BY DEF Finish
<1>8. /\ \A v \in Workers \ {w} : j.kind = "command" => j.request \notin Own(v)
      /\ j.kind = "command" => j.request \in Own(w)
  <2>1. j.kind = "command" => j.request \in Own(w)
    BY <1>1, QueueTail
    DEF JobsOK, Shortened, JobOK, Own, Commands, RequestsOf
  <2> QED
    BY <2>1 DEF TrackInv
<1>9. \A v \in Workers : Own(v)' \subseteq Requests /\ Own(v) \subseteq Requests
  BY DEF Own, Commands, RequestsOf
<1>10. \A v \in Workers : \A r \in Own(v)' : answer'[r] = answer[r]
  BY <1>3, <1>6, <1>7, <1>8, <1>9
<1>11. Asked \subseteq Asked'
  <2>1. outcome # "none"
    BY DEF Outcomes
  <2>2. \A r \in Requests : answer[r] # "none" => answer'[r] # "none"
    BY <1>7, <2>1
  <2>3. ASSUME NEW v \in Workers, NEW r \in Own(v) PROVE r \in Own(v)' \/ answer'[r] # "none"
    <3>1. CASE v # w
      BY <1>6, <3>1
    <3>2. CASE v = w
      BY <1>3, <1>7, <1>9, <2>1, <3>2
    <3> QED
      BY <3>1, <3>2
  <2> QED
    BY <1>1, <2>2, <2>3, AskedStays
<1>12. \A r \in Requests : answer'[r] # answer[r] => \E v \in Workers : r \in Own(v)
  BY <1>7, <1>8
<1> QED
  BY <1>3, <1>5, <1>6, <1>10, <1>11, <1>12 DEF Settles, Shrinks

LEMMA LeaveSettles ==
  ASSUME HoldInv, HoldInv', TrackInv, NEW w \in Workers, NEW outcome \in Outcomes,
         Leave(w, outcome)
  PROVE  Settles
<1>1. Shapes /\ Shapes'
  BY DEF HoldInv
<1>2. /\ queue'[w] = <<>> /\ step'[w] = "idle" /\ inbox'[w] = <<>>
      /\ \A v \in Workers \ {w} : queue'[v] = queue[v] /\ step'[v] = step[v] /\ inbox'[v] = inbox[v]
  BY <1>1 DEF Leave, Shapes
<1>3. Shrinks(w) /\ Own(w)' = {}
  BY <1>2, EmptyGoesOn, EmptyMail DEF Shrinks
<1>4. ASSUME NEW v \in Workers \ {w} PROVE Shrinks(v) /\ Own(v)' = Own(v)
  BY <1>2, <1>4, SameGoesOn, SameMail DEF TrackInv, Shrinks, Own
<1>5. \A r \in Requests : answer'[r] = IF r \in Own(w) THEN outcome ELSE answer[r]
  <2>1. ASSUME NEW r \in Requests
        PROVE  r \in Own(w) <=> \E i \in DOMAIN queue[w] : queue[w][i].kind = "command"
                                                         /\ queue[w][i].request = r
    <3>1. DOMAIN queue[w] = 1 .. Len(queue[w])
      BY <1>1 DEF Shapes
    <3> QED
      BY <3>1 DEF Own, Commands, RequestsOf, Elems
  <2> QED
    BY <2>1 DEF Leave
<1>6. \A v \in Workers : Own(v)' \subseteq Requests /\ Own(v) \subseteq Requests
  BY DEF Own, Commands, RequestsOf
<1>7. \A v \in Workers \ {w} : Own(w) \cap Own(v) = {}
  BY DEF TrackInv
<1>8. \A v \in Workers : \A r \in Own(v)' : answer'[r] = answer[r]
  BY <1>3, <1>4, <1>5, <1>6, <1>7
<1>9. Asked \subseteq Asked'
  <2>1. outcome # "none"
    BY DEF Outcomes
  <2>2. \A r \in Requests : answer[r] # "none" => answer'[r] # "none"
    BY <1>5, <2>1
  <2>3. \A v \in Workers : \A r \in Own(v) : r \in Own(v)' \/ answer'[r] # "none"
    BY <1>4, <1>5, <1>6, <2>1
  <2> QED
    BY <1>1, <2>2, <2>3, AskedStays
<1>10. \A r \in Requests : answer'[r] # answer[r] => \E v \in Workers : r \in Own(v)
  BY <1>5
<1> QED
  BY <1>3, <1>4, <1>8, <1>9, <1>10 DEF Settles

\* Queues stay, or get a job that is not a request; messages that are not
\* requests come and go; and the owner may begin to save.
LEMMA QuietSettles ==
  ASSUME HoldInv, HoldInv', TrackInv, answer' = answer,
         \A v \in Workers : MailShrinks(v),
         \A v \in Workers : QueueShrinks(v) /\ GoesOn(v) /\ Own(v)' = Own(v)
  PROVE  Settles
<1>1. Asked \subseteq Asked'
  BY AskedStays DEF HoldInv
<1> QED
  BY <1>1 DEF Settles, Shrinks

\* A job that is not a request is accepted.
LEMMA AcceptGoesOn ==
  ASSUME HoldInv, TrackInv, NEW w \in Workers, NEW x \in Job,
         x.kind \notin {"command", "request"}, Enqueue(w, x), step' = step, NEW v \in Workers
  PROVE  QueueShrinks(v) /\ GoesOn(v) /\ Own(v)' = Own(v)
<1>1. Shapes /\ StepOK(v) /\ TrackOK(v) /\ queue[v] \in Seq(Job)
  BY DEF HoldInv, WorkerOK, TrackInv, Shapes
<1>2. CASE v # w
  <2>1. queue'[v] = queue[v] /\ step'[v] = step[v]
    BY <1>1, <1>2 DEF Enqueue, Shapes
  <2> QED
    BY <1>1, <2>1, SameGoesOn DEF Own
<1>3. CASE v = w
  <2>1. queue'[v] = Append(queue[v], x) /\ step'[v] = step[v]
    BY <1>1, <1>3 DEF Enqueue, Shapes
  <2>2. QueueShrinks(v) /\ Own(v)' = Own(v) /\ Taken(v)' = Taken(v)
    BY <1>1, <2>1, AppendShrinks DEF TrackOK, OnceOK, Own, Taken
  <2>3. step[v] # "idle" => Head(queue'[v]) = Head(queue[v])
    BY <1>1, <2>1 DEF StepOK
  <2>4. Begun(v)' = Begun(v) /\ SavingOK(v)'
    BY <1>1, <2>1, <2>3 DEF Begun, TrackOK, SavingOK
  <2> QED
    BY <2>1, <2>2, <2>4 DEF GoesOn
<1> QED
  BY <1>2, <1>3

LEMMA SavingGoesOn ==
  ASSUME HoldInv, TrackInv, NEW w \in Workers, step[w] = "idle", NEW base, Saving(base, w),
         Head(queue[w]).kind = "request" => Head(queue[w]).epoch = w, NEW v \in Workers
  PROVE  QueueShrinks(v) /\ GoesOn(v) /\ Own(v)' = Own(v)
<1>1. Shapes /\ TrackOK(v)
  BY DEF HoldInv, TrackInv
<1>2. step' = [step EXCEPT ![w] = "saving"] /\ queue' = queue
  BY DEF Saving
<1>3. CASE v # w
  <2>1. queue'[v] = queue[v] /\ step'[v] = step[v]
    BY <1>1, <1>2, <1>3 DEF Shapes
  <2> QED
    BY <1>1, <2>1, SameGoesOn DEF Own
<1>4. CASE v = w
  <2>1. queue'[v] = queue[v] /\ step'[v] = "saving"
    BY <1>1, <1>2, <1>4 DEF Shapes
  <2>2. QueueShrinks(v) /\ Own(v)' = Own(v)
    BY <1>1, <2>1 DEF TrackOK, OnceOK, QueueShrinks, Own
  <2>3. Begun(v) = {} /\ SavingOK(v)'
    BY <1>4, <2>1 DEF Begun, SavingOK
  <2> QED
    BY <1>4, <2>1, <2>2, <2>3 DEF GoesOn
<1> QED
  BY <1>3, <1>4

-----------------------------------------------------------------------------
(***************************************************************************)
(* What a step does to requests that exist: those of X take effect, or     *)
(* begin to, at the worker they were issued to or sent to.                 *)
(***************************************************************************)

\* At a worker that can carry it out
Live(r) == \E v \in Workers : \/ r \in Own(v) /\ sentTo[r] = None
                              \/ r \in Taken(v) /\ sentTo[r] = v

\* What is in memory only is of the present owner.
Unsaved == db.open => \A r \in db.memory \ durable : sentTo[r] \in {None, lock}

Fenced == \A r \in Served' \ Served : sentTo[r] \in {None, lock}

Settled(X) ==
  /\ Settles /\ sentTo' = sentTo
  /\ Reached' \subseteq Reached \cup X /\ X \subseteq Asked
  /\ \A r \in X : Live(r)
  /\ \A v \in Workers : Over(X, v)
  /\ Unsaved'
  /\ Served \subseteq Served' /\ Fenced

LEMMA SettledTracks == ASSUME TrackInv, NEW X, Settled(X) PROVE TrackInv'
<1>1. /\ \A v \in Workers : Shrinks(v)
      /\ \A v \in Workers : \A r \in Own(v)' : answer'[r] = answer[r]
      /\ Asked \subseteq Asked'
  BY DEF Settled, Settles
<1>2. db'.open => \A r \in db'.memory \ durable' : sentTo[r] \in {None, lock'}
  BY DEF Settled, Unsaved
<1> QED
  BY <1>1, <1>2, TracksShrink DEF Settled

\* What becomes of the database meanwhile: the requests of R take effect on it, ...
TakeEffect(R) ==
  /\ Store' = Store \cup (R \cap Writes)
  /\ result' = [r \in Reads |-> IF r \in R THEN Store ELSE result[r]]
  /\ durable \subseteq durable' /\ durable' \subseteq Store'
  /\ immediate \/ R \cap Flushes # {} => durable' = Store'

\* ... or writes that are not in the storage are gone.
Forget ==
  /\ ~ immediate /\ result' = result /\ Served' = Served
  /\ durable \subseteq Store' /\ Store' \subseteq Store
  /\ durable \subseteq durable' /\ durable' \subseteq Store'

Effect == immediate' = immediate /\ (TakeEffect(Served' \ Served) \/ Forget)

Steps == Effect /\ \E X : Settled(X)

LEMMA NoEffect ==
  ASSUME HoldInv, UNCHANGED <<immediate, durable, result>>, Store' = Store, Served' = Served
  PROVE  Effect
<1>1. durable \subseteq Store /\ (immediate => durable = Store) /\ result \in [Reads -> SUBSET Writes]
  BY DEF HoldInv, HoldOK, Shapes, Store
<1>2. result = [r \in Reads |-> result[r]]
  BY <1>1
<1>3. Served' \ Served = {}
  OBVIOUS
<1> QED
  BY <1>1, <1>2, <1>3 DEF Effect, TakeEffect

\* Nothing takes effect.
LEMMA NothingServed ==
  ASSUME HoldInv, TrackInv, Settles, sentTo' = sentTo,
         UNCHANGED <<immediate, durable, lost, done, result>>,
         db'.open = db.open, db'.memory = db.memory, lock' = lock \/ ~ db.open
  PROVE  Settled({}) /\ Effect
<1>1. Reached' = Reached /\ Served' = Served /\ Store' = Store
  BY DEF Reached, Served, Store
<1>2. Unsaved'
  BY DEF TrackInv, Unsaved
<1> QED
  BY <1>1, <1>2, NoEffect DEF Settled, Over, Fenced

LEMMA OpenSettled ==
  ASSUME HoldInv, TrackInv, Settles, NEW w \in Workers, ~ db.open, Opened(w)
  PROVE  Settled({}) /\ Effect
<1>1. db'.open = TRUE /\ db'.memory = durable /\ db.memory = {}
      /\ UNCHANGED <<immediate, durable, lost, done, sentTo, result>>
  BY DEF Opened, history, HoldInv, HoldOK, Closed
<1>2. Reached' = Reached /\ Served' = Served /\ Store' = Store
  BY <1>1 DEF Reached, Served, Store
<1>3. Unsaved'
  BY <1>1 DEF Unsaved
<1> QED
  BY <1>1, <1>2, <1>3, NoEffect DEF Settled, Over, Fenced

\* A worker goes away; what has reached the storage has taken effect, and what
\* was in memory only is lost.
LEMMA LeaveSettled ==
  ASSUME HoldInv, HoldInv', TrackInv, NEW w \in Workers, NEW outcome \in Outcomes,
         Leave(w, outcome), durable \subseteq durable', durable' \subseteq durable \cup db.memory,
         ~ Owns(w) => durable' = durable
  PROVE  Settled({}) /\ Effect
<1>1. Settles
  BY LeaveSettles
<1>2. /\ lock' = (IF lock = w THEN None ELSE lock)
      /\ db' = (IF lock = w THEN Closed ELSE db)
      /\ lost' = (IF lock = w /\ ~ immediate THEN lost \cup (db.memory \ durable') ELSE lost)
      /\ UNCHANGED <<immediate, done, sentTo, result>>
  BY DEF Leave
<1>3. HoldOK /\ Shapes
  BY DEF HoldInv
<1>4. CASE lock # w
  <2>1. db' = db /\ lost' = lost /\ durable' = durable /\ lock' = lock
    BY <1>2, <1>4 DEF Owns
  <2> QED
    BY <1>1, <1>2, <2>1, NothingServed
<1>5. CASE lock = w
  <2>1. /\ db'.open = FALSE /\ db'.memory = {} /\ durable \subseteq durable'
        /\ ~ db.open => db.memory = {} /\ durable' = durable
        /\ db.open => durable \subseteq db.memory /\ durable' \subseteq db.memory
        /\ immediate \in BOOLEAN /\ db.open \in BOOLEAN
    BY <1>2, <1>3, <1>5 DEF HoldOK, Closed, Shapes, Databases, Owns
  <2>2. Reached' \subseteq Reached
    BY <1>2, <2>1 DEF Reached
  <2>3. Served \subseteq Served'
    BY <1>2, <1>5, <2>1 DEF Served, Store
  <2>4. Served' \ Served \subseteq db.memory \ durable /\ (~ db.open => Served' = Served)
    BY <1>2, <1>5, <2>1 DEF Served, Store
  <2>5. Fenced
    BY <2>4 DEF Fenced, TrackInv
  <2>6. Unsaved'
    BY <2>1 DEF Unsaved
  <2>7. Effect
    <3>1. CASE ~ db.open
      <4>1. Store' = Store /\ Served' = Served
        BY <1>2, <1>5, <2>1, <3>1 DEF Store, Served
      <4> QED
        BY <1>2, <2>1, <3>1, <4>1, NoEffect
    <3>2. CASE db.open /\ immediate
      <4>1. Store = durable /\ Store' = durable' /\ lost = {} /\ lost' = {} /\ done' = done
        BY <1>2, <1>3, <3>2 DEF Store, HoldOK
      <4>2. durable' \subseteq Writes /\ done \cap Writes = {}
        BY <1>3, OwnershipAssumption DEF HoldInv, Shapes
      <4>3. (Served' \ Served) \cap Writes = durable' \ durable
        BY <4>1, <4>2 DEF Served
      <4>4. (Served' \ Served) \cap Reads = {}
        <5>1. durable' \cap Reads = {}
          BY <4>2, OwnershipAssumption
        <5> QED
          BY <4>1, <5>1 DEF Served
      <4>5. result' = [r \in Reads |-> IF r \in Served' \ Served THEN Store ELSE result[r]]
        BY <1>2, <1>3, <4>4 DEF Shapes
      <4> QED
        BY <1>2, <2>1, <4>1, <4>3, <4>5 DEF Effect, TakeEffect
    <3>3. CASE db.open /\ ~ immediate
      <4>1. Store = db.memory /\ Store' = durable' /\ Served' = Served
        BY <1>2, <1>5, <2>1, <3>3 DEF Store, Served
      <4> QED
        BY <1>2, <2>1, <3>3, <4>1 DEF Effect, Forget
    <3> QED
      BY <3>1, <3>2, <3>3
  <2> QED
    BY <1>1, <1>2, <2>2, <2>3, <2>5, <2>6, <2>7 DEF Settled, Over
<1> QED
  BY <1>4, <1>5

\* What the owner is at was issued to it, or sent to it.
LEMMA WorkedOn ==
  ASSUME HoldInv, TrackInv, NEW w \in Workers, Owns(w), queue[w] # <<>>,
         NEW r \in Requests, r = Head(queue[w]).request,
         Head(queue[w]).kind = "request" => Head(queue[w]).epoch = w
  PROVE  /\ sentTo[r] \in {None, w} /\ r \in Asked /\ Live(r)
         /\ r \in Mail(w) => sentTo[r] # w
         /\ \A v \in Workers \ {w} : r \in Own(v) => r \in Begun(v)
         /\ step[w] = "idle" => r \notin Reached
<1> DEFINE j == Head(queue[w])
<1>1. Shapes /\ StepOK(w) /\ TrackOK(w) /\ JobsOK(w)
  BY DEF HoldInv, WorkerOK, TrackInv
<1>2. j \in Job /\ JobOK(j) /\ j \in Elems(queue[w])
  BY <1>1, QueueTail DEF JobsOK, Shortened
<1>3. j.kind \in {"command", "request"}
  BY <1>2, OwnershipAssumption DEF Job, JobOK
<1>4. step[w] # "remote"
  BY <1>1 DEF StepOK
<1>5. CASE j.kind = "command"
  <2>1. r \in Own(w)
    BY <1>2, <1>5 DEF Own, Commands, RequestsOf
  <2>2. sentTo[r] = None /\ (step[w] = "idle" => r \notin Reached)
    BY <1>1, <1>4, <2>1 DEF TrackOK, CommandsOK, Begun
  <2>3. r \in Asked
    BY <1>1, <2>1, AskedParts
  <2>4. \A v \in Workers \ {w} : r \notin Own(v)
    BY <2>1 DEF TrackInv
  <2> QED
    BY <2>1, <2>2, <2>3, <2>4, OwnershipAssumption DEF Live
<1>6. CASE j.kind = "request"
  <2>1. r \in Taken(w)
    BY <1>2, <1>6 DEF Taken, Forwarded, RequestsOf
  <2>2. j.epoch = w /\ j.epoch = sentTo[r] /\ w # None
    BY <1>1, <1>2, <1>6, OwnershipAssumption DEF TrackOK, StampsOK
  <2>3. r \in Asked
    BY <2>2 DEF TrackInv
  <2>4. r \notin Mail(w)
    BY <1>1, <2>1 DEF TrackOK, OnceOK
  <2>5. \A v \in Workers : r \in Own(v) => r \in Begun(v)
    BY <2>2 DEF TrackInv, TrackOK, CommandsOK
  <2>6. step[w] = "idle" => r \notin Reached
    BY <1>1, <2>1, <2>2 DEF TrackOK, ForwardedOK, Begun
  <2> QED
    BY <2>1, <2>2, <2>3, <2>4, <2>5, <2>6 DEF Live
<1> QED
  BY <1>3, <1>5, <1>6

\* The owner carries out, or begins to, what it is at.
LEMMA WorkSettled ==
  ASSUME HoldInv, TrackInv, NEW w \in Workers, Owns(w), queue[w] # <<>>, Settles,
         NEW r \in Requests, r = Head(queue[w]).request,
         Head(queue[w]).kind = "request" => Head(queue[w]).epoch = w,
         r \notin Own(w)' \cup Taken(w)' \/ r \in Begun(w)',
         UNCHANGED <<lock, sentTo>>, Reached' \subseteq Reached \cup {r},
         db'.memory \ durable' \subseteq (db.memory \ durable) \cup {r},
         Served \subseteq Served', Served' \subseteq Served \cup (db.memory \ durable) \cup {r}
  PROVE  Settled({r})
<1>1. /\ sentTo[r] \in {None, w} /\ r \in Asked /\ Live(r)
      /\ r \in Mail(w) => sentTo[r] # w
      /\ \A v \in Workers \ {w} : r \in Own(v) => r \in Begun(v)
  BY WorkedOn
<1>2. ASSUME NEW v \in Workers PROVE Over({r}, v)
  <2>1. Shrinks(v)
    BY DEF Settles
  <2>2. Own(v)' \subseteq Own(v) /\ Taken(v)' \subseteq Taken(v) /\ Mail(v)' \subseteq Mail(v)
    BY <2>1, ShrinkingSets DEF Shrinks
  <2>3. CASE v = w
    BY <1>1, <2>2, <2>3 DEF Over
  <2>4. CASE v # w
    <3>1. sentTo[r] # v
      BY <1>1, <2>4, OwnershipAssumption
    <3>2. r \in Own(v)' => r \in Begun(v)'
      BY <1>1, <2>1, <2>2, <2>4 DEF Shrinks, GoesOn
    <3> QED
      BY <3>1, <3>2 DEF Over
  <2> QED
    BY <2>3, <2>4
<1>3. Unsaved' /\ Fenced
  BY <1>1 DEF Unsaved, Fenced, TrackInv, Owns
<1> QED
  BY <1>1, <1>2, <1>3 DEF Settled

LEMMA QueuesStay ==
  ASSUME TrackInv, queue' = queue, step' = step, NEW v \in Workers
  PROVE  QueueShrinks(v) /\ GoesOn(v) /\ Own(v)' = Own(v)
BY SameGoesOn DEF TrackInv, Own

LEMMA InitAloneSteps ==
  ASSUME HoldInv, HoldInv', TrackInv, NEW w \in Workers, InitAlone(w) PROVE Steps
<1>1. lock = None /\ UNCHANGED <<immediate, db, queue, step, inbox, durable, history>>
  BY DEF InitAlone, Available
<1>2. ~ db.open
  BY <1>1, OwnershipAssumption DEF HoldInv, HoldOK
<1>3. ASSUME NEW v \in Workers
      PROVE  MailShrinks(v) /\ QueueShrinks(v) /\ GoesOn(v) /\ Own(v)' = Own(v)
  BY <1>1, QueuesStay, SameMail DEF TrackInv
<1>4. Settles
  BY <1>1, <1>3, QuietSettles DEF history
<1> QED
  BY <1>1, <1>2, <1>4, NothingServed DEF history, Steps

LEMMA InitOtherSteps ==
  ASSUME HoldInv, HoldInv', TrackInv, NEW w \in Workers, InitOther(w) PROVE Steps
<1> DEFINE m == [type |-> "request", request |-> Hello, from |-> w, epoch |-> None]
<1>1. UNCHANGED <<immediate, lock, db, queue, step, durable, history>>
      /\ inbox' = Post(inbox, Listening(w), m)
  BY DEF InitOther
<1>2. m \in Message /\ m.request \notin Requests
  BY MessageMakes, OwnershipAssumption
<1>3. Shapes /\ Boxes(inbox)
  BY BoxesSame DEF HoldInv
<1> HIDE DEF m
<1>4. ASSUME NEW v \in Workers
      PROVE  MailShrinks(v) /\ QueueShrinks(v) /\ GoesOn(v) /\ Own(v)' = Own(v)
  BY <1>1, <1>2, <1>3, QueuesStay, PostShrinks
<1>5. Settles
  BY <1>1, <1>4, QuietSettles DEF history
<1> QED
  BY <1>1, <1>5, NothingServed DEF history, Steps

LEMMA OpenMail ==
  ASSUME HoldInv, TrackInv, NEW w \in Workers, Open(w), NEW v \in Workers PROVE MailShrinks(v)
<1> DEFINE m == [type |-> "owner", epoch |-> w]
<1>1. inbox' = Post(inbox, Listening(w), m) /\ m \in Message /\ m.type # "request"
  BY MessageMakes DEF Open
<1>2. Shapes /\ Boxes(inbox)
  BY BoxesSame DEF HoldInv
<1> HIDE DEF m
<1> QED
  BY <1>1, <1>2, PostShrinks

LEMMA InitOpensSteps ==
  ASSUME HoldInv, HoldInv', TrackInv, NEW w \in Workers, InitOpens(w) PROVE Steps
<1>1. phase[w] = "opening" /\ Open(w) /\ queue' = queue /\ step' = step /\ answer' = answer
  BY DEF InitOpens, Open, history
<1>2. ~ db.open /\ Opened(w)
  BY <1>1, OpenEffect DEF HoldInv, WorkerOK, PhaseOK
<1>3. Settles
  BY <1>1, QuietSettles, QueuesStay, OpenMail
<1> QED
  BY <1>2, <1>3, OpenSettled DEF Steps

\* The first job of w, which is not a request, ends.
LEMMA FirstGoesOn ==
  ASSUME HoldInv, TrackInv, NEW w \in Workers, queue[w] # <<>>, step[w] = "idle",
         Head(queue[w]).kind # "command", queue' = [queue EXCEPT ![w] = Tail(@)], step' = step,
         NEW v \in Workers
  PROVE  QueueShrinks(v) /\ GoesOn(v) /\ Own(v)' = Own(v)
<1>1. Shapes /\ TrackOK(v) /\ JobsOK(v)
  BY DEF HoldInv, TrackInv, WorkerOK
<1>2. CASE v = w
  <2>1. queue'[v] = Tail(queue[v]) /\ step'[v] = "idle"
    BY <1>1, <1>2 DEF Shapes
  <2> QED
    BY <1>1, <1>2, <2>1, TailGoesOn
<1>3. CASE v # w
  <2>1. queue'[v] = queue[v] /\ step'[v] = step[v]
    BY <1>1, <1>3 DEF Shapes
  <2> QED
    BY <1>1, <2>1, SameGoesOn DEF Own
<1> QED
  BY <1>2, <1>3

LEMMA TakesOverSteps ==
  ASSUME HoldInv, HoldInv', TrackInv, NEW w \in Workers, TakesOver(w) PROVE Steps
<1>1. /\ queue[w] # <<>> /\ step[w] = "idle" /\ Head(queue[w]).kind = "open"
      /\ queue' = [queue EXCEPT ![w] = Tail(@)] /\ Open(w) /\ step' = step /\ answer' = answer
  BY DEF TakesOver, Begins, Open, history
<1>2. ~ db.open /\ Opened(w)
  BY <1>1, FirstOpens, OpenEffect DEF TakesOver
<1>3. Settles
  BY <1>1, QuietSettles, FirstGoesOn, OpenMail
<1> QED
  BY <1>2, <1>3, OpenSettled DEF Steps

LEMMA TakeOverFailsSteps ==
  ASSUME HoldInv, HoldInv', TrackInv, NEW w \in Workers, TakeOverFails(w) PROVE Steps
<1>1. /\ queue[w] # <<>> /\ step[w] = "idle" /\ Head(queue[w]).kind = "open"
      /\ queue' = [queue EXCEPT ![w] = Tail(@)]
      /\ UNCHANGED <<immediate, db, step, inbox, durable, history>>
  BY DEF TakeOverFails, Begins
<1>2. ~ db.open
  BY FirstOpens DEF TakeOverFails
<1>3. ASSUME NEW v \in Workers
      PROVE  MailShrinks(v) /\ QueueShrinks(v) /\ GoesOn(v) /\ Own(v)' = Own(v)
  BY <1>1, FirstGoesOn, SameMail DEF TrackInv
<1>4. Settles
  BY <1>1, <1>3, QuietSettles DEF history
<1> QED
  BY <1>1, <1>2, <1>4, NothingServed DEF history, Steps

LEMMA LockGrantedSteps ==
  ASSUME HoldInv, HoldInv', TrackInv, NEW w \in Workers, LockGranted(w) PROVE Steps
<1> DEFINE open == [kind |-> "open", request |-> None, from |-> None, epoch |-> None]
           rest == IF step[w] = "remote" THEN Tail(queue[w]) ELSE queue[w]
           j == Head(queue[w])
<1>1. Shapes /\ TrackOK(w) /\ JobsOK(w) /\ StepOK(w)
  BY DEF HoldInv, TrackInv, WorkerOK
<1>2. /\ lock = None /\ step' = [step EXCEPT ![w] = "idle"]
      /\ \/ queue' = [queue EXCEPT ![w] = rest]
         \/ queue' = [queue EXCEPT ![w] = Append(rest, open)]
      /\ \A r \in Requests : answer'[r] = IF step[w] = "remote" /\ r = j.request
                                          THEN "unknown" ELSE answer[r]
      /\ UNCHANGED <<immediate, db, inbox, durable, result, done, lost, sentTo>>
  BY DEF LockGranted
<1>3. ~ db.open /\ step[w] # "saving"
  BY <1>1, <1>2, OwnershipAssumption DEF HoldInv, HoldOK, StepOK, Owns
<1>4. /\ Once(queue[w], "command", Requests) /\ Once(queue[w], "request", Requests)
      /\ queue[w] \in Seq(Job)
  BY <1>1 DEF TrackOK, OnceOK, Shapes
<1>5. /\ rest \in Seq(Job) /\ Once(rest, "command", Requests) /\ Once(rest, "request", Requests)
      /\ Elems(rest) \subseteq Elems(queue[w])
      /\ step[w] # "remote" => rest = queue[w]
      /\ step[w] = "remote" => Commands(rest) = Commands(queue[w]) \ {j.request}
      /\ step[w] = "remote" => j.request \in Own(w) /\ j.request \in Requests
  <2>1. CASE step[w] # "remote"
    BY <1>4, <2>1
  <2>2. CASE step[w] = "remote"
    <3>1. queue[w] # <<>> /\ j.kind = "command"
      BY <1>1, <2>2 DEF StepOK
    <3>2. PICK t : t = Tail(queue[w]) /\ t \in Seq(Job) /\ Rests(t, queue[w])
      BY <1>4, <3>1, ElemsTail
    <3>3. /\ Once(t, "command", Requests) /\ Once(t, "request", Requests)
          /\ Commands(t) = Commands(queue[w]) \ {j.request}
      <4>1. Once(t, "request", Requests)
        BY <1>4, <3>2, OnceTail
      <4>2. Once(t, "command", Requests)
        BY <1>4, <3>2, OnceTail
      <4>3. RequestsOf(t, "command", Requests) = RequestsOf(queue[w], "command", Requests) \ {j.request}
        BY <1>4, <3>1, <3>2, OnceTail
      <4> QED
        BY <4>1, <4>2, <4>3 DEF Commands
    <3>4. Elems(t) \subseteq Elems(queue[w])
      BY <3>2 DEF Rests
    <3>5. JobOK(j) /\ j \in Elems(queue[w])
      BY <1>1, <3>1, QueueTail DEF JobsOK, Shortened
    <3>6. j.request \in Own(w) /\ j.request \in Requests
      BY <3>1, <3>5 DEF JobOK, Own, Commands, RequestsOf
    <3> QED
      BY <2>2, <3>2, <3>3, <3>4, <3>6
  <2> QED
    BY <2>1, <2>2
<1>6. open \in Job /\ open.kind \notin {"command", "request"}
  BY DEF Job
<1> HIDE DEF rest, open
<1>7. QueueShrinks(w) /\ Own(w)' = Commands(rest) /\ Taken(w)' = Forwarded(rest) /\ step'[w] = "idle"
  <2>1. (queue'[w] = rest \/ queue'[w] = Append(rest, open)) /\ step'[w] = "idle"
    BY <1>1, <1>2 DEF Shapes
  <2>2. CASE queue'[w] = rest
    BY <1>5, <2>1, <2>2 DEF QueueShrinks, Own, Taken
  <2>3. CASE queue'[w] = Append(rest, open)
    BY <1>5, <1>6, <2>1, <2>3, AppendShrinks
  <2> QED
    BY <2>1, <2>2, <2>3
<1>8. GoesOn(w)
  <2>1. Taken(w)' \subseteq Taken(w)
    BY <1>7 DEF QueueShrinks, Taken, Forwarded, RequestsOf
  <2>2. Own(w) \cap Taken(w) = {}
    BY <1>1 DEF TrackOK, OnceOK
  <2>3. Begun(w) \cap (Own(w)' \cup Taken(w)') = {}
    BY <1>1, <1>3, <1>5, <1>7, <2>1, <2>2 DEF Begun, Shapes, Own
  <2>4. Begun(w)' = {}
    BY <1>7 DEF Begun
  <2> QED
    BY <1>7, <2>3, <2>4 DEF GoesOn, SavingOK
<1>9. ASSUME NEW v \in Workers \ {w} PROVE QueueShrinks(v) /\ GoesOn(v) /\ Own(v)' = Own(v)
  <2>1. queue'[v] = queue[v] /\ step'[v] = step[v]
    BY <1>1, <1>2, <1>9 DEF Shapes
  <2> QED
    BY <2>1, SameGoesOn DEF Own, TrackInv
<1>10. ASSUME NEW v \in Workers PROVE MailShrinks(v)
  BY <1>2, SameMail DEF TrackInv
<1>11. \A v \in Workers : Own(v)' \subseteq Requests /\ Own(v) \subseteq Requests
  BY DEF Own, Commands, RequestsOf
<1>12. Own(w) = Commands(queue[w])
  BY DEF Own
<1>13. \A v \in Workers \ {w} : Own(w) \cap Own(v) = {}
  BY DEF TrackInv
<1> HIDE DEF j
<1>14. \A v \in Workers : \A r \in Own(v)' : answer'[r] = answer[r]
  BY <1>2, <1>5, <1>7, <1>9, <1>11, <1>12, <1>13
<1>15. \A r \in Requests : answer'[r] # answer[r] => \E v \in Workers : r \in Own(v)
  BY <1>2, <1>5
<1>16. Asked \subseteq Asked'
  <2>1. \A v \in Workers : \A r \in Own(v) : r \in Own(v)' \/ answer'[r] # "none"
    BY <1>2, <1>5, <1>7, <1>9, <1>11, <1>12
  <2> QED
    BY <1>1, <1>2, <2>1, AskedStays DEF HoldInv
<1>17. Settles
  BY <1>7, <1>8, <1>9, <1>10, <1>14, <1>15, <1>16 DEF Settles, Shrinks
<1> QED
  BY <1>2, <1>3, <1>17, NothingServed DEF Steps

LEMMA LeaveSteps ==
  ASSUME HoldInv, HoldInv', TrackInv, NEW w \in Workers, NEW outcome \in Outcomes,
         Leave(w, outcome), durable' = durable
  PROVE  Steps
BY LeaveSettled DEF Steps

LEMMA InitOpenFailsSteps ==
  ASSUME HoldInv, HoldInv', TrackInv, NEW w \in Workers, InitOpenFails(w) PROVE Steps
BY LeaveSteps DEF InitOpenFails, Outcomes

LEMMA HelloTimesOutSteps ==
  ASSUME HoldInv, HoldInv', TrackInv, NEW w \in Workers, HelloTimesOut(w) PROVE Steps
BY LeaveSteps DEF HelloTimesOut, Outcomes

LEMMA CrashSteps ==
  ASSUME HoldInv, HoldInv', TrackInv, NEW w \in Workers, Crash(w) PROVE Steps
<1>1. durable' \in Survivors(w) /\ Leave(w, "unknown")
  BY DEF Crash
<1>2. Owns(w) => durable \subseteq db.memory
  BY DEF HoldInv, HoldOK, Owns
<1>3. step[w] = "saving" => db.saving = db.memory
  BY DEF HoldInv, WorkerOK, StepOK
<1>4. durable \subseteq durable' /\ durable' \subseteq durable \cup db.memory
      /\ (~ Owns(w) => durable' = durable)
  BY <1>1, <1>2, <1>3 DEF Survivors
<1> QED
  BY <1>1, <1>4, LeaveSettled DEF Outcomes, Steps

\* A job ends that has taken no effect.
LEMMA FinishSteps ==
  ASSUME HoldInv, HoldInv', TrackInv, NEW w \in Workers, queue[w] # <<>>,
         NEW outcome \in Outcomes, NEW box, Boxes(box), Finish(w, outcome, box),
         UNCHANGED <<immediate, lock, durable, lost, done, result, sentTo>>,
         db'.open = db.open, db'.memory = db.memory
  PROVE  Steps
<1>1. Settles
  BY FinishSettles
<1> QED
  BY <1>1, NothingServed DEF Steps

LEMMA TimeoutSteps ==
  ASSUME HoldInv, HoldInv', TrackInv, NEW w \in Workers, Timeout(w) PROVE Steps
<1>1. step[w] = "remote" /\ Finish(w, "unknown", inbox)
      /\ UNCHANGED <<immediate, lock, db, durable, result, done, lost, sentTo>>
  BY DEF Timeout
<1>2. queue[w] # <<>> /\ Shapes
  BY <1>1 DEF HoldInv, WorkerOK, StepOK
<1>3. Boxes(inbox)
  BY <1>2, BoxesSame
<1> QED
  BY <1>1, <1>2, <1>3, FinishSteps DEF Outcomes

\* A message is read, and nothing is done about it.
LEMMA ReadingSteps ==
  ASSUME HoldInv, HoldInv', TrackInv, NEW w \in Workers, inbox[w] # <<>>, inbox' = Rest(w),
         UNCHANGED <<immediate, lock, db, queue, step, durable, answer, result, done, lost, sentTo>>
  PROVE  Steps
<1>1. Boxes(Rest(w)) /\ Shapes
  BY BoxesRest DEF HoldInv
<1>2. ASSUME NEW v \in Workers
      PROVE  MailShrinks(v) /\ QueueShrinks(v) /\ GoesOn(v) /\ Own(v)' = Own(v)
  BY <1>1, QueuesStay, BoxShrinks
<1>3. Settles
  BY <1>2, QuietSettles
<1> QED
  BY <1>3, NothingServed DEF Steps

LEMMA OnOwnerSteps ==
  ASSUME HoldInv, HoldInv', TrackInv, NEW w \in Workers, OnOwner(w) PROVE Steps
<1>1. Receives(w, "owner")
  BY DEF OnOwner
<1>2. inbox[w] # <<>> /\ UNCHANGED <<immediate, lock, db, durable, result, done, sentTo>>
  BY <1>1 DEF Receives
<1>3. Boxes(Rest(w))
  BY <1>2, BoxesRest DEF HoldInv
<1>4. CASE Leave(w, "unknown")
  BY <1>2, <1>4, LeaveSteps DEF Outcomes
<1>5. CASE step[w] = "remote" /\ Finish(w, "unknown", Rest(w)) /\ lost' = lost
  <2>1. queue[w] # <<>>
    BY <1>5 DEF HoldInv, WorkerOK, StepOK
  <2> QED
    BY <1>2, <1>3, <1>5, <2>1, FinishSteps DEF Outcomes
<1>6. CASE inbox' = Rest(w) /\ UNCHANGED <<queue, step, answer, lost>>
  BY <1>2, <1>6, ReadingSteps
<1> QED
  BY <1>4, <1>5, <1>6 DEF OnOwner

LEMMA OnResponseSteps ==
  ASSUME HoldInv, HoldInv', TrackInv, NEW w \in Workers, OnResponse(w) PROVE Steps
<1> DEFINE m == Head(inbox[w])
<1>1. Receives(w, "response")
  BY DEF OnResponse
<1>2. inbox[w] # <<>> /\ UNCHANGED <<immediate, lock, db, durable, result, done, sentTo>>
  BY <1>1 DEF Receives
<1>3. Boxes(Rest(w))
  BY <1>2, BoxesRest DEF HoldInv
<1>4. CASE Leave(w, "unknown")
  BY <1>2, <1>4, LeaveSteps DEF Outcomes
<1>5. CASE Awaits(w, m.request) /\ Finish(w, m.outcome, Rest(w)) /\ lost' = lost
  <2>1. queue[w] # <<>>
    BY <1>5 DEF HoldInv, WorkerOK, StepOK, Awaits
  <2>2. m.outcome \in Outcomes
    BY <1>1, Reading, MessageParts
  <2> QED
    BY <1>2, <1>3, <1>5, <2>1, <2>2, FinishSteps
<1>6. CASE inbox' = Rest(w) /\ UNCHANGED <<queue, step, answer, lost>>
  BY <1>2, <1>6, ReadingSteps
<1> QED
  BY <1>4, <1>5, <1>6 DEF OnResponse

\* A job is accepted that is no request.
LEMMA AcceptSteps ==
  ASSUME HoldInv, HoldInv', TrackInv, NEW w \in Workers, NEW j \in Job,
         j.kind \notin {"command", "request"}, Enqueue(w, j),
         UNCHANGED <<immediate, lock, step, inbox, durable, answer, result, done, lost, sentTo>>,
         db'.open = db.open, db'.memory = db.memory
  PROVE  Steps
<1>1. ASSUME NEW v \in Workers
      PROVE  MailShrinks(v) /\ QueueShrinks(v) /\ GoesOn(v) /\ Own(v)' = Own(v)
  BY AcceptGoesOn, SameMail DEF TrackInv
<1>2. Settles
  BY <1>1, QuietSettles
<1> QED
  BY <1>2, NothingServed DEF Steps

LEMMA CloseSteps ==
  ASSUME HoldInv, HoldInv', TrackInv, NEW w \in Workers, Close(w) PROVE Steps
<1> DEFINE j == [kind |-> "close", request |-> None, from |-> None, epoch |-> None]
<1>1. Enqueue(w, j) /\ UNCHANGED <<immediate, lock, db, step, inbox, durable, history>>
  BY DEF Close
<1>2. j \in Job /\ j.kind \notin {"command", "request"}
  BY NewJobs
<1> HIDE DEF j
<1> QED
  BY <1>1, <1>2, AcceptSteps DEF history

LEMMA TimerFiresSteps ==
  ASSUME HoldInv, HoldInv', TrackInv, TimerFires PROVE Steps
<1> DEFINE j == [kind |-> "flush", request |-> None, from |-> None, epoch |-> None]
<1>1. /\ db.timer
      /\ \/ db' = [db EXCEPT !.timer = FALSE, !.failing = TRUE] /\ queue' = queue
         \/ db' = [db EXCEPT !.timer = FALSE] /\ Enqueue(lock, j)
      /\ UNCHANGED <<immediate, lock, step, inbox, durable, answer, result, done, lost, sentTo>>
  BY DEF TimerFires, history
<1>2. db'.open = db.open /\ db'.memory = db.memory
  <2>1. db \in Databases
    BY DEF HoldInv, Shapes
  <2>2. CASE db' = [db EXCEPT !.timer = FALSE, !.failing = TRUE]
    BY <2>1, <2>2 DEF Databases
  <2>3. CASE db' = [db EXCEPT !.timer = FALSE]
    BY <2>1, <2>3 DEF Databases
  <2> QED
    BY <1>1, <2>2, <2>3
<1>3. CASE queue' = queue
  <2>1. ASSUME NEW v \in Workers
        PROVE  MailShrinks(v) /\ QueueShrinks(v) /\ GoesOn(v) /\ Own(v)' = Own(v)
    BY <1>1, <1>3, QueuesStay, SameMail DEF TrackInv
  <2>2. Settles
    BY <1>1, <2>1, QuietSettles
  <2> QED
    BY <1>1, <1>2, <2>2, NothingServed DEF Steps
<1>4. CASE Enqueue(lock, j)
  <2>1. lock \in Workers
    BY <1>1 DEF HoldInv, HoldOK, Closed
  <2>2. j \in Job /\ j.kind \notin {"command", "request"}
    BY NewJobs
  <2> HIDE DEF j
  <2> QED
    BY <1>1, <1>2, <1>4, <2>1, <2>2, AcceptSteps
<1> QED
  BY <1>1, <1>3, <1>4

LEMMA RefuseSteps ==
  ASSUME HoldInv, HoldInv', TrackInv, NEW w \in Workers, Refuse(w) PROVE Steps
<1>1. /\ queue[w] # <<>> /\ UNCHANGED <<immediate, lock, lost, sentTo>>
      /\ Finish(w, "refused", inbox) /\ UNCHANGED <<db, durable, result, done>>
  BY DEF Refuse, Performs, Begins
<1> QED
  BY <1>1, FinishSteps, BoxesSame DEF Outcomes, HoldInv

LEMMA GreetSteps ==
  ASSUME HoldInv, HoldInv', TrackInv, NEW w \in Workers, Greet(w) PROVE Steps
<1>1. /\ queue[w] # <<>> /\ UNCHANGED <<immediate, lock, lost, sentTo>>
      /\ Finish(w, "ok", inbox) /\ UNCHANGED <<db, durable, result, done>>
  BY DEF Greet, Performs, Begins
<1> QED
  BY <1>1, FinishSteps, BoxesSame DEF Outcomes, HoldInv

\* A save begins, of a memory that is as it was.
LEMMA SavingSteps ==
  ASSUME HoldInv, HoldInv', TrackInv, NEW w \in Workers, step[w] = "idle", Saving(db, w),
         Head(queue[w]).kind = "request" => Head(queue[w]).epoch = w,
         UNCHANGED <<immediate, lock, lost, sentTo>>
  PROVE  Steps
<1>1. UNCHANGED <<queue, inbox, durable, answer, result, done>>
      /\ db'.open = db.open /\ db'.memory = db.memory
  BY DEF Saving, HoldInv, Shapes, Databases
<1>2. ASSUME NEW v \in Workers
      PROVE  MailShrinks(v) /\ QueueShrinks(v) /\ GoesOn(v) /\ Own(v)' = Own(v)
  BY <1>1, SavingGoesOn, SameMail DEF TrackInv
<1>3. Settles
  BY <1>1, <1>2, QuietSettles
<1> QED
  BY <1>1, <1>3, NothingServed DEF Steps

LEMMA TimedFlushSteps ==
  ASSUME HoldInv, HoldInv', TrackInv, NEW w \in Workers, TimedFlush(w) PROVE Steps
<1>1. /\ queue[w] # <<>> /\ step[w] = "idle" /\ Head(queue[w]).kind = "flush"
      /\ UNCHANGED <<immediate, lock, lost, sentTo>>
  BY DEF TimedFlush, Begins
<1>2. CASE Saving(db, w)
  BY <1>1, <1>2, SavingSteps
<1>3. CASE /\ db' = [db EXCEPT !.timer = FALSE]
           /\ Finish(w, "ok", inbox) /\ UNCHANGED <<durable, result, done>>
  <2>1. db'.open = db.open /\ db'.memory = db.memory
    BY <1>3 DEF HoldInv, Shapes, Databases
  <2> QED
    BY <1>1, <1>3, <2>1, FinishSteps, BoxesSame DEF Outcomes, HoldInv
<1> QED
  BY <1>2, <1>3 DEF TimedFlush

LEMMA ClosesSteps ==
  ASSUME HoldInv, HoldInv', TrackInv, NEW w \in Workers, Closes(w) PROVE Steps
<1>1. queue[w] # <<>> /\ step[w] = "idle" /\ Head(queue[w]).kind = "close"
  BY DEF Closes, Begins
<1>2. CASE Saving(db, w) /\ UNCHANGED <<immediate, lock, lost, sentTo>>
  BY <1>1, <1>2, SavingSteps
<1>3. CASE /\ durable' = (IF Owns(w) /\ backend = "opfs" THEN db.memory ELSE durable)
           /\ Leave(w, "refused")
  <2>1. Owns(w) => durable \subseteq db.memory
    BY DEF HoldInv, HoldOK, Owns
  <2>2. durable \subseteq durable' /\ durable' \subseteq durable \cup db.memory
        /\ (~ Owns(w) => durable' = durable)
    BY <1>3, <2>1
  <2> QED
    BY <1>3, <2>2, LeaveSettled DEF Outcomes, Steps
<1> QED
  BY <1>2, <1>3 DEF Closes

LEMMA SaveFailsSteps ==
  ASSUME HoldInv, HoldInv', TrackInv, NEW w \in Workers, SaveFails(w) PROVE Steps
<1>1. step[w] = "saving" /\ durable' = durable
  BY DEF SaveFails
<1>2. queue[w] # <<>> /\ db \in Databases
  BY <1>1, OwnerSaves
<1>3. CASE Leave(w, "refused")
  BY <1>1, <1>3, LeaveSteps DEF Outcomes
<1>4. CASE /\ db' = [db EXCEPT !.saving = {}, !.failing = TRUE]
           /\ Finish(w, "unknown", inbox)
           /\ UNCHANGED <<immediate, lock, result, done, lost, sentTo>>
  <2>1. db'.open = db.open /\ db'.memory = db.memory
    BY <1>2, <1>4 DEF Databases
  <2> QED
    BY <1>1, <1>2, <1>4, <2>1, FinishSteps, BoxesSame DEF Outcomes, HoldInv
<1> QED
  BY <1>3, <1>4 DEF SaveFails

LEMMA NotStale ==
  ASSUME HoldInv, TrackInv, NEW w \in Workers, queue[w] # <<>>,
         ~ Refused(w, Head(queue[w])), Head(queue[w]).request \in Requests,
         Head(queue[w]).kind = "request"
  PROVE  Head(queue[w]).epoch = w
<1>1. Head(queue[w]) \in Elems(queue[w])
  BY QueueTail DEF HoldInv, WorkerOK, JobsOK, Shortened
<1> QED
  BY <1>1 DEF Refused, Stale, TrackInv, TrackOK, StampsOK

\* The sets of requests are apart.
LEMMA Apart ==
  ASSUME HoldInv
  PROVE  /\ durable \subseteq Writes /\ db.memory \subseteq Writes /\ lost \subseteq Writes
         /\ done \subseteq Reads \cup Flushes /\ result = [r \in Reads |-> result[r]]
         /\ Writes \cap Reads = {} /\ Writes \cap Flushes = {} /\ Reads \cap Flushes = {}
         /\ immediate \in BOOLEAN /\ db.open \in BOOLEAN /\ db \in Databases
<1>1. Shapes
  BY DEF HoldInv
<1>2. result \in [Reads -> SUBSET Writes]
  BY <1>1 DEF Shapes
<1>3. result = [r \in Reads |-> result[r]]
  BY <1>2
<1> QED
  BY <1>1, <1>3, OwnershipAssumption DEF Shapes, Databases

LEMMA ReadSteps ==
  ASSUME HoldInv, HoldInv', TrackInv, NEW w \in Workers, Read(w) PROVE Steps
<1> DEFINE r == Head(queue[w]).request
<1>1. /\ Owns(w) /\ Begins(w, {"command", "request"}) /\ r \in Reads
      /\ UNCHANGED <<immediate, lock, lost, sentTo>>
  BY PerformsParts DEF Read
<1>2. /\ ~ Refused(w, Head(queue[w])) /\ result' = [result EXCEPT ![r] = db.memory]
      /\ done' = done \cup {r} /\ Finish(w, "ok", inbox) /\ UNCHANGED <<db, durable>>
  BY DEF Read
<1>3. /\ queue[w] # <<>> /\ lock = w /\ db.open = TRUE /\ step[w] = "idle"
      /\ immediate /\ ~ db.failing => db.memory = durable
      /\ durable \subseteq db.memory
  BY <1>1, OwnerBegins
<1>4. Settles /\ r \notin Own(w)' \cup Taken(w)'
  BY <1>2, <1>3, FinishSettles, BoxesSame DEF HoldInv, Outcomes
<1>5. Head(queue[w]).kind = "request" => Head(queue[w]).epoch = w
  BY <1>1, <1>2, <1>3, NotStale DEF Requests
<1>6. r \notin Reached /\ r \in Requests
  BY <1>1, <1>3, <1>5, WorkedOn DEF Requests
<1>7. Store = db.memory /\ Store' = Store
  BY <1>1, <1>2, <1>3, Apart DEF Store, Refused
<1>8. Served' = Served \cup {r} /\ Served' \ Served = {r} /\ Reached' = Reached \cup {r}
  BY <1>1, <1>2, <1>6, <1>7 DEF Served, Reached
<1>9. Settled({r})
  BY <1>1, <1>2, <1>3, <1>4, <1>5, <1>6, <1>8, WorkSettled
<1>10. Effect
  <2>1. result' = [x \in Reads |-> IF x \in {r} THEN Store ELSE result[x]]
    BY <1>1, <1>2, <1>7, Apart
  <2>2. {r} \cap Writes = {} /\ {r} \cap Flushes = {}
    BY <1>1, Apart
  <2>3. TakeEffect({r})
    BY <1>1, <1>2, <1>3, <1>7, <2>1, <2>2 DEF TakeEffect, Store
  <2> QED
    BY <1>1, <1>8, <2>3 DEF Effect
<1> QED
  BY <1>9, <1>10 DEF Steps

LEMMA WriteSteps ==
  ASSUME HoldInv, HoldInv', TrackInv, NEW w \in Workers, Write(w) PROVE Steps
<1> DEFINE r == Head(queue[w]).request
           written == [db EXCEPT !.memory = @ \cup {r}, !.dirty = (backend = "indexeddb")]
<1>1. /\ Owns(w) /\ Begins(w, {"command", "request"}) /\ r \in Writes
      /\ UNCHANGED <<backend, immediate, lock, lost, sentTo>>
  BY PerformsParts DEF Write
<1>2. /\ ~ Refused(w, Head(queue[w]))
      /\ \/ SavesFirst /\ Saving(written, w)
         \/ /\ ~ SavesFirst
            /\ db' = [written EXCEPT !.timer = (backend = "indexeddb")]
            /\ durable' = (IF immediate /\ backend = "opfs" THEN written.memory ELSE durable)
            /\ Finish(w, "ok", inbox)
            /\ UNCHANGED <<result, done>>
  BY DEF Write
<1>3. /\ queue[w] # <<>> /\ lock = w /\ db.open = TRUE /\ step[w] = "idle"
      /\ immediate /\ ~ db.failing => db.memory = durable
      /\ durable \subseteq db.memory /\ db \in Databases
  BY <1>1, OwnerBegins
<1>4. written \in Databases /\ written.open = TRUE /\ written.memory = db.memory \cup {r}
  BY <1>1, <1>3 DEF Databases
<1>5. Head(queue[w]).kind = "request" => Head(queue[w]).epoch = w
  BY <1>1, <1>2, <1>3, NotStale DEF Requests
<1>6. r \notin Reached /\ r \in Requests
  BY <1>1, <1>3, <1>5, WorkedOn DEF Requests
<1>7. immediate => db.memory = durable
  BY <1>1, <1>2, <1>3 DEF Refused
<1> HIDE DEF written
<1>8. CASE SavesFirst /\ Saving(written, w)
  <2>1. UNCHANGED <<queue, inbox, durable, answer, result, done>> /\ immediate
        /\ db'.open = TRUE /\ db'.memory = db.memory \cup {r}
    BY <1>4, <1>8 DEF Saving, SavesFirst, Databases
  <2>2. ASSUME NEW v \in Workers
        PROVE  MailShrinks(v) /\ QueueShrinks(v) /\ GoesOn(v) /\ Own(v)' = Own(v)
    BY <1>3, <1>5, <1>8, <2>1, SavingGoesOn, SameMail DEF TrackInv
  <2>3. Settles
    BY <2>1, <2>2, QuietSettles
  <2>4. Store' = Store /\ Served' = Served /\ Reached' = Reached \cup {r}
    BY <1>1, <2>1 DEF Store, Served, Reached
  <2>5. r \in Begun(w)'
    <3>1. step'[w] = "saving" /\ queue' = queue
      BY <1>8 DEF Saving, HoldInv, Shapes
    <3> QED
      BY <3>1 DEF Begun
  <2>6. Settled({r})
    BY <1>1, <1>3, <1>5, <1>6, <2>1, <2>3, <2>4, <2>5, WorkSettled
  <2> QED
    BY <1>1, <2>1, <2>4, <2>6, NoEffect DEF Steps
<1>9. CASE /\ ~ SavesFirst
           /\ db' = [written EXCEPT !.timer = (backend = "indexeddb")]
           /\ durable' = (IF immediate /\ backend = "opfs" THEN written.memory ELSE durable)
           /\ Finish(w, "ok", inbox)
           /\ UNCHANGED <<result, done>>
  <2>1. db'.open = TRUE /\ db'.memory = db.memory \cup {r}
    BY <1>4, <1>9 DEF Databases
  <2>2. durable' = (IF immediate THEN db.memory \cup {r} ELSE durable)
    BY <1>4, <1>9 DEF SavesFirst, HoldInv, Shapes
  <2>3. Settles /\ r \notin Own(w)' \cup Taken(w)'
    BY <1>3, <1>9, FinishSettles, BoxesSame DEF HoldInv, Outcomes
  <2>4. Store = db.memory /\ Store' = Store \cup {r}
    BY <1>1, <1>3, <1>7, <2>1, <2>2, Apart DEF Store
  <2>5. Served' = Served \cup {r} /\ Served' \ Served = {r} /\ Reached' \subseteq Reached \cup {r}
    <3>1. r \notin Served
      BY <1>3, <1>6, <2>4 DEF Served, Reached
    <3> QED
      BY <1>1, <1>9, <2>1, <2>2, <2>4, <3>1, Apart DEF Served, Reached
  <2>6. Settled({r})
    BY <1>1, <1>3, <1>5, <1>6, <1>9, <2>1, <2>2, <2>3, <2>5, WorkSettled, Apart
  <2>7. Effect
    <3>1. {r} \cap Writes = {r} /\ {r} \cap Flushes = {} /\ {r} \cap Reads = {}
      BY <1>1, Apart
    <3>2. result' = [x \in Reads |-> IF x \in {r} THEN Store ELSE result[x]]
      BY <1>9, <3>1, Apart
    <3>3. durable \subseteq durable' /\ durable' \subseteq Store' /\ (immediate => durable' = Store')
      BY <1>3, <1>7, <2>2, <2>4, Apart
    <3>4. TakeEffect({r})
      BY <2>4, <3>1, <3>2, <3>3 DEF TakeEffect
    <3> QED
      BY <1>1, <2>5, <3>4 DEF Effect
  <2> QED
    BY <2>6, <2>7 DEF Steps
<1> QED
  BY <1>2, <1>8, <1>9

LEMMA FlushSteps ==
  ASSUME HoldInv, HoldInv', TrackInv, NEW w \in Workers, Flush(w) PROVE Steps
<1> DEFINE r == Head(queue[w]).request
<1>1. /\ Owns(w) /\ Begins(w, {"command", "request"}) /\ r \in Flushes
      /\ UNCHANGED <<backend, immediate, lock, lost, sentTo>>
  BY PerformsParts DEF Flush
<1>2. /\ ~ Refused(w, Head(queue[w]))
      /\ \/ db.dirty /\ Saving(db, w)
         \/ /\ ~ db.dirty
            /\ db' = [db EXCEPT !.timer = FALSE]
            /\ durable' = (IF backend = "opfs" THEN db.memory ELSE durable)
            /\ done' = done \cup {r} /\ Finish(w, "ok", inbox) /\ result' = result
  BY DEF Flush
<1>3. /\ queue[w] # <<>> /\ lock = w /\ db.open = TRUE /\ step[w] = "idle"
      /\ backend = "indexeddb" /\ ~ db.dirty => db.memory = durable
      /\ durable \subseteq db.memory /\ db \in Databases
  BY <1>1, OwnerBegins
<1>4. Head(queue[w]).kind = "request" => Head(queue[w]).epoch = w
  BY <1>1, <1>2, <1>3, NotStale DEF Requests
<1>5. r \notin Reached /\ r \in Requests
  BY <1>1, <1>3, <1>4, WorkedOn DEF Requests
<1>6. CASE Saving(db, w)
  BY <1>1, <1>3, <1>4, <1>6, SavingSteps
<1>7. CASE /\ ~ db.dirty
           /\ db' = [db EXCEPT !.timer = FALSE]
           /\ durable' = (IF backend = "opfs" THEN db.memory ELSE durable)
           /\ done' = done \cup {r} /\ Finish(w, "ok", inbox) /\ result' = result
  <2>1. db'.open = TRUE /\ db'.memory = db.memory
    BY <1>3, <1>7 DEF Databases
  <2>2. durable' = db.memory
    BY <1>3, <1>7 DEF HoldInv, Shapes
  <2>3. Settles /\ r \notin Own(w)' \cup Taken(w)'
    BY <1>3, <1>7, FinishSettles, BoxesSame DEF HoldInv, Outcomes
  <2>4. Store' = db.memory /\ (immediate => Store = durable) /\ (~ immediate => Store = db.memory)
    BY <1>1, <1>3, <2>1, <2>2, Apart DEF Store
  <2>5. Served \subseteq Served' /\ Served' = Served \cup db.memory \cup {r}
        /\ Served' \subseteq Served \cup (db.memory \ durable) \cup {r}
        /\ Reached' = Reached \cup {r}
    BY <1>1, <1>3, <1>7, <2>1, <2>2, <2>4, Apart DEF Served, Reached
  <2>6. Settled({r})
    BY <1>1, <1>3, <1>4, <1>5, <1>7, <2>1, <2>2, <2>3, <2>5, WorkSettled
  <2>7. Effect
    <3>1. (Served' \ Served) \cap Reads = {}
      BY <1>1, <2>5, Apart
    <3>2. result' = [x \in Reads |-> IF x \in Served' \ Served THEN Store ELSE result[x]]
      BY <1>7, <3>1, Apart
    <3>3. Store' = Store \cup ((Served' \ Served) \cap Writes)
      <4>1. CASE immediate
        <5>1. lost = {}
          BY <4>1 DEF HoldInv, HoldOK
        <5> QED
          BY <1>1, <1>3, <2>4, <2>5, <4>1, <5>1, Apart DEF Served
      <4>2. CASE ~ immediate
        BY <1>1, <2>4, <2>5, <4>2, Apart DEF Served
      <4> QED
        BY <4>1, <4>2, Apart
    <3>4. TakeEffect(Served' \ Served)
      BY <1>3, <2>2, <2>4, <3>2, <3>3 DEF TakeEffect
    <3> QED
      BY <1>1, <3>4 DEF Effect
  <2> QED
    BY <2>6, <2>7 DEF Steps
<1> QED
  BY <1>2, <1>6, <1>7

LEMMA SaveDoneSteps ==
  ASSUME HoldInv, HoldInv', TrackInv, NEW w \in Workers, SaveDone(w) PROVE Steps
<1> DEFINE r == Head(queue[w]).request
<1>1. step[w] = "saving" /\ durable' = db.saving
  BY DEF SaveDone
<1>2. /\ Shapes /\ queue[w] # <<>> /\ Owns(w) /\ db \in Databases /\ db.open = TRUE /\ lock = w
      /\ db.saving = db.memory /\ durable \subseteq db.memory /\ db.memory \subseteq Writes
      /\ \/ Head(queue[w]).kind \in {"flush", "close"}
         \/ r \in Flushes
         \/ r \in Writes \cap db.memory
  BY <1>1, OwnerSaves
<1>3. CASE Leave(w, "refused")
  BY <1>1, <1>2, <1>3, LeaveSettled DEF Outcomes, Steps
<1>4. CASE /\ db' = [db EXCEPT !.saving = {}, !.dirty = FALSE, !.failing = FALSE]
           /\ done' = done \cup ({r} \cap Flushes)
           /\ Finish(w, "ok", inbox)
           /\ UNCHANGED <<immediate, lock, result, lost, sentTo>>
  <2>1. db'.open = TRUE /\ db'.memory = db.memory /\ durable' = db.memory
    BY <1>1, <1>2, <1>4 DEF Databases
  <2>2. Settles /\ r \notin Own(w)' \cup Taken(w)'
    BY <1>2, <1>4, FinishSettles, BoxesSame DEF Outcomes
  <2>3. Store' = db.memory /\ (immediate => Store = durable) /\ (~ immediate => Store = db.memory)
    BY <1>2, <1>4, <2>1, Apart DEF Store
  <2>4. Served \subseteq Served' /\ Served' = Served \cup db.memory \cup ({r} \cap Flushes)
        /\ Served' \subseteq Served \cup (db.memory \ durable) \cup ({r} \cap Flushes)
        /\ Reached' = Reached \cup ({r} \cap Flushes)
    BY <1>2, <1>4, <2>1, <2>3, Apart DEF Served, Reached
  <2>5. \E X : Settled(X)
    <3>1. CASE r \in Flushes
      <4>1. r \in Requests /\ (Head(queue[w]).kind = "request" => Head(queue[w]).epoch = w)
        BY <1>1, <3>1 DEF TrackInv, TrackOK, SavingOK, Requests
      <4>2. Settled({r})
        BY <1>2, <1>4, <2>1, <2>2, <2>4, <4>1, WorkSettled
      <4> QED
        BY <4>2
    <3>2. CASE r \notin Flushes
      <4>1. Served' \subseteq Served \cup (db.memory \ durable) /\ Reached' = Reached
        BY <2>4, <3>2
      <4>2. Unsaved' /\ Fenced
        BY <1>2, <2>1, <4>1 DEF Unsaved, Fenced, TrackInv
      <4>3. Settled({})
        BY <1>4, <2>2, <2>4, <4>1, <4>2 DEF Settled, Over
      <4> QED
        BY <4>3
    <3> QED
      BY <3>1, <3>2
  <2>6. Effect
    <3>1. (Served' \ Served) \cap Reads = {}
      BY <1>2, <2>4, Apart
    <3>2. result' = [x \in Reads |-> IF x \in Served' \ Served THEN Store ELSE result[x]]
      BY <1>4, <3>1, Apart
    <3>3. Store' = Store \cup ((Served' \ Served) \cap Writes)
      <4>1. CASE immediate
        <5>1. lost = {}
          BY <4>1 DEF HoldInv, HoldOK
        <5> QED
          BY <1>2, <2>3, <2>4, <4>1, <5>1, Apart DEF Served
      <4>2. CASE ~ immediate
        BY <2>3, <2>4, <4>2, Apart DEF Served
      <4> QED
        BY <4>1, <4>2, Apart
    <3>4. TakeEffect(Served' \ Served)
      BY <1>2, <2>1, <2>3, <3>2, <3>3 DEF TakeEffect
    <3> QED
      BY <1>4, <3>4 DEF Effect
  <2> QED
    BY <2>5, <2>6 DEF Steps
<1> QED
  BY <1>3, <1>4 DEF SaveDone

LEMMA SetsOfRequests ==
  /\ \A v \in Workers : Own(v) \subseteq Requests /\ Mail(v) \subseteq Requests
                        /\ Taken(v) \subseteq Requests
BY DEF Own, Mail, Taken, Commands, Forwarded, RequestsOf, MailOf

\* What was never asked is nowhere; and what was not forwarded is in no mail.
LEMMA Unasked ==
  ASSUME HoldInv, TrackInv, NEW r \in Requests, r \notin Asked
  PROVE  /\ answer[r] = "none" /\ sentTo[r] = None /\ r \notin Reached
         /\ \A v \in Workers : r \notin Own(v)
BY AskedParts DEF HoldInv, TrackInv, Asked

LEMMA Unsent ==
  ASSUME TrackInv, NEW r \in Requests, sentTo[r] = None, NEW v \in Workers
  PROVE  /\ r \notin Mail(v) \cup Taken(v)
         /\ \A m \in Elems(inbox[v]) : m.type = "request" => m.request # r
         /\ \A j \in Elems(queue[v]) : j.kind = "request" => j.request # r
<1>1. StampsOK(v)
  BY DEF TrackInv, TrackOK
<1> QED
  BY <1>1 DEF StampsOK, Mail, MailOf, Taken, Forwarded, RequestsOf

LEMMA IssueTracks ==
  ASSUME HoldInv, HoldInv', TrackInv, NEW w \in Workers, NEW r \in Requests, Issue(w, r)
  PROVE  TrackInv' /\ Asked' = Asked \cup {r}
<1> DEFINE j == [kind |-> "command", request |-> r, from |-> None, epoch |-> None]
<1>1. /\ r \notin Asked
      /\ \/ answer' = [answer EXCEPT ![r] = "refused"] /\ queue' = queue
         \/ Enqueue(w, j) /\ answer' = answer
      /\ UNCHANGED <<lock, db, step, inbox, durable, done, lost, sentTo>>
  BY DEF Issue
<1>2. Shapes /\ Shapes'
  BY DEF HoldInv
<1>3. /\ answer[r] = "none" /\ sentTo[r] = None /\ r \notin Reached
      /\ \A v \in Workers : r \notin Own(v)
  BY <1>1, Unasked
<1>4. Reached' = Reached
  BY <1>1 DEF Reached
<1>5. /\ Asked = {x \in Requests : answer[x] # "none" \/ \E v \in Workers : x \in Own(v)}
      /\ Asked' = {x \in Requests : answer'[x] # "none" \/ \E v \in Workers : x \in Own(v)'}
  <2>1. ASSUME NEW v \in Workers, NEW x \in Requests
        PROVE  x \in Own(v)' <=> \E i \in DOMAIN queue'[v] : queue'[v][i].kind = "command"
                                                          /\ queue'[v][i].request = x
    <3>1. DOMAIN queue'[v] = 1 .. Len(queue'[v])
      BY <1>2 DEF Shapes
    <3> QED
      BY <3>1 DEF Own, Commands, RequestsOf, Elems
  <2>2. Asked' = {x \in Requests : answer'[x] # "none" \/ \E v \in Workers : x \in Own(v)'}
    BY <2>1 DEF Asked
  <2> QED
    BY <1>2, <2>2, AskedParts
<1>6. CASE answer' = [answer EXCEPT ![r] = "refused"] /\ queue' = queue
  <2>1. \A x \in Requests : answer'[x] = IF x = r THEN "refused" ELSE answer[x]
    BY <1>2, <1>6 DEF Shapes
  <2>2. \A v \in Workers : Own(v)' = Own(v) /\ Mail(v)' = Mail(v) /\ Taken(v)' = Taken(v)
                           /\ Begun(v)' = Begun(v)
    BY <1>1, <1>6 DEF Own, Mail, Taken, Begun
  <2>3. Asked' = Asked \cup {r}
    BY <1>5, <2>1, <2>2
  <2>4. ASSUME NEW v \in Workers PROVE TrackOK(v)'
    <3>1. TrackOK(v)
      BY DEF TrackInv
    <3>2. OnceOK(v)' /\ ForwardedOK(v)' /\ StampsOK(v)' /\ SavingOK(v)'
      BY <1>1, <1>4, <1>6, <2>2, <3>1 DEF TrackOK, OnceOK, ForwardedOK, StampsOK, SavingOK
    <3>3. CommandsOK(v)'
      BY <1>1, <1>3, <1>4, <2>1, <2>2, <3>1, SetsOfRequests DEF TrackOK, CommandsOK
    <3> QED
      BY <3>2, <3>3 DEF TrackOK
  <2>5. TrackInv'
    BY <1>1, <1>4, <2>2, <2>3, <2>4 DEF TrackInv
  <2> QED
    BY <2>3, <2>5
<1>7. CASE Enqueue(w, j) /\ answer' = answer
  <2>1. j \in Job /\ j.kind = "command" /\ j.request = r
    BY NewJobs
  <2> HIDE DEF j
  <2>2. queue[w] \in Seq(Job) /\ queue'[w] = Append(queue[w], j)
        /\ \A v \in Workers \ {w} : queue'[v] = queue[v]
    BY <1>2, <1>7 DEF Enqueue, Shapes
  <2>3. PICK a : a = queue'[w] /\ Extends(a, queue[w], j)
    BY <2>1, <2>2, ElemsAppend
  <2>4. Once(queue[w], "command", Requests) /\ Once(queue[w], "request", Requests)
        /\ r \notin RequestsOf(queue[w], "command", Requests)
    BY <1>3 DEF TrackInv, TrackOK, OnceOK, Own, Commands
  <2>5. Once(a, "command", Requests) /\ Once(a, "request", Requests)
    <3>1. Once(a, "command", Requests)
      BY <2>1, <2>3, <2>4, OnceAppend
    <3>2. Once(a, "request", Requests)
      BY <2>1, <2>3, <2>4, OnceAppend
    <3> QED
      BY <3>1, <3>2
  <2>6. Own(w)' = Own(w) \cup {r} /\ Taken(w)' = Taken(w)
    <3>1. RequestsOf(a, "command", Requests)
            = RequestsOf(queue[w], "command", Requests) \cup ({r} \cap Requests)
      BY <2>1, <2>3, <2>4, OnceAppend
    <3>2. RequestsOf(a, "request", Requests) = RequestsOf(queue[w], "request", Requests)
      BY <2>1, <2>3, <2>4, OnceAppend
    <3> QED
      BY <2>3, <3>1, <3>2 DEF Own, Taken, Commands, Forwarded
  <2>7. Elems(a) = Elems(queue[w]) \cup {j}
    BY <2>3 DEF Extends
  <2>8. \A v \in Workers \ {w} : Own(v)' = Own(v) /\ Taken(v)' = Taken(v) /\ Begun(v)' = Begun(v)
    BY <1>1, <2>2 DEF Own, Taken, Begun
  <2>9. \A v \in Workers : Mail(v)' = Mail(v)
    BY <1>1 DEF Mail
  <2>10. Asked' = Asked \cup {r}
    BY <1>5, <1>7, <2>6, <2>8
  <2>11. StepOK(w) /\ TrackOK(w)
    BY DEF HoldInv, WorkerOK, TrackInv
  <2>12. step[w] # "idle" => queue[w] # <<>> /\ Head(queue'[w]) = Head(queue[w])
    BY <2>2, <2>11 DEF StepOK
  <2>13. Begun(w)' = Begun(w) /\ SavingOK(w)'
    BY <1>1, <2>11, <2>12 DEF Begun, TrackOK, SavingOK
  <2>14. step[w] = "remote" => r \notin Begun(w)
    <3>1. ASSUME step[w] = "remote" PROVE Head(queue[w]).request \in Own(w)
      <4>1. Head(queue[w]) \in Elems(queue[w]) /\ Head(queue[w]).kind = "command"
            /\ JobOK(Head(queue[w]))
        BY <2>11, <3>1, QueueTail DEF StepOK, HoldInv, WorkerOK, JobsOK, Shortened
      <4> QED
        BY <4>1 DEF JobOK, Own, Commands, RequestsOf
    <3> QED
      BY <1>3, <3>1 DEF Begun
  <2>15. TrackOK(w)'
    <3>1. r \notin Mail(w) \cup Taken(w)
      BY <1>3, Unsent
    <3>2. OnceOK(w)'
      BY <1>1, <2>3, <2>5, <2>6, <2>9, <2>11, <3>1 DEF TrackOK, OnceOK
    <3>3. CommandsOK(w)'
      BY <1>1, <1>3, <1>4, <1>7, <2>6, <2>11, <2>13, <2>14 DEF TrackOK, CommandsOK
    <3>4. ForwardedOK(w)'
      BY <1>1, <1>4, <2>6, <2>9, <2>11, <2>13 DEF TrackOK, ForwardedOK
    <3>5. StampsOK(w)'
      BY <1>1, <2>1, <2>3, <2>7, <2>11 DEF TrackOK, StampsOK
    <3> QED
      BY <2>13, <3>2, <3>3, <3>4, <3>5 DEF TrackOK
  <2>16. ASSUME NEW v \in Workers \ {w} PROVE TrackOK(v)'
    <3>1. TrackOK(v) /\ queue'[v] = queue[v] /\ step'[v] = step[v] /\ inbox'[v] = inbox[v]
      BY <1>1, <2>2 DEF TrackInv
    <3> QED
      BY <1>1, <1>4, <1>7, <2>8, <2>9, <3>1
      DEF TrackOK, OnceOK, CommandsOK, ForwardedOK, StampsOK, SavingOK
  <2>17. TrackInv'
    <3>1. \A u, v \in Workers : u # v => Own(u)' \cap Own(v)' = {}
      BY <1>3, <2>6, <2>8 DEF TrackInv
    <3> QED
      BY <1>1, <1>4, <2>10, <2>15, <2>16, <3>1 DEF TrackInv
  <2> QED
    BY <2>10, <2>17
<1> QED
  BY <1>1, <1>6, <1>7

LEMMA ForwardTracks ==
  ASSUME HoldInv, HoldInv', TrackInv, NEW w \in Workers, Forward(w)
  PROVE  TrackInv' /\ Asked' = Asked
<1> DEFINE r == Head(queue[w]).request
           m == [type |-> "request", request |-> r, from |-> w, epoch |-> known[w]]
<1>1. /\ queue[w] # <<>> /\ step[w] = "idle" /\ Head(queue[w]).kind = "command"
      /\ inbox' = Post(inbox, Listening(w), m) /\ sentTo' = [sentTo EXCEPT ![r] = known[w]]
      /\ step' = [step EXCEPT ![w] = "remote"]
      /\ UNCHANGED <<lock, db, queue, durable, answer, done, lost>>
  BY DEF Forward, Begins
<1>2. Shapes /\ JobOK(Head(queue[w])) /\ Head(queue[w]) \in Elems(queue[w]) /\ known[w] # None
  BY <1>1, AtWork DEF Shortened
<1>3. r \in Own(w) /\ r \in Requests
  BY <1>1, <1>2 DEF JobOK, Own, Commands, RequestsOf
<1>4. sentTo[r] = None /\ r \notin Reached
  BY <1>1, <1>3 DEF TrackInv, TrackOK, CommandsOK, Begun
<1>5. m \in Message /\ m.type = "request" /\ m.request = r /\ m.epoch = known[w]
      /\ inbox \in [Workers -> Seq(Message)]
  BY <1>2, <1>3, MessageMakes DEF Shapes
<1> HIDE DEF m
<1>6. \A v \in Workers : inbox'[v] = IF v \in Listening(w) THEN Append(inbox[v], m) ELSE inbox[v]
  BY <1>1, <1>5, PostType
<1>7. \A x \in Requests : sentTo'[x] = IF x = r THEN known[w] ELSE sentTo[x]
  BY <1>2, <1>3, <1>1 DEF Shapes
<1>8. Reached' = Reached /\ Asked' = Asked
  BY <1>1 DEF Reached, Asked
<1>9. \A v \in Workers : /\ Own(v)' = Own(v) /\ Taken(v)' = Taken(v)
                         /\ step'[v] = (IF v = w THEN "remote" ELSE step[v])
  BY <1>1, <1>2 DEF Own, Taken, Shapes
<1>10. ASSUME NEW v \in Workers
       PROVE  /\ OnceSent(inbox'[v]) /\ Mail(v)' \subseteq Mail(v) \cup {r}
              /\ v = w => Mail(v)' = Mail(v)
              /\ \A x \in Elems(inbox'[v]) : x = m \/ x \in Elems(inbox[v])
  <2>1. OnceSent(inbox[v]) /\ r \notin MailOf(inbox[v])
    BY <1>3, <1>4, Unsent DEF TrackInv, TrackOK, OnceOK, Mail
  <2>2. CASE v \in Listening(w)
    <3>1. PICK a : a = inbox'[v] /\ Extends(a, inbox[v], m)
      BY <1>5, <1>6, <2>2, ElemsAppend
    <3>2. OnceSent(a)
      BY <1>5, <2>1, <3>1, MailAppend
    <3>3. MailOf(a) = MailOf(inbox[v]) \cup ({r} \cap Requests)
      BY <1>5, <2>1, <3>1, MailAppend
    <3>4. Elems(a) = Elems(inbox[v]) \cup {m}
      BY <3>1 DEF Extends
    <3>5. v # w
      BY <2>2 DEF Listening
    <3> QED
      BY <3>1, <3>2, <3>3, <3>4, <3>5 DEF Mail
  <2>3. CASE v \notin Listening(w)
    BY <1>6, <2>1, <2>3 DEF Mail
  <2> QED
    BY <2>2, <2>3
<1>11. ASSUME NEW v \in Workers PROVE TrackOK(v)'
  <2>1. TrackOK(v)
    BY DEF TrackInv
  <2>2. /\ r \notin Mail(v) \cup Taken(v)
        /\ \A x \in Elems(inbox[v]) : x.type = "request" => x.request # r
        /\ \A x \in Elems(queue[v]) : x.kind = "request" => x.request # r
    BY <1>3, <1>4, Unsent
  <2>3. v # w => r \notin Own(v)
    BY <1>3 DEF TrackInv
  <2>4. OnceOK(v)'
    <3>1. /\ Once(queue[v], "command", Requests) /\ Once(queue[v], "request", Requests)
          /\ Mail(v) \cap Taken(v) = {} /\ Own(v) \cap (Mail(v) \cup Taken(v)) = {}
      BY <2>1 DEF TrackOK, OnceOK
    <3>2. Mail(v)' \cap Taken(v)' = {}
      BY <1>9, <1>10, <2>2, <3>1
    <3>3. Own(v)' \cap (Mail(v)' \cup Taken(v)') = {}
      <4>1. CASE v = w
        BY <1>9, <1>10, <3>1, <4>1
      <4>2. CASE v # w
        BY <1>9, <1>10, <2>3, <3>1, <4>2
      <4> QED
        BY <4>1, <4>2
    <3>4. OnceSent(inbox'[v])
      BY <1>10
    <3>5. PICK a : a = queue[v] /\ queue'[v] = a
      BY <1>1
    <3>6. PICK t : t = inbox'[v]
      OBVIOUS
    <3>7. Once(a, "command", Requests) /\ Once(a, "request", Requests) /\ OnceSent(t)
      BY <3>1, <3>4, <3>5, <3>6
    <3> QED
      BY <3>2, <3>3, <3>5, <3>6, <3>7 DEF OnceOK
  <2>5. (v = w => Begun(v)' = {r}) /\ (v # w => Begun(v)' = Begun(v))
    <3>1. queue'[v] = queue[v] /\ step'[v] = IF v = w THEN "remote" ELSE step[v]
      BY <1>1, <1>9
    <3>2. CASE v = w
      <4>1. Head(queue'[v]).request = r /\ step'[v] # "idle"
        BY <3>1, <3>2
      <4> QED
        BY <3>2, <4>1 DEF Begun
    <3>3. CASE v # w
      BY <3>1, <3>3 DEF Begun
    <3> QED
      BY <3>2, <3>3
  <2>6. CommandsOK(v)'
    <3>1. CASE v = w
      BY <1>1, <1>2, <1>3, <1>4, <1>7, <1>8, <1>9, <2>1, <2>5, <3>1, SetsOfRequests
      DEF TrackOK, CommandsOK, Begun
    <3>2. CASE v # w
      BY <1>1, <1>7, <1>8, <1>9, <2>1, <2>3, <2>5, <3>2, SetsOfRequests DEF TrackOK, CommandsOK
    <3> QED
      BY <3>1, <3>2
  <2>7. ForwardedOK(v)'
    <3>1. v = w => Begun(v) = {}
      BY <1>1 DEF Begun
    <3> QED
      BY <1>4, <1>7, <1>8, <1>9, <1>10, <2>1, <2>2, <2>5, <3>1, SetsOfRequests
      DEF TrackOK, ForwardedOK
  <2>8. StampsOK(v)'
    BY <1>1, <1>2, <1>3, <1>5, <1>7, <1>10, <2>1, <2>2 DEF TrackOK, StampsOK
  <2>9. SavingOK(v)'
    BY <1>1, <1>9, <2>1 DEF TrackOK, SavingOK
  <2> QED
    BY <2>4, <2>6, <2>7, <2>8, <2>9 DEF TrackOK
<1>12. r \in Asked
  BY <1>2, <1>3, AskedParts
<1>13. \A x \in Requests : sentTo'[x] # None => x \in Asked'
  BY <1>7, <1>8, <1>12 DEF TrackInv
<1>14. db'.open => \A x \in db'.memory \ durable' : sentTo'[x] \in {None, lock'}
  <2>1. db.memory \subseteq Requests
    BY Apart DEF Requests
  <2> QED
    BY <1>1, <1>4, <1>7, <2>1 DEF TrackInv, Reached
<1> QED
  BY <1>8, <1>9, <1>11, <1>13, <1>14 DEF TrackInv

\* The owner takes a request, or has no place for it, or is no owner.
LEMMA OnRequestTracks ==
  ASSUME HoldInv, HoldInv', TrackInv, NEW w \in Workers, OnRequest(w)
  PROVE  Steps \/ (TrackInv' /\ Asked' = Asked)
<1> DEFINE m == Head(inbox[w])
           j == [kind |-> "request", request |-> m.request, from |-> m.from, epoch |-> m.epoch]
           refusal == [type |-> "response", epoch |-> w, request |-> m.request, outcome |-> "refused"]
<1>1. Receives(w, "request")
  BY DEF OnRequest
<1>2. /\ Shapes /\ WorkerOK(w) /\ inbox[w] # <<>> /\ m \in Message /\ m.type = "request"
      /\ Rest(w) \in [Workers -> Seq(Message)]
      /\ UNCHANGED <<backend, immediate, lock, db, durable, result, done, sentTo>>
  BY <1>1, Reading
<1>3. /\ \/ Owns(w) /\ ~ Full(w) /\ Enqueue(w, j) /\ inbox' = Rest(w)
         \/ /\ queue' = queue
            /\ \/ inbox' = Post(Rest(w), {m.from}, refusal)
               \/ inbox' = Rest(w)
      /\ UNCHANGED <<phase, waiting, known, step, answer, lost>>
  BY DEF OnRequest
<1>4. Boxes(Rest(w))
  BY <1>2, BoxesRest
<1>5. CASE queue' = queue /\ (inbox' = Post(Rest(w), {m.from}, refusal) \/ inbox' = Rest(w))
  <2>1. refusal \in Message /\ refusal.type # "request"
    <3>1. refusal = [type |-> "response", outcome |-> "refused", request |-> m.request, epoch |-> w]
      OBVIOUS
    <3>2. m.request \in Requests \cup {Hello} /\ "refused" \in Outcomes
      BY <1>2, MessageParts DEF Outcomes
    <3> QED
      BY <3>1, <3>2, MessageMakes
  <2> HIDE DEF refusal
  <2>2. ASSUME NEW v \in Workers
        PROVE  MailShrinks(v) /\ QueueShrinks(v) /\ GoesOn(v) /\ Own(v)' = Own(v)
    <3>1. MailShrinks(v)
      <4>1. CASE inbox' = Rest(w)
        BY <1>2, <1>4, <4>1, BoxShrinks
      <4>2. CASE inbox' = Post(Rest(w), {m.from}, refusal)
        BY <1>2, <1>4, <2>1, <4>2, PostShrinks
      <4> QED
        BY <1>5, <4>1, <4>2
    <3> QED
      BY <1>3, <1>5, <3>1, QueuesStay
  <2>3. Settles
    BY <1>3, <2>2, QuietSettles
  <2> QED
    BY <1>2, <1>3, <2>3, NothingServed DEF Steps
<1>6. CASE Owns(w) /\ Enqueue(w, j) /\ inbox' = Rest(w)
  <2>0. PICK r : r = m.request
    OBVIOUS
  <2>1. j \in Job /\ j.kind = "request" /\ j.request = r /\ j.epoch = m.epoch
    BY <1>2, <2>0, NewJobs
  <2>2. m \in Elems(inbox[w]) /\ (r \in Requests => r \in Mail(w))
    <3>1. Rests(Tail(inbox[w]), inbox[w])
      BY <1>2, ElemsTail DEF Shapes
    <3>2. m \in Elems(inbox[w])
      BY <3>1 DEF Rests
    <3> QED
      BY <1>2, <2>0, <3>2 DEF Mail, MailOf
  <2> HIDE DEF j
  <2>3. /\ queue[w] \in Seq(Job) /\ queue'[w] = Append(queue[w], j)
        /\ inbox'[w] = Tail(inbox[w])
        /\ \A v \in Workers \ {w} : queue'[v] = queue[v] /\ inbox'[v] = inbox[v]
    BY <1>2, <1>6, RestType DEF Enqueue, Shapes
  <2>4. TrackOK(w) /\ StepOK(w)
    BY <1>2 DEF TrackInv, WorkerOK
  <2>5. /\ Once(queue[w], "command", Requests) /\ Once(queue[w], "request", Requests)
        /\ OnceSent(inbox[w]) /\ Mail(w) \cap Taken(w) = {}
        /\ Own(w) \cap (Mail(w) \cup Taken(w)) = {}
    BY <2>4 DEF TrackOK, OnceOK
  <2>6. r \notin RequestsOf(queue[w], "request", Requests)
    BY <2>2, <2>5 DEF Taken, Forwarded, RequestsOf
  <2>7. PICK a : a = queue'[w] /\ Extends(a, queue[w], j)
    BY <2>1, <2>3, ElemsAppend
  <2>8. Once(a, "command", Requests)
    BY <2>1, <2>5, <2>7, OnceAppend
  <2>9. Once(a, "request", Requests)
    BY <2>1, <2>5, <2>6, <2>7, OnceAppend
  <2>10. RequestsOf(a, "command", Requests) = RequestsOf(queue[w], "command", Requests)
    BY <2>1, <2>5, <2>7, OnceAppend
  <2>11. RequestsOf(a, "request", Requests)
           = RequestsOf(queue[w], "request", Requests) \cup ({r} \cap Requests)
    BY <2>1, <2>5, <2>6, <2>7, OnceAppend
  <2>12. Own(w)' = Own(w) /\ Taken(w)' = Taken(w) \cup ({r} \cap Requests)
    BY <2>7, <2>10, <2>11 DEF Own, Taken, Commands, Forwarded
  <2>13. Elems(a) = Elems(queue[w]) \cup {j}
    BY <2>7 DEF Extends
  <2>14. PICK t : t = inbox'[w] /\ Rests(t, inbox[w])
    BY <1>2, <2>3, ElemsTail DEF Shapes
  <2>15. OnceSent(t) /\ MailOf(t) = MailOf(inbox[w]) \ {r} /\ Elems(t) \subseteq Elems(inbox[w])
    BY <1>2, <2>0, <2>5, <2>14, MailTail DEF Rests
  <2>16. Mail(w)' = Mail(w) \ {r}
    BY <2>14, <2>15 DEF Mail
  <2>17. step[w] # "idle" => queue[w] # <<>> /\ Head(queue'[w]) = Head(queue[w])
    BY <2>3, <2>4 DEF StepOK
  <2>18. Begun(w)' = Begun(w) /\ SavingOK(w)'
    BY <1>3, <2>4, <2>17 DEF Begun, TrackOK, SavingOK
  <2>19. Reached' = Reached
    BY <1>2, <1>3 DEF Reached
  <2>20. TrackOK(w)'
    <3>1. OnceOK(w)'
      BY <2>2, <2>5, <2>7, <2>8, <2>9, <2>12, <2>14, <2>15, <2>16 DEF OnceOK
    <3>2. CommandsOK(w)'
      BY <1>2, <1>3, <2>4, <2>12, <2>18, <2>19 DEF TrackOK, CommandsOK
    <3>3. ForwardedOK(w)'
      BY <1>2, <2>2, <2>4, <2>12, <2>16, <2>18, <2>19 DEF TrackOK, ForwardedOK
    <3>4. StampsOK(w)'
      BY <1>2, <2>0, <2>1, <2>2, <2>4, <2>7, <2>13, <2>14, <2>15 DEF TrackOK, StampsOK
    <3> QED
      BY <2>18, <3>1, <3>2, <3>3, <3>4 DEF TrackOK
  <2>21. ASSUME NEW v \in Workers \ {w} PROVE TrackOK(v)' /\ Own(v)' = Own(v)
    <3>1. TrackOK(v) /\ queue'[v] = queue[v] /\ step'[v] = step[v] /\ inbox'[v] = inbox[v]
      BY <1>3, <2>3 DEF TrackInv
    <3>2. Own(v)' = Own(v) /\ Taken(v)' = Taken(v) /\ Mail(v)' = Mail(v) /\ Begun(v)' = Begun(v)
      BY <3>1 DEF Own, Taken, Mail, Begun
    <3> QED
      BY <1>2, <1>3, <2>19, <3>1, <3>2
      DEF TrackOK, OnceOK, CommandsOK, ForwardedOK, StampsOK, SavingOK
  <2>22. Asked' = Asked
    <3>1. Asked' = {x \in Requests : answer'[x] # "none" \/ \E v \in Workers : x \in Own(v)'}
      BY AskedPartsNext DEF HoldInv
    <3> QED
      BY <1>2, <1>3, <2>12, <2>21, <3>1, AskedParts
  <2>23. TrackInv'
    BY <1>2, <1>3, <2>12, <2>19, <2>20, <2>21, <2>22 DEF TrackInv
  <2> QED
    BY <2>22, <2>23
<1> QED
  BY <1>3, <1>5, <1>6


-----------------------------------------------------------------------------
LEMMA TrackInit == Init => TrackInv
<1> SUFFICES ASSUME Init PROVE TrackInv
  OBVIOUS
<1>1. /\ \A w \in Workers : queue[w] = <<>> /\ inbox[w] = <<>> /\ step[w] = "idle"
      /\ \A r \in Requests : sentTo[r] = None
      /\ Reached = {} /\ ~ db.open
  BY DEF Init, Closed, Reached
<1>2. ASSUME NEW w \in Workers PROVE TrackOK(w) /\ Own(w) = {}
  <2>1. PICK e : e = queue[w] /\ e = inbox[w] /\ e = <<>>
    BY <1>1
  <2>2. Len(e) = 0 /\ Elems(e) = {}
    BY <2>1, ElemsEmpty
  <2>3. Own(w) = {} /\ Taken(w) = {} /\ Mail(w) = {}
    BY <2>1, <2>2 DEF Own, Taken, Mail, Commands, Forwarded, RequestsOf, MailOf
  <2>4. OnceOK(w)
    BY <2>1, <2>2, <2>3 DEF OnceOK, Once, OnceSent
  <2> QED
    BY <1>1, <2>1, <2>2, <2>3, <2>4
    DEF TrackOK, CommandsOK, ForwardedOK, StampsOK, SavingOK
<1> QED
  BY <1>1, <1>2 DEF TrackInv

\* Except for a new command, a forwarded one and a request that arrives, a
\* step only lets go of requests, and takes effect as a whole or not at all.
LEMMA Kinds ==
  ASSUME HoldInv, HoldInv', TrackInv, [Next]_all
  PROVE  \/ Steps \/ UNCHANGED all
         \/ \E w \in Workers : Forward(w) \/ OnRequest(w) \/ \E r \in Requests : Issue(w, r)
<1>1. ASSUME NEW w \in Workers,
             \/ InitAlone(w) \/ InitOther(w)
             \/ Opens(w)
             \/ HelloTimesOut(w)
             \/ LockGranted(w)
             \/ \E r \in Requests : Issue(w, r)
             \/ Works(w) \/ Saves(w)
             \/ Timeout(w)
             \/ Receive(w)
             \/ Close(w) \/ Crash(w)
      PROVE Steps \/ Forward(w) \/ OnRequest(w) \/ \E r \in Requests : Issue(w, r)
  <2>1. CASE InitAlone(w) \/ InitOther(w)
    BY <2>1, InitAloneSteps, InitOtherSteps
  <2>2. CASE Opens(w)
    BY <2>2, InitOpensSteps, InitOpenFailsSteps, TakesOverSteps, TakeOverFailsSteps DEF Opens
  <2>3. CASE HelloTimesOut(w) \/ LockGranted(w) \/ Timeout(w)
    BY <2>3, HelloTimesOutSteps, LockGrantedSteps, TimeoutSteps
  <2>4. CASE Close(w) \/ Crash(w)
    BY <2>4, CloseSteps, CrashSteps
  <2>5. CASE Works(w)
    <3>1. CASE Refuse(w) \/ Greet(w) \/ Read(w) \/ Write(w)
      BY <3>1, RefuseSteps, GreetSteps, ReadSteps, WriteSteps
    <3>2. CASE Flush(w) \/ TimedFlush(w) \/ Closes(w)
      BY <3>2, FlushSteps, TimedFlushSteps, ClosesSteps
    <3> QED
      BY <2>5, <3>1, <3>2 DEF Works
  <2>6. CASE Saves(w)
    BY <2>6, SaveDoneSteps, SaveFailsSteps DEF Saves
  <2>7. CASE Receive(w)
    BY <2>7, OnOwnerSteps, OnResponseSteps DEF Receive
  <2> QED
    BY <1>1, <2>1, <2>2, <2>3, <2>4, <2>5, <2>6, <2>7
<1>2. CASE TimerFires
  BY <1>2, TimerFiresSteps
<1> QED
  BY <1>1, <1>2 DEF Next

\* A step that concerns the queues and the channel only.
Quiet == UNCHANGED <<immediate, lock, durable, db, lost, done, result>>

\* Whatever happens, requests take effect at the worker they were issued or
\* sent to, or the database is as before.
LEMMA TrackNext ==
  ASSUME HoldInv, HoldInv', TrackInv, [Next]_all
  PROVE  TrackInv' /\ (Steps \/ Quiet)
<1>1. CASE Steps
  BY <1>1, SettledTracks DEF Steps
<1>2. CASE UNCHANGED all
  <2>1. UNCHANGED <<queue, inbox, step, answer, sentTo, durable, db, lost, done, lock, immediate, result>>
    BY <1>2 DEF all, vars, history
  <2>2. ASSUME NEW w \in Workers PROVE Own(w)' = Own(w) /\ Taken(w)' = Taken(w) /\ Mail(w)' = Mail(w)
    BY <2>1 DEF Own, Taken, Mail
  <2>3. ASSUME NEW w \in Workers PROVE Begun(w)' = Begun(w)
    BY <2>1 DEF Begun
  <2>4. Reached' = Reached /\ Asked' = Asked
    BY <2>1 DEF Reached, Asked
  <2>5. ASSUME NEW w \in Workers PROVE TrackOK(w)'
    <3>1. OnceOK(w)'
      BY <2>1, <2>2 DEF TrackInv, TrackOK, OnceOK, Once, OnceSent
    <3>2. CommandsOK(w)'
      BY <2>1, <2>2, <2>3, <2>4 DEF TrackInv, TrackOK, CommandsOK
    <3>3. ForwardedOK(w)'
      BY <2>1, <2>2, <2>3, <2>4 DEF TrackInv, TrackOK, ForwardedOK
    <3>4. StampsOK(w)' /\ SavingOK(w)'
      BY <2>1 DEF TrackInv, TrackOK, StampsOK, SavingOK, Elems
    <3> QED
      BY <3>1, <3>2, <3>3, <3>4 DEF TrackOK
  <2> QED
    BY <2>1, <2>2, <2>4, <2>5 DEF TrackInv, Quiet
<1>3. ASSUME NEW w \in Workers, NEW r \in Requests, Issue(w, r) PROVE TrackInv' /\ Quiet
  BY <1>3, IssueTracks DEF Issue, Quiet
<1>4. ASSUME NEW w \in Workers, Forward(w) PROVE TrackInv' /\ Quiet
  BY <1>4, ForwardTracks DEF Forward, Quiet
<1>5. ASSUME NEW w \in Workers, OnRequest(w) PROVE TrackInv' /\ (Steps \/ Quiet)
  <2>1. Quiet
    BY <1>5 DEF OnRequest, Receives, Quiet
  <2> QED
    BY <1>1, <1>5, <2>1, OnRequestTracks
<1> QED
  BY <1>1, <1>2, <1>3, <1>4, <1>5, Kinds

\* No step makes a request take effect at a worker other than the one it was
\* sent to: a request given up as unknown when the owner changed is not carried
\* out by the next owner (owner epochs, executeOwned).
THEOREM OwnerFenced == Spec => FencedByEpoch
<1>1. Init => HoldInv /\ TrackInv
  BY HoldInit, TrackInit
<1>2. HoldInv /\ TrackInv /\ [Next]_all => (HoldInv /\ TrackInv)'
  BY HoldNext, TrackNext
<1>3. HoldInv /\ HoldInv' /\ TrackInv /\ [Next]_all =>
        [\A r \in (Served' \ Served) \ Served : sentTo[r] \in {None, lock}]_all
  <2> SUFFICES ASSUME HoldInv, HoldInv', TrackInv, [Next]_all
               PROVE  \A r \in Served' \ Served : sentTo[r] \in {None, lock}
    OBVIOUS
  <2>1. CASE Steps
    BY <2>1 DEF Steps, Settled, Fenced
  <2>2. CASE Quiet
    BY <2>2 DEF Quiet, Served, Store
  <2> QED
    BY <2>1, <2>2, TrackNext
<1> QED
  BY <1>1, <1>2, <1>3, PTL DEF Spec, FencedByEpoch

-----------------------------------------------------------------------------
(***************************************************************************)
(* What a worker has heard of who owns the database.                       *)
(***************************************************************************)

\* An announcement stands in box after i and before j.
Renewed(box, i, j) == \E k \in 1 .. (j - 1) : k > i /\ box[k].type = "owner"

\* Before the message at j of box the last word on who owns the database is
\* that v does: known says so and the messages do, or announcements follow.
LastWord(box, kn, j, v) ==
  /\ \A i \in 1 .. (j - 1) : box[i].type = "request" \/ box[i].epoch = v \/ Renewed(box, i, j)
  /\ kn \in {None, v} \/ Renewed(box, 0, j)

\* A response comes from who is then known as the owner.
Informed(box, kn) ==
  \A j \in 1 .. Len(box) : box[j].type = "response" => LastWord(box, kn, j, box[j].epoch)

Current(box, kn, v) == LastWord(box, kn, Len(box) + 1, v)

EpochOK(w) ==
  ~ Owns(w) =>
    /\ Informed(inbox[w], known[w])
    /\ db.open /\ phase[w] \notin {"new", "gone"} => Current(inbox[w], known[w], lock)

\* What is awaited is awaited of the worker known as the owner.
AwaitOK(w) == step[w] = "remote" => sentTo[Head(queue[w]).request] = known[w]

EpochInv == \A w \in Workers : EpochOK(w)
AwaitInv == \A w \in Workers : AwaitOK(w)

\* A request that has not taken effect, and will not: nobody who could carry
\* it out has it.
Dead(r) ==
  /\ r \notin Reached
  /\ \A v \in Workers : /\ r \in Own(v) => sentTo[r] # None
                        /\ r \in Mail(v) \cup Taken(v) => sentTo[r] # v

\* A response is the truth about its request.
TruthOK(m) ==
  /\ sentTo[m.request] # None
  /\ m.outcome = "ok" => m.request \in Served
  /\ m.outcome = "refused" /\ m.epoch = sentTo[m.request] => Dead(m.request)

AnswerInv ==
  /\ \A r \in Requests : answer[r] = "refused" => Dead(r)
  /\ \A w \in Workers : \A m \in Elems(inbox[w]) :
       m.type = "response" /\ m.request \in Requests => TruthOK(m)

LEMMA RenewedAppend ==
  ASSUME NEW a, NEW q, NEW x, Extends(a, q, x), NEW j \in 1 .. (Len(q) + 1), NEW i
  PROVE  Renewed(a, i, j) <=> Renewed(q, i, j)
<1>1. \A k \in 1 .. (j - 1) : a[k] = q[k]
  BY DEF Extends
<1> QED
  BY <1>1 DEF Renewed

LEMMA WordAppend ==
  ASSUME NEW a, NEW q, NEW x, Extends(a, q, x), NEW j \in 1 .. (Len(q) + 1), NEW kn, NEW v,
         LastWord(q, kn, j, v)
  PROVE  LastWord(a, kn, j, v)
<1>1. \A i \in 1 .. (j - 1) : a[i] = q[i]
  BY DEF Extends
<1>2. \A i : Renewed(a, i, j) <=> Renewed(q, i, j)
  BY RenewedAppend
<1> QED
  BY <1>1, <1>2 DEF LastWord

LEMMA InformedAppend ==
  ASSUME NEW a, NEW q, NEW x, Extends(a, q, x), NEW kn, Informed(q, kn),
         x.type = "response" => Current(q, kn, x.epoch)
  PROVE  Informed(a, kn)
<1> SUFFICES ASSUME NEW j \in 1 .. Len(a), a[j].type = "response"
             PROVE  LastWord(a, kn, j, a[j].epoch)
  BY DEF Informed
<1>1. /\ Len(q) \in Nat /\ Len(a) = Len(q) + 1 /\ a[Len(a)] = x
      /\ \A i \in 1 .. Len(q) : a[i] = q[i]
      /\ j \in 1 .. Len(q) \/ j = Len(a)
  BY DEF Extends
<1>2. j \in 1 .. (Len(q) + 1)
  BY <1>1
<1>3. LastWord(q, kn, j, a[j].epoch)
  <2>1. CASE j \in 1 .. Len(q)
    BY <1>1, <2>1 DEF Informed
  <2>2. CASE j = Len(a)
    BY <1>1, <2>2 DEF Current
  <2> QED
    BY <1>1, <2>1, <2>2
<1> QED
  BY <1>2, <1>3, WordAppend

LEMMA CurrentAppend ==
  ASSUME NEW a, NEW q, NEW x, Extends(a, q, x), NEW kn, NEW v,
         \/ Current(q, kn, v) /\ (x.type = "request" \/ x.epoch = v)
         \/ x.type = "owner" /\ x.epoch = v
  PROVE  Current(a, kn, v)
<1>1. /\ Len(q) \in Nat /\ Len(a) = Len(q) + 1 /\ a[Len(a)] = x
      /\ \A i \in 1 .. Len(q) : a[i] = q[i]
  BY DEF Extends
<1> DEFINE n == Len(q) + 1
<1>2. /\ \A i \in 1 .. n : i \in 1 .. Len(q) \/ i = n
      /\ n \in 1 .. n /\ (\A i \in 1 .. Len(q) : i \in 1 .. n /\ n > i) /\ n > 0
      /\ (Len(a) + 1) - 1 = n /\ n - 1 = Len(q) /\ a[n] = x
  BY <1>1
<1>3. CASE Current(q, kn, v) /\ (x.type = "request" \/ x.epoch = v)
  <2>1. \A i : Renewed(q, i, n) => Renewed(a, i, Len(a) + 1)
    BY <1>1, <1>2 DEF Renewed
  <2> QED
    BY <1>1, <1>2, <1>3, <2>1 DEF Current, LastWord
<1>4. CASE x.type = "owner" /\ x.epoch = v
  <2>1. \A i \in 1 .. Len(q) : Renewed(a, i, Len(a) + 1)
    BY <1>2, <1>4 DEF Renewed
  <2>2. Renewed(a, 0, Len(a) + 1)
    BY <1>2, <1>4 DEF Renewed
  <2> QED
    BY <1>2, <1>4, <2>1, <2>2 DEF Current, LastWord
<1> QED
  BY <1>3, <1>4

\* Hearing the first message of q, a worker that knew kn knows kn2.
Hears(q, kn, kn2) ==
  \/ kn2 = kn /\ Head(q).type # "owner"
  \/ kn2 = Head(q).epoch /\ Head(q).type # "request"

LEMMA WordTail ==
  ASSUME NEW t, NEW q, Rests(t, q), NEW kn, NEW kn2, Hears(q, kn, kn2),
         NEW j \in 1 .. Len(q), NEW v, LastWord(q, kn, j + 1, v)
  PROVE  LastWord(t, kn2, j, v)
<1>1. /\ Len(q) \in Nat /\ Len(t) = Len(q) - 1 /\ Head(q) = q[1]
      /\ \A i \in 1 .. Len(t) : t[i] = q[i + 1]
  BY DEF Rests
<1>2. \A k \in 1 .. j : k > 1 => k - 1 \in 1 .. (j - 1) /\ t[k - 1] = q[k]
  <2> SUFFICES ASSUME NEW k \in 1 .. j, k > 1 PROVE k - 1 \in 1 .. (j - 1) /\ t[k - 1] = q[k]
    OBVIOUS
  <2>1. k - 1 \in 1 .. (j - 1) /\ k - 1 \in 1 .. Len(t) /\ (k - 1) + 1 = k
    BY <1>1
  <2> QED
    BY <1>1, <2>1
<1>3. \A i \in Nat : Renewed(q, i + 1, j + 1) => Renewed(t, i, j)
  <2>0. (j + 1) - 1 = j
    OBVIOUS
  <2> SUFFICES ASSUME NEW i \in Nat, NEW k \in 1 .. j, k > i + 1, q[k].type = "owner"
               PROVE  Renewed(t, i, j)
    BY <2>0 DEF Renewed
  <2>1. k > 1 /\ k - 1 > i
    OBVIOUS
  <2> QED
    BY <1>2, <2>1 DEF Renewed
<1>4. ASSUME NEW i \in 1 .. (j - 1)
      PROVE  t[i].type = "request" \/ t[i].epoch = v \/ Renewed(t, i, j)
  <2>1. i + 1 \in 1 .. ((j + 1) - 1) /\ i \in 1 .. Len(t) /\ i \in Nat
    BY <1>1
  <2> QED
    BY <1>1, <1>3, <2>1 DEF LastWord
<1>5. kn2 \in {None, v} \/ Renewed(t, 0, j)
  <2>1. Renewed(q, 1, j + 1) => Renewed(t, 0, j)
    BY <1>3
  <2>2. CASE kn2 = kn /\ Head(q).type # "owner"
    <3>1. Renewed(q, 0, j + 1) => Renewed(q, 1, j + 1)
      BY <1>1, <2>2 DEF Renewed
    <3> QED
      BY <2>1, <2>2, <3>1 DEF LastWord
  <2>3. CASE kn2 = Head(q).epoch /\ Head(q).type # "request"
    <3>1. 1 \in 1 .. ((j + 1) - 1)
      OBVIOUS
    <3>2. q[1].type = "request" \/ q[1].epoch = v \/ Renewed(q, 1, j + 1)
      BY <3>1 DEF LastWord
    <3> QED
      BY <1>1, <2>1, <2>3, <3>2
  <2> QED
    BY <2>2, <2>3 DEF Hears
<1> QED
  BY <1>4, <1>5 DEF LastWord

LEMMA InformedTail ==
  ASSUME NEW t, NEW q, Rests(t, q), NEW kn, NEW kn2, Hears(q, kn, kn2), Informed(q, kn)
  PROVE  Informed(t, kn2)
<1> SUFFICES ASSUME NEW j \in 1 .. Len(t), t[j].type = "response"
             PROVE  LastWord(t, kn2, j, t[j].epoch)
  BY DEF Informed
<1>1. j + 1 \in 1 .. Len(q) /\ t[j] = q[j + 1] /\ j \in 1 .. Len(q)
  BY DEF Rests
<1>2. LastWord(q, kn, j + 1, t[j].epoch)
  BY <1>1 DEF Informed
<1> QED
  BY <1>1, <1>2, WordTail

LEMMA CurrentTail ==
  ASSUME NEW t, NEW q, Rests(t, q), NEW kn, NEW kn2, Hears(q, kn, kn2), NEW v, Current(q, kn, v)
  PROVE  Current(t, kn2, v)
<1>1. Len(q) \in 1 .. Len(q) /\ Len(t) + 1 = Len(q)
  BY DEF Rests
<1>2. LastWord(q, kn, Len(q) + 1, v)
  BY DEF Current
<1>3. LastWord(t, kn2, Len(q), v)
  BY <1>1, <1>2, WordTail
<1> QED
  BY <1>1, <1>3 DEF Current

LEMMA NothingHeard ==
  ASSUME NEW v
  PROVE  /\ \A kn : Informed(<<>>, kn)
         /\ Current(<<>>, None, v)
<1>1. Len(<<>>) = 0
  OBVIOUS
<1> QED
  BY <1>1 DEF Informed, Current, LastWord

-----------------------------------------------------------------------------
\* The storage stays with its owner, or the database is closed.
OwnerStays(v) == (Owns(v) => Owns(v)') /\ (db'.open => db.open /\ lock' = lock)

OwnersStay == \A v \in Workers : OwnerStays(v)

KnownStays == \A v \in Workers : step'[v] = "remote" => known'[v] = known[v]

Words == EpochInv' /\ KnownStays

LEMMA EpochFresh ==
  ASSUME NEW v \in Workers, inbox'[v] = <<>>, known'[v] = None
  PROVE  EpochOK(v)'
<1> DEFINE u == lock'
<1>1. Informed(<<>>, None) /\ Current(<<>>, None, u)
  BY NothingHeard
<1> QED
  BY <1>1 DEF EpochOK

LEMMA EpochSame ==
  ASSUME NEW v \in Workers, EpochOK(v), OwnerStays(v), phase[v] \notin {"new", "gone"},
         inbox'[v] = inbox[v], known'[v] = known[v]
  PROVE  EpochOK(v)'
BY DEF EpochOK, OwnerStays

LEMMA EpochAppends ==
  ASSUME NEW v \in Workers, EpochOK(v), OwnerStays(v), phase[v] \notin {"new", "gone"},
         inbox[v] \in Seq(Message), NEW x \in Message, inbox'[v] = Append(inbox[v], x),
         known'[v] = known[v],
         x.type = "request" \/ (x.type = "response" /\ db.open /\ x.epoch = lock)
  PROVE  EpochOK(v)'
<1> SUFFICES ASSUME ~ Owns(v) PROVE EpochOK(v)'
  BY DEF OwnerStays, EpochOK
<1>1. PICK a, q, kn : a = inbox'[v] /\ q = inbox[v] /\ kn = known[v] /\ Extends(a, q, x)
  BY ElemsAppend
<1>2. Informed(q, kn) /\ (db.open => Current(q, kn, lock))
  BY <1>1 DEF EpochOK
<1>3. Informed(a, kn)
  BY <1>1, <1>2, InformedAppend
<1>4. db.open => Current(a, kn, lock)
  BY <1>1, <1>2, CurrentAppend
<1> QED
  BY <1>1, <1>3, <1>4 DEF EpochOK, OwnerStays

LEMMA EpochReads ==
  ASSUME NEW v \in Workers, EpochOK(v), OwnerStays(v), phase[v] \notin {"new", "gone"},
         inbox[v] \in Seq(Message), inbox[v] # <<>>, inbox'[v] = Tail(inbox[v]),
         Owns(v) \/ Hears(inbox[v], known[v], known'[v])
  PROVE  EpochOK(v)'
<1> SUFFICES ASSUME ~ Owns(v) PROVE EpochOK(v)'
  BY DEF OwnerStays, EpochOK
<1>1. PICK t, q, kn, kn2 : /\ t = inbox'[v] /\ q = inbox[v] /\ kn = known[v] /\ kn2 = known'[v]
                           /\ Rests(t, q) /\ Hears(q, kn, kn2)
  BY ElemsTail
<1>2. Informed(q, kn) /\ (db.open => Current(q, kn, lock))
  BY <1>1 DEF EpochOK
<1>3. Informed(t, kn2)
  BY <1>1, <1>2, InformedTail
<1>4. db.open => Current(t, kn2, lock)
  BY <1>1, <1>2, CurrentTail
<1> QED
  BY <1>1, <1>3, <1>4 DEF EpochOK, OwnerStays

LEMMA NotRunning ==
  ASSUME HoldInv, NEW v \in Workers, phase[v] \in {"new", "gone"}
  PROVE  inbox[v] = <<>> /\ known[v] = None /\ queue[v] = <<>>
BY DEF HoldInv, WorkerOK, PhaseOK

LEMMA QuietWords ==
  ASSUME HoldInv, EpochInv, OwnersStay, UNCHANGED <<known, inbox>>
  PROVE  Words
<1>1. ASSUME NEW v \in Workers PROVE EpochOK(v)'
  <2>1. CASE phase[v] \in {"new", "gone"}
    BY <2>1, NotRunning, EpochFresh
  <2>2. CASE phase[v] \notin {"new", "gone"}
    BY <2>2, EpochSame DEF EpochInv, OwnersStay
  <2> QED
    BY <2>1, <2>2
<1> QED
  BY <1>1 DEF Words, EpochInv, KnownStays

LEMMA PostWords ==
  ASSUME HoldInv, EpochInv, OwnersStay, known' = known, NEW to,
         \A v \in to : phase[v] \notin {"new", "gone"},
         NEW x \in Message, inbox' = Post(inbox, to, x),
         x.type = "request" \/ (x.type = "response" /\ db.open /\ x.epoch = lock)
  PROVE  Words
<1>1. inbox \in [Workers -> Seq(Message)]
  BY DEF HoldInv, Shapes
<1>2. \A v \in Workers : inbox'[v] = IF v \in to THEN Append(inbox[v], x) ELSE inbox[v]
  BY <1>1, PostType
<1>3. ASSUME NEW v \in Workers PROVE EpochOK(v)'
  <2>1. CASE v \in to
    <3>1. EpochOK(v) /\ OwnerStays(v) /\ inbox[v] \in Seq(Message)
      BY <1>1 DEF EpochInv, OwnersStay
    <3> QED
      BY <1>2, <2>1, <3>1, EpochAppends
  <2>2. CASE v \notin to /\ phase[v] \in {"new", "gone"}
    BY <1>2, <2>2, NotRunning, EpochFresh
  <2>3. CASE v \notin to /\ phase[v] \notin {"new", "gone"}
    BY <1>2, <2>3, EpochSame DEF EpochInv, OwnersStay
  <2> QED
    BY <2>1, <2>2, <2>3
<1> QED
  BY <1>3 DEF Words, EpochInv, KnownStays

LEMMA LeaveWords ==
  ASSUME HoldInv, EpochInv, NEW w \in Workers, NEW outcome, Leave(w, outcome)
  PROVE  Words
<1>1. Shapes /\ HoldOK
  BY DEF HoldInv
<1>2. /\ inbox'[w] = <<>> /\ known'[w] = None /\ step'[w] = "idle"
      /\ \A v \in Workers \ {w} : inbox'[v] = inbox[v] /\ known'[v] = known[v]
      /\ lock = w => ~ db'.open
      /\ lock # w => lock' = lock /\ db' = db
  BY <1>1 DEF Leave, Shapes, Closed
<1>3. ASSUME NEW v \in Workers \ {w} PROVE EpochOK(v)'
  <2>1. OwnerStays(v)
    BY <1>2 DEF OwnerStays, Owns
  <2>2. CASE phase[v] \in {"new", "gone"}
    BY <1>2, <2>2, NotRunning, EpochFresh
  <2>3. CASE phase[v] \notin {"new", "gone"}
    BY <1>2, <2>1, <2>3, EpochSame DEF EpochInv
  <2> QED
    BY <2>2, <2>3
<1>4. EpochOK(w)'
  BY <1>2, EpochFresh
<1> QED
  BY <1>2, <1>3, <1>4 DEF Words, EpochInv, KnownStays

LEMMA OpenWords ==
  ASSUME HoldInv, EpochInv, NEW w \in Workers, lock = w, ~ db.open, Open(w), step[w] = "idle"
  PROVE  Words
<1> DEFINE x == [type |-> "owner", epoch |-> w]
<1>1. Shapes /\ Opened(w) /\ inbox \in [Workers -> Seq(Message)] /\ x \in Message
  BY OpenEffect, MessageMakes DEF HoldInv, Shapes
<1>2. /\ db'.open = TRUE /\ lock' = w /\ step' = step
      /\ \A v \in Workers \ {w} : known'[v] = known[v]
      /\ \A v \in Workers : v \notin Listening(w) => inbox'[v] = inbox[v]
      /\ \A v \in Listening(w) : inbox'[v] = Append(inbox[v], x)
  BY <1>1 DEF Opened, Shapes
<1>3. ASSUME NEW v \in Workers \ {w} PROVE EpochOK(v)'
  <2>1. CASE v \notin Listening(w)
    <3>1. phase[v] \in {"new", "gone"}
      BY <2>1 DEF Listening
    <3> QED
      BY <1>2, <2>1, <3>1, NotRunning, EpochFresh
  <2>2. CASE v \in Listening(w)
    <3> HIDE DEF x
    <3>1. PICK a, q, kn : /\ a = inbox'[v] /\ q = inbox[v] /\ kn = known[v] /\ kn = known'[v]
                          /\ Extends(a, q, x)
      BY <1>1, <1>2, <2>2, ElemsAppend
    <3>2. x.type = "owner" /\ x.epoch = w
      BY DEF x
    <3>3. Informed(q, kn)
      BY <3>1 DEF EpochInv, EpochOK, Owns
    <3>4. Informed(a, kn)
      BY <3>1, <3>2, <3>3, InformedAppend
    <3>5. Current(a, kn, w)
      BY <3>1, <3>2, CurrentAppend
    <3> QED
      BY <1>2, <3>1, <3>4, <3>5 DEF EpochOK
  <2> QED
    BY <2>1, <2>2
<1>4. EpochOK(w)'
  BY <1>2 DEF EpochOK, Owns
<1> QED
  BY <1>2, <1>3, <1>4 DEF Words, EpochInv, KnownStays

LEMMA FinishWords ==
  ASSUME HoldInv, EpochInv, NEW w \in Workers, queue[w] # <<>>,
         NEW outcome \in Outcomes, Finish(w, outcome, inbox), OwnersStay, known' = known,
         Head(queue[w]).kind = "request" => Owns(w)
  PROVE  Words
<1> DEFINE j == Head(queue[w])
           x == [type |-> "response", outcome |-> outcome, request |-> j.request, epoch |-> w]
<1>1. inbox' = inbox \/ (j.kind = "request" /\ j.from \in Listening(w) /\ inbox' = Post(inbox, {j.from}, x))
  BY DEF Finish
<1>2. CASE inbox' = inbox
  BY <1>2, QuietWords
<1>3. CASE j.kind = "request" /\ j.from \in Listening(w) /\ inbox' = Post(inbox, {j.from}, x)
  <2>1. JobOK(j) /\ db.open /\ lock = w
    BY <1>3, AtWork DEF Shortened, Owns
  <2>2. x \in Message /\ x.type = "response" /\ x.epoch = w
    BY <1>3, <2>1, MessageMakes DEF JobOK
  <2>3. \A v \in {j.from} : phase[v] \notin {"new", "gone"}
    BY <1>3 DEF Listening
  <2> HIDE DEF x
  <2> QED
    BY <1>3, <2>1, <2>2, <2>3, PostWords
<1> QED
  BY <1>1, <1>2, <1>3

LEMMA ReadWords ==
  ASSUME HoldInv, EpochInv, NEW w \in Workers, inbox[w] # <<>>, phase[w] \notin {"new", "gone"},
         inbox' = Rest(w), OwnersStay, \A v \in Workers \ {w} : known'[v] = known[v],
         step'[w] = "remote" => known'[w] = known[w],
         Owns(w) \/ Hears(inbox[w], known[w], known'[w])
  PROVE  Words
<1>1. /\ \A v \in Workers \ {w} : inbox'[v] = inbox[v]
      /\ inbox'[w] = Tail(inbox[w]) /\ inbox[w] \in Seq(Message)
  BY RestType DEF HoldInv, Shapes
<1>2. ASSUME NEW v \in Workers \ {w} PROVE EpochOK(v)'
  <2>2. CASE phase[v] \in {"new", "gone"}
    BY <1>1, <2>2, NotRunning, EpochFresh
  <2>3. CASE phase[v] \notin {"new", "gone"}
    BY <1>1, <2>3, EpochSame DEF EpochInv, OwnersStay
  <2> QED
    BY <2>2, <2>3
<1>3. EpochOK(w)'
  BY <1>1, EpochReads DEF EpochInv, OwnersStay
<1> QED
  BY <1>2, <1>3 DEF Words, EpochInv, KnownStays

-----------------------------------------------------------------------------
(***************************************************************************)
(* What a caller is told.                                                  *)
(***************************************************************************)

\* What a step tells is so after it.
Honest ==
  /\ \A r \in Requests : answer'[r] # answer[r] =>
       /\ answer'[r] = "ok" => r \in Served'
       /\ answer'[r] = "refused" => Dead(r)'
  /\ \A v \in Workers : \A m \in Elems(inbox'[v]) :
       m.type = "response" /\ m.request \in Requests => m \in Elems(inbox[v]) \/ TruthOK(m)'

LEMMA HonestQuiet ==
  ASSUME \A r \in Requests : answer'[r] = answer[r] \/ answer'[r] = "unknown",
         \A v \in Workers : \A m \in Elems(inbox'[v]) : m \in Elems(inbox[v]) \/ m.type # "response"
  PROVE  Honest
<1>1. \A r \in Requests : answer'[r] # answer[r] => answer'[r] # "ok" /\ answer'[r] # "refused"
  OBVIOUS
<1> QED
  BY <1>1 DEF Honest

LEMMA BoxElems ==
  ASSUME Shapes, NEW box, Boxes(box), NEW v \in Workers
  PROVE  Elems(box[v]) \subseteq Elems(inbox[v])
<1>1. CASE box[v] = inbox[v]
  BY <1>1
<1>2. CASE inbox[v] # <<>> /\ box[v] = Tail(inbox[v])
  <2>1. inbox[v] \in Seq(Message)
    BY DEF Shapes
  <2>2. PICK t, q : t = box[v] /\ q = inbox[v] /\ Rests(t, q)
    BY <1>2, <2>1, ElemsTail
  <2> QED
    BY <2>2 DEF Rests
<1> QED
  BY <1>1, <1>2 DEF Boxes

LEMMA PostElems ==
  ASSUME Shapes, NEW box, Boxes(box), NEW to, NEW x \in Message, inbox' = Post(box, to, x),
         NEW v \in Workers
  PROVE  \A m \in Elems(inbox'[v]) : m = x \/ m \in Elems(inbox[v])
<1>1. box \in [Workers -> Seq(Message)] /\ Elems(box[v]) \subseteq Elems(inbox[v])
  BY BoxElems DEF Boxes
<1>2. inbox'[v] = Append(box[v], x) \/ inbox'[v] = box[v]
  <2>1. \A u \in Workers : inbox'[u] = IF u \in to THEN Append(box[u], x) ELSE box[u]
    BY <1>1, PostType
  <2> QED
    BY <2>1
<1>3. CASE inbox'[v] = Append(box[v], x)
  <2>1. PICK a, q : a = inbox'[v] /\ q = box[v] /\ Extends(a, q, x)
    BY <1>1, <1>3, ElemsAppend
  <2> QED
    BY <1>1, <2>1 DEF Extends
<1>4. CASE inbox'[v] = box[v]
  BY <1>1, <1>4
<1> QED
  BY <1>2, <1>3, <1>4

LEMMA FinishHonest ==
  ASSUME HoldInv, TrackInv, NEW w \in Workers, queue[w] # <<>>, NEW outcome \in Outcomes,
         NEW box, Boxes(box), Finish(w, outcome, box), sentTo' = sentTo,
         NEW r, r = Head(queue[w]).request,
         r \in Requests /\ outcome = "ok" => r \in Served',
         r \in Requests /\ outcome = "refused" /\ (Head(queue[w]).kind = "command" \/ sentTo[r] = w)
           => Dead(r)'
  PROVE  Honest
<1> DEFINE j == Head(queue[w])
           x == [type |-> "response", outcome |-> outcome, request |-> j.request, epoch |-> w]
<1>1. /\ \A y \in Requests : answer'[y] = IF j.kind = "command" /\ y = j.request
                                          THEN outcome ELSE answer[y]
      /\ \/ inbox' = box
         \/ j.kind = "request" /\ inbox' = Post(box, {j.from}, x)
  BY DEF Finish
<1>2. Shapes /\ TrackOK(w) /\ JobOK(j) /\ j \in Elems(queue[w])
  BY AtWork DEF TrackInv, Shortened
<1>3. ASSUME NEW y \in Requests, answer'[y] # answer[y]
      PROVE  /\ answer'[y] = "ok" => y \in Served'
             /\ answer'[y] = "refused" => Dead(y)'
  <2>1. y = r /\ j.kind = "command" /\ answer'[y] = outcome
    BY <1>1, <1>3
  <2> QED
    BY <2>1
<1>4. ASSUME NEW v \in Workers, NEW m \in Elems(inbox'[v]),
             m.type = "response" /\ m.request \in Requests
      PROVE  m \in Elems(inbox[v]) \/ TruthOK(m)'
  <2>1. CASE inbox' = box
    BY <1>2, <1>4, <2>1, BoxElems
  <2>2. CASE j.kind = "request" /\ inbox' = Post(box, {j.from}, x)
    <3>1. x \in Message
      BY <1>2, <2>2, MessageMakes DEF JobOK
    <3>2. /\ x.type = "response" /\ x.outcome = outcome /\ x.request = r /\ x.epoch = w
      OBVIOUS
    <3> HIDE DEF x
    <3>3. m = x \/ m \in Elems(inbox[v])
      BY <1>2, <2>2, <3>1, PostElems
    <3>4. CASE m = x
      <4>1. sentTo[r] # None
        BY <1>2, <1>4, <2>2, <3>2, <3>4 DEF TrackOK, StampsOK
      <4> QED
        BY <1>4, <3>2, <3>4, <4>1 DEF TruthOK
    <3> QED
      BY <3>3, <3>4
  <2> QED
    BY <1>1, <2>1, <2>2
<1> QED
  BY <1>3, <1>4 DEF Honest

\* A job that is refused has had no effect, and nobody has it any more.
LEMMA RefusedDead ==
  ASSUME HoldInv, HoldInv', TrackInv, NEW w \in Workers, queue[w] # <<>>, step[w] = "idle",
         NEW outcome \in Outcomes, Finish(w, outcome, inbox), Reached' = Reached, sentTo' = sentTo,
         NEW r \in Requests, r = Head(queue[w]).request,
         \/ Head(queue[w]).kind = "command"
         \/ Head(queue[w]).kind = "request" /\ sentTo[r] = w
  PROVE  Dead(r)'
<1>1. /\ Settles /\ r \notin Own(w)' \cup Taken(w)'
      /\ \A v \in Workers \ {w} : Own(v)' = Own(v)
  BY FinishSettles, BoxesSame DEF HoldInv
<1>2. \A v \in Workers : Mail(v)' \subseteq Mail(v) /\ Taken(v)' \subseteq Taken(v)
  BY <1>1, ShrinkingSets DEF Settles, Shrinks
<1>3. TrackOK(w) /\ Begun(w) = {} /\ Head(queue[w]) \in Elems(queue[w])
  BY AtWork DEF TrackInv, Begun, Shortened
<1>4. CASE Head(queue[w]).kind = "command"
  <2>1. r \in Own(w)
    BY <1>3, <1>4 DEF Own, Commands, RequestsOf
  <2>2. r \notin Reached /\ sentTo[r] = None
    BY <1>3, <2>1 DEF TrackOK, CommandsOK
  <2>3. \A v \in Workers : r \notin Own(v)'
    BY <1>1, <2>1 DEF TrackInv
  <2> QED
    BY <2>2, <2>3, OwnershipAssumption DEF Dead
<1>5. CASE Head(queue[w]).kind = "request" /\ sentTo[r] = w
  <2>1. r \in Taken(w)
    BY <1>3, <1>5 DEF Taken, Forwarded, RequestsOf
  <2>2. r \notin Reached
    BY <1>3, <1>5, <2>1 DEF TrackOK, ForwardedOK
  <2>3. r \notin Mail(w)'
    BY <1>2, <1>3, <2>1 DEF TrackOK, OnceOK
  <2> QED
    BY <1>1, <1>5, <2>2, <2>3, OwnershipAssumption DEF Dead
<1> QED
  BY <1>4, <1>5

LEMMA LeaveHonest ==
  ASSUME HoldInv, TrackInv, NEW w \in Workers, NEW outcome, Leave(w, outcome),
         \/ outcome = "unknown"
         \/ outcome = "refused" /\ step[w] # "remote" /\ Reached' \subseteq Reached
            /\ queue[w] # <<>> /\ Head(queue[w]).kind = "close"
  PROVE  Honest
<1>1. Shapes /\ TrackOK(w)
  BY DEF HoldInv, TrackInv
<1>2. /\ \A v \in Workers : inbox'[v] = inbox[v] \/ inbox'[v] = <<>>
      /\ queue'[w] = <<>> /\ \A v \in Workers \ {w} : queue'[v] = queue[v]
      /\ sentTo' = sentTo
      /\ \A r \in Requests : answer'[r] = answer[r] \/ (answer'[r] = outcome /\ r \in Own(w))
  <2>1. DOMAIN queue[w] = 1 .. Len(queue[w])
    BY <1>1 DEF Shapes
  <2>2. \A r \in Requests : answer'[r] = answer[r] \/ (answer'[r] = outcome /\ r \in Own(w))
    BY <2>1 DEF Leave, Own, Commands, RequestsOf, Elems
  <2> QED
    BY <1>1, <2>2 DEF Leave, Shapes
<1>3. \A v \in Workers : \A m \in Elems(inbox'[v]) : m \in Elems(inbox[v])
  BY <1>2, ElemsEmpty
<1>4. CASE outcome = "unknown"
  BY <1>2, <1>3, <1>4, HonestQuiet
<1>5. CASE /\ outcome = "refused" /\ step[w] # "remote" /\ Reached' \subseteq Reached
           /\ queue[w] # <<>> /\ Head(queue[w]).kind = "close"
  <2>1. ASSUME NEW r \in Own(w) PROVE Dead(r)'
    <3>1. r \in Requests /\ r \notin Begun(w)
      <4>1. Head(queue[w]).request = None
        BY <1>5, AtWork DEF Shortened, JobOK
      <4> QED
        BY <4>1, SetsOfRequests, OwnershipAssumption DEF Begun
    <3>2. r \notin Reached /\ sentTo[r] = None
      BY <1>1, <1>5, <3>1 DEF TrackOK, CommandsOK
    <3>3. \A v \in Workers : r \notin Own(v)'
      <4>1. Own(w)' = {}
        BY <1>2, ElemsEmpty DEF Own, Commands, RequestsOf
      <4>2. \A v \in Workers \ {w} : Own(v)' = Own(v) /\ r \notin Own(v)
        BY <1>2 DEF Own, TrackInv
      <4> QED
        BY <4>1, <4>2
    <3> QED
      BY <1>2, <1>5, <3>2, <3>3, OwnershipAssumption DEF Dead
  <2> QED
    BY <1>2, <1>3, <1>5, <2>1 DEF Honest
<1> QED
  BY <1>4, <1>5

-----------------------------------------------------------------------------
LEMMA SettledDead ==
  ASSUME NEW X, Settled(X), NEW r, Dead(r)
  PROVE  Dead(r)'
<1>1. /\ \A v \in Workers : Own(v)' \subseteq Own(v) /\ Mail(v)' \subseteq Mail(v)
                            /\ Taken(v)' \subseteq Taken(v)
      /\ sentTo' = sentTo /\ Reached' \subseteq Reached \cup X
  BY ShrinkingSets DEF Settled, Settles, Shrinks
<1>2. ~ Live(r)
  BY DEF Dead, Live
<1>3. r \notin Reached'
  BY <1>1, <1>2 DEF Settled, Dead
<1> QED
  BY <1>1, <1>3 DEF Dead

Tells == Words /\ Honest

LEMMA SameOwner == ASSUME UNCHANGED lock, db'.open = db.open PROVE OwnersStay
BY DEF OwnersStay, OwnerStays, Owns

LEMMA NoOwner ==
  ASSUME HoldInv, ~ db.open, db'.open = db.open
  PROVE  OwnersStay
BY DEF OwnersStay, OwnerStays, Owns

\* Nothing is told.
LEMMA QuietTells ==
  ASSUME HoldInv, EpochInv, OwnersStay, UNCHANGED <<known, inbox, answer>>
  PROVE  Tells
BY QuietWords, HonestQuiet DEF Tells

LEMMA PostTells ==
  ASSUME HoldInv, EpochInv, NEW to, \A v \in to : phase[v] \notin {"new", "gone"},
         NEW x \in Message, inbox' = Post(inbox, to, x), x.type = "request",
         UNCHANGED <<lock, db, known, answer>>
  PROVE  Tells
<1>1. OwnersStay /\ Shapes /\ Boxes(inbox)
  BY SameOwner, BoxesSame DEF HoldInv
<1>2. Words
  BY <1>1, PostWords
<1>3. \A v \in Workers : \A m \in Elems(inbox'[v]) : m \in Elems(inbox[v]) \/ m.type # "response"
  BY <1>1, PostElems
<1> QED
  BY <1>2, <1>3, HonestQuiet DEF Tells

LEMMA OpenTells ==
  ASSUME HoldInv, EpochInv, NEW w \in Workers, lock = w, ~ db.open, Open(w), step[w] = "idle"
  PROVE  Tells
<1> DEFINE x == [type |-> "owner", epoch |-> w]
<1>1. inbox' = Post(inbox, Listening(w), x) /\ x \in Message /\ x.type # "response" /\ answer' = answer
  BY MessageMakes DEF Open, history
<1>2. Shapes /\ Boxes(inbox)
  BY BoxesSame DEF HoldInv
<1> HIDE DEF x
<1>3. \A v \in Workers : \A m \in Elems(inbox'[v]) : m \in Elems(inbox[v]) \/ m.type # "response"
  BY <1>1, <1>2, PostElems
<1> QED
  BY <1>1, <1>3, OpenWords, HonestQuiet DEF Tells

LEMMA LeaveTells ==
  ASSUME HoldInv, TrackInv, EpochInv, NEW w \in Workers, NEW outcome, Leave(w, outcome),
         \/ outcome = "unknown"
         \/ outcome = "refused" /\ step[w] # "remote" /\ Reached' \subseteq Reached
            /\ queue[w] # <<>> /\ Head(queue[w]).kind = "close"
  PROVE  Tells
BY LeaveWords, LeaveHonest DEF Tells

LEMMA FinishTells ==
  ASSUME HoldInv, TrackInv, EpochInv, NEW w \in Workers, queue[w] # <<>>, NEW outcome \in Outcomes,
         Finish(w, outcome, inbox), UNCHANGED <<lock, known, sentTo>>, db'.open = db.open,
         Head(queue[w]).kind = "request" => Owns(w),
         NEW r, r = Head(queue[w]).request,
         r \in Requests /\ outcome = "ok" => r \in Served',
         r \in Requests /\ outcome = "refused" /\ (Head(queue[w]).kind = "command" \/ sentTo[r] = w)
           => Dead(r)'
  PROVE  Tells
<1>1. OwnersStay /\ Boxes(inbox)
  BY SameOwner, BoxesSame DEF HoldInv
<1>2. Words
  BY <1>1, FinishWords
<1>3. Honest
  BY <1>1, FinishHonest
<1> QED
  BY <1>2, <1>3 DEF Tells

\* A message is read, and nothing is said.
LEMMA ReadingTells ==
  ASSUME HoldInv, EpochInv, NEW w \in Workers, inbox[w] # <<>>, phase[w] \notin {"new", "gone"},
         inbox' = Rest(w), UNCHANGED <<lock, db>>,
         \A r \in Requests : answer'[r] = answer[r] \/ answer'[r] = "unknown",
         \A v \in Workers \ {w} : known'[v] = known[v],
         step'[w] = "remote" => known'[w] = known[w],
         Owns(w) \/ Hears(inbox[w], known[w], known'[w])
  PROVE  Tells
<1>1. OwnersStay /\ Shapes /\ Boxes(Rest(w))
  BY SameOwner, BoxesRest DEF HoldInv
<1>2. \A v \in Workers : \A m \in Elems(inbox'[v]) : m \in Elems(inbox[v]) \/ m.type # "response"
  BY <1>1, BoxElems
<1> QED
  BY <1>1, <1>2, ReadWords, HonestQuiet DEF Tells

LEMMA StartTells ==
  ASSUME HoldInv, EpochInv, NEW w \in Workers, InitAlone(w) \/ InitOther(w)
  PROVE  Tells
<1>1. CASE InitAlone(w)
  <2>1. lock = None /\ UNCHANGED <<db, known, inbox, answer>>
    BY <1>1 DEF InitAlone, Available, history
  <2>2. ~ db.open
    BY <2>1, OwnershipAssumption DEF HoldInv, HoldOK
  <2> QED
    BY <2>1, <2>2, NoOwner, QuietTells
<1>2. CASE InitOther(w)
  <2> DEFINE x == [type |-> "request", request |-> Hello, from |-> w, epoch |-> None]
  <2>1. inbox' = Post(inbox, Listening(w), x) /\ UNCHANGED <<lock, db, known, answer>>
    BY <1>2 DEF InitOther, history
  <2>2. x \in Message /\ x.type = "request"
    BY MessageMakes
  <2>3. \A v \in Listening(w) : phase[v] \notin {"new", "gone"}
    BY DEF Listening
  <2> HIDE DEF x
  <2> QED
    BY <2>1, <2>2, <2>3, PostTells
<1> QED
  BY <1>1, <1>2

LEMMA OpensTells ==
  ASSUME HoldInv, TrackInv, EpochInv, NEW w \in Workers, Opens(w)
  PROVE  Tells
<1>1. CASE InitOpens(w)
  <2>1. phase[w] = "opening" /\ Open(w)
    BY <1>1 DEF InitOpens
  <2>2. lock = w /\ ~ db.open /\ step[w] = "idle"
    BY <2>1 DEF HoldInv, WorkerOK, PhaseOK, StepOK
  <2> QED
    BY <2>1, <2>2, OpenTells
<1>2. CASE InitOpenFails(w)
  BY <1>2, LeaveTells DEF InitOpenFails
<1>3. CASE TakesOver(w)
  BY <1>3, FirstOpens, OpenTells DEF TakesOver
<1>4. CASE TakeOverFails(w)
  <2>1. ~ db.open
    BY <1>4, FirstOpens DEF TakeOverFails
  <2>2. UNCHANGED <<db, known, inbox, answer>>
    BY <1>4 DEF TakeOverFails, history
  <2> QED
    BY <2>1, <2>2, NoOwner, QuietTells
<1> QED
  BY <1>1, <1>2, <1>3, <1>4 DEF Opens

LEMMA LockGrantedTells ==
  ASSUME HoldInv, EpochInv, NEW w \in Workers, LockGranted(w)
  PROVE  Tells
<1>1. /\ lock = None /\ UNCHANGED <<db, known, inbox>>
      /\ \A r \in Requests : answer'[r] = answer[r] \/ answer'[r] = "unknown"
  BY DEF LockGranted
<1>2. ~ db.open
  BY <1>1, OwnershipAssumption DEF HoldInv, HoldOK
<1>3. Words
  BY <1>1, <1>2, NoOwner, QuietWords
<1>4. Honest
  BY <1>1, HonestQuiet
<1> QED
  BY <1>3, <1>4 DEF Tells

LEMMA IssueTells ==
  ASSUME HoldInv, TrackInv, EpochInv, NEW w \in Workers, NEW r \in Requests, Issue(w, r)
  PROVE  Tells
<1>1. UNCHANGED <<lock, db, known, inbox, durable, done, lost, sentTo>> /\ r \notin Asked
  BY DEF Issue
<1>2. CASE answer' = answer
  BY <1>1, <1>2, SameOwner, QuietTells
<1>3. CASE answer' = [answer EXCEPT ![r] = "refused"] /\ queue' = queue
  <2>1. sentTo[r] = None /\ r \notin Reached /\ \A v \in Workers : r \notin Own(v)
    BY <1>1, Unasked
  <2>2. Dead(r)'
    BY <1>1, <1>3, <2>1, OwnershipAssumption DEF Dead, Reached, Own
  <2>3. \A y \in Requests : y # r => answer'[y] = answer[y]
    BY <1>3 DEF HoldInv, Shapes
  <2>4. answer'[r] = "refused"
    BY <1>3 DEF HoldInv, Shapes
  <2>5. Honest
    BY <1>1, <2>2, <2>3, <2>4 DEF Honest
  <2>6. Words
    BY <1>1, SameOwner, QuietWords
  <2> QED
    BY <2>5, <2>6 DEF Tells
<1> QED
  BY <1>2, <1>3 DEF Issue

LEMMA ForwardTells ==
  ASSUME HoldInv, EpochInv, NEW w \in Workers, Forward(w)
  PROVE  Tells
<1> DEFINE r == Head(queue[w]).request
           x == [type |-> "request", request |-> r, from |-> w, epoch |-> known[w]]
<1>1. /\ queue[w] # <<>> /\ Head(queue[w]).kind = "command"
      /\ inbox' = Post(inbox, Listening(w), x) /\ UNCHANGED <<lock, db, known, answer>>
  BY DEF Forward, Begins
<1>2. r \in Requests /\ known[w] \in Workers \cup {None}
  BY <1>1, AtWork DEF Shortened, JobOK, Shapes
<1>3. x \in Message /\ x.type = "request"
  BY <1>2, MessageMakes
<1>4. \A v \in Listening(w) : phase[v] \notin {"new", "gone"}
  BY DEF Listening
<1> HIDE DEF x
<1> QED
  BY <1>1, <1>3, <1>4, PostTells

LEMMA TimeoutTells ==
  ASSUME HoldInv, TrackInv, EpochInv, NEW w \in Workers, Timeout(w)
  PROVE  Tells
<1>1. step[w] = "remote" /\ Finish(w, "unknown", inbox) /\ UNCHANGED <<lock, db, known, sentTo>>
  BY DEF Timeout
<1>2. queue[w] # <<>> /\ Head(queue[w]).kind = "command"
  BY <1>1 DEF HoldInv, WorkerOK, StepOK
<1> QED
  BY <1>1, <1>2, FinishTells DEF Outcomes

LEMMA CloseTells ==
  ASSUME HoldInv, EpochInv, NEW w \in Workers, Close(w)
  PROVE  Tells
<1>1. UNCHANGED <<lock, db, known, inbox, answer>>
  BY DEF Close, history
<1> QED
  BY <1>1, SameOwner, QuietTells

LEMMA TimerFiresTells ==
  ASSUME HoldInv, EpochInv, TimerFires
  PROVE  Tells
<1>1. UNCHANGED <<lock, known, inbox, answer>>
      /\ \/ db' = [db EXCEPT !.timer = FALSE, !.failing = TRUE]
         \/ db' = [db EXCEPT !.timer = FALSE]
  BY DEF TimerFires, history
<1>2. db'.open = db.open
  <2>1. db \in Databases
    BY DEF HoldInv, Shapes
  <2>2. CASE db' = [db EXCEPT !.timer = FALSE, !.failing = TRUE]
    BY <2>1, <2>2 DEF Databases
  <2>3. CASE db' = [db EXCEPT !.timer = FALSE]
    BY <2>1, <2>3 DEF Databases
  <2> QED
    BY <1>1, <2>2, <2>3
<1> QED
  BY <1>1, <1>2, SameOwner, QuietTells

LEMMA RefuseTells ==
  ASSUME HoldInv, HoldInv', TrackInv, EpochInv, NEW w \in Workers, Refuse(w)
  PROVE  Tells
<1>1. /\ Owns(w) /\ Begins(w, {"command", "request"})
      /\ Finish(w, "refused", inbox) /\ UNCHANGED <<lock, known, sentTo, db, durable, lost, done>>
  BY PerformsParts DEF Refuse
<1>2. queue[w] # <<>> /\ step[w] = "idle" /\ Head(queue[w]).kind \in {"command", "request"}
  BY <1>1 DEF Begins
<1>3. Reached' = Reached
  BY <1>1 DEF Reached
<1>4. PICK r : r = Head(queue[w]).request
  OBVIOUS
<1>5. r \in Requests /\ (Head(queue[w]).kind = "command" \/ sentTo[r] = w) => Dead(r)'
  BY <1>1, <1>2, <1>3, <1>4, RefusedDead DEF Outcomes
<1> QED
  BY <1>1, <1>2, <1>4, <1>5, FinishTells DEF Outcomes

LEMMA GreetTells ==
  ASSUME HoldInv, TrackInv, EpochInv, NEW w \in Workers, Greet(w)
  PROVE  Tells
<1>1. /\ Owns(w) /\ Begins(w, {"command", "request"}) /\ Head(queue[w]).request = Hello
      /\ Finish(w, "ok", inbox) /\ UNCHANGED <<lock, known, sentTo, db>>
  BY PerformsParts DEF Greet
<1> QED
  BY <1>1, FinishTells, OwnershipAssumption DEF Outcomes, Begins

LEMMA ReadTells ==
  ASSUME HoldInv, TrackInv, EpochInv, NEW w \in Workers, Read(w)
  PROVE  Tells
<1>1. /\ Owns(w) /\ Begins(w, {"command", "request"})
      /\ done' = done \cup {Head(queue[w]).request}
      /\ Finish(w, "ok", inbox) /\ UNCHANGED <<lock, known, sentTo, db>>
  BY PerformsParts DEF Read
<1>2. PICK r : r = Head(queue[w]).request
  OBVIOUS
<1>3. r \in Served'
  BY <1>1, <1>2 DEF Served
<1> QED
  BY <1>1, <1>2, <1>3, FinishTells DEF Outcomes, Begins

\* A save begins.
LEMMA SavingTells ==
  ASSUME HoldInv, EpochInv, NEW w \in Workers, Owns(w), NEW base \in Databases, base.open = TRUE,
         Saving(base, w), UNCHANGED <<lock, known>>
  PROVE  Tells
<1>1. UNCHANGED <<inbox, answer>> /\ db'.open = TRUE
  BY DEF Saving, Databases
<1>2. db.open = TRUE
  BY DEF Owns, HoldInv, Shapes, Databases
<1> QED
  BY <1>1, <1>2, SameOwner, QuietTells

LEMMA WriteTells ==
  ASSUME HoldInv, TrackInv, EpochInv, NEW w \in Workers, Write(w)
  PROVE  Tells
<1> DEFINE x == Head(queue[w]).request
           written == [db EXCEPT !.memory = @ \cup {x}, !.dirty = (backend = "indexeddb")]
<1>1. /\ Owns(w) /\ Begins(w, {"command", "request"}) /\ x \in Writes
      /\ UNCHANGED <<backend, immediate, lock, known, lost, sentTo>>
  BY PerformsParts DEF Write
<1>2. \/ Saving(written, w)
      \/ /\ ~ SavesFirst
         /\ db' = [written EXCEPT !.timer = (backend = "indexeddb")]
         /\ durable' = (IF immediate /\ backend = "opfs" THEN written.memory ELSE durable)
         /\ Finish(w, "ok", inbox)
  BY DEF Write
<1>3. queue[w] # <<>> /\ db.open = TRUE /\ db \in Databases
  BY <1>1, OwnerBegins
<1>4. written \in Databases /\ written.open = TRUE /\ written.memory = db.memory \cup {x}
  BY <1>1, <1>3 DEF Databases
<1> HIDE DEF written
<1>5. CASE Saving(written, w)
  BY <1>1, <1>4, <1>5, SavingTells
<1>6. CASE /\ ~ SavesFirst
           /\ db' = [written EXCEPT !.timer = (backend = "indexeddb")]
           /\ durable' = (IF immediate /\ backend = "opfs" THEN written.memory ELSE durable)
           /\ Finish(w, "ok", inbox)
  <2>1. db'.open = TRUE /\ db'.memory = db.memory \cup {x}
    BY <1>4, <1>6 DEF Databases
  <2>2. immediate => durable' = db.memory \cup {x}
    BY <1>4, <1>6 DEF SavesFirst, HoldInv, Shapes
  <2>3. PICK r : r = x
    OBVIOUS
  <2>4. r \in Served'
    BY <1>1, <2>1, <2>2, <2>3, Apart DEF Served, Store
  <2> QED
    BY <1>1, <1>3, <1>6, <2>1, <2>3, <2>4, FinishTells DEF Outcomes
<1> QED
  BY <1>2, <1>5, <1>6

LEMMA FlushTells ==
  ASSUME HoldInv, TrackInv, EpochInv, NEW w \in Workers, Flush(w)
  PROVE  Tells
<1>1. /\ Owns(w) /\ Begins(w, {"command", "request"}) /\ UNCHANGED <<lock, known, sentTo>>
  BY PerformsParts DEF Flush
<1>2. queue[w] # <<>> /\ db.open = TRUE /\ db \in Databases
  BY <1>1, OwnerBegins
<1>3. CASE Saving(db, w)
  BY <1>1, <1>2, <1>3, SavingTells
<1>4. CASE /\ db' = [db EXCEPT !.timer = FALSE]
           /\ done' = done \cup {Head(queue[w]).request} /\ Finish(w, "ok", inbox)
  <2>1. db'.open = TRUE
    BY <1>2, <1>4 DEF Databases
  <2>2. PICK r : r = Head(queue[w]).request
    OBVIOUS
  <2>3. r \in Served'
    BY <1>4, <2>2 DEF Served
  <2> QED
    BY <1>1, <1>2, <1>4, <2>1, <2>2, <2>3, FinishTells DEF Outcomes
<1> QED
  BY <1>3, <1>4 DEF Flush

LEMMA TimedFlushTells ==
  ASSUME HoldInv, TrackInv, EpochInv, NEW w \in Workers, TimedFlush(w)
  PROVE  Tells
<1>1. /\ Owns(w) /\ Begins(w, {"flush"}) /\ UNCHANGED <<lock, known, sentTo>>
  BY DEF TimedFlush
<1>2. queue[w] # <<>> /\ Head(queue[w]).kind = "flush"
  BY <1>1 DEF Begins
<1>0. db.open = TRUE /\ db \in Databases
  BY Apart, <1>1 DEF Owns
<1>3. CASE Saving(db, w)
  BY <1>0, <1>1, <1>2, <1>3, SavingTells
<1>4. CASE db' = [db EXCEPT !.timer = FALSE] /\ Finish(w, "ok", inbox)
  <2>1. db'.open = TRUE
    BY <1>0, <1>4 DEF Databases
  <2>2. Head(queue[w]).request \notin Requests
    BY <1>2, AtWork, OwnershipAssumption DEF Shortened, JobOK
  <2> QED
    BY <1>0, <1>1, <1>2, <1>4, <2>1, <2>2, FinishTells DEF Outcomes
<1> QED
  BY <1>3, <1>4 DEF TimedFlush

\* With the owner nothing goes that had taken effect, and nothing takes effect.
LEMMA LeaveReached ==
  ASSUME HoldInv, NEW w \in Workers, NEW outcome, Leave(w, outcome),
         durable' \subseteq durable \cup db.memory
  PROVE  Reached' \subseteq Reached
<1>1. lost' \subseteq lost \cup db.memory /\ done' = done /\ (db' = db \/ db'.memory = {})
  BY DEF Leave, Closed
<1> QED
  BY <1>1 DEF Reached

LEMMA ClosesTells ==
  ASSUME HoldInv, TrackInv, EpochInv, NEW w \in Workers, Closes(w)
  PROVE  Tells
<1>1. queue[w] # <<>> /\ step[w] = "idle" /\ Head(queue[w]).kind = "close"
  BY DEF Closes, Begins
<1>2. CASE Owns(w) /\ Saving(db, w) /\ UNCHANGED <<lock, known>>
  <2>1. db \in Databases /\ db.open = TRUE
    BY <1>2, Apart DEF Owns
  <2> QED
    BY <1>2, <2>1, SavingTells
<1>3. CASE /\ durable' = (IF Owns(w) /\ backend = "opfs" THEN db.memory ELSE durable)
           /\ Leave(w, "refused")
  <2>1. Reached' \subseteq Reached
    BY <1>3, LeaveReached
  <2> QED
    BY <1>1, <1>3, <2>1, LeaveTells
<1> QED
  BY <1>2, <1>3 DEF Closes

LEMMA SavesTells ==
  ASSUME HoldInv, TrackInv, EpochInv, NEW w \in Workers, Saves(w)
  PROVE  Tells
<1>1. step[w] = "saving" /\ (durable' = db.saving \/ durable' = durable)
  BY DEF Saves, SaveDone, SaveFails
<1>2. /\ queue[w] # <<>> /\ Owns(w) /\ db \in Databases /\ db.open = TRUE
      /\ db.saving = db.memory
      /\ \/ Head(queue[w]).kind \in {"flush", "close"}
         \/ Head(queue[w]).request \in Flushes
         \/ Head(queue[w]).request \in Writes \cap db.memory
  BY <1>1, OwnerSaves
<1>3. CASE Head(queue[w]).kind = "close" /\ Leave(w, "refused")
  <2>1. Reached' \subseteq Reached
    BY <1>1, <1>2, <1>3, LeaveReached
  <2> QED
    BY <1>1, <1>2, <1>3, <2>1, LeaveTells
<1>4. PICK r : r = Head(queue[w]).request
  OBVIOUS
<1>5. CASE /\ durable' = db.saving
           /\ db' = [db EXCEPT !.saving = {}, !.dirty = FALSE, !.failing = FALSE]
           /\ done' = done \cup ({r} \cap Flushes)
           /\ Finish(w, "ok", inbox) /\ UNCHANGED <<lock, known, sentTo>>
           /\ Head(queue[w]).kind # "close"
  <2>1. db'.open = TRUE /\ db'.memory = db.memory
    BY <1>2, <1>5 DEF Databases
  <2>2. r \in Requests => r \in Served'
    <3>1. Head(queue[w]).kind = "flush" => r = None
      BY <1>2, <1>4, AtWork DEF Shortened, JobOK
    <3> QED
      BY <1>2, <1>4, <1>5, <2>1, <3>1, OwnershipAssumption DEF Served, Store
  <2> QED
    BY <1>2, <1>4, <1>5, <2>1, <2>2, FinishTells DEF Outcomes
<1>6. CASE /\ db' = [db EXCEPT !.saving = {}, !.failing = TRUE]
           /\ Finish(w, "unknown", inbox) /\ UNCHANGED <<lock, known, sentTo>>
  <2>1. db'.open = TRUE
    BY <1>2, <1>6 DEF Databases
  <2> QED
    BY <1>2, <1>4, <1>6, <2>1, FinishTells DEF Outcomes
<1> QED
  BY <1>3, <1>4, <1>5, <1>6 DEF Saves, SaveDone, SaveFails

LEMMA CrashTells ==
  ASSUME HoldInv, TrackInv, EpochInv, NEW w \in Workers, Crash(w) \/ HelloTimesOut(w)
  PROVE  Tells
BY LeaveTells DEF Crash, HelloTimesOut

LEMMA OnOwnerTells ==
  ASSUME HoldInv, TrackInv, EpochInv, NEW w \in Workers, OnOwner(w) PROVE Tells
<1> DEFINE e == Head(inbox[w]).epoch
           changed == known[w] \notin {None, e}
<1>1. Receives(w, "owner")
  BY DEF OnOwner
<1>2. /\ Shapes /\ WorkerOK(w) /\ inbox[w] # <<>> /\ Head(inbox[w]).type = "owner"
      /\ phase[w] \notin {"new", "gone"} /\ UNCHANGED <<lock, db, sentTo>>
  BY <1>1, Reading
<1>3. step[w] = "remote" => queue[w] # <<>> /\ Head(queue[w]).kind = "command" /\ known[w] # None
  BY <1>2, AtWork DEF WorkerOK, StepOK
<1>4. CASE Leave(w, "unknown")
  BY <1>4, LeaveTells
<1>5. CASE step[w] = "remote" /\ Finish(w, "unknown", Rest(w)) /\ known' = [known EXCEPT ![w] = e]
  <2>1. inbox' = Rest(w) /\ \A r \in Requests : answer'[r] = answer[r] \/ answer'[r] = "unknown"
    BY <1>3, <1>5 DEF Finish
  <2>2. step'[w] = "idle" /\ known'[w] = e /\ \A v \in Workers \ {w} : known'[v] = known[v]
    BY <1>2, <1>5 DEF Finish, Shapes
  <2>3. Hears(inbox[w], known[w], known'[w])
    BY <1>2, <2>2 DEF Hears
  <2> QED
    BY <1>2, <2>1, <2>2, <2>3, ReadingTells
<1>6. CASE /\ ~ (changed /\ (phase[w] = "hello" \/ step[w] = "remote"))
           /\ known' = (IF Owns(w) THEN known ELSE [known EXCEPT ![w] = e])
           /\ inbox' = Rest(w) /\ UNCHANGED <<step, answer>>
  <2>1. /\ \A v \in Workers \ {w} : known'[v] = known[v]
        /\ ~ Owns(w) => known'[w] = e
        /\ Owns(w) => known'[w] = known[w]
    BY <1>2, <1>6 DEF Shapes
  <2>2. step'[w] = "remote" => known'[w] = known[w]
    BY <1>2, <1>3, <1>6 DEF Shapes
  <2>3. Owns(w) \/ Hears(inbox[w], known[w], known'[w])
    BY <1>2, <1>6 DEF Hears, Shapes
  <2> QED
    BY <1>2, <1>6, <2>1, <2>2, <2>3, ReadingTells
<1> QED
  BY <1>4, <1>5, <1>6 DEF OnOwner

\* A response is of the worker the request was sent to.
LEMMA Addressed ==
  ASSUME HoldInv, EpochInv, AwaitInv, NEW w \in Workers, inbox[w] # <<>>, step[w] = "remote",
         Head(inbox[w]).type = "response"
  PROVE  sentTo[Head(queue[w]).request] = Head(inbox[w]).epoch
<1>1. queue[w] # <<>> /\ ~ Owns(w)
  BY DEF HoldInv, WorkerOK, StepOK
<1>2. known[w] # None /\ inbox[w] \in Seq(Message)
  BY <1>1, AtWork DEF Shapes
<1>3. PICK q, kn : q = inbox[w] /\ kn = known[w] /\ Rests(Tail(q), q)
  BY <1>2, ElemsTail
<1>4. 1 \in 1 .. Len(q) /\ q[1] = Head(q)
  BY <1>3 DEF Rests
<1>5. Informed(q, kn)
  BY <1>1, <1>3 DEF EpochInv, EpochOK
<1>6. LastWord(q, kn, 1, Head(q).epoch)
  BY <1>3, <1>4, <1>5 DEF Informed
<1>7. ~ Renewed(q, 0, 1)
  BY DEF Renewed
<1>8. kn = Head(q).epoch
  BY <1>2, <1>3, <1>6, <1>7 DEF LastWord
<1> QED
  BY <1>3, <1>8 DEF AwaitInv, AwaitOK

LEMMA OnResponseTells ==
  ASSUME HoldInv, HoldInv', TrackInv, EpochInv, AwaitInv, AnswerInv, NEW w \in Workers, OnResponse(w)
  PROVE  Tells
<1> DEFINE m == Head(inbox[w])
<1>1. Receives(w, "response")
  BY DEF OnResponse
<1>2. /\ Shapes /\ WorkerOK(w) /\ inbox[w] # <<>> /\ m \in Message /\ m.type = "response"
      /\ phase[w] \notin {"new", "gone"} /\ UNCHANGED <<immediate, lock, db, durable, done, sentTo>>
  BY <1>1, Reading
<1>3. m.outcome \in Outcomes
  BY <1>2, MessageParts
<1>4. CASE Leave(w, "unknown")
  BY <1>4, LeaveTells
<1>5. CASE /\ phase[w] = "hello" /\ known' = [known EXCEPT ![w] = m.epoch]
           /\ inbox' = Rest(w) /\ UNCHANGED <<step, answer>>
  <2>1. known'[w] = m.epoch /\ \A v \in Workers \ {w} : known'[v] = known[v]
    BY <1>2, <1>5 DEF Shapes
  <2>2. step'[w] # "remote"
    BY <1>2, <1>5 DEF WorkerOK, StepOK, PhaseOK
  <2>3. Hears(inbox[w], known[w], known'[w])
    BY <1>2, <2>1 DEF Hears
  <2> QED
    BY <1>2, <1>5, <2>1, <2>2, <2>3, ReadingTells
<1>6. CASE Awaits(w, m.request) /\ Finish(w, m.outcome, Rest(w)) /\ UNCHANGED <<known, lost>>
  <2>1. step[w] = "remote" /\ queue[w] # <<>> /\ Head(queue[w]).kind = "command"
    BY <1>2, <1>6 DEF WorkerOK, StepOK, Awaits
  <2>2. PICK r : r = m.request /\ r = Head(queue[w]).request
    BY <1>6 DEF Awaits
  <2>3. r \in Requests
    BY <2>1, <2>2, AtWork DEF Shortened, JobOK
  <2>4. Boxes(Rest(w)) /\ m \in Elems(inbox[w])
    <3>1. Rests(Tail(inbox[w]), inbox[w])
      BY <1>2, ElemsTail DEF Shapes
    <3> QED
      BY <1>2, <3>1, BoxesRest DEF Rests
  <2>5. TruthOK(m)
    BY <1>2, <2>2, <2>3, <2>4 DEF AnswerInv
  <2>6. m.outcome = "ok" => r \in Served'
    BY <1>2, <1>6, <2>2, <2>5 DEF TruthOK, Served, Store
  <2>7. m.outcome = "refused" => Dead(r)'
    <3>1. m.epoch = sentTo[r]
      BY <1>2, <2>1, <2>2, Addressed
    <3>2. PICK X : Settled(X)
      BY OnResponseSteps DEF Steps
    <3> QED
      BY <2>2, <2>5, <3>1, <3>2, SettledDead DEF TruthOK
  <2>8. Honest
    BY <1>2, <1>3, <1>6, <2>1, <2>2, <2>4, <2>6, <2>7, FinishHonest
  <2>9. inbox' = Rest(w) /\ step'[w] = "idle"
    BY <1>2, <1>6, <2>1 DEF Finish, Shapes
  <2>10. Words
    <3>1. OwnersStay /\ Hears(inbox[w], known[w], known'[w])
      BY <1>2, <1>6, SameOwner DEF Hears
    <3> QED
      BY <1>2, <1>6, <2>9, <3>1, ReadWords
  <2> QED
    BY <2>8, <2>10 DEF Tells
<1>7. CASE inbox' = Rest(w) /\ UNCHANGED <<known, answer>>
  <2>1. Hears(inbox[w], known[w], known'[w])
    BY <1>2, <1>7 DEF Hears
  <2> QED
    BY <1>2, <1>7, <2>1, ReadingTells
<1> QED
  BY <1>4, <1>5, <1>6, <1>7 DEF OnResponse

\* A request refused for want of a place is gone.
LEMMA OnRequestTells ==
  ASSUME HoldInv, TrackInv, EpochInv, NEW w \in Workers, OnRequest(w)
  PROVE  Tells
<1> DEFINE m == Head(inbox[w])
<1>0. PICK x : x = [type |-> "response", epoch |-> w, request |-> m.request, outcome |-> "refused"]
  OBVIOUS
<1>1. Receives(w, "request")
  BY DEF OnRequest
<1>2. /\ Shapes /\ inbox[w] # <<>> /\ m \in Message /\ m.type = "request"
      /\ phase[w] \notin {"new", "gone"} /\ UNCHANGED <<immediate, lock, db, durable, done, sentTo>>
  BY <1>1, Reading
<1>3. UNCHANGED <<known, step, answer, lost>>
  BY DEF OnRequest
<1>4. CASE inbox' = Rest(w)
  <2>1. Hears(inbox[w], known[w], known'[w])
    BY <1>2, <1>3 DEF Hears
  <2> QED
    BY <1>2, <1>3, <1>4, <2>1, ReadingTells
<1>5. CASE Owns(w) /\ queue' = queue /\ m.from \in Listening(w) /\ inbox' = Post(Rest(w), {m.from}, x)
  <2>1. x \in Message
    <3>1. x = [type |-> "response", outcome |-> "refused", request |-> m.request, epoch |-> w]
      BY <1>0
    <3> QED
      BY <1>2, <3>1, MessageParts, MessageMakes DEF Outcomes
  <2>2. x.type = "response" /\ x.epoch = w /\ x.request = m.request /\ x.outcome = "refused"
    BY <1>0
  <2>3. /\ Rest(w) \in [Workers -> Seq(Message)] /\ Rest(w)[w] = Tail(inbox[w])
        /\ \A v \in Workers \ {w} : Rest(w)[v] = inbox[v]
    BY <1>2, RestType
  <2>4. \A v \in Workers : inbox'[v] = IF v \in {m.from} THEN Append(Rest(w)[v], x) ELSE Rest(w)[v]
    BY <1>5, <2>1, <2>3, PostType
  <2>5. OwnersStay
    BY <1>2, SameOwner
  <2>6. ASSUME NEW v \in Workers PROVE EpochOK(v)'
    <3>1. EpochOK(v) /\ OwnerStays(v) /\ inbox[v] \in Seq(Message) /\ known'[v] = known[v]
      BY <1>2, <1>3, <2>5 DEF EpochInv, OwnersStay, Shapes
    <3>2. CASE v = w
      <4>1. Owns(v)'
        BY <1>5, <3>1, <3>2 DEF OwnerStays
      <4> QED
        BY <4>1 DEF EpochOK
    <3>3. CASE v = m.from /\ v # w
      <4>1. inbox'[v] = Append(inbox[v], x) /\ phase[v] \notin {"new", "gone"}
        BY <1>5, <2>3, <2>4, <3>3 DEF Listening
      <4> QED
        BY <1>5, <2>1, <2>2, <3>1, <4>1, EpochAppends DEF Owns
    <3>4. CASE v # m.from /\ v # w
      <4>1. inbox'[v] = inbox[v]
        BY <2>3, <2>4, <3>4
      <4> QED
        BY <3>1, <4>1, <1>2, NotRunning, EpochSame, EpochFresh
    <3> QED
      BY <3>2, <3>3, <3>4
  <2>7. ASSUME m.request \in Requests PROVE TruthOK(x)'
    <3>1. PICK r : r = m.request
      OBVIOUS
    <3>2. PICK t : t = inbox'[w] /\ Rests(t, inbox[w])
      <4>1. inbox'[w] = Tail(inbox[w])
        BY <1>5, <2>3, <2>4 DEF Listening
      <4> QED
        BY <1>2, <4>1, ElemsTail DEF Shapes
    <3>3. m \in Elems(inbox[w]) /\ TrackOK(w) /\ r \in Requests
      BY <2>7, <3>1, <3>2 DEF Rests, TrackInv
    <3>4. sentTo[r] # None /\ r \in Mail(w)
      BY <1>2, <3>1, <3>3 DEF TrackOK, StampsOK, Mail, MailOf
    <3>5. ASSUME sentTo[r] = w PROVE Dead(r)'
      <4>1. r \notin Reached /\ r \notin Taken(w) /\ OnceSent(inbox[w])
        BY <3>3, <3>4, <3>5 DEF TrackOK, ForwardedOK, OnceOK
      <4>2. MailOf(t) = MailOf(inbox[w]) \ {r}
        BY <1>2, <3>1, <3>2, <4>1, MailTail
      <4>3. r \notin Mail(w)' /\ Taken(w)' = Taken(w)
        BY <1>5, <3>2, <4>2 DEF Mail, Taken
      <4>4. Reached' = Reached
        BY <1>2, <1>3 DEF Reached
      <4> QED
        BY <1>2, <3>5, <3>4, <4>1, <4>3, <4>4 DEF Dead
    <3> QED
      BY <1>2, <2>2, <3>1, <3>4, <3>5 DEF TruthOK, Outcomes
  <2>8. Boxes(Rest(w))
    BY <1>2, BoxesRest
  <2>9. \A v \in Workers : \A y \in Elems(inbox'[v]) : y = x \/ y \in Elems(inbox[v])
    BY <1>2, <1>5, <2>1, <2>8, PostElems
  <2>10. Honest
    BY <1>3, <2>2, <2>7, <2>9 DEF Honest
  <2> QED
    BY <1>3, <2>6, <2>10 DEF Tells, Words, EpochInv, KnownStays
<1> QED
  BY <1>0, <1>4, <1>5 DEF OnRequest

LEMMA TellsNext ==
  ASSUME HoldInv, HoldInv', TrackInv, EpochInv, AwaitInv, AnswerInv, [Next]_all
  PROVE  Tells
<1>1. CASE UNCHANGED all
  <2>1. UNCHANGED <<lock, db, known, inbox, answer>>
    BY <1>1 DEF all, vars, history
  <2> QED
    BY <2>1, SameOwner, QuietTells
<1>2. ASSUME NEW w \in Workers,
             \/ InitAlone(w) \/ InitOther(w)
             \/ Opens(w)
             \/ HelloTimesOut(w)
             \/ LockGranted(w)
             \/ \E r \in Requests : Issue(w, r)
             \/ Works(w) \/ Saves(w)
             \/ Timeout(w)
             \/ Receive(w)
             \/ Close(w) \/ Crash(w)
      PROVE Tells
  <2>1. CASE InitAlone(w) \/ InitOther(w) \/ Opens(w) \/ LockGranted(w)
    BY <2>1, StartTells, OpensTells, LockGrantedTells
  <2>2. CASE Timeout(w) \/ Close(w) \/ Crash(w) \/ HelloTimesOut(w) \/ Saves(w)
    BY <2>2, TimeoutTells, CloseTells, CrashTells, SavesTells
  <2>3. CASE \E r \in Requests : Issue(w, r)
    BY <2>3, IssueTells
  <2>4. CASE Works(w)
    BY <2>4, ForwardTells, RefuseTells, GreetTells, ReadTells, WriteTells, FlushTells,
       TimedFlushTells, ClosesTells DEF Works
  <2>5. CASE Receive(w)
    BY <2>5, OnOwnerTells, OnResponseTells, OnRequestTells DEF Receive
  <2> QED
    BY <1>2, <2>1, <2>2, <2>3, <2>4, <2>5
<1> QED
  BY <1>1, <1>2, TimerFiresTells DEF Next

-----------------------------------------------------------------------------
\* A step that only adds to queues, and awaits nothing new.
LEMMA AcceptAwaits ==
  ASSUME HoldInv, AwaitInv, UNCHANGED <<step, sentTo, known>>,
         \A v \in Workers : queue'[v] = queue[v] \/ \E j \in Job : queue'[v] = Append(queue[v], j)
  PROVE  AwaitInv'
<1> SUFFICES ASSUME NEW v \in Workers, step[v] = "remote"
             PROVE  sentTo[Head(queue'[v]).request] = known[v]
  BY DEF AwaitInv, AwaitOK
<1>1. queue[v] # <<>> /\ queue[v] \in Seq(Job)
  BY DEF HoldInv, Shapes, WorkerOK, StepOK
<1>2. Head(queue'[v]) = Head(queue[v])
  <2>1. CASE queue'[v] = queue[v]
    BY <2>1
  <2>2. ASSUME NEW j \in Job, queue'[v] = Append(queue[v], j) PROVE Head(queue'[v]) = Head(queue[v])
    <3>1. PICK q : q = queue[v]
      OBVIOUS
    <3>2. Head(Append(q, j)) = Head(q)
      BY <1>1, <3>1
    <3> QED
      BY <2>2, <3>1, <3>2
  <2> QED
    BY <2>1, <2>2
<1> QED
  BY <1>2 DEF AwaitInv, AwaitOK

LEMMA SettledAwaits ==
  ASSUME HoldInv', AwaitInv, KnownStays, NEW X, Settled(X)
  PROVE  AwaitInv'
<1> SUFFICES ASSUME NEW v \in Workers, step'[v] = "remote" PROVE AwaitOK(v)'
  BY DEF AwaitInv, AwaitOK
<1>1. queue'[v] # <<>> /\ Head(queue'[v]).kind = "command" /\ QueueOK(queue'[v])
  BY DEF HoldInv, WorkerOK, StepOK, JobsOK
<1>2. PICK q : q = queue'[v]
  OBVIOUS
<1>3. Head(q) \in Elems(q) /\ JobOK(Head(q))
  BY <1>1, <1>2, QueueTail DEF Shortened
<1>4. PICK r : r = Head(q).request
  OBVIOUS
<1>5. r \in Own(v)' /\ r \in Begun(v)'
  BY <1>1, <1>2, <1>3, <1>4 DEF Own, Commands, RequestsOf, JobOK, Begun
<1>6. step[v] = "remote" /\ r \in Begun(v) /\ sentTo' = sentTo
  BY <1>5 DEF Settled, Settles, Shrinks, GoesOn
<1>7. r = Head(queue[v]).request
  BY <1>6 DEF Begun
<1>8. sentTo'[r] = known'[v]
  BY <1>6, <1>7 DEF AwaitInv, AwaitOK, KnownStays
<1> QED
  BY <1>2, <1>4, <1>8 DEF AwaitOK

LEMMA ForwardAwaits ==
  ASSUME HoldInv, TrackInv, AwaitInv, NEW w \in Workers, Forward(w)
  PROVE  AwaitInv'
<1>1. PICK r : r = Head(queue[w]).request
  OBVIOUS
<1>2. /\ queue[w] # <<>> /\ Head(queue[w]).kind = "command" /\ sentTo' = [sentTo EXCEPT ![r] = known[w]]
      /\ step' = [step EXCEPT ![w] = "remote"] /\ UNCHANGED <<queue, known>>
  BY <1>1 DEF Forward, Begins
<1>3. r \in Own(w) /\ r \in Requests /\ Shapes
  BY <1>1, <1>2, AtWork DEF Shortened, JobOK, Own, Commands, RequestsOf
<1> SUFFICES ASSUME NEW v \in Workers, step'[v] = "remote" PROVE AwaitOK(v)'
  BY DEF AwaitInv, AwaitOK
<1>4. CASE v = w
  <2>1. sentTo'[r] = known[w] /\ Head(queue'[v]).request = r /\ known'[v] = known[w]
    BY <1>1, <1>2, <1>3, <1>4 DEF Shapes
  <2> QED
    BY <2>1 DEF AwaitOK
<1>5. CASE v # w
  <2>1. step[v] = "remote" /\ queue[v] # <<>> /\ Head(queue[v]).kind = "command"
    BY <1>2, <1>3, <1>5 DEF Shapes, HoldInv, WorkerOK, StepOK
  <2>2. PICK x : x = Head(queue[v]).request
    OBVIOUS
  <2>3. x \in Own(v) /\ x \in Requests
    BY <2>1, <2>2, AtWork DEF Shortened, JobOK, Own, Commands, RequestsOf
  <2>4. x # r
    BY <1>3, <1>5, <2>3 DEF TrackInv
  <2>5. sentTo'[x] = sentTo[x] /\ sentTo[x] = known[v]
    BY <1>2, <1>3, <2>1, <2>2, <2>3, <2>4 DEF Shapes, AwaitInv, AwaitOK
  <2> QED
    BY <1>2, <2>2, <2>5 DEF AwaitOK
<1> QED
  BY <1>4, <1>5

\* What has been told stays true.
Faithful ==
  /\ \A r \in Asked : /\ Dead(r) => Dead(r)'
                      /\ sentTo[r] # None => sentTo'[r] = sentTo[r]
  /\ Served \subseteq Served'

LEMMA DeadStays ==
  ASSUME NEW r, Dead(r), Reached' = Reached, sentTo'[r] = sentTo[r],
         \A v \in Workers : /\ r \in Own(v)' => r \in Own(v)
                            /\ r \in Mail(v)' \cup Taken(v)' => r \in Mail(v) \cup Taken(v)
  PROVE  Dead(r)'
BY DEF Dead

LEMMA SettledFaithful == ASSUME NEW X, Settled(X) PROVE Faithful
<1>1. \A r : Dead(r) => Dead(r)'
  BY SettledDead
<1> QED
  BY <1>1 DEF Settled, Faithful

LEMMA QuietServes ==
  ASSUME UNCHANGED <<immediate, durable, db, lost, done>>
  PROVE  Served' = Served /\ Reached' = Reached /\ Store' = Store
BY DEF Served, Store, Reached

LEMMA IssueFaithful ==
  ASSUME HoldInv, NEW w \in Workers, NEW r \in Requests, Issue(w, r)
  PROVE  Faithful
<1>1. /\ UNCHANGED <<immediate, durable, db, lost, done, inbox, sentTo>> /\ r \notin Asked
      /\ \/ queue' = queue
         \/ Enqueue(w, [kind |-> "command", request |-> r, from |-> None, epoch |-> None])
  BY DEF Issue
<1>2. ASSUME NEW v \in Workers, NEW y, y # r
      PROVE  /\ y \in Own(v)' => y \in Own(v)
             /\ y \in Mail(v)' \cup Taken(v)' => y \in Mail(v) \cup Taken(v)
  <2>1. Mail(v)' = Mail(v)
    BY <1>1 DEF Mail
  <2>2. CASE queue'[v] = queue[v]
    BY <2>1, <2>2 DEF Own, Taken
  <2>3. CASE queue'[v] # queue[v]
    <3>1. PICK x : x = [kind |-> "command", request |-> r, from |-> None, epoch |-> None]
      OBVIOUS
    <3>2. x \in Job /\ x.kind = "command" /\ x.request = r
      BY <3>1, NewJobs
    <3>3. queue[v] \in Seq(Job) /\ queue'[v] = Append(queue[v], x)
      BY <1>1, <2>3, <3>1 DEF Enqueue, HoldInv, Shapes
    <3>4. PICK a : a = queue'[v] /\ Extends(a, queue[v], x)
      BY <3>2, <3>3, ElemsAppend
    <3> QED
      BY <1>2, <2>1, <3>2, <3>4 DEF Extends, Own, Taken, Commands, Forwarded, RequestsOf
  <2> QED
    BY <2>2, <2>3
<1>3. Served' = Served /\ Reached' = Reached
  BY <1>1, QuietServes
<1>4. ASSUME NEW y \in Asked, Dead(y) PROVE Dead(y)'
  BY <1>1, <1>2, <1>3, <1>4, DeadStays
<1> QED
  BY <1>1, <1>3, <1>4 DEF Faithful

LEMMA ForwardFaithful ==
  ASSUME HoldInv, TrackInv, NEW w \in Workers, Forward(w)
  PROVE  Faithful
<1>0. PICK r : r = Head(queue[w]).request
  OBVIOUS
<1>1. /\ queue[w] # <<>> /\ step[w] = "idle" /\ Head(queue[w]).kind = "command"
      /\ sentTo' = [sentTo EXCEPT ![r] = known[w]]
      /\ inbox' = Post(inbox, Listening(w), [type |-> "request", request |-> r,
                                             from |-> w, epoch |-> known[w]])
      /\ UNCHANGED <<immediate, durable, db, lost, done, queue>>
  BY <1>0 DEF Forward, Begins
<1>2. r \in Own(w) /\ r \in Requests /\ Shapes /\ Boxes(inbox)
  BY <1>0, <1>1, AtWork, BoxesSame DEF Shortened, JobOK, Own, Commands, RequestsOf
<1>3. sentTo[r] = None /\ ~ Dead(r)
  BY <1>1, <1>2 DEF TrackInv, TrackOK, CommandsOK, Dead
<1>4. ASSUME NEW v \in Workers, NEW y, y # r
      PROVE  Own(v)' = Own(v) /\ Taken(v)' = Taken(v) /\ (y \in Mail(v)' => y \in Mail(v))
  <2>1. PICK x : x = [type |-> "request", request |-> r, from |-> w, epoch |-> known[w]]
    OBVIOUS
  <2>2. x \in Message /\ x.request = r
    BY <1>2, <2>1, MessageMakes DEF Shapes
  <2>3. \A m \in Elems(inbox'[v]) : m = x \/ m \in Elems(inbox[v])
    BY <1>1, <1>2, <2>1, <2>2, PostElems
  <2> QED
    BY <1>1, <1>4, <2>2, <2>3 DEF Own, Taken, Mail, MailOf
<1>5. Served' = Served /\ Reached' = Reached
  BY <1>1, QuietServes
<1>6. \A y \in Requests : y # r => sentTo'[y] = sentTo[y]
  BY <1>1, <1>2 DEF Shapes
<1>7. ASSUME NEW y \in Asked, Dead(y) PROVE Dead(y)'
  BY <1>3, <1>4, <1>5, <1>6, <1>7, DeadStays DEF Asked
<1> QED
  BY <1>3, <1>5, <1>6, <1>7 DEF Faithful, Asked

LEMMA OnRequestFaithful ==
  ASSUME HoldInv, NEW w \in Workers, OnRequest(w)
  PROVE  Faithful
<1>0. PICK m, x, j : /\ m = Head(inbox[w])
                     /\ x = [type |-> "response", epoch |-> w, request |-> m.request, outcome |-> "refused"]
                     /\ j = [kind |-> "request", request |-> m.request, from |-> m.from, epoch |-> m.epoch]
  OBVIOUS
<1>1. Receives(w, "request")
  BY DEF OnRequest
<1>2. /\ Shapes /\ inbox[w] # <<>> /\ m \in Message /\ m.type = "request"
      /\ UNCHANGED <<immediate, lock, db, durable, done, sentTo>>
  BY <1>0, <1>1, Reading
<1>3. /\ inbox' = Rest(w) \/ inbox' = Post(Rest(w), {m.from}, x)
      /\ queue' = queue \/ Enqueue(w, j)
      /\ lost' = lost
  BY <1>0 DEF OnRequest
<1>4. Boxes(Rest(w)) /\ m \in Elems(inbox[w])
  <2>1. Rests(Tail(inbox[w]), inbox[w])
    BY <1>2, ElemsTail DEF Shapes
  <2> QED
    BY <1>0, <1>2, <2>1, BoxesRest DEF Rests
<1>5. ASSUME NEW v \in Workers
      PROVE  /\ Mail(v)' \subseteq Mail(v) /\ Own(v)' \subseteq Own(v)
             /\ Taken(v)' \subseteq Mail(v) \cup Taken(v)
  <2>1. Mail(v)' \subseteq Mail(v)
    <3>1. x \in Message /\ x.type = "response"
      <4>1. x = [type |-> "response", outcome |-> "refused", request |-> m.request, epoch |-> w]
        BY <1>0
      <4> QED
        BY <1>2, <4>1, MessageParts, MessageMakes DEF Outcomes
    <3>2. \A y \in Elems(inbox'[v]) : y = x \/ y \in Elems(inbox[v])
      BY <1>2, <1>3, <1>4, <3>1, PostElems, BoxElems
    <3> QED
      BY <3>1, <3>2 DEF Mail, MailOf
  <2>2. CASE queue'[v] = queue[v]
    BY <2>1, <2>2 DEF Own, Taken
  <2>3. CASE queue'[v] # queue[v]
    <3>1. j \in Job /\ j.kind = "request" /\ j.request = m.request
      BY <1>0, <1>2, NewJobs
    <3>2. v = w /\ queue[v] \in Seq(Job) /\ queue'[v] = Append(queue[v], j)
      BY <1>2, <1>3, <2>3 DEF Enqueue, Shapes
    <3>3. PICK a : a = queue'[v] /\ Extends(a, queue[v], j)
      BY <3>1, <3>2, ElemsAppend
    <3>4. \A y \in Requests : y = m.request => y \in Mail(w)
      BY <1>2, <1>4 DEF Mail, MailOf
    <3> QED
      BY <2>1, <3>1, <3>2, <3>3, <3>4 DEF Extends, Own, Taken, Commands, Forwarded, RequestsOf
  <2> QED
    BY <2>2, <2>3
<1>6. Served' = Served /\ Reached' = Reached
  BY <1>2, <1>3, QuietServes
<1>7. ASSUME NEW y \in Asked, Dead(y) PROVE Dead(y)'
  <2>1. \A v \in Workers : /\ y \in Own(v)' => y \in Own(v)
                           /\ y \in Mail(v)' \cup Taken(v)' => y \in Mail(v) \cup Taken(v)
    BY <1>5
  <2> QED
    BY <1>2, <1>6, <1>7, <2>1, DeadStays
<1> QED
  BY <1>2, <1>6, <1>7 DEF Faithful

-----------------------------------------------------------------------------
(***************************************************************************)
(* The tabs together implement SharedDatabase.                             *)
(***************************************************************************)

LEMMA AwaitNext ==
  ASSUME HoldInv, HoldInv', TrackInv, AwaitInv, KnownStays, [Next]_all
  PROVE  AwaitInv'
<1>1. CASE Steps
  BY <1>1, SettledAwaits DEF Steps
<1>2. CASE UNCHANGED all
  <2>1. UNCHANGED <<queue, step, sentTo, known>>
    BY <1>2 DEF all, vars, history
  <2> QED
    BY <2>1, AcceptAwaits
<1>3. ASSUME NEW w \in Workers, OnRequest(w) PROVE AwaitInv'
  <2>0. PICK m : m = Head(inbox[w])
    OBVIOUS
  <2>1. Receives(w, "request")
    BY <1>3 DEF OnRequest
  <2>2. m \in Message /\ m.type = "request" /\ sentTo' = sentTo /\ Shapes
    BY <2>0, <2>1, Reading
  <2>3. PICK j : j = [kind |-> "request", request |-> m.request, from |-> m.from, epoch |-> m.epoch]
    OBVIOUS
  <2>4. j \in Job
    BY <2>2, <2>3, NewJobs
  <2>5. UNCHANGED <<step, known>> /\ (queue' = queue \/ Enqueue(w, j))
    BY <1>3, <2>0, <2>3 DEF OnRequest
  <2>6. \A v \in Workers : queue'[v] = queue[v] \/ queue'[v] = Append(queue[v], j)
    BY <2>2, <2>5 DEF Enqueue, Shapes
  <2> QED
    BY <2>2, <2>4, <2>5, <2>6, AcceptAwaits
<1>4. ASSUME NEW w \in Workers, NEW r \in Requests, Issue(w, r) PROVE AwaitInv'
  <2>1. PICK j : j = [kind |-> "command", request |-> r, from |-> None, epoch |-> None]
    OBVIOUS
  <2>2. j \in Job
    BY <2>1, NewJobs
  <2>3. UNCHANGED <<step, known, sentTo>> /\ (queue' = queue \/ Enqueue(w, j))
    BY <1>4, <2>1 DEF Issue
  <2>4. \A v \in Workers : queue'[v] = queue[v] \/ queue'[v] = Append(queue[v], j)
    BY <2>3 DEF Enqueue, HoldInv, Shapes
  <2> QED
    BY <2>2, <2>3, <2>4, AcceptAwaits
<1> QED
  BY <1>1, <1>2, <1>3, <1>4, ForwardAwaits, Kinds

LEMMA FaithfulNext ==
  ASSUME HoldInv, HoldInv', TrackInv, [Next]_all
  PROVE  Faithful
<1>1. CASE Steps
  BY <1>1, SettledFaithful DEF Steps
<1>2. CASE UNCHANGED all
  <2>1. UNCHANGED <<queue, inbox, sentTo, immediate, durable, db, lost, done>>
    BY <1>2 DEF all, vars, history
  <2>2. Served' = Served /\ Reached' = Reached
    BY <2>1, QuietServes
  <2>3. \A v \in Workers : Own(v)' = Own(v) /\ Mail(v)' = Mail(v) /\ Taken(v)' = Taken(v)
    BY <2>1 DEF Own, Mail, Taken
  <2> QED
    BY <2>1, <2>2, <2>3, DeadStays DEF Faithful
<1> QED
  BY <1>1, <1>2, IssueFaithful, ForwardFaithful, OnRequestFaithful, Kinds

LEMMA AnswerNext ==
  ASSUME TrackInv, AnswerInv, Honest, Faithful
  PROVE  AnswerInv'
<1>1. ASSUME NEW r \in Requests, answer'[r] = "refused" PROVE Dead(r)'
  <2>1. CASE answer'[r] = answer[r]
    <3>1. Dead(r) /\ r \in Asked
      BY <1>1, <2>1 DEF AnswerInv, Asked
    <3> QED
      BY <3>1 DEF Faithful
  <2>2. CASE answer'[r] # answer[r]
    BY <1>1, <2>2 DEF Honest
  <2> QED
    BY <2>1, <2>2
<1>2. ASSUME NEW w \in Workers, NEW m \in Elems(inbox'[w]),
             m.type = "response" /\ m.request \in Requests
      PROVE  TruthOK(m)'
  <2>1. CASE m \in Elems(inbox[w])
    <3>1. TruthOK(m)
      BY <1>2, <2>1 DEF AnswerInv
    <3>2. PICK r : r = m.request
      OBVIOUS
    <3>3. r \in Asked /\ sentTo'[r] = sentTo[r]
      BY <1>2, <3>1, <3>2 DEF TruthOK, TrackInv, Faithful
    <3>4. Dead(r) => Dead(r)'
      BY <3>3 DEF Faithful
    <3> QED
      BY <3>1, <3>2, <3>3, <3>4 DEF TruthOK, Faithful
  <2> QED
    BY <1>2, <2>1 DEF Honest
<1> QED
  BY <1>1, <1>2 DEF AnswerInv

TabsInv == HoldInv /\ TrackInv /\ EpochInv /\ AwaitInv /\ AnswerInv

LEMMA TabsInit == Init => TabsInv
<1> SUFFICES ASSUME Init PROVE TabsInv
  OBVIOUS
<1>1. HoldInv /\ TrackInv
  BY HoldInit, TrackInit
<1>2. /\ \A w \in Workers : inbox[w] = <<>> /\ known[w] = None /\ step[w] = "idle"
      /\ \A r \in Requests : answer[r] = "none"
  BY DEF Init
<1>3. EpochInv
  BY <1>2, NothingHeard DEF EpochInv, EpochOK
<1>4. AwaitInv
  BY <1>2 DEF AwaitInv, AwaitOK
<1>5. AnswerInv
  BY <1>2, ElemsEmpty DEF AnswerInv
<1> QED
  BY <1>1, <1>3, <1>4, <1>5 DEF TabsInv

LEMMA TabsNext ==
  ASSUME TabsInv, [Next]_all
  PROVE  TabsInv' /\ Honest /\ HoldInv /\ HoldInv' /\ TrackInv /\ TrackInv' /\ AnswerInv
<1>1. HoldInv /\ TrackInv /\ EpochInv /\ AwaitInv /\ AnswerInv
  BY DEF TabsInv
<1>2. HoldInv'
  BY <1>1, HoldNext
<1>3. TrackInv'
  BY <1>1, <1>2, TrackNext
<1>4. EpochInv' /\ KnownStays /\ Honest
  BY <1>1, <1>2, TellsNext DEF Tells, Words
<1>5. AwaitInv'
  BY <1>1, <1>2, <1>4, AwaitNext
<1>6. AnswerInv'
  BY <1>1, <1>2, <1>4, FaithfulNext, AnswerNext
<1> QED
  BY <1>1, <1>2, <1>3, <1>4, <1>5, <1>6 DEF TabsInv

-----------------------------------------------------------------------------
LEMMA ServedReached == ASSUME HoldInv PROVE Served \subseteq Reached
BY DEF Served, Store, Reached

\* An answer is given once, and honestly.
LEMMA Answers ==
  ASSUME HoldInv', Honest,
         \A r \in Requests : answer'[r] # answer[r] => answer[r] = "none" /\ r \in Asked'
  PROVE  Shared!Answering
<1> SUFFICES ASSUME NEW r \in Requests PROVE Shared!Honest(r)
  BY DEF Shared!Answering, Shared!Requests, Requests
<1>1. answer'[r] \in {"ok", "unknown", "refused", "none"}
  BY DEF HoldInv, Shapes, Outcomes
<1>2. Served' \subseteq Reached'
  BY DEF Served, Store, Reached
<1>3. answer'[r] = "refused" /\ answer'[r] # answer[r] => r \notin Served'
  BY <1>2 DEF Honest, Dead
<1> QED
  BY <1>1, <1>3 DEF Honest, Shared!Honest

LEMMA SettledAsked ==
  ASSUME HoldInv, HoldInv', TrackInv, NEW X, Settled(X)
  PROVE  /\ Asked' = Asked
         /\ \A r \in Requests : answer'[r] # answer[r] => answer[r] = "none" /\ r \in Asked'
<1>1. Asked = {r \in Requests : answer[r] # "none" \/ \E w \in Workers : r \in Own(w)}
  BY AskedParts DEF HoldInv
<1>2. Asked' = {r \in Requests : answer'[r] # "none" \/ \E w \in Workers : r \in Own(w)'}
  BY AskedPartsNext DEF HoldInv
<1>3. /\ \A v \in Workers : Own(v)' \subseteq Own(v)
      /\ \A r \in Requests : answer'[r] # answer[r] => \E v \in Workers : r \in Own(v)
      /\ Asked \subseteq Asked'
  BY ShrinkingSets DEF Settled, Settles, Shrinks
<1>4. Asked' \subseteq Asked
  BY <1>1, <1>2, <1>3
<1>5. \A v \in Workers : \A r \in Own(v) : answer[r] = "none"
  BY DEF TrackInv, TrackOK, CommandsOK
<1> QED
  BY <1>1, <1>3, <1>4, <1>5

\* A step that lets requests take effect, or loses what was not safe.
LEMMA SettledShared ==
  ASSUME HoldInv, HoldInv', TrackInv, TrackInv', AnswerInv, Honest, Steps
  PROVE  Shared!Next
<1>1. PICK X : Settled(X)
  BY DEF Steps
<1>2. Asked' = Asked /\ Shared!Answering
  BY <1>1, SettledAsked, Answers
<1>3. CASE immediate' = immediate /\ Forget
  <2>1. Shared!Lose
    BY <1>2, <1>3 DEF Forget, Shared!Lose
  <2> QED
    BY <2>1 DEF Shared!Next
<1>4. CASE immediate' = immediate /\ TakeEffect(Served' \ Served)
  <2> DEFINE R == Served' \ Served
  <2>1. Served' = Served \cup R
    BY <1>1 DEF Settled
  <2>2. R \subseteq Asked \ Served /\ R \subseteq Requests
    <3>1. Served' \subseteq Reached' /\ Reached' \subseteq Asked'
      BY DEF Served, Store, Reached, TrackInv
    <3> QED
      BY <1>2, <3>1 DEF Asked
  <2>3. ASSUME NEW r \in R PROVE answer[r] # "refused"
    <3>1. Served' \subseteq Reached \cup X
      BY <1>1 DEF Settled, Served, Store, Reached
    <3>2. r \in Reached \/ Live(r)
      BY <1>1, <3>1 DEF Settled
    <3>3. ~ Dead(r)
      BY <3>2 DEF Dead, Live
    <3> QED
      BY <2>2, <3>3 DEF AnswerInv
  <2>4. immediate \in BOOLEAN
    BY Apart
  <2> HIDE DEF R
  <2>5. TakeEffect(R)
    BY <1>4 DEF R
  <2>6. Shared!Serve(R)
    BY <1>2, <1>4, <2>1, <2>2, <2>3, <2>4, <2>5 DEF TakeEffect, Shared!Serve
  <2> QED
    BY <2>2, <2>6 DEF Shared!Next, Shared!Requests, Requests
<1> QED
  BY <1>3, <1>4 DEF Steps, Effect

LEMMA SharedInit == Init => Shared!Init
<1> SUFFICES ASSUME Init PROVE Shared!Init
  OBVIOUS
<1>1. immediate \in BOOLEAN /\ Store = {} /\ durable = {} /\ Served = {}
  BY OwnershipAssumption DEF Init, Store, Served, Closed
<1>2. Asked = {}
  <2>1. \A w \in Workers : DOMAIN queue[w] = {}
    BY DEF Init
  <2> QED
    BY <2>1 DEF Init, Asked
<1>3. answer = [r \in Shared!Requests |-> "none"] /\ result = [r \in Reads |-> {}]
  BY DEF Init, Requests, Shared!Requests
<1> QED
  BY <1>1, <1>2, <1>3 DEF Shared!Init

LEMMA SharedNext ==
  ASSUME TabsInv, [Next]_all
  PROVE  [Shared!Next]_(Shared!vars)
<1>1. HoldInv /\ HoldInv' /\ TrackInv /\ TrackInv' /\ AnswerInv /\ Honest
  BY TabsNext
<1>2. CASE Steps
  BY <1>1, <1>2, SettledShared
<1>3. ASSUME UNCHANGED <<immediate, durable, db, lost, done, answer, result>>, Asked' = Asked
      PROVE  UNCHANGED Shared!vars
  BY <1>3, QuietServes DEF Shared!vars
<1>4. CASE UNCHANGED all
  <2>1. UNCHANGED <<immediate, durable, db, lost, done, answer, result, queue>>
    BY <1>4 DEF all, vars, history
  <2> QED
    BY <1>3, <2>1 DEF Asked
<1>5. ASSUME NEW w \in Workers, Forward(w) PROVE [Shared!Next]_(Shared!vars)
  <2>1. UNCHANGED <<immediate, durable, db, lost, done, answer, result>>
    BY <1>5 DEF Forward
  <2> QED
    BY <1>1, <1>3, <1>5, <2>1, ForwardTracks
<1>6. ASSUME NEW w \in Workers, OnRequest(w) PROVE [Shared!Next]_(Shared!vars)
  <2>1. UNCHANGED <<immediate, durable, db, lost, done, answer, result>>
    BY <1>6 DEF OnRequest, Receives
  <2> QED
    BY <1>1, <1>2, <1>3, <1>6, <2>1, OnRequestTracks
<1>7. ASSUME NEW w \in Workers, NEW r \in Requests, Issue(w, r) PROVE [Shared!Next]_(Shared!vars)
  <2>1. /\ UNCHANGED <<immediate, durable, db, lost, done, result>> /\ r \notin Asked
        /\ answer' = answer \/ answer' = [answer EXCEPT ![r] = "refused"]
    BY <1>7 DEF Issue
  <2>2. Asked' = Asked \cup {r}
    BY <1>1, <1>7, IssueTracks
  <2>3. \A y \in Requests : answer'[y] # answer[y] => answer[y] = "none" /\ y \in Asked'
    <3>1. answer[r] = "none"
      BY <1>1, <2>1, Unasked
    <3> QED
      BY <1>1, <2>1, <2>2, <3>1 DEF HoldInv, Shapes
  <2>4. Shared!Answering
    BY <1>1, <2>3, Answers
  <2>5. Served' = Served /\ Store' = Store
    BY <2>1, QuietServes
  <2>6. Shared!Ask(r)
    BY <2>1, <2>2, <2>4, <2>5 DEF Shared!Ask
  <2> QED
    BY <2>6 DEF Shared!Next, Shared!Requests, Requests
<1> QED
  BY <1>1, <1>2, <1>3, <1>4, <1>5, <1>6, <1>7, Kinds

\* The workers of all tabs, with their queues, the lock, the channel and the
\* snapshots, are one database to their callers (taladb.worker.js): each request
\* takes effect at one instant between its call and an ok, a refused one never
\* does, and what was answered ok is durable as far as the configuration says.
THEOREM TabsAreOneDatabase == Spec => OneDatabase
<1>1. Init => TabsInv /\ Shared!Init
  BY TabsInit, SharedInit
<1>2. TabsInv /\ [Next]_all => TabsInv' /\ [Shared!Next]_(Shared!vars)
  BY TabsNext, SharedNext
<1> QED
  BY <1>1, <1>2, PTL DEF Spec, OneDatabase, Shared!Spec

=============================================================================
