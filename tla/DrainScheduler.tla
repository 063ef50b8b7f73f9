--------------------------- MODULE DrainScheduler ---------------------------
(***************************************************************************)
(* When queued writes are sent.  The provider of one tab starts a drain    *)
(* cycle on a request, a threshold, a timer, a reconnect or a hidden page, *)
(* as its policy says; a cycle sends what is due and backs off what fails. *)
(*                                                                         *)
(* What a cycle does with each document is the subject of module Drain;    *)
(* here a document only is settled, due, backing off, or being sent.       *)
(***************************************************************************)
EXTENDS Naturals, FiniteSets

CONSTANTS
  Docs,         \* documents of the managed collections
  Policy,       \* the provider's drain policy
  FlushAt,      \* the threshold of queued writes, 0 for none
  Batch,        \* most documents a cycle picks
  Modes,        \* what asks for a cycle: optimistic and queued writes, retries
  Primary,      \* whether the tab owns the storage when it starts: a set
  MaxWrites     \* bound on the writes made while another is being counted

Policies == {"auto", "interval", "online-only", "manual"}

ASSUME SchedulerAssumption ==
  /\ IsFiniteSet(Docs)
  /\ Policy \in Policies
  /\ FlushAt \in Nat /\ MaxWrites \in Nat
  /\ Batch \in Nat \ {0}
  /\ Modes \subseteq {"optimistic", "queued", "retry"}
  /\ Primary \subseteq BOOLEAN

VARIABLES
  state,     \* of each document: "settled", "due", "waiting", "sending"
  fresh,     \* documents written since a cycle last picked, deferred or
             \* passed over them
  noting,    \* writes committed whose hook has not yet asked for a cycle
  since,     \* queuedSinceDrainRef: writes asked for since the last cycle
  running,   \* runningRef and the cycle: "no", "started", "sending"
  online,    \* navigator.onLine
  primary    \* the tab owns the storage

vars == <<state, fresh, noting, since, running, online, primary>>

Init ==
  /\ state = [d \in Docs |-> "settled"]
  /\ fresh = {}
  /\ noting = [m \in Modes |-> 0]
  /\ since = 0
  /\ running = "no"
  /\ online \in BOOLEAN
  /\ primary \in Primary

(***************************************************************************)
(* runDrain: declined while a cycle runs, and not remembered.              *)
(***************************************************************************)
Run(count) ==
  IF running = "no"
  THEN running' = "started" /\ since' = 0
  ELSE since' = count /\ UNCHANGED running

Decline(count) == since' = count /\ UNCHANGED running

OverThreshold(count) == FlushAt # 0 /\ count >= FlushAt

\* requestDrain: a threshold overrules a policy that would wait.
Wanted(force, count) ==
  \/ force
  \/ Policy = "auto"
  \/ Policy = "online-only" /\ (online \/ OverThreshold(count))
  \/ Policy = "interval" /\ OverThreshold(count)

RequestDrain(force) ==
  IF Wanted(force, since + 1) THEN Run(since + 1) ELSE Decline(since + 1)

\* noteWrite, for queued mutations
Due(count) == OverThreshold(count) /\ Policy # "manual" /\ online

NoteWrite == IF Due(since + 1) THEN Run(since + 1) ELSE Decline(since + 1)

(***************************************************************************)
(* Writes.  The document is committed first; the hook asks afterwards.  A  *)
(* write makes a document due at once, whatever back-off it was in.        *)
(***************************************************************************)
Commit(d, m) ==
  /\ noting[m] < MaxWrites /\ since < MaxWrites
  /\ m = "retry" => state[d] = "settled"
  /\ state' = [state EXCEPT ![d] = IF @ = "sending" THEN "sending" ELSE "due"]
  /\ fresh' = fresh \cup {d}
  /\ noting' = [noting EXCEPT ![m] = @ + 1]
  /\ UNCHANGED <<since, running, online, primary>>

\* Fault: a hook asks before its write is there.
AskEarly(m) ==
  /\ noting' = [noting EXCEPT ![m] = @ - 1]
  /\ IF m = "queued" THEN NoteWrite ELSE RequestDrain(m = "retry")
  /\ UNCHANGED <<state, fresh, online, primary>>

Ask(m) ==
  /\ noting[m] > 0
  /\ noting' = [noting EXCEPT ![m] = @ - 1]
  /\ IF m = "queued" THEN NoteWrite ELSE RequestDrain(m = "retry")
  /\ UNCHANGED <<state, fresh, online, primary>>

(***************************************************************************)
(* The other triggers.                                                     *)
(***************************************************************************)
\* Fault: a tick with no write counted is skipped.
TickIfCounted ==
  /\ Policy = "interval" /\ since > 0
  /\ Run(since)
  /\ UNCHANGED <<state, fresh, noting, online, primary>>

Tick ==
  /\ Policy = "interval"
  /\ Run(since)
  /\ UNCHANGED <<state, fresh, noting, online, primary>>

Hide ==
  /\ Policy # "manual"
  /\ Run(since)
  /\ UNCHANGED <<state, fresh, noting, online, primary>>

Reconnect ==
  /\ ~ online
  /\ online' = TRUE
  /\ IF Policy # "manual" THEN Run(since) ELSE Decline(since)
  /\ UNCHANGED <<state, fresh, noting, primary>>

Disconnect ==
  /\ online
  /\ online' = FALSE
  /\ UNCHANGED <<state, fresh, noting, since, running, primary>>

\* The owning tab closes and this one takes over.
TakeOver ==
  /\ ~ primary
  /\ primary' = TRUE
  /\ UNCHANGED <<state, fresh, noting, since, running, online>>

(***************************************************************************)
(* The cycle.                                                              *)
(***************************************************************************)
\* A tab that does not own the storage sends nothing, and passes over all.
Skip ==
  /\ running = "started" /\ ~ primary
  /\ running' = "no"
  /\ fresh' = {}
  /\ UNCHANGED <<state, noting, since, online, primary>>

Select(S) ==
  /\ running = "started" /\ primary
  /\ LET AllDue == {d \in Docs : state[d] = "due"}
     IN  /\ S \subseteq AllDue
         /\ S = AllDue \/ Cardinality(S) = Batch
         /\ Cardinality(S) <= Batch
  /\ state' = [d \in Docs |-> IF d \in S THEN "sending" ELSE state[d]]
  /\ fresh' = fresh \ S
  /\ running' = "sending"
  /\ UNCHANGED <<noting, since, online, primary>>

\* Confirmed, or refused for good.
Settle(d) ==
  /\ online
  /\ state[d] = "sending" /\ d \notin fresh
  /\ state' = [state EXCEPT ![d] = "settled"]
  /\ UNCHANGED <<fresh, noting, since, running, online, primary>>

\* Edited while it was sent: still due.
Supersede(d) ==
  /\ online
  /\ state[d] = "sending" /\ d \in fresh
  /\ state' = [state EXCEPT ![d] = "due"]
  /\ UNCHANGED <<fresh, noting, since, running, online, primary>>

\* Refused for now, or lost: backs off, even when edited while it was sent.
Defer(d) ==
  /\ state[d] = "sending"
  /\ state' = [state EXCEPT ![d] = "waiting"]
  /\ fresh' = fresh \ {d}
  /\ UNCHANGED <<noting, since, running, online, primary>>

BackoffElapses(d) ==
  /\ state[d] = "waiting"
  /\ state' = [state EXCEPT ![d] = "due"]
  /\ UNCHANGED <<fresh, noting, since, running, online, primary>>

\* Fault: the counter is reset when the cycle is over, not when it starts.
EndAndReset ==
  /\ running = "sending"
  /\ \A d \in Docs : state[d] # "sending"
  /\ running' = "no" /\ since' = 0
  /\ UNCHANGED <<state, fresh, noting, online, primary>>

End ==
  /\ running = "sending"
  /\ \A d \in Docs : state[d] # "sending"
  /\ running' = "no"
  /\ UNCHANGED <<state, fresh, noting, since, online, primary>>

Next ==
  \/ \E d \in Docs, m \in Modes : Commit(d, m)
  \/ \E m \in Modes : Ask(m)
  \/ Tick \/ Hide \/ Reconnect \/ Disconnect \/ TakeOver
  \/ Skip \/ End
  \/ \E S \in SUBSET Docs : Select(S)
  \/ \E d \in Docs : Settle(d) \/ Supersede(d) \/ Defer(d) \/ BackoffElapses(d)

Spec == Init /\ [][Next]_vars

TypeOK ==
  /\ state \in [Docs -> {"settled", "due", "waiting", "sending"}]
  /\ fresh \subseteq Docs
  /\ noting \in [Modes -> 0 .. MaxWrites]
  /\ since \in Nat
  /\ running \in {"no", "started", "sending"}
  /\ online \in BOOLEAN /\ primary \in BOOLEAN

NotingOf(m) == IF m \in Modes THEN noting[m] ELSE 0

\* The threshold can do its work: with cycles that pick all there is, the
\* writes no cycle has come past are all counted, or about to be.  Only a
\* cycle that is about to pick them forgets the count.
CounterCoversBacklog ==
  running # "started" =>
    Cardinality(fresh) <=
      since + NotingOf("optimistic") + NotingOf("queued") + NotingOf("retry")

(***************************************************************************)
(* Progress.  Timers fire, hooks run, cycles go on; a request that is sent *)
(* again and again on a working connection is answered some time.  Nobody  *)
(* owes the tab a hidden page, a reconnect, another write or a takeover.   *)
(***************************************************************************)
Fairness ==
  /\ WF_vars(Tick)
  /\ \A m \in Modes : WF_vars(Ask(m))
  /\ WF_vars(Skip) /\ WF_vars(\E S \in SUBSET Docs : Select(S)) /\ WF_vars(End)
  /\ \A d \in Docs :
       /\ WF_vars(BackoffElapses(d))
       /\ WF_vars(Settle(d) \/ Supersede(d) \/ Defer(d))
       /\ SF_vars(Settle(d))

FairSpec == Spec /\ Fairness

\* In the tab that owns the storage, on a connection that stays up, what is
\* queued leaves the queue.
QueueEmpties ==
  <>[](online /\ primary) => \A d \in Docs : (state[d] = "due") ~> (state[d] = "settled")

=============================================================================
