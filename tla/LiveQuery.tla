----------------------------- MODULE LiveQuery -----------------------------
(***************************************************************************)
(* A live query: useFind subscribes to a collection, a poller asks the     *)
(* engine whether anything was written and queries again, and the hook     *)
(* shows what it delivers.  In the browser the poller is nudged by a       *)
(* BroadcastChannel and asks for the collection's write generation first   *)
(* (nudgedPoller); elsewhere it queries at every tick (makePoller).        *)
(*                                                                         *)
(* A filter's result set is one of a few Results, compared as its JSON.    *)
(* An engine call is read at one step and answered at a later one.         *)
(***************************************************************************)
EXTENDS Naturals

CONSTANTS
  None,          \* nothing yet
  Filters,       \* filters one useFind goes through
  Results,       \* result sets
  Pollers,       \* subscriptions alive at one time
  MaxWrites,     \* bound on the writes to the collection
  MaxFailovers,  \* bound on the changes of owner
  MaxFailures    \* bound on the engine calls that fail

Generations == [ epoch : 0 .. MaxFailovers, writes : 0 .. MaxWrites ]

ASSUME LiveQueryAssumption ==
  /\ MaxWrites \in Nat /\ MaxFailovers \in Nat /\ MaxFailures \in Nat
  /\ None \notin Filters /\ None \notin Results /\ None \notin Pollers
  /\ None \notin Generations

VARIABLES
  platform,   \* "worker": nudgedPoller, "local": makePoller
  result,     \* what each filter matches now
  owner,      \* the tab that runs the engine: its epoch, and its write counter
  pollers,    \* the closures of nudgedPoller and makePoller
  nudges,     \* pollers with a "taladb:changed" on its way
  hook,       \* the filter rendered, the subscription held, and snapshotRef
  failures,   \* engine calls that have failed
  unread      \* history: pollers whose last query failed

vars == <<platform, result, owner, pollers, nudges, hook, failures, unread>>

\* pc "waiting" has the 300 ms timer armed, the others but "off" are running.
Poller ==
  [ filter    : Filters \cup {None},
    active    : BOOLEAN,
    pc        : {"off", "waiting", "generation", "query", "answer"},
    got       : Results \cup {None},
    rerun     : BOOLEAN,
    lastJson  : Results \cup {None},
    lastGeneration      : Generations \cup {None},
    generationSupported : BOOLEAN ]

Snapshot ==
  [ filter : Filters \cup {None}, poller : Pollers \cup {None},
    of : Filters \cup {None}, data : Results \cup {None},
    loading : BOOLEAN, error : BOOLEAN ]

\* The hook has at most one subscription, and no other poller is active.
TypeOK ==
  /\ platform \in {"worker", "local"}
  /\ result \in [Filters -> Results]
  /\ owner \in Generations
  /\ pollers \in [Pollers -> Poller]
  /\ nudges \subseteq Pollers
  /\ hook \in Snapshot
  /\ failures \in 0 .. MaxFailures
  /\ unread \subseteq Pollers
  /\ \A p \in Pollers : pollers[p].active <=> hook.poller = p

Unmounted ==
  [filter |-> None, poller |-> None, of |-> None, data |-> None,
   loading |-> TRUE, error |-> FALSE]

\* A closure nothing refers to any more.
Gone ==
  [filter |-> None, active |-> FALSE, pc |-> "off", got |-> None, rerun |-> FALSE,
   lastJson |-> None, lastGeneration |-> None, generationSupported |-> FALSE]

Init ==
  /\ platform \in {"worker", "local"}
  /\ result \in [Filters -> Results]
  /\ owner = [epoch |-> 0, writes |-> 0]
  /\ pollers = [p \in Pollers |-> Gone]
  /\ nudges = {} /\ failures = 0 /\ unread = {}
  /\ hook = Unmounted

-----------------------------------------------------------------------------
(***************************************************************************)
(* The engine and its owner.                                               *)
(***************************************************************************)

\* Fault: an owner's counter alone.
CounterOnly == [epoch |-> 0, writes |-> owner.writes]

\* writeGeneration: the owner's epoch and its counter for the collection.
Generation == owner

\* A commit, and the message of it that every tab gets.
Write ==
  /\ owner.writes < MaxWrites
  /\ owner' = [owner EXCEPT !.writes = @ + 1]
  /\ result' \in [Filters -> Results]
  /\ nudges' = IF platform = "worker" THEN {p \in Pollers : pollers[p].active} ELSE {}
  /\ UNCHANGED <<platform, pollers, hook, failures, unread>>

\* Another tab takes the storage over: its counter starts again, and what had
\* not been saved is gone.
Failover ==
  /\ platform = "worker" /\ owner.epoch < MaxFailovers
  /\ owner' = [epoch |-> owner.epoch + 1, writes |-> 0]
  /\ result' \in [Filters -> Results]
  /\ UNCHANGED <<platform, pollers, nudges, hook, failures, unread>>

-----------------------------------------------------------------------------
(***************************************************************************)
(* poll.                                                                   *)
(***************************************************************************)

Running(P) == P.pc \in {"generation", "query", "answer"}

\* The poller P once a poll starts.
Polling(P) == [P EXCEPT !.pc = IF P.generationSupported THEN "generation" ELSE "query"]

\* Fault: an unchanged generation returns from inside the try.
Ended(P) == [P EXCEPT !.pc = IF P.active /\ P.got = None THEN "off" ELSE "waiting", !.got = None]

\* The poller P once a poll ends: another one at once, a timer, or nothing.
Finished(P) ==
  LET Q == [P EXCEPT !.got = None] IN
  IF ~P.active THEN Gone
  ELSE IF P.rerun THEN Polling([Q EXCEPT !.rerun = FALSE])
  ELSE [Q EXCEPT !.pc = "waiting"]

Stays == UNCHANGED <<platform, result, owner>>

Tick(p) ==
  /\ pollers[p].pc = "waiting"
  /\ pollers' = [pollers EXCEPT ![p] = Polling(@)]
  /\ Stays /\ UNCHANGED <<nudges, hook, failures, unread>>

\* A nudge while the poller runs asks for another run.
Nudge(p) ==
  /\ p \in nudges
  /\ nudges' = nudges \ {p}
  /\ pollers' = [pollers EXCEPT ![p] =
       IF Running(@) THEN [@ EXCEPT !.rerun = TRUE] ELSE Polling(@)]
  /\ Stays /\ UNCHANGED <<hook, failures, unread>>

AskGeneration(p) ==
  LET P == pollers[p] IN
  /\ P.pc = "generation"
  /\ pollers' = [pollers EXCEPT ![p] =
       IF P.lastGeneration = Generation THEN Finished(P)
       ELSE [P EXCEPT !.lastGeneration = Generation, !.pc = "query"]]
  /\ Stays /\ UNCHANGED <<nudges, hook, failures, unread>>

\* One failure, of whatever cause, and the poller never asks again.
GenerationFails(p) ==
  /\ pollers[p].pc = "generation" /\ failures < MaxFailures
  /\ failures' = failures + 1
  /\ pollers' = [pollers EXCEPT ![p].generationSupported = FALSE, ![p].pc = "query"]
  /\ Stays /\ UNCHANGED <<nudges, hook, unread>>

Query(p) ==
  /\ pollers[p].pc = "query"
  /\ pollers' = [pollers EXCEPT ![p].pc = "answer", ![p].got = result[pollers[p].filter]]
  /\ Stays /\ UNCHANGED <<nudges, hook, failures, unread>>

\* Fault: an unsubscribed poller still calls back.
AnswerAnyway(p) ==
  LET P == pollers[p] IN
  /\ P.pc = "answer"
  /\ pollers' = [pollers EXCEPT ![p] = Finished([P EXCEPT !.lastJson = P.got])]
  /\ hook' = IF P.got = P.lastJson \/ hook.poller = None THEN hook
             ELSE [hook EXCEPT !.of = P.filter, !.data = P.got,
                               !.loading = FALSE, !.error = FALSE]
  /\ unread' = unread \ {p}
  /\ Stays /\ UNCHANGED <<nudges, failures>>

\* The callback runs when the JSON differs from the last one.
Answer(p) ==
  LET P == pollers[p] IN
  /\ P.pc = "answer"
  /\ pollers' = [pollers EXCEPT ![p] =
       Finished(IF P.active THEN [P EXCEPT !.lastJson = P.got] ELSE P)]
  /\ hook' = IF ~P.active \/ P.got = P.lastJson THEN hook
             ELSE [hook EXCEPT !.of = P.filter, !.data = P.got,
                               !.loading = FALSE, !.error = FALSE]
  /\ unread' = unread \ {p}
  /\ Stays /\ UNCHANGED <<nudges, failures>>

\* onError: the generation noted before the query stays noted.
QueryFails(p) ==
  LET P == pollers[p] IN
  /\ P.pc \in {"query", "answer"} /\ failures < MaxFailures
  /\ failures' = failures + 1
  /\ pollers' = [pollers EXCEPT ![p] = Finished(P)]
  /\ hook' = IF P.active THEN [hook EXCEPT !.loading = FALSE, !.error = TRUE] ELSE hook
  /\ unread' = IF P.active THEN unread \cup {p} ELSE unread
  /\ Stays /\ UNCHANGED nudges

-----------------------------------------------------------------------------
(***************************************************************************)
(* useFind.                                                                *)
(***************************************************************************)

\* The poller P once unsubscribed: no timer, and what it asks is answered to
\* nobody, so that only the call it is at is kept of it.
Stopped(P) ==
  IF Running(P) THEN [Gone EXCEPT !.filter = P.filter, !.pc = P.pc, !.got = P.got] ELSE Gone

\* poll() runs as soon as the poller is made.
New(f) ==
  [Gone EXCEPT !.filter = f, !.active = TRUE, !.generationSupported = platform = "worker"]

\* The pollers once the hook has given its subscription up.
Released == [p \in Pollers |-> IF p = hook.poller THEN Stopped(pollers[p]) ELSE pollers[p]]

\* The effect of the last render has run: the hook subscribes to its filter.
Subscribed ==
  /\ hook.poller # None
  /\ pollers[hook.poller].filter = hook.filter

\* The hook mounts or is rendered with another filter.  React runs the effects
\* of one render before the next, and nothing but the effect touches the
\* snapshot: until then the caller is given the one there was.
Render(f) ==
  /\ f # hook.filter
  /\ hook.filter = None \/ Subscribed
  /\ hook' = [hook EXCEPT !.filter = f]
  /\ Stays /\ UNCHANGED <<pollers, nudges, failures, unread>>

\* Fault: the old subscription is not given up.
SubscribeOver(p) ==
  /\ hook.filter # None /\ ~Subscribed
  /\ pollers[p].pc = "off" /\ p # hook.poller
  /\ pollers' = [pollers EXCEPT ![p] = Polling(New(hook.filter))]
  /\ hook' = [hook EXCEPT !.poller = p, !.loading = TRUE, !.error = FALSE]
  /\ unread' = unread \ {p}
  /\ Stays /\ UNCHANGED <<nudges, failures>>

\* The effect of a render with another filter: the old subscription is given
\* up, and the hook loads, with the data it had.
Subscribe(p) ==
  /\ hook.filter # None /\ ~Subscribed
  /\ pollers[p].pc = "off" /\ p # hook.poller
  /\ pollers' = [Released EXCEPT ![p] = Polling(New(hook.filter))]
  /\ nudges' = nudges \ {hook.poller}
  /\ hook' = [hook EXCEPT !.poller = p, !.loading = TRUE, !.error = FALSE]
  /\ unread' = unread \ {hook.poller}
  /\ Stays /\ UNCHANGED failures

\* The snapshot goes with its component.
Unmount ==
  /\ Subscribed
  /\ pollers' = Released
  /\ nudges' = nudges \ {hook.poller}
  /\ hook' = Unmounted
  /\ unread' = unread \ {hook.poller}
  /\ Stays /\ UNCHANGED failures

-----------------------------------------------------------------------------
PollStep(p) == Tick(p) \/ AskGeneration(p) \/ Query(p) \/ Answer(p)

Next ==
  \/ Write \/ Failover \/ Unmount
  \/ \E f \in Filters : Render(f)
  \/ \E p \in Pollers :
       Subscribe(p) \/ PollStep(p) \/ Nudge(p) \/ GenerationFails(p) \/ QueryFails(p)

\* The engine answers, timers fire, and React runs its effects.  Nothing says
\* a nudge arrives.
Spec ==
  /\ Init /\ [][Next]_vars
  /\ \A p \in Pollers : WF_vars(PollStep(p))
  /\ WF_vars(\E p \in Pollers : Subscribe(p))

-----------------------------------------------------------------------------
(***************************************************************************)
(* Properties.                                                             *)
(***************************************************************************)

\* From the effect of a render on, what useFind gives as loaded is the result
\* set of the filter rendered, though the query of an earlier one may still be
\* answered.  The render itself may give the old filter's as loaded.
ShowsOwnFilter ==
  Subscribed /\ ~hook.loading /\ ~hook.error => hook.of = hook.filter

\* An unchanged generation means an unchanged result set: a poller that has
\* not failed and would skip its query has the result set as it is, across
\* writes during its own poll and changes of owner.
SkipsWhatItHas ==
  \A p \in Pollers \ unread :
    LET P == pollers[p] IN
    P.active /\ P.pc = "waiting" /\ P.generationSupported /\ P.lastGeneration = Generation
      => P.lastJson = result[P.filter]

\* A hook that keeps its filter, and whose last query does not stay a failed
\* one, ends up showing the result set as it is, with no help from the nudges.
CatchesUp ==
  \A f \in Filters :
    <>[](hook.filter = f /\ hook.poller \notin unread)
      => <>[](hook.filter = f /\ ~hook.loading /\ hook.of = f /\ hook.data = result[f])

\* What the poller's comment promises: the first snapshot of a subscription is
\* always delivered, so that useFind does not stay without one.
FirstSnapshot ==
  \A p \in Pollers : hook.poller = p ~> (hook.poller # p \/ pollers[p].lastJson # None)
=============================================================================
