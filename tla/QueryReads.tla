----------------------------- MODULE QueryReads -----------------------------
(***************************************************************************)
(* How useQuery reads: a hook mounts on a key, shows the record the device *)
(* has of it, and asks the server.  Hooks of one key share one request;    *)
(* what it answers is hydrated and recorded, then delivered to whoever     *)
(* still waits.  A record nothing has used for a while is forgotten.       *)
(*                                                                         *)
(* A result set is abstracted to its version, the number of times the      *)
(* server had changed it when it was read.  Whether a record counts as     *)
(* stale is left open, as the clock and staleTime are.                     *)
(***************************************************************************)
EXTENDS Naturals, FiniteSets

CONSTANTS
  None,          \* no record, no request, no call
  Keys,          \* query keys of one collection
  Hooks,         \* places of a mounted useQuery
  Runs,          \* names for the requests alive at one time
  Volatile,      \* keys whose result set changes, and whose queries expire
  MaxVersion,    \* bound on the changes the server makes to a result set
  MaxTimers,     \* bound on the forgetting timers alive for one key
  MaxCalls       \* bound on what the hooks await at one time

Versions == 0 .. MaxVersion
Kinds == {"mount", "trigger", "refetch"}

\* A call reads the record first, run = None, then waits for a request.
Call == [ key : Keys, run : Runs \cup {None} ]

Run ==
  [ key      : Keys,
    pc       : {"asking", "updating", "inserting"},
    got      : Versions,          \* the answer
    waiters  : Nat,               \* callers that still care
    aborted  : BOOLEAN,           \* its controller's signal
    dropped  : BOOLEAN,           \* cancelShared took it out of the map
    alone    : BOOLEAN ]          \* history: it began with no other of its key

Hook ==
  [ key    : Keys \cup {None},   \* None where nothing is mounted
    shown  : Keys \cup {None},   \* ids: the key whose result set they are
    status : {"fetching", "paused", "idle"} ]

\* held: one of the live timers is the one the map knows.
Timers == [ live : 0 .. MaxTimers, held : BOOLEAN, deleting : BOOLEAN ]

ASSUME ReadsAssumption ==
  /\ IsFiniteSet(Keys) /\ IsFiniteSet(Hooks) /\ IsFiniteSet(Runs)
  /\ Volatile \subseteq Keys /\ MaxVersion \in Nat /\ MaxTimers \in Nat /\ MaxCalls \in Nat
  /\ None \notin Keys /\ None \notin Runs /\ None \notin Nat
  /\ None \notin Call /\ None \notin Run

VARIABLES
  server,   \* the version the server has of each key
  record,   \* the record of each key in taladb_queries, or None
  slot,     \* the map inflight: the request joined by who asks for a key
  runs,     \* every request whose promise is not settled
  hooks,    \* the FetchState of each hook
  calls,    \* what each hook awaits: its effect, a trigger, a refetch
  timers,   \* forgetTimers, and the deletions on their way
  late      \* hooks where the effect of an earlier key still reads its record

vars == <<server, record, slot, runs, hooks, calls, timers, late>>

TypeOK ==
  /\ server \in [Keys -> Versions]
  /\ record \in [Keys -> Versions \cup {None}]
  /\ slot \in [Keys -> Runs \cup {None}]
  /\ runs \in [Runs -> Run \cup {None}]
  /\ hooks \in [Hooks -> Hook]
  /\ calls \in [Hooks \X Kinds -> Call \cup {None}]
  /\ timers \in [Keys -> Timers]
  /\ late \subseteq Hooks

\* INITIAL, of an enabled hook: the cache read counts as part of the load.
Initial(k) == [key |-> k, shown |-> None, status |-> "fetching"]

Absent == [key |-> None, shown |-> None, status |-> "idle"]

Mounted(h) == hooks[h].key # None

\* A session may open on records an earlier one left.
Init ==
  /\ server = [k \in Keys |-> 0]
  /\ record \in [Keys -> {0, None}]
  /\ slot = [k \in Keys |-> None]
  /\ runs = [r \in Runs |-> None]
  /\ hooks = [h \in Hooks |-> Absent]
  /\ calls = [c \in Hooks \X Kinds |-> None]
  /\ timers = [k \in Keys |-> [live |-> 0, held |-> FALSE, deleting |-> FALSE]]
  /\ late = {}

-----------------------------------------------------------------------------
(***************************************************************************)
(* runShared and cancelShared.                                             *)
(***************************************************************************)

WaitsFor(c, r) == calls[c] # None /\ calls[c].run = r

Waiting(r) == {c \in Hooks \X Kinds : WaitsFor(c, r)}

\* Fault: a request goes with the first caller that leaves.
LeaveFirst(S) ==
  [r \in Runs |->
     LET n == Cardinality(S \cap Waiting(r)) IN
     IF runs[r] = None \/ n = 0 THEN runs[r]
     ELSE [runs[r] EXCEPT !.waiters = @ - n, !.aborted = TRUE]]

\* Fault: a caller that leaves is counted out again.
LeaveTwice(S) ==
  [r \in Runs |->
     LET n == Cardinality(S \cap Waiting(r)) IN
     IF runs[r] = None \/ n = 0 THEN runs[r]
     ELSE [runs[r] EXCEPT !.waiters = @ - n - n, !.aborted = @ \/ runs[r].waiters = n]]

\* The requests once the calls S are abandoned: the last one out aborts.
Leave(S) ==
  [r \in Runs |->
     LET n == Cardinality(S \cap Waiting(r)) IN
     IF runs[r] = None \/ n = 0 THEN runs[r]
     ELSE [runs[r] EXCEPT !.waiters = @ - n, !.aborted = @ \/ runs[r].waiters = n]]

NewRun(k, rs) ==
  [ key |-> k, pc |-> "asking", got |-> 0, waiters |-> 1,
    aborted |-> FALSE, dropped |-> FALSE,
    alone |-> \A q \in Runs : rs[q] = None \/ rs[q].key # k ]

\* Fault: who joins is not counted.
JoinUncounted(c, k, r, slots, rs) ==
  /\ slots[k] = r
  /\ runs' = rs /\ slot' = slots
  /\ calls' = [calls EXCEPT ![c] = [key |-> k, run |-> r]]

Roomy == Cardinality({c \in Hooks \X Kinds : calls[c] # None}) + Cardinality(late) < MaxCalls

\* An aborted request is joined as well, for as long as it is not settled.
Join(c, k, r, slots, rs) ==
  /\ slots[k] = r
  /\ runs' = [rs EXCEPT ![r].waiters = @ + 1] /\ slot' = slots
  /\ calls' = [calls EXCEPT ![c] = [key |-> k, run |-> r]]

\* Fault: every caller starts its own.
StartOwn(c, k, r, slots, rs) ==
  /\ rs[r] = None
  /\ r = CHOOSE x \in Runs : rs[x] = None
  /\ runs' = [rs EXCEPT ![r] = NewRun(k, rs)]
  /\ slot' = [slots EXCEPT ![k] = r]
  /\ calls' = [calls EXCEPT ![c] = [key |-> k, run |-> r]]

Start(c, k, r, slots, rs) ==
  /\ slots[k] = None /\ rs[r] = None
  /\ r = CHOOSE x \in Runs : rs[x] = None
  /\ runs' = [rs EXCEPT ![r] = NewRun(k, rs)]
  /\ slot' = [slots EXCEPT ![k] = r]
  /\ calls' = [calls EXCEPT ![c] = [key |-> k, run |-> r]]

(***************************************************************************)
(* revalidate, up to its await.  The call c is of hook c[1], whose state   *)
(* is seen; slots and rs are the map and the requests it finds.  Offline   *)
(* it only pauses: navigator.onLine may say either, each time it is asked. *)
(***************************************************************************)
Revalidate(c, seen, slots, rs) ==
  \/ /\ hooks' = [hooks EXCEPT ![c[1]] = [seen EXCEPT !.status = "paused"]]
     /\ calls' = [calls EXCEPT ![c] = None]
     /\ slot' = slots /\ runs' = rs
  \/ /\ hooks' = [hooks EXCEPT ![c[1]] = [seen EXCEPT !.status = "fetching"]]
     /\ \E r \in Runs : \/ Join(c, seen.key, r, slots, rs)
                        \/ Start(c, seen.key, r, slots, rs)

-----------------------------------------------------------------------------
(***************************************************************************)
(* What a component does: mount, change its key, refetch, unmount.         *)
(***************************************************************************)

\* scheduleForget overwrites the map's entry; the timer it held lives on.
ScheduleForget(k) ==
  IF k \in Volatile THEN [timers[k] EXCEPT !.live = @ + 1, !.held = TRUE] ELSE timers[k]

CancelForget(k) ==
  IF timers[k].held THEN [timers[k] EXCEPT !.live = @ - 1, !.held = FALSE] ELSE timers[k]

\* The place is free once what its last component awaited is over.
Mount(h, k) ==
  /\ ~ Mounted(h)
  /\ Roomy /\ \A m \in Kinds : calls[<<h, m>>] = None
  /\ hooks' = [hooks EXCEPT ![h] = Initial(k)]
  /\ calls' = [calls EXCEPT ![<<h, "mount">>] = [key |-> k, run |-> None]]
  /\ timers' = [timers EXCEPT ![k] = CancelForget(k)]
  /\ UNCHANGED <<server, record, slot, runs, late>>

\* Its effect has not got the answer of its read.
Reads(h) == calls[<<h, "mount">>] # None /\ calls[<<h, "mount">>].run = None

\* The state is reset in render, the effect's cleanup abandons its call: a
\* record it still reads is not shown.  What a trigger or a refetch awaits for
\* the old key stays.  Of a hook's abandoned reads one is followed at a time.
ChangeKey(h, k) ==
  LET old == hooks[h].key IN
  /\ h \notin late \/ ~ Reads(h)
  /\ late' = IF Reads(h) THEN late \cup {h} ELSE late
  /\ Roomy /\ Mounted(h) /\ old # k /\ timers[old].live < MaxTimers
  /\ hooks' = [hooks EXCEPT ![h] = Initial(k)]
  /\ runs' = Leave({<<h, "mount">>})
  /\ calls' = [calls EXCEPT ![<<h, "mount">>] = [key |-> k, run |-> None]]
  /\ timers' = [timers EXCEPT ![old] = ScheduleForget(old), ![k] = CancelForget(k)]
  /\ UNCHANGED <<server, record, slot>>

\* Fault: requests started by refetch are not tracked.
UnmountUntracked(h) ==
  /\ Mounted(h) /\ timers[hooks[h].key].live < MaxTimers
  /\ hooks' = [hooks EXCEPT ![h] = Absent]
  /\ runs' = Leave({<<h, "mount">>})
  /\ calls' = [calls EXCEPT ![<<h, "mount">>] = None]
  /\ timers' = [timers EXCEPT ![hooks[h].key] = ScheduleForget(hooks[h].key)]
  /\ late' = late \ {h}
  /\ UNCHANGED <<server, record, slot>>

\* The controllers of the effect and of every refetch are aborted, a trigger's
\* never.
Unmount(h) ==
  LET Tracked == {<<h, "mount">>, <<h, "refetch">>} IN
  /\ Mounted(h) /\ timers[hooks[h].key].live < MaxTimers
  /\ hooks' = [hooks EXCEPT ![h] = Absent]
  /\ runs' = Leave(Tracked)
  /\ calls' = [c \in Hooks \X Kinds |-> IF c \in Tracked THEN None ELSE calls[c]]
  /\ timers' = [timers EXCEPT ![hooks[h].key] = ScheduleForget(hooks[h].key)]
  /\ late' = late \ {h}
  /\ UNCHANGED <<server, record, slot>>

\* The effect has read the record: it is shown, and revalidated if stale.
ReadRecord(h) ==
  LET c    == <<h, "mount">>
      k    == hooks[h].key
      warm == [hooks[h] EXCEPT !.shown = k]
  IN  /\ Reads(h)
      /\ \/ /\ record[k] # None
            /\ hooks' = [hooks EXCEPT ![h] = [warm EXCEPT !.status = "idle"]]
            /\ calls' = [calls EXCEPT ![c] = None]
            /\ UNCHANGED <<slot, runs>>
         \/ record[k] # None /\ Revalidate(c, warm, slot, runs)
         \/ record[k] = None /\ Revalidate(c, hooks[h], slot, runs)
      /\ UNCHANGED <<server, record, timers, late>>

\* The database refuses the read: nothing is shown, nothing is asked.
ReadFails(h) ==
  /\ Reads(h)
  /\ hooks' = [hooks EXCEPT ![h].status = "idle"]
  /\ calls' = [calls EXCEPT ![<<h, "mount">>] = None]
  /\ UNCHANGED <<server, record, slot, runs, timers, late>>

\* The read of the abandoned effect ends.  It looks at its signal only when it
\* has an answer: a read that fails sets the status of the new key's fetch.
LateReadEnds(h) ==
  /\ h \in late /\ late' = late \ {h}
  /\ \/ UNCHANGED hooks
     \/ hooks' = [hooks EXCEPT ![h].status = "idle"]
  /\ UNCHANGED <<server, record, slot, runs, calls, timers>>

\* refetchIfAllowed, on focus, by a poll, or told that the network is back
Trigger(h) ==
  /\ Roomy /\ Mounted(h) /\ calls[<<h, "trigger">>] = None
  /\ Revalidate(<<h, "trigger">>, hooks[h], slot, runs)
  /\ UNCHANGED <<server, record, timers, late>>

\* refetch, by default with cancelShared first
Refetch(h, cancel) ==
  LET c == <<h, "refetch">>
      q == slot[hooks[h].key]
  IN  /\ Roomy /\ Mounted(h) /\ calls[c] = None
      /\ \/ ~ cancel /\ Revalidate(c, hooks[h], slot, runs)
         \/ cancel /\ q = None /\ Revalidate(c, hooks[h], slot, runs)
         \/ /\ cancel /\ q # None
            /\ Revalidate(c, hooks[h], [slot EXCEPT ![hooks[h].key] = None],
                 [runs EXCEPT ![q].aborted = TRUE, ![q].dropped = TRUE])
      /\ UNCHANGED <<server, record, timers, late>>

-----------------------------------------------------------------------------
(***************************************************************************)
(* The shared work: attemptFetch, then commit.                             *)
(***************************************************************************)

\* Fault: only a success ends the fetching.
DeliveredOnSuccess(h, r, out) ==
  IF out = "committed"
  THEN [hooks[h] EXCEPT !.shown = runs[r].key, !.status = "idle"]
  ELSE hooks[h]

\* What a settled request makes of a hook that still waits for it: an error
\* is recorded beside what is shown, an abort is not.
Delivered(h, r, out) ==
  [hooks[h] EXCEPT !.shown = IF out = "committed" THEN runs[r].key ELSE @,
                   !.status = "idle"]

\* Fault: the slot is cleared whoever's it is by now.
SlotFreed(r) == [slot EXCEPT ![runs[r].key] = None]

\* Cleared only if it is still the request's own.
SlotLeft(r) == [k \in Keys |-> IF slot[k] = r THEN None ELSE slot[k]]

\* The promise settles, and every call that awaits it goes on.
Settle(r, out) ==
  /\ slot' = SlotLeft(r)
  /\ runs' = [runs EXCEPT ![r] = None]
  /\ calls' = [c \in Hooks \X Kinds |-> IF WaitsFor(c, r) THEN None ELSE calls[c]]
  /\ hooks' = [h \in Hooks |->
                 IF Mounted(h) /\ \E m \in Kinds : WaitsFor(<<h, m>>, r)
                 THEN Delivered(h, r, out) ELSE hooks[h]]

Is(r, pc) == runs[r] # None /\ runs[r].pc = pc

\* The answer may come although nobody waits any more.
Answered(r) ==
  /\ Is(r, "asking")
  /\ runs' = [runs EXCEPT ![r].pc = "updating", ![r].got = server[runs[r].key]]
  /\ UNCHANGED <<server, record, slot, hooks, calls, timers, late>>

\* queryFn rejects with the abort, or the last attempt with its error: a
\* failure that is retried leaves the request asking.
Rejected(r) ==
  /\ Is(r, "asking")
  /\ Settle(r, "failed")
  /\ UNCHANGED <<server, record, timers, late>>

\* A response that cannot be turned into documents, or stored
Refused(r) ==
  /\ Is(r, "updating")
  /\ Settle(r, "failed")
  /\ UNCHANGED <<server, record, timers, late>>

\* writeQueryRecord, after hydration: one commit where there is a record ...
UpdateRecord(r) ==
  LET k == runs[r].key IN
  /\ Is(r, "updating")
  /\ \/ /\ record[k] # None
        /\ record' = [record EXCEPT ![k] = runs[r].got]
        /\ Settle(r, "committed")
     \/ /\ record[k] = None
        /\ runs' = [runs EXCEPT ![r].pc = "inserting"]
        /\ UNCHANGED <<record, slot, hooks, calls>>
  /\ UNCHANGED <<server, timers, late>>

\* ... and another where there was none: one that came meanwhile is an error.
InsertRecord(r) ==
  LET k == runs[r].key IN
  /\ Is(r, "inserting")
  /\ \/ /\ record[k] = None
        /\ record' = [record EXCEPT ![k] = runs[r].got]
        /\ Settle(r, "committed")
     \/ /\ record[k] # None
        /\ Settle(r, "failed")
        /\ UNCHANGED record
  /\ UNCHANGED <<server, timers, late>>

-----------------------------------------------------------------------------
(***************************************************************************)
(* Forgetting, and what the world does.                                    *)
(***************************************************************************)

\* A timer removes the map's entry, be it another timer's.
TimerFires(k) ==
  /\ timers[k].live > 0 /\ ~ timers[k].deleting
  /\ timers' = [timers EXCEPT ![k] = [live |-> @.live - 1, held |-> FALSE,
                                      deleting |-> TRUE]]
  /\ UNCHANGED <<server, record, slot, runs, hooks, calls, late>>

ForgetRecord(k) ==
  /\ timers[k].deleting
  /\ record' = [record EXCEPT ![k] = None]
  /\ timers' = [timers EXCEPT ![k].deleting = FALSE]
  /\ UNCHANGED <<server, slot, runs, hooks, calls, late>>

ServerChanges(k) ==
  /\ k \in Volatile /\ server[k] < MaxVersion
  /\ server' = [server EXCEPT ![k] = @ + 1]
  /\ UNCHANGED <<record, slot, runs, hooks, calls, timers, late>>

RunStep(r) ==
  \/ Answered(r) \/ Rejected(r) \/ Refused(r)
  \/ UpdateRecord(r) \/ InsertRecord(r)

Next ==
  \/ \E h \in Hooks, k \in Keys : Mount(h, k) \/ ChangeKey(h, k)
  \/ \E h \in Hooks :
       \/ Unmount(h) \/ ReadRecord(h) \/ ReadFails(h) \/ LateReadEnds(h) \/ Trigger(h)
       \/ \E cancel \in BOOLEAN : Refetch(h, cancel)
  \/ \E r \in Runs : RunStep(r)
  \/ \E k \in Keys : TimerFires(k) \/ ForgetRecord(k) \/ ServerChanges(k)

(***************************************************************************)
(* The database answers a read and a request ends one day: the second is   *)
(* the network's promise and queryFn's, useQuery sets no time limit.       *)
(***************************************************************************)
Fairness ==
  /\ \A h \in Hooks : WF_vars(ReadRecord(h) \/ ReadFails(h))
  /\ \A r \in Runs : WF_vars(RunStep(r))

Spec == Init /\ [][Next]_vars /\ Fairness

-----------------------------------------------------------------------------
(***************************************************************************)
(* Properties.                                                             *)
(***************************************************************************)

\* runShared's count is the number of callers that still wait: nobody who left
\* is counted on, nobody who waits is counted out.
WaitersCounted ==
  \A r \in Runs : runs[r] # None => runs[r].waiters = Cardinality(Waiting(r))

\* However many hooks ask for a key, one request is out for it, beside those
\* that a refetch has cancelled.
OneRequestPerKey ==
  \A r \in Runs : runs[r] # None /\ ~ runs[r].dropped => slot[runs[r].key] = r

\* A request nobody cancelled has a caller to deliver to: a mounted component,
\* or a trigger, whose controller unmounting does not abort.
RequestsHaveTakers ==
  \A r \in Runs :
    runs[r] # None /\ ~ runs[r].aborted =>
      \E c \in Waiting(r) : c[2] = "trigger" \/ Mounted(c[1])

\* Who leaves abandons only for itself: a request nobody cancelled is aborted
\* when the last caller that waits for it goes, and not before.
AbortedByTheLast ==
  [][\A r \in Runs :
       /\ runs[r] # None /\ runs'[r] # None
       /\ ~ runs[r].aborted /\ runs'[r].aborted /\ ~ runs'[r].dropped
       => Waiting(r)' = {}]_vars

\* No component reports that it is fetching unless its effect still reads the
\* record, or it waits for a request that is still out.
FetchingHasCall ==
  \A h \in Hooks :
    Mounted(h) /\ hooks[h].status = "fetching" =>
      \E m \in Kinds :
        LET c == calls[<<h, m>>] IN
        c # None /\ IF c.run = None THEN m = "mount" ELSE runs[c.run] # None

\* A record goes back to an older result set only by a request that was
\* cancelled, or by one begun while a cancelled one was still out.
RecordMonotone ==
  [][\A r \in Runs, k \in Keys :
       /\ runs[r] # None /\ runs'[r] = None
       /\ runs[r].alone /\ ~ runs[r].dropped
       /\ record[k] # None /\ record'[k] # None
       => record'[k] >= record[k]]_vars

\* A component that stays on its key is not left fetching for ever.
FetchingEnds ==
  \A h \in Hooks, k \in Keys :
    hooks[h].key = k /\ hooks[h].status = "fetching"
      ~> hooks[h].key # k \/ hooks[h].status # "fetching"

=============================================================================
