-------------------------- MODULE LiveQueryProofs --------------------------
(***************************************************************************)
(* What a live query shows and when a poll may skip its query, for any     *)
(* filters, results and subscriptions, and any number of writes, changes   *)
(* of owner and failures.                                                  *)
(***************************************************************************)
EXTENDS LiveQuery, TLAPS

\* The generation g is that of the owner o, or one that came before.
NotAfter(g, o) ==
  \/ g.epoch < o.epoch
  \/ g.epoch = o.epoch /\ g.writes <= o.writes

\* A poller that is at something has a filter, and an answer where it waits
\* to be told; and the generation it noted is no later than the owner's.
WellFormed(P, o) ==
  /\ P \in Poller
  /\ P.pc # "off" => P.filter \in Filters
  /\ P.active => P.pc # "off"
  /\ P.pc = "answer" => P.got \in Results
  /\ P.lastGeneration # None => NotAfter(P.lastGeneration, o)

\* A poller that has noted the owner's generation, and does not query, has
\* the result set as it is, or is just being given it.
Current(P, p, failed, o, res) ==
  P.lastGeneration = o =>
    /\ P.pc = "answer" => P.got = res[P.filter]
    /\ P.active /\ p \notin failed /\ P.pc \in {"waiting", "generation"} => P.lastJson = res[P.filter]

Sound(P, p, failed, o, res) == WellFormed(P, o) /\ Current(P, p, failed, o, res)

PollersSound == \A p \in Pollers : Sound(pollers[p], p, unread, owner, result)

\* What the hook shows is what its subscription asks for.
HookShowsOwn(h, ps) ==
  h.poller # None /\ ~ h.loading /\ ~ h.error => h.of = ps[h.poller].filter

LiveInv ==
  /\ TypeOK
  /\ \A p \in nudges : pollers[p].active
  /\ PollersSound
  /\ HookShowsOwn(hook, pollers)

-----------------------------------------------------------------------------

LEMMA GoneSound ==
  ASSUME NEW o, NEW res, NEW p, NEW u, o # None
  PROVE  Sound(Gone, p, u, o, res)
BY LiveQueryAssumption DEF Gone, Sound, WellFormed, Current, Poller

\* A poll that begins leaves a poller as sound as it was.
LEMMA PollingSound ==
  ASSUME NEW P, NEW p, NEW u, NEW o, NEW res, Sound(P, p, u, o, res),
         P.filter \in Filters, P.pc \in {"waiting", "generation", "query", "answer"},
         P.lastGeneration = o /\ P.active /\ p \notin u => P.lastJson = res[P.filter]
  PROVE  Sound(Polling(P), p, u, o, res) /\ Polling(P).active = P.active
                                      /\ Polling(P).filter = P.filter
BY DEF Polling, Sound, WellFormed, Current, Poller

LEMMA FinishedSound ==
  ASSUME NEW P, NEW p, NEW u, NEW o, NEW res, Sound(P, p, u, o, res), o # None,
         P.filter \in Filters, P.pc \in {"waiting", "generation", "query", "answer"},
         P.lastGeneration = o /\ P.active /\ p \notin u => P.lastJson = res[P.filter]
  PROVE  /\ Sound(Finished(P), p, u, o, res)
         /\ Finished(P).active = P.active
         /\ P.active => Finished(P).filter = P.filter
<1> DEFINE Q == [P EXCEPT !.got = None]
<1>1. CASE ~ P.active
  <2>1. Finished(P) = Gone /\ Gone.active = FALSE /\ P.active = FALSE
    BY <1>1 DEF Finished, Gone, Sound, WellFormed, Poller
  <2> QED
    BY <2>1, GoneSound
<1>2. CASE P.active /\ P.rerun
  <2>1. Finished(P) = Polling([Q EXCEPT !.rerun = FALSE])
    BY <1>2 DEF Finished
  <2> QED
    BY <1>2, <2>1 DEF Polling, Sound, WellFormed, Current, Poller
<1>3. CASE P.active /\ ~ P.rerun
  BY <1>3 DEF Finished, Sound, WellFormed, Current, Poller
<1> QED
  BY <1>1, <1>2, <1>3

-----------------------------------------------------------------------------

LEMMA OwnerIsKnown == LiveInv => owner \in Generations /\ owner # None
BY LiveQueryAssumption DEF LiveInv, TypeOK

\* A step of one poller that leaves it sound, and the hook with its own.
LEMMA OnePollerInv ==
  ASSUME LiveInv, NEW p \in Pollers, NEW Q, pollers' = [pollers EXCEPT ![p] = Q],
         Sound(Q, p, unread', owner, result),
         Q.active = pollers[p].active, Q.active => Q.filter = pollers[p].filter,
         Stays, nudges' \subseteq nudges,
         hook' \in Snapshot, hook'.poller = hook.poller, HookShowsOwn(hook', pollers),
         failures' \in 0 .. MaxFailures,
         unread' \subseteq Pollers, \A q \in Pollers \ {p} : q \in unread' <=> q \in unread
  PROVE  LiveInv'
<1>1. /\ TypeOK /\ PollersSound /\ \A q \in nudges : pollers[q].active
      /\ platform' = platform /\ result' = result /\ owner' = owner
  BY DEF LiveInv, Stays
<1>2. pollers'[p] = Q /\ Q \in Poller /\ \A q \in Pollers \ {p} : pollers'[q] = pollers[q]
  BY <1>1 DEF TypeOK, Sound, WellFormed
<1>3. TypeOK'
  <2>1. pollers' \in [Pollers -> Poller]
    BY <1>1, <1>2 DEF TypeOK
  <2>2. \A q \in Pollers : pollers'[q].active <=> hook'.poller = q
    BY <1>1, <1>2 DEF TypeOK
  <2> QED
    BY <1>1, <2>1, <2>2 DEF TypeOK
<1>4. \A q \in nudges' : pollers'[q].active
  BY <1>1, <1>2 DEF TypeOK
<1>5. PollersSound'
  <2>1. ASSUME NEW q \in Pollers PROVE Sound(pollers'[q], q, unread', owner', result')
    <3>1. CASE q = p
      BY <1>1, <1>2, <3>1
    <3>2. CASE q # p
      BY <1>1, <1>2, <3>2 DEF PollersSound, Sound, Current
    <3> QED
      BY <3>1, <3>2
  <2> QED
    BY <2>1 DEF PollersSound
<1>6. HookShowsOwn(hook', pollers')
  <2>1. CASE hook'.poller = p
    <3>1. Q.active
      BY <1>1, <2>1 DEF TypeOK
    <3> QED
      BY <1>2, <2>1, <3>1 DEF HookShowsOwn
  <2>2. CASE hook'.poller # p
    <3>1. hook'.poller \in Pollers \cup {None}
      BY DEF Snapshot
    <3> QED
      BY <1>2, <2>2, <3>1 DEF HookShowsOwn
  <2> QED
    BY <2>1, <2>2
<1> QED
  BY <1>3, <1>4, <1>5, <1>6 DEF LiveInv

LEMMA TickInv ==
  ASSUME LiveInv, NEW p \in Pollers, Tick(p)
  PROVE  LiveInv'
<1> DEFINE Q == Polling(pollers[p])
<1>1. Sound(pollers[p], p, unread, owner, result) /\ pollers[p].pc = "waiting"
  BY DEF LiveInv, PollersSound, Tick
<1>2. Sound(Q, p, unread, owner, result) /\ Q.active = pollers[p].active
                                           /\ Q.filter = pollers[p].filter
  BY <1>1, PollingSound DEF Sound, WellFormed, Current
<1>3. /\ pollers' = [pollers EXCEPT ![p] = Q]
      /\ Stays /\ UNCHANGED <<nudges, hook, failures, unread>>
  BY DEF Tick
<1>4. hook' \in Snapshot /\ HookShowsOwn(hook', pollers) /\ unread' \subseteq Pollers
      /\ failures' \in 0 .. MaxFailures
  BY <1>3 DEF LiveInv, TypeOK
<1> HIDE DEF Q
<1> QED
  BY <1>2, <1>3, <1>4, OnePollerInv

LEMMA NudgeInv ==
  ASSUME LiveInv, NEW p \in Pollers, Nudge(p)
  PROVE  LiveInv'
<1> DEFINE P == pollers[p]
           Q == IF Running(P) THEN [P EXCEPT !.rerun = TRUE] ELSE Polling(P)
<1>1. Sound(P, p, unread, owner, result) /\ P.active /\ P \in Poller
  BY DEF LiveInv, PollersSound, Nudge, Sound, WellFormed
<1>2. Sound(Q, p, unread, owner, result) /\ Q.active = P.active /\ Q.filter = P.filter
  <2>1. CASE Running(P)
    BY <1>1, <2>1 DEF Sound, WellFormed, Current, Poller
  <2>2. CASE ~ Running(P) /\ P.pc = "waiting"
    <3>1. /\ P.filter \in Filters
          /\ P.lastGeneration = owner /\ P.active /\ p \notin unread
             => P.lastJson = result[P.filter]
      BY <1>1, <2>2 DEF Sound, WellFormed, Current
    <3>2. Sound(Polling(P), p, unread, owner, result) /\ Polling(P).active = P.active
                                                     /\ Polling(P).filter = P.filter
      BY <1>1, <2>2, <3>1, PollingSound
    <3> QED
      BY <2>2, <3>2
  <2>3. P.pc \in {"off", "waiting", "generation", "query", "answer"} /\ P.pc # "off"
    BY <1>1 DEF Poller, Sound, WellFormed
  <2> QED
    BY <2>1, <2>2, <2>3 DEF Running
<1>3. /\ pollers' = [pollers EXCEPT ![p] = Q]
      /\ Stays /\ nudges' \subseteq nudges /\ UNCHANGED <<hook, failures, unread>>
  BY DEF Nudge
<1>4. hook' \in Snapshot /\ HookShowsOwn(hook', pollers) /\ unread' \subseteq Pollers
      /\ failures' \in 0 .. MaxFailures
  BY <1>3 DEF LiveInv, TypeOK
<1> HIDE DEF Q
<1> QED
  BY <1>2, <1>3, <1>4, OnePollerInv

LEMMA AskGenerationInv ==
  ASSUME LiveInv, NEW p \in Pollers, AskGeneration(p)
  PROVE  LiveInv'
<1> DEFINE P == pollers[p]
           N == [P EXCEPT !.lastGeneration = Generation, !.pc = "query"]
           Q == IF P.lastGeneration = Generation THEN Finished(P) ELSE N
<1>1. Sound(P, p, unread, owner, result) /\ P.pc = "generation" /\ P \in Poller
      /\ owner \in Generations /\ owner # None
  BY OwnerIsKnown DEF LiveInv, PollersSound, AskGeneration, Sound, WellFormed
<1>2. /\ Sound(Q, p, unread, owner, result)
      /\ Q.active = P.active
      /\ Q.active => Q.filter = P.filter
  <2>1. CASE P.lastGeneration = Generation
    <3>1. P.filter \in Filters /\ (P.active /\ p \notin unread => P.lastJson = result[P.filter])
      BY <1>1, <2>1 DEF Sound, WellFormed, Current, Generation
    <3> QED
      BY <1>1, <2>1, <3>1, FinishedSound
  <2>2. CASE P.lastGeneration # Generation
    <3>1. NotAfter(owner, owner)
      BY <1>1 DEF NotAfter, Generations
    <3> QED
      BY <1>1, <2>2, <3>1 DEF Sound, WellFormed, Current, Poller, Generation
  <2> QED
    BY <2>1, <2>2
<1>3. /\ pollers' = [pollers EXCEPT ![p] = Q]
      /\ Stays /\ UNCHANGED <<nudges, hook, failures, unread>>
  BY DEF AskGeneration
<1>4. hook' \in Snapshot /\ HookShowsOwn(hook', pollers) /\ unread' \subseteq Pollers
      /\ failures' \in 0 .. MaxFailures
  BY <1>3 DEF LiveInv, TypeOK
<1> HIDE DEF Q
<1> QED
  BY <1>2, <1>3, <1>4, OnePollerInv

LEMMA GenerationFailsInv ==
  ASSUME LiveInv, NEW p \in Pollers, GenerationFails(p)
  PROVE  LiveInv'
<1> DEFINE P == pollers[p]
           Q == [P EXCEPT !.generationSupported = FALSE, !.pc = "query"]
<1>1. Sound(P, p, unread, owner, result) /\ P.pc = "generation" /\ P \in Poller
      /\ pollers \in [Pollers -> Poller]
  BY DEF LiveInv, TypeOK, PollersSound, GenerationFails, Sound, WellFormed
<1>2. Sound(Q, p, unread, owner, result) /\ Q.active = P.active /\ Q.filter = P.filter
  BY <1>1 DEF Sound, WellFormed, Current, Poller
<1>3. /\ pollers' = [pollers EXCEPT ![p] = Q]
      /\ Stays /\ UNCHANGED <<nudges, hook, unread>>
      /\ failures' = failures + 1 /\ failures < MaxFailures
  BY <1>1 DEF GenerationFails
<1>4. hook' \in Snapshot /\ HookShowsOwn(hook', pollers) /\ unread' \subseteq Pollers
      /\ failures' \in 0 .. MaxFailures
  BY <1>3, LiveQueryAssumption DEF LiveInv, TypeOK
<1> HIDE DEF Q
<1> QED
  BY <1>2, <1>3, <1>4, OnePollerInv

LEMMA QueryInv ==
  ASSUME LiveInv, NEW p \in Pollers, Query(p)
  PROVE  LiveInv'
<1> DEFINE P == pollers[p]
           Q == [P EXCEPT !.pc = "answer", !.got = result[P.filter]]
<1>1. Sound(P, p, unread, owner, result) /\ P.pc = "query" /\ P \in Poller
      /\ pollers \in [Pollers -> Poller] /\ result \in [Filters -> Results]
  BY DEF LiveInv, TypeOK, PollersSound, Query, Sound, WellFormed
<1>2. Sound(Q, p, unread, owner, result) /\ Q.active = P.active /\ Q.filter = P.filter
  BY <1>1 DEF Sound, WellFormed, Current, Poller
<1>3. /\ pollers' = [pollers EXCEPT ![p] = Q]
      /\ Stays /\ UNCHANGED <<nudges, hook, failures, unread>>
  BY <1>1 DEF Query
<1>4. hook' \in Snapshot /\ HookShowsOwn(hook', pollers) /\ unread' \subseteq Pollers
      /\ failures' \in 0 .. MaxFailures
  BY <1>3 DEF LiveInv, TypeOK
<1> HIDE DEF Q
<1> QED
  BY <1>2, <1>3, <1>4, OnePollerInv

\* A poller is answered: it has the result set it asked for, and only the
\* hook's own shows it.
LEMMA AnswerInv ==
  ASSUME LiveInv, NEW p \in Pollers, Answer(p)
  PROVE  LiveInv'
<1> DEFINE P == pollers[p]
           R == IF P.active THEN [P EXCEPT !.lastJson = P.got] ELSE P
           Q == Finished(R)
<1>1. Sound(P, p, unread, owner, result) /\ P.pc = "answer" /\ P \in Poller
      /\ owner # None
  BY OwnerIsKnown DEF LiveInv, PollersSound, Answer, Sound, WellFormed
<1>2. /\ Sound(Q, p, unread \ {p}, owner, result)
      /\ Q.active = P.active
      /\ Q.active => Q.filter = P.filter
  <2>1. /\ Sound(R, p, unread \ {p}, owner, result)
        /\ R.filter \in Filters /\ R.pc = "answer" /\ R.active = P.active /\ R.filter = P.filter
        /\ R.lastGeneration = owner /\ R.active => R.lastJson = result[R.filter]
    BY <1>1 DEF Sound, WellFormed, Current, Poller
  <2> HIDE DEF R
  <2> QED
    BY <1>1, <2>1, FinishedSound
<1>3. /\ pollers' = [pollers EXCEPT ![p] = Q]
      /\ Stays /\ UNCHANGED <<nudges, failures>> /\ unread' = unread \ {p}
      /\ \/ hook' = hook
         \/ /\ P.active
            /\ hook' = [hook EXCEPT !.of = P.filter, !.data = P.got,
                                    !.loading = FALSE, !.error = FALSE]
  BY DEF Answer
<1>4. hook' \in Snapshot /\ hook'.poller = hook.poller /\ HookShowsOwn(hook', pollers)
  <2>1. CASE hook' = hook
    BY <2>1 DEF LiveInv, TypeOK
  <2>2. CASE P.active /\ hook' = [hook EXCEPT !.of = P.filter, !.data = P.got,
                                              !.loading = FALSE, !.error = FALSE]
    <3>1. hook \in Snapshot /\ hook.poller = p
      BY <2>2 DEF LiveInv, TypeOK
    <3> QED
      BY <1>1, <2>2, <3>1 DEF Snapshot, HookShowsOwn, Poller
  <2> QED
    BY <1>3, <2>1, <2>2
<1>5. unread' \subseteq Pollers /\ failures' \in 0 .. MaxFailures
  BY <1>3 DEF LiveInv, TypeOK
<1> HIDE DEF Q
<1> QED
  BY <1>2, <1>3, <1>4, <1>5, OnePollerInv

\* A query that fails leaves the hook with an error, and its poller with
\* nothing that is said of those that have not failed.
LEMMA QueryFailsInv ==
  ASSUME LiveInv, NEW p \in Pollers, QueryFails(p)
  PROVE  LiveInv'
<1> DEFINE P == pollers[p]
           Q == Finished(P)
<1>1. Sound(P, p, unread, owner, result) /\ P.pc \in {"query", "answer"} /\ P \in Poller
      /\ owner # None
  BY OwnerIsKnown DEF LiveInv, PollersSound, QueryFails, Sound, WellFormed
<1>2. /\ Sound(Q, p, unread', owner, result)
      /\ Q.active = P.active
      /\ Q.active => Q.filter = P.filter
  <2>1. P.active => p \in unread'
    BY DEF QueryFails
  <2>2. Sound(P, p, unread', owner, result) /\ P.filter \in Filters
    BY <1>1, <2>1 DEF Sound, WellFormed, Current
  <2> QED
    BY <1>1, <2>1, <2>2, FinishedSound
<1>3. /\ pollers' = [pollers EXCEPT ![p] = Q]
      /\ Stays /\ nudges' = nudges /\ failures' = failures + 1 /\ failures < MaxFailures
      /\ unread' \in {unread, unread \cup {p}}
      /\ hook' \in {hook, [hook EXCEPT !.loading = FALSE, !.error = TRUE]}
  BY DEF QueryFails
<1>4. unread' \subseteq Pollers /\ failures' \in 0 .. MaxFailures
  BY <1>3, LiveQueryAssumption DEF LiveInv, TypeOK
<1>6. hook' \in Snapshot /\ hook'.poller = hook.poller /\ HookShowsOwn(hook', pollers)
  <2>1. hook \in Snapshot /\ HookShowsOwn(hook, pollers)
    BY DEF LiveInv, TypeOK
  <2>2. CASE hook' = hook
    BY <2>1, <2>2
  <2>3. CASE hook' = [hook EXCEPT !.loading = FALSE, !.error = TRUE]
    BY <2>1, <2>3 DEF Snapshot, HookShowsOwn
  <2> QED
    BY <1>3, <2>2, <2>3
<1>5. \A q \in Pollers \ {p} : q \in unread' <=> q \in unread
  BY <1>3
<1> HIDE DEF Q
<1> QED
  BY <1>2, <1>3, <1>4, <1>5, <1>6, OnePollerInv

-----------------------------------------------------------------------------

\* The engine's generation moves on: no poller has noted the new one.
LEMMA EngineInv ==
  ASSUME LiveInv, Write \/ Failover
  PROVE  LiveInv'
<1>1. /\ TypeOK /\ PollersSound /\ HookShowsOwn(hook, pollers)
      /\ \A q \in nudges : pollers[q].active
  BY DEF LiveInv
<1>2. /\ UNCHANGED <<platform, pollers, hook, failures, unread>>
      /\ result' \in [Filters -> Results]
      /\ nudges' \subseteq nudges \cup {p \in Pollers : pollers[p].active}
  BY DEF Write, Failover
<1>3. owner \in Generations /\ owner' \in Generations
  BY <1>1, LiveQueryAssumption DEF TypeOK, Generations, Write, Failover
<1>4. ASSUME NEW g \in Generations, NotAfter(g, owner)
      PROVE  NotAfter(g, owner') /\ g # owner'
  BY <1>1, <1>3, <1>4, LiveQueryAssumption DEF TypeOK, Generations, NotAfter, Write, Failover
<1>5. ASSUME NEW p \in Pollers PROVE Sound(pollers'[p], p, unread', owner', result')
  <2>1. Sound(pollers[p], p, unread, owner, result) /\ pollers'[p] = pollers[p]
    BY <1>1, <1>2 DEF PollersSound
  <2>2. pollers[p].lastGeneration = None \/ pollers[p].lastGeneration \in Generations
    BY <2>1 DEF Sound, WellFormed, Poller
  <2>3. pollers[p].lastGeneration # owner'
    BY <1>3, <1>4, <2>1, <2>2, LiveQueryAssumption DEF Sound, WellFormed
  <2> QED
    BY <1>3, <1>4, <2>1, <2>2, <2>3 DEF Sound, WellFormed, Current
<1>6. TypeOK'
  BY <1>1, <1>2, <1>3 DEF TypeOK
<1> QED
  BY <1>1, <1>2, <1>5, <1>6 DEF LiveInv, PollersSound, HookShowsOwn

\* Giving a subscription up leaves no poller active.
LEMMA ReleasedSound ==
  ASSUME LiveInv
  PROVE  /\ Released \in [Pollers -> Poller]
         /\ \A p \in Pollers : ~ Released[p].active
         /\ \A p \in Pollers : Sound(Released[p], p, unread \ {hook.poller}, owner, result)
<1>1. TypeOK /\ PollersSound /\ owner # None
  BY OwnerIsKnown DEF LiveInv
<1>2. ASSUME NEW p \in Pollers
      PROVE  /\ ~ Released[p].active
             /\ Sound(Released[p], p, unread \ {hook.poller}, owner, result)
  <2>1. Sound(pollers[p], p, unread, owner, result) /\ pollers[p] \in Poller
    BY <1>1 DEF PollersSound, Sound, WellFormed
  <2>2. CASE p = hook.poller
    <3>1. Released[p] = Stopped(pollers[p])
      BY <2>2 DEF Released
    <3>2. CASE Running(pollers[p])
      <4>1. Stopped(pollers[p]) = [filter |-> pollers[p].filter, active |-> FALSE,
              pc |-> pollers[p].pc, got |-> pollers[p].got, rerun |-> FALSE, lastJson |-> None,
              lastGeneration |-> None, generationSupported |-> FALSE]
        BY <3>2 DEF Stopped, Gone
      <4> QED
        <5> DEFINE S == Stopped(pollers[p])
        <5>1. /\ S.filter = pollers[p].filter /\ S.active = FALSE /\ S.pc = pollers[p].pc
              /\ S.got = pollers[p].got /\ S.lastGeneration = None
          BY <4>1
        <5>2. S \in Poller
          BY <2>1, <4>1 DEF Poller
        <5> HIDE DEF S
        <5>3. Sound(S, p, unread \ {hook.poller}, owner, result)
          BY <1>1, <2>1, <5>1, <5>2 DEF Sound, WellFormed, Current
        <5> QED
          BY <3>1, <5>1, <5>3 DEF S
    <3>3. CASE ~ Running(pollers[p])
      <4>1. Released[p] = Gone /\ Gone.active = FALSE
        BY <3>1, <3>3 DEF Stopped, Gone
      <4> QED
        BY <1>1, <4>1, GoneSound
    <3> QED
      BY <3>2, <3>3
  <2>3. CASE p # hook.poller
    <3>1. Released[p] = pollers[p] /\ pollers[p].active = FALSE
      BY <1>1, <2>1, <2>3 DEF Released, TypeOK, Poller
    <3> QED
      BY <2>1, <2>3, <3>1 DEF Sound, Current
  <2> QED
    BY <2>2, <2>3
<1>3. Released \in [Pollers -> Poller]
  BY <1>2 DEF Released, Sound, WellFormed
<1> QED
  BY <1>2, <1>3

LEMMA UnmountInv ==
  ASSUME LiveInv, Unmount
  PROVE  LiveInv'
<1>1. /\ TypeOK /\ \A q \in nudges : pollers[q].active
      /\ pollers' = Released /\ nudges' = nudges \ {hook.poller} /\ hook' = Unmounted
      /\ unread' = unread \ {hook.poller}
      /\ UNCHANGED <<platform, result, owner, failures>>
  BY DEF LiveInv, Unmount, Stays
<1>2. Unmounted \in Snapshot /\ Unmounted.poller = None
  BY DEF Unmounted, Snapshot
<1>3. nudges' = {}
  BY <1>1 DEF TypeOK
<1>4. TypeOK'
  BY <1>1, <1>2, <1>3, ReleasedSound, LiveQueryAssumption DEF TypeOK
<1>5. PollersSound'
  BY <1>1, ReleasedSound DEF PollersSound
<1> QED
  BY <1>1, <1>2, <1>3, <1>4, <1>5 DEF LiveInv, HookShowsOwn

\* A render changes the filter alone.
LEMMA RenderInv ==
  ASSUME LiveInv, NEW f \in Filters, Render(f)
  PROVE  LiveInv'
<1>1. /\ TypeOK /\ PollersSound /\ \A q \in nudges : pollers[q].active
      /\ hook \in Snapshot /\ HookShowsOwn(hook, pollers)
      /\ hook' = [hook EXCEPT !.filter = f]
      /\ UNCHANGED <<platform, result, owner, pollers, nudges, failures, unread>>
  BY DEF LiveInv, TypeOK, Render, Stays
<1>2. /\ hook' \in Snapshot /\ hook'.poller = hook.poller /\ hook'.of = hook.of
      /\ hook'.loading = hook.loading /\ hook'.error = hook.error
  BY <1>1 DEF Snapshot
<1>3. TypeOK'
  BY <1>1, <1>2 DEF TypeOK
<1>4. HookShowsOwn(hook', pollers)
  BY <1>1, <1>2 DEF HookShowsOwn
<1> QED
  BY <1>1, <1>3, <1>4 DEF LiveInv, PollersSound, HookShowsOwn

LEMMA SubscribeInv ==
  ASSUME LiveInv, NEW p \in Pollers, Subscribe(p)
  PROVE  LiveInv'
<1> DEFINE f == hook.filter
           Q == Polling(New(f))
<1>0. f \in Filters
  BY DEF LiveInv, TypeOK, Snapshot, Subscribe
<1>1. /\ TypeOK /\ \A q \in nudges : pollers[q].active
      /\ pollers' = [Released EXCEPT ![p] = Q] /\ nudges' = nudges \ {hook.poller}
      /\ hook' = [hook EXCEPT !.poller = p, !.loading = TRUE, !.error = FALSE]
      /\ unread' = unread \ {hook.poller} /\ owner # None
      /\ UNCHANGED <<platform, result, owner, failures>>
  BY OwnerIsKnown DEF LiveInv, Subscribe, Stays
<1> HIDE DEF f
<1>2. Sound(Q, p, unread', owner, result) /\ Q.active /\ Q \in Poller
  <2>1. /\ New(f) \in Poller /\ New(f).filter = f /\ New(f).active = TRUE
        /\ New(f).got = None /\ New(f).lastGeneration = None
    <3>1. Gone \in Poller /\ (platform = "worker") \in BOOLEAN
      BY DEF Gone, Poller
    <3> QED
      BY <1>0, <3>1 DEF New, Gone, Poller
  <2>2. \E pc \in {"generation", "query"} : Q = [New(f) EXCEPT !.pc = pc]
    BY DEF Polling
  <2> HIDE DEF Q
  <2>3. Q \in Poller /\ Q.filter = f /\ Q.active = TRUE /\ Q.lastGeneration = None
        /\ Q.pc \in {"generation", "query"}
    BY <2>1, <2>2 DEF Poller
  <2> QED
    BY <1>0, <1>1, <2>3 DEF Sound, WellFormed, Current
<1>3. nudges' = {} /\ hook' \in Snapshot /\ hook'.poller = p /\ hook'.loading
  BY <1>1 DEF TypeOK, Snapshot
<1>4. /\ pollers' \in [Pollers -> Poller] /\ pollers'[p] = Q
      /\ \A q \in Pollers \ {p} : pollers'[q] = Released[q]
  <2> HIDE DEF Q
  <2> QED
    BY <1>1, <1>2, ReleasedSound
<1> HIDE DEF Q
<1>5. TypeOK'
  <2>1. \A q \in Pollers : pollers'[q].active <=> hook'.poller = q
    BY <1>2, <1>3, <1>4, ReleasedSound
  <2> QED
    BY <1>1, <1>3, <1>4, <2>1 DEF TypeOK
<1>6. PollersSound'
  BY <1>1, <1>2, <1>4, ReleasedSound DEF PollersSound
<1> QED
  BY <1>3, <1>5, <1>6 DEF LiveInv, HookShowsOwn

-----------------------------------------------------------------------------

LEMMA LiveInitInv == Init => LiveInv
<1> SUFFICES ASSUME Init PROVE LiveInv
  OBVIOUS
<1>1. owner \in Generations /\ owner # None
  BY LiveQueryAssumption DEF Init, Generations
<1>2. \A p \in Pollers : Sound(pollers[p], p, unread, owner, result) /\ pollers[p] = Gone
  BY <1>1, GoneSound DEF Init
<1>3. TypeOK
  <2>1. Gone \in Poller /\ Gone.active = FALSE /\ Unmounted \in Snapshot
    BY DEF Gone, Poller, Unmounted, Snapshot
  <2>2. \A p \in Pollers : pollers[p].active <=> hook.poller = p
    BY <2>1, LiveQueryAssumption DEF Init, Unmounted
  <2> QED
    BY <1>1, <2>1, <2>2, LiveQueryAssumption DEF Init, TypeOK
<1> QED
  BY <1>2, <1>3 DEF LiveInv, Init, PollersSound, HookShowsOwn, Unmounted

LEMMA LiveNextInv ==
  ASSUME LiveInv, [Next]_vars
  PROVE  LiveInv'
<1>1. CASE UNCHANGED vars
  BY <1>1 DEF vars, LiveInv, TypeOK, PollersSound, HookShowsOwn
<1>2. CASE Write \/ Failover
  BY <1>2, EngineInv
<1>3. CASE Unmount
  BY <1>3, UnmountInv
<1>4. ASSUME NEW p \in Pollers, Subscribe(p) PROVE LiveInv'
  BY <1>4, SubscribeInv
<1>9. ASSUME NEW f \in Filters, Render(f) PROVE LiveInv'
  BY <1>9, RenderInv
<1>5. ASSUME NEW p \in Pollers, PollStep(p) PROVE LiveInv'
  BY <1>5, TickInv, AskGenerationInv, QueryInv, AnswerInv DEF PollStep
<1>6. ASSUME NEW p \in Pollers, Nudge(p) PROVE LiveInv'
  BY <1>6, NudgeInv
<1>7. ASSUME NEW p \in Pollers, GenerationFails(p) PROVE LiveInv'
  BY <1>7, GenerationFailsInv
<1>8. ASSUME NEW p \in Pollers, QueryFails(p) PROVE LiveInv'
  BY <1>8, QueryFailsInv
<1> QED
  BY <1>1, <1>2, <1>3, <1>4, <1>5, <1>6, <1>7, <1>8, <1>9 DEF Next

LEMMA LiveInvariant == Spec => []LiveInv
<1>1. LiveInv /\ [Next]_vars => LiveInv'
  BY LiveNextInv
<1> QED
  BY <1>1, LiveInitInv, PTL DEF Spec

-----------------------------------------------------------------------------

\* Every variable keeps its type, and the hook's subscription is the only
\* active one.
THEOREM LiveTypes == Spec => []TypeOK
<1>1. LiveInv => TypeOK
  BY DEF LiveInv
<1> QED
  BY <1>1, LiveInvariant, PTL

\* From the effect that subscribes to a rendered filter on, what useFind shows
\* as loaded is that filter's result set, however late the answers to earlier
\* filters come.
THEOREM OwnFilterShown == Spec => []ShowsOwnFilter
<1>1. LiveInv => ShowsOwnFilter
  BY DEF LiveInv, HookShowsOwn, ShowsOwnFilter, Subscribed
<1> QED
  BY <1>1, LiveInvariant, PTL

\* A poll that skips its query would have brought nothing new, over any number
\* of writes and changes of owner, unless the query before it failed.
THEOREM NothingSkipped == Spec => []SkipsWhatItHas
<1>1. LiveInv => SkipsWhatItHas
  BY DEF LiveInv, PollersSound, Sound, Current, SkipsWhatItHas, Generation
<1> QED
  BY <1>1, LiveInvariant, PTL
=============================================================================
