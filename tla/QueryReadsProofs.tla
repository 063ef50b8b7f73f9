-------------------------- MODULE QueryReadsProofs --------------------------
(***************************************************************************)
(* The bookkeeping of shared requests, for any number of keys, components, *)
(* requests, timers and changes of the server.                             *)
(***************************************************************************)
EXTENDS QueryReads, FiniteSetTheorems, TLAPS

Callers == Hooks \X Kinds

WaitingIn(cs, r) == {c \in Callers : cs[c] # None /\ cs[c].run = r}

\* The waiters counted are those there are, and nobody is counted after the
\* last one has gone.
Counted(cs, rs) ==
  \A r \in Runs : rs[r] # None =>
    /\ rs[r].waiters = Cardinality(WaitingIn(cs, r))
    /\ ~ rs[r].aborted => WaitingIn(cs, r) # {}

\* The map holds the requests out for their keys that were not cancelled.
Mapped(sl, rs) ==
  /\ \A k \in Keys : sl[k] # None =>
       rs[sl[k]] # None /\ rs[sl[k]].key = k /\ ~ rs[sl[k]].dropped
  /\ \A r \in Runs : rs[r] # None /\ ~ rs[r].dropped => sl[rs[r].key] = r

\* What a call awaits is out; only an effect reads the record; and but for
\* triggers a call does not outlive its component.
Tied(cs, rs, hs) ==
  \A c \in Callers : cs[c] # None =>
    /\ cs[c].run # None => rs[cs[c].run] # None
    /\ cs[c].run = None => c[2] = "mount"
    /\ c[2] # "trigger" => hs[c[1]].key # None

\* A component that says it is fetching awaits something.
Busy(cs, hs) ==
  \A h \in Hooks : hs[h].key # None /\ hs[h].status = "fetching" =>
    \E m \in Kinds : cs[<<h, m>>] # None

CallTypes(cs) == cs \in [Callers -> Call \cup {None}]
RunTypes(rs) == rs \in [Runs -> Run \cup {None}]
SlotTypes(sl) == sl \in [Keys -> Runs \cup {None}]
HookTypes(hs) == hs \in [Hooks -> Hook]

\* All of it, of given calls, requests, slots and hooks
Books(cs, rs, sl, hs) ==
  /\ CallTypes(cs) /\ RunTypes(rs) /\ SlotTypes(sl) /\ HookTypes(hs)
  /\ Counted(cs, rs) /\ Mapped(sl, rs) /\ Tied(cs, rs, hs) /\ Busy(cs, hs)

TimerTypes ==
  /\ timers \in [Keys -> Timers]
  /\ \A k \in Keys : timers[k].held => timers[k].live > 0

DataTypes ==
  server \in [Keys -> Versions] /\ record \in [Keys -> Versions \cup {None}]

ReadsInv ==
  Books(calls, runs, slot, hooks) /\ TimerTypes /\ DataTypes /\ late \subseteq Hooks

LEMMA Finite ==
  /\ IsFiniteSet(Callers)
  /\ \A cs, r : IsFiniteSet(WaitingIn(cs, r)) /\ Cardinality(WaitingIn(cs, r)) \in Nat
<1>1. Kinds = {"mount"} \cup {"trigger"} \cup {"refetch"}
  BY DEF Kinds
<1>2. IsFiniteSet(Kinds)
  BY <1>1, FS_Singleton, FS_AddElement
<1>3. IsFiniteSet(Callers)
  BY <1>2, ReadsAssumption, FS_Product DEF Callers
<1>4. \A cs, r : WaitingIn(cs, r) \in SUBSET Callers
  BY DEF WaitingIn
<1> QED
  BY <1>3, <1>4, FS_Subset, FS_CardinalityType

LEMMA Names ==
  None \notin Keys /\ None \notin Runs /\ None \notin Call /\ None \notin Run
BY ReadsAssumption

-----------------------------------------------------------------------------

\* Callers that leave take themselves out of the count, and abort what they
\* were the last to wait for.
LEMMA LeaveBooks ==
  ASSUME NEW cs, CallTypes(calls), RunTypes(runs), Counted(calls, runs), CallTypes(cs),
         NEW S \in SUBSET Callers,
         \A c \in Callers \ S : cs[c] = calls[c],
         \A c \in S : cs[c] = None \/ cs[c].run = None
  PROVE  /\ RunTypes(Leave(S)) /\ Counted(cs, Leave(S))
         /\ \A r \in Runs :
              /\ (Leave(S)[r] = None) <=> (runs[r] = None)
              /\ runs[r] # None =>
                   /\ Leave(S)[r].key = runs[r].key
                   /\ Leave(S)[r].dropped = runs[r].dropped
                   /\ ~ runs[r].aborted /\ Leave(S)[r].aborted => WaitingIn(cs, r) = {}
<1> SUFFICES ASSUME NEW r \in Runs
             PROVE  /\ Leave(S)[r] \in Run \cup {None}
                    /\ (Leave(S)[r] = None) <=> (runs[r] = None)
                    /\ runs[r] # None =>
                         /\ Leave(S)[r].key = runs[r].key
                         /\ Leave(S)[r].dropped = runs[r].dropped
                         /\ Leave(S)[r].waiters = Cardinality(WaitingIn(cs, r))
                         /\ ~ Leave(S)[r].aborted => WaitingIn(cs, r) # {}
                         /\ ~ runs[r].aborted /\ Leave(S)[r].aborted
                            => WaitingIn(cs, r) = {}
  BY DEF RunTypes, Counted, Leave
<1> DEFINE W == WaitingIn(calls, r)
           n == Cardinality(S \cap W)
<1>1. WaitingIn(cs, r) = W \ S
  BY Names DEF WaitingIn
<1>0. IsFiniteSet(W) /\ Cardinality(W) \in Nat
  BY Finite
<1>2. /\ n \in Nat /\ n <= Cardinality(W)
      /\ Cardinality(W \ S) = Cardinality(W) - n
      /\ IsFiniteSet(W \ S)
  <2> HIDE DEF W
  <2>1. S \cap W = W \cap S
    OBVIOUS
  <2> QED
    BY <1>0, <2>1, FS_Intersection, FS_Difference, FS_CardinalityType
<1>3. (Cardinality(W \ S) = 0 <=> W \ S = {}) /\ Cardinality(W \ S) \in Nat
  BY <1>0, <1>2, FS_EmptySet, FS_CardinalityType
<1>4. Waiting(r) = W
  BY DEF Waiting, WaitsFor, WaitingIn, Callers
<1>5. Leave(S)[r] = IF runs[r] = None \/ n = 0 THEN runs[r]
                    ELSE [runs[r] EXCEPT !.waiters = @ - n, !.aborted = @ \/ runs[r].waiters = n]
  BY <1>4 DEF Leave
<1> HIDE DEF W, n
<1>6. CASE runs[r] = None
  BY <1>5, <1>6
<1>7. CASE runs[r] # None /\ n = 0
  <2>1. W \ S = W
    BY <1>0, <1>2, <1>7, FS_EmptySet, FS_Intersection DEF n
  <2> QED
    BY <1>1, <1>5, <1>7, <2>1 DEF RunTypes, Counted, W
<1>8. CASE runs[r] # None /\ n # 0
  <2>1. runs[r] \in Run /\ runs[r].waiters = Cardinality(W)
    BY <1>8 DEF RunTypes, Counted, W
  <2>2. Leave(S)[r] = [runs[r] EXCEPT !.waiters = @ - n, !.aborted = @ \/ runs[r].waiters = n]
    BY <1>5, <1>8
  <2>3. /\ Leave(S)[r].waiters = Cardinality(W \ S)
        /\ Leave(S)[r].key = runs[r].key /\ Leave(S)[r].dropped = runs[r].dropped
        /\ Leave(S)[r].aborted = (runs[r].aborted \/ Cardinality(W) = n)
    BY <1>0, <1>2, <2>1, <2>2 DEF Run
  <2>4. Leave(S)[r] \in Run
    <3>1. runs[r].waiters - n \in Nat
      BY <1>0, <1>2, <1>3, <2>1
    <3>2. (runs[r].aborted \/ runs[r].waiters = n) \in BOOLEAN
      OBVIOUS
    <3> QED
      BY <2>1, <2>2, <3>1, <3>2 DEF Run
  <2>5. Cardinality(W) = n <=> W \ S = {}
    BY <1>0, <1>2, <1>3
  <2> QED
    BY <1>1, <1>8, <2>3, <2>4, <2>5, Names
<1> QED
  BY <1>6, <1>7, <1>8

\* A call that awaits no request yet
Idle(c) == calls[c] = None \/ calls[c].run = None

\* A call goes without having waited.
LEMMA SkipCounted ==
  ASSUME NEW rs, CallTypes(calls), Counted(calls, rs), NEW c \in Callers, Idle(c)
  PROVE  Counted([calls EXCEPT ![c] = None], rs)
<1> DEFINE cs == [calls EXCEPT ![c] = None]
<1>1. \A r \in Runs : WaitingIn(cs, r) = WaitingIn(calls, r)
  BY Names DEF WaitingIn, Idle, CallTypes
<1> QED
  BY <1>1 DEF Counted

\* A call that begins to wait is one more.
LEMMA WaitersGrow ==
  ASSUME CallTypes(calls), NEW c \in Callers, Idle(c), NEW k \in Keys, NEW r \in Runs
  PROVE  LET cs == [calls EXCEPT ![c] = [key |-> k, run |-> r]] IN
         /\ CallTypes(cs)
         /\ WaitingIn(cs, r) # {}
         /\ Cardinality(WaitingIn(cs, r)) = Cardinality(WaitingIn(calls, r)) + 1
         /\ \A q \in Runs \ {r} : WaitingIn(cs, q) = WaitingIn(calls, q)
<1> DEFINE call == [key |-> k, run |-> r]
           cs == [calls EXCEPT ![c] = call]
<1>1. call \in Call /\ call # None /\ call.run = r
  BY Names DEF Call
<1>2. /\ CallTypes(cs) /\ cs[c] = call
      /\ \A x \in Callers : x # c => cs[x] = calls[x]
  BY <1>1 DEF CallTypes
<1>3. WaitingIn(cs, r) = WaitingIn(calls, r) \cup {c}
  BY <1>1, <1>2 DEF WaitingIn
<1>4. c \notin WaitingIn(calls, r)
  BY Names DEF WaitingIn, Idle
<1>5. \A q \in Runs \ {r} : WaitingIn(cs, q) = WaitingIn(calls, q)
  BY <1>1, <1>2, Names DEF WaitingIn, Idle
<1>6. Cardinality(WaitingIn(cs, r)) = Cardinality(WaitingIn(calls, r)) + 1
  BY <1>3, <1>4, Finite, FS_AddElement
<1> QED
  BY <1>2, <1>3, <1>5, <1>6

\* The map only cares for the requests' keys, and who was cancelled.
LEMMA SameMapped ==
  ASSUME NEW rs, NEW new, NEW sl, SlotTypes(sl), Mapped(sl, rs),
         \A q \in Runs : /\ new[q] = None <=> rs[q] = None
                         /\ rs[q] # None => /\ new[q].key = rs[q].key
                                            /\ new[q].dropped = rs[q].dropped
  PROVE  Mapped(sl, new)
<1>1. ASSUME NEW k \in Keys, sl[k] # None
      PROVE  new[sl[k]] # None /\ new[sl[k]].key = k /\ ~ new[sl[k]].dropped
  BY <1>1 DEF Mapped, SlotTypes
<1>2. ASSUME NEW q \in Runs, new[q] # None, ~ new[q].dropped PROVE sl[new[q].key] = q
  BY <1>2 DEF Mapped
<1> QED
  BY <1>1, <1>2 DEF Mapped

\* Whoever awaits a request still does while it is out.
LEMMA SameTied ==
  ASSUME NEW rs, NEW new, NEW hs, CallTypes(calls), Tied(calls, rs, hs),
         \A r \in Runs : rs[r] # None => new[r] # None
  PROVE  Tied(calls, new, hs)
<1> SUFFICES ASSUME NEW c \in Callers, calls[c] # None, calls[c].run # None
             PROVE  new[calls[c].run] # None
  BY DEF Tied
<1>1. calls[c] \in Call
  BY DEF CallTypes
<1>2. calls[c].run \in Runs
  BY <1>1 DEF Call
<1> QED
  BY <1>2 DEF Tied

LEMMA JoinBooks ==
  ASSUME NEW rs, NEW sl, NEW hs, Books(calls, rs, sl, hs),
         NEW c \in Callers, Idle(c), NEW k \in Keys, NEW r \in Runs, rs[r] # None
  PROVE  LET cs == [calls EXCEPT ![c] = [key |-> k, run |-> r]]
             new == [rs EXCEPT ![r].waiters = @ + 1]
         IN RunTypes(new) /\ Counted(cs, new) /\ Mapped(sl, new)
            /\ \A q \in Runs : new[q] = None <=> rs[q] = None
<1> DEFINE cs == [calls EXCEPT ![c] = [key |-> k, run |-> r]]
           new == [rs EXCEPT ![r].waiters = @ + 1]
<1>1. /\ CallTypes(calls) /\ RunTypes(rs) /\ SlotTypes(sl)
      /\ Counted(calls, rs) /\ Mapped(sl, rs)
  BY DEF Books
<1>2. /\ WaitingIn(cs, r) # {}
      /\ Cardinality(WaitingIn(cs, r)) = Cardinality(WaitingIn(calls, r)) + 1
      /\ \A q \in Runs \ {r} : WaitingIn(cs, q) = WaitingIn(calls, q)
  BY <1>1, WaitersGrow
<1>3. rs[r] \in Run /\ rs[r].waiters \in Nat
  BY <1>1 DEF RunTypes, Run
<1>4. /\ new[r] = [rs[r] EXCEPT !.waiters = rs[r].waiters + 1]
      /\ \A q \in Runs : q # r => new[q] = rs[q]
  BY <1>1 DEF RunTypes
<1>5. /\ new[r] \in Run /\ new[r] # None /\ new[r].waiters = rs[r].waiters + 1
      /\ new[r].key = rs[r].key /\ new[r].dropped = rs[r].dropped
  BY <1>3, <1>4, Names DEF Run
<1>6. RunTypes(new)
  BY <1>1, <1>5 DEF RunTypes
<1> HIDE DEF cs, new
<1>7. Counted(cs, new)
  BY <1>1, <1>2, <1>4, <1>5 DEF Counted
<1>8. Mapped(sl, new)
  <2>1. \A q \in Runs : /\ new[q] = None <=> rs[q] = None
                        /\ rs[q] # None => /\ new[q].key = rs[q].key
                                           /\ new[q].dropped = rs[q].dropped
    BY <1>4, <1>5
  <2> QED
    BY <1>1, <2>1, SameMapped
<1> QED
  BY <1>4, <1>5, <1>6, <1>7, <1>8 DEF cs, new

LEMMA StartBooks ==
  ASSUME NEW rs, NEW sl, NEW hs, Books(calls, rs, sl, hs),
         NEW c \in Callers, Idle(c), NEW k \in Keys, NEW r \in Runs,
         rs[r] = None, sl[k] = None
  PROVE  LET cs == [calls EXCEPT ![c] = [key |-> k, run |-> r]]
             new == [rs EXCEPT ![r] = NewRun(k, rs)]
             map == [sl EXCEPT ![k] = r]
         IN RunTypes(new) /\ SlotTypes(map) /\ Counted(cs, new) /\ Mapped(map, new)
            /\ new[r] # None /\ \A q \in Runs : q # r => new[q] = rs[q]
<1> DEFINE cs == [calls EXCEPT ![c] = [key |-> k, run |-> r]]
           new == [rs EXCEPT ![r] = NewRun(k, rs)]
           map == [sl EXCEPT ![k] = r]
<1>1. /\ CallTypes(calls) /\ RunTypes(rs) /\ SlotTypes(sl)
      /\ Counted(calls, rs) /\ Mapped(sl, rs) /\ Tied(calls, rs, hs)
  BY DEF Books
<1>2. WaitingIn(calls, r) = {}
  BY <1>1, Names DEF WaitingIn, Tied
<1>3. /\ WaitingIn(cs, r) # {} /\ Cardinality(WaitingIn(cs, r)) = 1
      /\ \A q \in Runs \ {r} : WaitingIn(cs, q) = WaitingIn(calls, q)
  <2>1. /\ WaitingIn(cs, r) # {}
        /\ Cardinality(WaitingIn(cs, r)) = Cardinality(WaitingIn(calls, r)) + 1
        /\ \A q \in Runs \ {r} : WaitingIn(cs, q) = WaitingIn(calls, q)
    BY <1>1, WaitersGrow
  <2> HIDE DEF cs
  <2>2. Cardinality(WaitingIn(calls, r)) = 0
    BY <1>2, FS_EmptySet
  <2> QED
    BY <2>1, <2>2
<1>4. NewRun(k, rs) \in Run
  <2>1. 0 \in Versions /\ 1 \in Nat
    BY ReadsAssumption DEF Versions
  <2>2. (\A q \in Runs : rs[q] = None \/ rs[q].key # k) \in BOOLEAN
    OBVIOUS
  <2> QED
    BY <2>1, <2>2 DEF NewRun, Run
<1>5. /\ new[r] \in Run /\ new[r] # None /\ new[r].waiters = 1
      /\ new[r].key = k /\ ~ new[r].dropped
      /\ \A q \in Runs : q # r => new[q] = rs[q]
  BY <1>1, <1>4, Names DEF RunTypes, NewRun
<1>6. RunTypes(new)
  BY <1>1, <1>4 DEF RunTypes
<1>7. /\ SlotTypes(map) /\ map[k] = r
      /\ \A x \in Keys : x # k => map[x] = sl[x]
  BY <1>1 DEF SlotTypes
<1> HIDE DEF cs, new, map
<1>8. Counted(cs, new)
  BY <1>1, <1>3, <1>5 DEF Counted
<1>9. Mapped(map, new)
  <2>1. ASSUME NEW x \in Keys, map[x] # None
        PROVE  new[map[x]] # None /\ new[map[x]].key = x /\ ~ new[map[x]].dropped
    <3>1. CASE x = k
      BY <1>5, <1>7, <3>1
    <3>2. CASE x # k
      <4>1. map[x] = sl[x] /\ sl[x] \in Runs /\ rs[sl[x]] # None /\ sl[x] # r
        BY <1>1, <1>7, <2>1, <3>2 DEF Mapped, SlotTypes
      <4> QED
        BY <1>1, <1>5, <2>1, <4>1 DEF Mapped
    <3> QED
      BY <3>1, <3>2
  <2>2. ASSUME NEW q \in Runs, new[q] # None, ~ new[q].dropped PROVE map[new[q].key] = q
    <3>1. CASE q = r
      BY <1>5, <1>7, <3>1
    <3>2. CASE q # r
      <4>1. /\ new[q] = rs[q] /\ rs[q] # None /\ sl[rs[q].key] = q
            /\ rs[q].key \in Keys
        BY <1>1, <1>5, <2>2, <3>2 DEF Mapped, RunTypes, Run
      <4>2. rs[q].key # k
        BY <4>1, Names
      <4> QED
        BY <1>7, <4>1, <4>2
    <3> QED
      BY <3>1, <3>2
  <2> QED
    BY <2>1, <2>2 DEF Mapped
<1> QED
  BY <1>5, <1>6, <1>7, <1>8, <1>9 DEF cs, new, map

\* A hook stays on its key while one of its calls goes on to wait, or ends.
LEMMA CallGoesOn ==
  ASSUME NEW rs, NEW new, CallTypes(calls), HookTypes(hooks), Tied(calls, rs, hooks),
         Busy(calls, hooks),
         \A q \in Runs : rs[q] # None => new[q] # None,
         NEW c \in Callers, NEW call \in Call \cup {None}, NEW hook \in Hook,
         hook.key = hooks[c[1]].key, hook.key # None,
         hook.status = "fetching" => call # None,
         call # None => call.run \in Runs /\ new[call.run] # None
  PROVE  LET cs == [calls EXCEPT ![c] = call]
             hs == [hooks EXCEPT ![c[1]] = hook]
         IN CallTypes(cs) /\ HookTypes(hs) /\ Tied(cs, new, hs) /\ Busy(cs, hs)
<1> DEFINE cs == [calls EXCEPT ![c] = call]
           hs == [hooks EXCEPT ![c[1]] = hook]
<1>1. c[1] \in Hooks /\ c[2] \in Kinds /\ c = <<c[1], c[2]>>
  BY DEF Callers
<1>2. /\ CallTypes(cs) /\ cs[c] = call
      /\ \A x \in Callers : x # c => cs[x] = calls[x]
  BY DEF CallTypes
<1>3. /\ HookTypes(hs) /\ hs[c[1]] = hook
      /\ \A h \in Hooks : h # c[1] => hs[h] = hooks[h]
  BY <1>1 DEF HookTypes
<1>4. \A h \in Hooks : hs[h].key = hooks[h].key
  BY <1>3
<1> HIDE DEF cs, hs
<1>5. Tied(cs, new, hs)
  <2> SUFFICES ASSUME NEW x \in Callers, cs[x] # None
               PROVE  /\ cs[x].run # None => new[cs[x].run] # None
                      /\ cs[x].run = None => x[2] = "mount"
                      /\ x[2] # "trigger" => hs[x[1]].key # None
    BY DEF Tied
  <2>1. CASE x = c
    BY <1>2, <1>3, <2>1, Names
  <2>2. CASE x # c
    <3>1. /\ cs[x] = calls[x] /\ x[1] \in Hooks /\ calls[x] \in Call
      BY <1>2, <2>2 DEF Callers, CallTypes
    <3>2. calls[x].run # None => calls[x].run \in Runs
      BY <3>1 DEF Call
    <3> QED
      BY <1>4, <3>1, <3>2 DEF Tied
  <2> QED
    BY <2>1, <2>2
<1>6. Busy(cs, hs)
  <2> SUFFICES ASSUME NEW h \in Hooks, hs[h].key # None, hs[h].status = "fetching"
               PROVE  \E m \in Kinds : cs[<<h, m>>] # None
    BY DEF Busy
  <2>1. CASE h = c[1]
    BY <1>1, <1>2, <1>3, <2>1
  <2>2. CASE h # c[1]
    <3>1. PICK m \in Kinds : calls[<<h, m>>] # None
      BY <1>3, <2>2 DEF Busy
    <3>2. <<h, m>> \in Callers /\ <<h, m>> # c
      BY <1>1, <2>2 DEF Callers
    <3> QED
      BY <1>2, <3>1, <3>2
  <2> QED
    BY <2>1, <2>2
<1> QED
  BY <1>2, <1>3, <1>5, <1>6 DEF cs, hs

LEMMA RevalidateBooks ==
  ASSUME NEW rs, NEW sl, Books(calls, rs, sl, hooks), NEW c \in Callers, Idle(c),
         NEW seen \in Hook, seen.key = hooks[c[1]].key, seen.key # None,
         Revalidate(c, seen, sl, rs)
  PROVE  Books(calls', runs', slot', hooks')
<1>1. /\ CallTypes(calls) /\ RunTypes(rs) /\ SlotTypes(sl) /\ HookTypes(hooks)
      /\ Counted(calls, rs) /\ Mapped(sl, rs) /\ Tied(calls, rs, hooks)
      /\ Busy(calls, hooks) /\ seen.key \in Keys
  BY DEF Books, Hook
<1> DEFINE hook(s) == [seen EXCEPT !.status = s]
<1>2. /\ hook("paused") \in Hook /\ hook("paused").key = seen.key
      /\ hook("paused").status = "paused"
      /\ hook("fetching") \in Hook /\ hook("fetching").key = seen.key
  BY DEF Hook
<1>3. CASE /\ hooks' = [hooks EXCEPT ![c[1]] = hook("paused")]
           /\ calls' = [calls EXCEPT ![c] = None]
           /\ slot' = sl /\ runs' = rs
  <2>1. CallTypes(calls') /\ HookTypes(hooks') /\ Tied(calls', rs, hooks') /\ Busy(calls', hooks')
    <3> HIDE DEF hook
    <3> QED
      BY <1>1, <1>2, <1>3, CallGoesOn
  <2> QED
    BY <1>1, <1>3, <2>1, SkipCounted DEF Books
<1>4. CASE /\ hooks' = [hooks EXCEPT ![c[1]] = hook("fetching")]
           /\ \E r \in Runs : Join(c, seen.key, r, sl, rs) \/ Start(c, seen.key, r, sl, rs)
  <2>1. PICK r \in Runs : Join(c, seen.key, r, sl, rs) \/ Start(c, seen.key, r, sl, rs)
    BY <1>4
  <2> DEFINE call == [key |-> seen.key, run |-> r]
  <2>2. call \in Call /\ call # None /\ call.run = r
    BY <1>1, Names DEF Call
  <2>3. calls' = [calls EXCEPT ![c] = call]
    BY <2>1 DEF Join, Start
  <2>7. hooks' = [hooks EXCEPT ![c[1]] = hook("fetching")]
    BY <1>4
  <2>8. call \in Call \cup {None} /\ hook("fetching") \in Hook
        /\ hook("fetching").key = hooks[c[1]].key /\ hook("fetching").key # None
    BY <1>2, <2>2
  <2> HIDE DEF hook
  <2>4. ASSUME \A q \in Runs : rs[q] # None => runs'[q] # None, runs'[r] # None
        PROVE  /\ CallTypes(calls') /\ HookTypes(hooks')
               /\ Tied(calls', runs', hooks') /\ Busy(calls', hooks')
    <3>1. call # None => call.run \in Runs /\ runs'[call.run] # None
      BY <2>2, <2>4
    <3> DEFINE fetching == hook("fetching")
    <3>2. call \in Call \cup {None} /\ call # None /\ fetching \in Hook
          /\ fetching.key = hooks[c[1]].key /\ fetching.key # None
      BY <2>2, <2>8
    <3> HIDE DEF call, fetching
    <3>3. LET cs == [calls EXCEPT ![c] = call]
              hs == [hooks EXCEPT ![c[1]] = fetching]
          IN CallTypes(cs) /\ HookTypes(hs) /\ Tied(cs, runs', hs) /\ Busy(cs, hs)
      BY <1>1, <2>4, <3>1, <3>2, CallGoesOn
    <3> QED
      BY <2>3, <2>7, <3>3 DEF fetching
  <2>5. CASE Join(c, seen.key, r, sl, rs)
    <3>1. /\ sl[seen.key] = r /\ slot' = sl
          /\ runs' = [rs EXCEPT ![r].waiters = @ + 1]
      BY <2>5 DEF Join
    <3>2. rs[r] # None
      BY <1>1, <3>1, Names DEF Mapped
    <3>4. LET cs == [calls EXCEPT ![c] = [key |-> seen.key, run |-> r]]
              new == [rs EXCEPT ![r].waiters = @ + 1]
          IN RunTypes(new) /\ Counted(cs, new) /\ Mapped(sl, new)
             /\ \A q \in Runs : new[q] = None <=> rs[q] = None
      BY <1>1, <3>2, JoinBooks
    <3>3. /\ RunTypes(runs') /\ Counted(calls', runs') /\ Mapped(sl, runs')
          /\ \A q \in Runs : runs'[q] = None <=> rs[q] = None
      BY <2>3, <3>1, <3>4
    <3> QED
      BY <1>1, <2>4, <3>1, <3>2, <3>3 DEF Books
  <2>6. CASE Start(c, seen.key, r, sl, rs)
    <3>1. /\ sl[seen.key] = None /\ rs[r] = None
          /\ runs' = [rs EXCEPT ![r] = NewRun(seen.key, rs)]
          /\ slot' = [sl EXCEPT ![seen.key] = r]
      BY <2>6 DEF Start
    <3>3. LET cs == [calls EXCEPT ![c] = [key |-> seen.key, run |-> r]]
              new == [rs EXCEPT ![r] = NewRun(seen.key, rs)]
              map == [sl EXCEPT ![seen.key] = r]
          IN RunTypes(new) /\ SlotTypes(map) /\ Counted(cs, new) /\ Mapped(map, new)
             /\ new[r] # None /\ \A q \in Runs : q # r => new[q] = rs[q]
      <4>1. sl[seen.key] = None /\ rs[r] = None /\ seen.key \in Keys
        BY <1>1, <3>1
      <4> DEFINE k == seen.key
      <4> HIDE DEF k
      <4>2. LET cs == [calls EXCEPT ![c] = [key |-> k, run |-> r]]
                new == [rs EXCEPT ![r] = NewRun(k, rs)]
                map == [sl EXCEPT ![k] = r]
            IN RunTypes(new) /\ SlotTypes(map) /\ Counted(cs, new) /\ Mapped(map, new)
               /\ new[r] # None /\ \A q \in Runs : q # r => new[q] = rs[q]
        BY <4>1, StartBooks DEF k
      <4> QED
        BY <4>2 DEF k
    <3>2. /\ RunTypes(runs') /\ SlotTypes(slot') /\ Counted(calls', runs')
          /\ Mapped(slot', runs') /\ runs'[r] # None
          /\ \A q \in Runs : q # r => runs'[q] = rs[q]
      BY <2>3, <3>1, <3>3
    <3> QED
      BY <2>4, <3>1, <3>2 DEF Books
  <2> QED
    BY <2>1, <2>5, <2>6
<1> QED
  BY <1>3, <1>4 DEF Revalidate

-----------------------------------------------------------------------------

\* A request settles: whoever waited for it goes on, and its slot is free
\* unless another has it.
LEMMA SettleBooks ==
  ASSUME Books(calls, runs, slot, hooks), NEW r \in Runs, runs[r] # None,
         NEW out, Settle(r, out)
  PROVE  Books(calls', runs', slot', hooks')
<1>1. /\ CallTypes(calls) /\ RunTypes(runs) /\ SlotTypes(slot) /\ HookTypes(hooks)
      /\ Counted(calls, runs) /\ Mapped(slot, runs) /\ Tied(calls, runs, hooks)
      /\ Busy(calls, hooks)
  BY DEF Books
<1>2. \A c \in Callers : calls'[c] = IF WaitsFor(c, r) THEN None ELSE calls[c]
  BY DEF Settle, Callers
<1>3. runs' = [runs EXCEPT ![r] = None] /\ RunTypes(runs')
      /\ runs'[r] = None /\ \A q \in Runs : q # r => runs'[q] = runs[q]
  BY <1>1 DEF Settle, RunTypes
<1>4. CallTypes(calls')
  BY <1>1 DEF Settle, Callers, CallTypes
<1>5. Counted(calls', runs')
  <2>1. \A q \in Runs \ {r} : WaitingIn(calls', q) = WaitingIn(calls, q)
    BY <1>2 DEF WaitingIn, WaitsFor
  <2> QED
    BY <1>1, <1>3, <2>1 DEF Counted
<1>6. SlotTypes(slot') /\ Mapped(slot', runs')
  <2>1. \A k \in Keys : slot'[k] = IF slot[k] = r THEN None ELSE slot[k]
    BY DEF Settle, SlotLeft
  <2>2. SlotTypes(slot')
    BY <1>1 DEF Settle, SlotLeft, SlotTypes
  <2>3. ASSUME NEW k \in Keys, slot'[k] # None
        PROVE  runs'[slot'[k]] # None /\ runs'[slot'[k]].key = k /\ ~ runs'[slot'[k]].dropped
    BY <1>1, <1>3, <2>1, <2>3 DEF Mapped, SlotTypes
  <2>4. ASSUME NEW q \in Runs, runs'[q] # None, ~ runs'[q].dropped
        PROVE  slot'[runs'[q].key] = q
    <3>1. q # r /\ runs'[q] = runs[q] /\ runs[q].key \in Keys
      BY <1>1, <1>3, <2>4 DEF RunTypes, Run
    <3> QED
      BY <1>1, <2>1, <2>4, <3>1 DEF Mapped
  <2> QED
    BY <2>2, <2>3, <2>4 DEF Mapped
<1>7. \A h \in Hooks : /\ hooks'[h] \in Hook /\ hooks'[h].key = hooks[h].key
                       /\ hooks'[h] = hooks[h] \/ hooks'[h].status = "idle"
  <2> SUFFICES ASSUME NEW h \in Hooks
               PROVE  /\ hooks'[h] \in Hook /\ hooks'[h].key = hooks[h].key
                      /\ hooks'[h] = hooks[h] \/ hooks'[h].status = "idle"
    OBVIOUS
  <2>1. hooks'[h] = hooks[h] \/ hooks'[h] = Delivered(h, r, out)
    BY DEF Settle
  <2>2. hooks[h] \in Hook /\ runs[r].key \in Keys
    BY <1>1 DEF HookTypes, RunTypes, Run
  <2>3. /\ Delivered(h, r, out) \in Hook /\ Delivered(h, r, out).key = hooks[h].key
        /\ Delivered(h, r, out).status = "idle"
    BY <2>2 DEF Delivered, Hook
  <2> QED
    BY <2>1, <2>2, <2>3
<1>8. HookTypes(hooks')
  BY <1>7 DEF HookTypes, Settle
<1>9. Tied(calls', runs', hooks')
  <2> SUFFICES ASSUME NEW x \in Callers, calls'[x] # None
               PROVE  /\ calls'[x].run # None => runs'[calls'[x].run] # None
                      /\ calls'[x].run = None => x[2] = "mount"
                      /\ x[2] # "trigger" => hooks'[x[1]].key # None
    BY DEF Tied
  <2>1. /\ calls'[x] = calls[x] /\ calls[x] \in Call /\ calls[x].run # r
        /\ x[1] \in Hooks
    BY <1>1, <1>2 DEF CallTypes, WaitsFor, Callers
  <2>2. calls[x].run # None => calls[x].run \in Runs
    BY <2>1 DEF Call
  <2> QED
    BY <1>1, <1>3, <1>7, <2>1, <2>2 DEF Tied
<1>10. Busy(calls', hooks')
  <2> SUFFICES ASSUME NEW h \in Hooks, hooks'[h].key # None, hooks'[h].status = "fetching"
               PROVE  \E m \in Kinds : calls'[<<h, m>>] # None
    BY DEF Busy
  <2>1. hooks'[h] = hooks[h] /\ hooks[h].key # None
    BY <1>7
  <2>2. PICK m \in Kinds : calls[<<h, m>>] # None
    BY <1>1, <2>1 DEF Busy
  <2>3. ~ WaitsFor(<<h, m>>, r)
    <3>1. ASSUME WaitsFor(<<h, m>>, r) PROVE FALSE
      <4>1. hooks'[h] = Delivered(h, r, out)
        BY <2>1, <3>1 DEF Settle, Mounted
      <4>2. hooks[h] \in Hook
        BY <1>1 DEF HookTypes
      <4> QED
        BY <2>1, <4>1, <4>2 DEF Delivered, Hook
    <3> QED
      BY <3>1
  <2> QED
    BY <1>2, <2>2, <2>3 DEF Callers
<1> QED
  BY <1>3, <1>4, <1>5, <1>6, <1>8, <1>9, <1>10 DEF Books

-----------------------------------------------------------------------------

LEMMA ForgetTypes ==
  ASSUME TimerTypes, NEW k \in Keys
  PROVE  /\ timers[k].live < MaxTimers =>
              ScheduleForget(k) \in Timers /\ (ScheduleForget(k).held => ScheduleForget(k).live > 0)
         /\ CancelForget(k) \in Timers /\ (CancelForget(k).held => CancelForget(k).live > 0)
<1>1. /\ timers[k] \in Timers /\ (timers[k].held => timers[k].live > 0)
      /\ MaxTimers \in Nat
  BY ReadsAssumption DEF TimerTypes
<1>4. timers[k].live \in Nat /\ timers[k].live <= MaxTimers
      /\ timers[k].held \in BOOLEAN /\ timers[k].deleting \in BOOLEAN
  BY <1>1 DEF Timers
<1>5. ASSUME NEW n \in 0 .. MaxTimers, NEW b \in BOOLEAN
      PROVE  LET t == [timers[k] EXCEPT !.live = n, !.held = b] IN
             t \in Timers /\ t.live = n /\ t.held = b
  BY <1>1, <1>5 DEF Timers
<1>2. ASSUME timers[k].live < MaxTimers
      PROVE  ScheduleForget(k) \in Timers
             /\ (ScheduleForget(k).held => ScheduleForget(k).live > 0)
  <2>1. timers[k].live + 1 \in 0 .. MaxTimers /\ timers[k].live + 1 > 0
    BY <1>1, <1>2, <1>4
  <2>2. \/ ScheduleForget(k) = timers[k]
        \/ ScheduleForget(k) = [timers[k] EXCEPT !.live = timers[k].live + 1, !.held = TRUE]
    BY DEF ScheduleForget
  <2> QED
    BY <1>1, <1>5, <2>1, <2>2
<1>3. CancelForget(k) \in Timers /\ (CancelForget(k).held => CancelForget(k).live > 0)
  <2>1. CASE timers[k].held
    <3>1. timers[k].live - 1 \in 0 .. MaxTimers
      BY <1>1, <1>4, <2>1
    <3>2. CancelForget(k) = [timers[k] EXCEPT !.live = timers[k].live - 1, !.held = FALSE]
      BY <2>1 DEF CancelForget
    <3> QED
      BY <1>5, <3>1, <3>2
  <2>2. CASE ~ timers[k].held
    BY <1>1, <2>2 DEF CancelForget
  <2> QED
    BY <2>1, <2>2
<1> QED
  BY <1>2, <1>3

\* The types of the timers after any of them is replaced
LEMMA TimersSet ==
  ASSUME TimerTypes, NEW k \in Keys, NEW t \in Timers, t.held => t.live > 0,
         timers' = [timers EXCEPT ![k] = t]
  PROVE  TimerTypes'
BY DEF TimerTypes

LEMMA MountBooks ==
  ASSUME ReadsInv, NEW h \in Hooks, NEW k \in Keys, Mount(h, k)
  PROVE  ReadsInv'
<1> DEFINE call == [key |-> k, run |-> None]
           c == <<h, "mount">>
<1>1. /\ CallTypes(calls) /\ RunTypes(runs) /\ SlotTypes(slot) /\ HookTypes(hooks)
      /\ Counted(calls, runs) /\ Mapped(slot, runs) /\ Tied(calls, runs, hooks)
      /\ Busy(calls, hooks)
  BY DEF ReadsInv, Books
<1>2. call \in Call /\ call # None /\ call.run = None /\ c \in Callers
      /\ "mount" \in Kinds /\ Initial(k) \in Hook /\ Initial(k).key = k /\ k # None
  BY Names DEF Call, Callers, Kinds, Initial, Hook
<1>3. /\ calls' = [calls EXCEPT ![c] = call] /\ calls'[c] = call /\ CallTypes(calls')
      /\ \A x \in Callers : x # c => calls'[x] = calls[x]
  BY <1>1, <1>2 DEF Mount, CallTypes
<1>4. /\ hooks'[h] = Initial(k) /\ HookTypes(hooks')
      /\ \A x \in Hooks : x # h => hooks'[x] = hooks[x]
      /\ UNCHANGED <<server, record, slot, runs>>
  BY <1>1, <1>2 DEF Mount, HookTypes
<1>5. calls[c] = None
  BY <1>2 DEF Mount
<1> HIDE DEF call, c
<1>6. Counted(calls', runs)
  <2>1. \A r \in Runs : WaitingIn(calls', r) = WaitingIn(calls, r)
    BY <1>2, <1>3, <1>5, Names DEF WaitingIn
  <2> QED
    BY <1>1, <2>1 DEF Counted
<1>7. Tied(calls', runs, hooks')
  <2> SUFFICES ASSUME NEW x \in Callers, calls'[x] # None
               PROVE  /\ calls'[x].run # None => runs[calls'[x].run] # None
                      /\ calls'[x].run = None => x[2] = "mount"
                      /\ x[2] # "trigger" => hooks'[x[1]].key # None
    BY DEF Tied
  <2>1. CASE x = c
    BY <1>2, <1>3, <1>4, <2>1 DEF c
  <2>2. CASE x # c
    BY <1>1, <1>2, <1>3, <1>4, <2>2 DEF Tied, Callers
  <2> QED
    BY <2>1, <2>2
<1>8. Busy(calls', hooks')
  <2> SUFFICES ASSUME NEW x \in Hooks, hooks'[x].key # None, hooks'[x].status = "fetching"
               PROVE  \E m \in Kinds : calls'[<<x, m>>] # None
    BY DEF Busy
  <2>1. CASE x = h
    BY <1>2, <1>3, <2>1 DEF c
  <2>2. CASE x # h
    <3>1. PICK m \in Kinds : calls[<<x, m>>] # None
      BY <1>1, <1>4, <2>2 DEF Busy
    <3>2. <<x, m>> \in Callers /\ <<x, m>> # c
      BY <2>2 DEF Callers, c
    <3> QED
      BY <1>3, <3>1, <3>2
  <2> QED
    BY <2>1, <2>2
<1>9. TimerTypes'
  <2>1. timers' = [timers EXCEPT ![k] = CancelForget(k)]
    BY DEF Mount
  <2> QED
    BY <2>1, ForgetTypes, TimersSet DEF ReadsInv
<1>10. DataTypes'
  BY <1>4 DEF ReadsInv, DataTypes
<1>11. late' \subseteq Hooks
  BY DEF ReadsInv, Mount
<1> QED
  BY <1>1, <1>3, <1>4, <1>6, <1>7, <1>8, <1>9, <1>10, <1>11 DEF ReadsInv, Books

LEMMA ChangeKeyBooks ==
  ASSUME ReadsInv, NEW h \in Hooks, NEW k \in Keys, ChangeKey(h, k)
  PROVE  ReadsInv'
<1> DEFINE call == [key |-> k, run |-> None]
           c == <<h, "mount">>
           old == hooks[h].key
<1>1. /\ CallTypes(calls) /\ RunTypes(runs) /\ SlotTypes(slot) /\ HookTypes(hooks)
      /\ Counted(calls, runs) /\ Mapped(slot, runs) /\ Tied(calls, runs, hooks)
      /\ Busy(calls, hooks)
  BY DEF ReadsInv, Books
<1>2. call \in Call /\ call # None /\ call.run = None /\ c \in Callers
      /\ "mount" \in Kinds /\ Initial(k) \in Hook /\ Initial(k).key = k /\ k # None
  BY Names DEF Call, Callers, Kinds, Initial, Hook
<1>3. /\ calls' = [calls EXCEPT ![c] = call] /\ calls'[c] = call /\ CallTypes(calls')
      /\ \A x \in Callers : x # c => calls'[x] = calls[x]
  BY <1>1, <1>2 DEF ChangeKey, CallTypes
<1>4. /\ hooks'[h] = Initial(k) /\ HookTypes(hooks')
      /\ \A x \in Hooks : x # h => hooks'[x] = hooks[x]
      /\ UNCHANGED <<server, record, slot>> /\ runs' = Leave({c})
  BY <1>1, <1>2 DEF ChangeKey, HookTypes
<1> HIDE DEF call
<1>5. /\ RunTypes(runs') /\ Counted(calls', runs')
      /\ \A r \in Runs :
           /\ (runs'[r] = None) <=> (runs[r] = None)
           /\ runs[r] # None => /\ runs'[r].key = runs[r].key
                                /\ runs'[r].dropped = runs[r].dropped
  <2> DEFINE T == {c}
  <2>1. /\ T \in SUBSET Callers /\ runs' = Leave(T) /\ CallTypes(calls')
        /\ \A x \in Callers \ T : calls'[x] = calls[x]
        /\ \A x \in T : calls'[x] = None \/ calls'[x].run = None
    BY <1>2, <1>3, <1>4
  <2> HIDE DEF c, T
  <2>2. RunTypes(Leave(T)) /\ Counted(calls', Leave(T))
    BY <1>1, <2>1, LeaveBooks
  <2>3. \A r \in Runs :
           /\ (Leave(T)[r] = None) <=> (runs[r] = None)
           /\ runs[r] # None => /\ Leave(T)[r].key = runs[r].key
                                /\ Leave(T)[r].dropped = runs[r].dropped
    BY <1>1, <2>1, LeaveBooks
  <2> QED
    BY <2>1, <2>2, <2>3
<1>6. Mapped(slot, runs')
  BY <1>1, <1>5, SameMapped
<1> HIDE DEF c
<1>7. Tied(calls', runs', hooks')
  <2> SUFFICES ASSUME NEW x \in Callers, calls'[x] # None
               PROVE  /\ calls'[x].run # None => runs'[calls'[x].run] # None
                      /\ calls'[x].run = None => x[2] = "mount"
                      /\ x[2] # "trigger" => hooks'[x[1]].key # None
    BY DEF Tied
  <2>1. CASE x = c
    BY <1>2, <1>3, <1>4, <2>1 DEF c
  <2>2. CASE x # c
    <3>1. calls'[x] = calls[x] /\ calls[x] \in Call /\ x[1] \in Hooks
      BY <1>1, <1>3, <2>2 DEF CallTypes, Callers
    <3>2. calls[x].run # None => calls[x].run \in Runs
      BY <3>1 DEF Call
    <3>3. /\ calls[x].run # None => runs[calls[x].run] # None
          /\ calls[x].run = None => x[2] = "mount"
          /\ x[2] # "trigger" => hooks[x[1]].key # None
      BY <1>1, <3>1 DEF Tied
    <3>4. hooks[x[1]].key # None => hooks'[x[1]].key # None
      BY <1>2, <1>4, <3>1
    <3> QED
      BY <1>5, <3>1, <3>2, <3>3, <3>4
  <2> QED
    BY <2>1, <2>2
<1>8. Busy(calls', hooks')
  <2> SUFFICES ASSUME NEW x \in Hooks, hooks'[x].key # None, hooks'[x].status = "fetching"
               PROVE  \E m \in Kinds : calls'[<<x, m>>] # None
    BY DEF Busy
  <2>1. CASE x = h
    BY <1>2, <1>3, <2>1 DEF c
  <2>2. CASE x # h
    <3>1. PICK m \in Kinds : calls[<<x, m>>] # None
      BY <1>1, <1>4, <2>2 DEF Busy
    <3>2. <<x, m>> \in Callers /\ <<x, m>> # c
      BY <2>2 DEF Callers, c
    <3> QED
      BY <1>3, <3>1, <3>2
  <2> QED
    BY <2>1, <2>2
<1>9. TimerTypes'
  <2>1. /\ timers' = [timers EXCEPT ![old] = ScheduleForget(old), ![k] = CancelForget(k)]
        /\ old \in Keys /\ timers[old].live < MaxTimers /\ TimerTypes
    BY <1>1 DEF ChangeKey, Mounted, HookTypes, Hook, ReadsInv
  <2>2. \A x \in Keys : timers'[x] = IF x = k THEN CancelForget(k)
                                     ELSE IF x = old THEN ScheduleForget(old) ELSE timers[x]
    BY <2>1 DEF TimerTypes
  <2>3. \A x \in Keys : timers'[x] \in Timers /\ (timers'[x].held => timers'[x].live > 0)
    BY <2>1, <2>2, ForgetTypes DEF TimerTypes
  <2> QED
    BY <2>1, <2>3 DEF TimerTypes
<1>10. DataTypes'
  BY <1>4 DEF ReadsInv, DataTypes
<1>11. late' \subseteq Hooks
  BY DEF ReadsInv, ChangeKey
<1> QED
  BY <1>1, <1>3, <1>4, <1>5, <1>6, <1>7, <1>8, <1>9, <1>10, <1>11 DEF ReadsInv, Books

LEMMA UnmountBooks ==
  ASSUME ReadsInv, NEW h \in Hooks, Unmount(h)
  PROVE  ReadsInv'
<1> DEFINE S == {<<h, "mount">>, <<h, "refetch">>}
           old == hooks[h].key
<1>1. /\ CallTypes(calls) /\ RunTypes(runs) /\ SlotTypes(slot) /\ HookTypes(hooks)
      /\ Counted(calls, runs) /\ Mapped(slot, runs) /\ Tied(calls, runs, hooks)
      /\ Busy(calls, hooks)
  BY DEF ReadsInv, Books
<1>2. S \in SUBSET Callers /\ Absent \in Hook /\ Absent.key = None
  BY DEF Callers, Kinds, Absent, Hook
<1>3. /\ \A x \in Callers : calls'[x] = IF x \in S THEN None ELSE calls[x]
      /\ CallTypes(calls')
  BY <1>1 DEF Unmount, Callers, CallTypes
<1>4. /\ hooks'[h] = Absent /\ HookTypes(hooks')
      /\ \A x \in Hooks : x # h => hooks'[x] = hooks[x]
      /\ UNCHANGED <<server, record, slot>> /\ runs' = Leave(S)
  BY <1>1, <1>2 DEF Unmount, HookTypes
<1>5. /\ RunTypes(runs') /\ Counted(calls', runs')
      /\ \A r \in Runs :
           /\ (runs'[r] = None) <=> (runs[r] = None)
           /\ runs[r] # None => /\ runs'[r].key = runs[r].key
                                /\ runs'[r].dropped = runs[r].dropped
  <2> HIDE DEF S
  <2>1. /\ \A x \in Callers \ S : calls'[x] = calls[x]
        /\ \A x \in S : calls'[x] = None \/ calls'[x].run = None
    BY <1>2, <1>3
  <2> QED
    BY <1>1, <1>2, <1>3, <1>4, <2>1, LeaveBooks
<1>6. Mapped(slot, runs')
  BY <1>1, <1>5, SameMapped
<1>7. Tied(calls', runs', hooks')
  <2> SUFFICES ASSUME NEW x \in Callers, calls'[x] # None
               PROVE  /\ calls'[x].run # None => runs'[calls'[x].run] # None
                      /\ calls'[x].run = None => x[2] = "mount"
                      /\ x[2] # "trigger" => hooks'[x[1]].key # None
    BY DEF Tied
  <2>1. calls'[x] = calls[x] /\ calls[x] \in Call /\ x[1] \in Hooks /\ x[2] \in Kinds
        /\ x = <<x[1], x[2]>> /\ x \notin S
    BY <1>1, <1>3 DEF CallTypes, Callers
  <2>2. calls[x].run # None => calls[x].run \in Runs
    BY <2>1 DEF Call
  <2>3. x[2] # "trigger" => x[1] # h
    BY <2>1 DEF Kinds
  <2>4. x[2] # "trigger" => hooks'[x[1]].key # None
    BY <1>1, <1>4, <2>1, <2>3 DEF Tied
  <2>5. /\ calls[x].run # None => runs[calls[x].run] # None
        /\ calls[x].run = None => x[2] = "mount"
    BY <1>1, <2>1 DEF Tied
  <2> HIDE DEF S
  <2> QED
    BY <1>5, <2>1, <2>2, <2>4, <2>5
<1>8. Busy(calls', hooks')
  <2> SUFFICES ASSUME NEW x \in Hooks, hooks'[x].key # None, hooks'[x].status = "fetching"
               PROVE  \E m \in Kinds : calls'[<<x, m>>] # None
    BY DEF Busy
  <2>1. x # h
    BY <1>2, <1>4
  <2>2. PICK m \in Kinds : calls[<<x, m>>] # None
    BY <1>1, <1>4, <2>1 DEF Busy
  <2>3. <<x, m>> \in Callers /\ <<x, m>> \notin S
    BY <2>1 DEF Callers
  <2> QED
    BY <1>3, <2>2, <2>3
<1>9. TimerTypes'
  <2>1. timers' = [timers EXCEPT ![old] = ScheduleForget(old)]
        /\ old \in Keys /\ timers[old].live < MaxTimers /\ TimerTypes
    BY <1>1 DEF Unmount, Mounted, HookTypes, Hook, ReadsInv
  <2> HIDE DEF old
  <2> QED
    BY <2>1, ForgetTypes, TimersSet
<1>10. DataTypes'
  BY <1>4 DEF ReadsInv, DataTypes
<1>11. late' \subseteq Hooks
  BY DEF ReadsInv, Unmount
<1> QED
  BY <1>1, <1>3, <1>4, <1>5, <1>6, <1>7, <1>8, <1>9, <1>10, <1>11 DEF ReadsInv, Books

-----------------------------------------------------------------------------

\* The actions that end in revalidate leave the rest alone.
LEMMA RevalidateInv ==
  ASSUME ReadsInv, NEW rs, NEW sl, Books(calls, rs, sl, hooks), NEW c \in Callers, Idle(c),
         NEW seen \in Hook, seen.key = hooks[c[1]].key, seen.key # None,
         Revalidate(c, seen, sl, rs), UNCHANGED <<server, record, timers, late>>
  PROVE  ReadsInv'
<1>1. Books(calls', runs', slot', hooks')
  BY RevalidateBooks
<1> QED
  BY <1>1 DEF ReadsInv, Books, Counted, Mapped, Tied, Busy, CallTypes, RunTypes,
              SlotTypes, HookTypes, WaitingIn, TimerTypes, DataTypes

LEMMA ReadRecordInv ==
  ASSUME ReadsInv, NEW h \in Hooks, ReadRecord(h)
  PROVE  ReadsInv'
<1> DEFINE c == <<h, "mount">>
           k == hooks[h].key
           warm == [hooks[h] EXCEPT !.shown = k]
           idle == [warm EXCEPT !.status = "idle"]
<1>1. /\ CallTypes(calls) /\ RunTypes(runs) /\ SlotTypes(slot) /\ HookTypes(hooks)
      /\ Counted(calls, runs) /\ Mapped(slot, runs) /\ Tied(calls, runs, hooks)
      /\ Busy(calls, hooks) /\ Books(calls, runs, slot, hooks)
  BY DEF ReadsInv, Books
<1>2. /\ c \in Callers /\ c[1] = h /\ c[2] = "mount" /\ calls[c] # None /\ Idle(c)
      /\ UNCHANGED <<server, record, timers, late>>
  BY DEF ReadRecord, Reads, Callers, Kinds, Idle
<1>3. hooks[h] \in Hook /\ k # None
  BY <1>1, <1>2 DEF HookTypes, Tied
<1>4. /\ warm \in Hook /\ warm.key = k /\ idle \in Hook /\ idle.key = k
      /\ idle.status = "idle"
  BY <1>3 DEF Hook
<1> HIDE DEF warm, idle
<1>5. CASE /\ hooks' = [hooks EXCEPT ![h] = idle]
           /\ calls' = [calls EXCEPT ![c] = None]
           /\ UNCHANGED <<slot, runs>>
  <2> DEFINE cs == [calls EXCEPT ![c] = None]
             hs == [hooks EXCEPT ![h] = idle]
  <2> HIDE DEF c
  <2>1. CallTypes(cs) /\ HookTypes(hs) /\ Tied(cs, runs, hs) /\ Busy(cs, hs)
    BY <1>1, <1>2, <1>3, <1>4, CallGoesOn
  <2>2. Counted(cs, runs)
    BY <1>1, <1>2, SkipCounted
  <2> HIDE DEF cs, hs
  <2>3. Books(cs, runs, slot, hs)
    BY <1>1, <2>1, <2>2 DEF Books
  <2> QED
    BY <1>2, <1>5, <2>3 DEF ReadsInv, cs, hs, TimerTypes, DataTypes
<1>6. CASE Revalidate(c, warm, slot, runs)
  <2> HIDE DEF c
  <2> QED
    BY <1>1, <1>2, <1>3, <1>4, <1>6, RevalidateInv
<1>7. CASE Revalidate(c, hooks[h], slot, runs)
  <2> HIDE DEF c
  <2> QED
    BY <1>1, <1>2, <1>3, <1>7, RevalidateInv
<1> QED
  BY <1>5, <1>6, <1>7 DEF ReadRecord, warm, idle

LEMMA ReadFailsInv ==
  ASSUME ReadsInv, NEW h \in Hooks, ReadFails(h)
  PROVE  ReadsInv'
<1> DEFINE c == <<h, "mount">>
           idle == [hooks[h] EXCEPT !.status = "idle"]
           cs == [calls EXCEPT ![c] = None]
           hs == [hooks EXCEPT ![h] = idle]
<1>1. /\ CallTypes(calls) /\ RunTypes(runs) /\ SlotTypes(slot) /\ HookTypes(hooks)
      /\ Counted(calls, runs) /\ Mapped(slot, runs) /\ Tied(calls, runs, hooks)
      /\ Busy(calls, hooks)
  BY DEF ReadsInv, Books
<1>2. /\ c \in Callers /\ c[1] = h /\ c[2] = "mount" /\ calls[c] # None /\ Idle(c)
      /\ UNCHANGED <<server, record, slot, runs, timers, late>>
      /\ calls' = cs /\ hooks' = hs
  BY DEF ReadFails, Reads, Callers, Kinds, Idle
<1>3. hooks[h] \in Hook /\ hooks[h].key # None
  BY <1>1, <1>2 DEF HookTypes, Tied
<1>4. idle \in Hook /\ idle.key = hooks[h].key /\ idle.status = "idle"
  BY <1>3 DEF Hook
<1> HIDE DEF idle, c
<1>5. CallTypes(cs) /\ HookTypes(hs) /\ Tied(cs, runs, hs) /\ Busy(cs, hs)
  BY <1>1, <1>2, <1>3, <1>4, CallGoesOn
<1>6. Counted(cs, runs)
  BY <1>1, <1>2, SkipCounted
<1> HIDE DEF cs, hs
<1>7. Books(cs, runs, slot, hs)
  BY <1>1, <1>5, <1>6 DEF Books
<1> QED
  BY <1>2, <1>7 DEF ReadsInv, TimerTypes, DataTypes

LEMMA LateReadInv ==
  ASSUME ReadsInv, NEW h \in Hooks, LateReadEnds(h)
  PROVE  ReadsInv'
<1>1. /\ HookTypes(hooks) /\ Tied(calls, runs, hooks) /\ Busy(calls, hooks)
      /\ hooks[h] \in Hook
  BY DEF ReadsInv, Books, HookTypes
<1>2. /\ UNCHANGED <<server, record, slot, runs, calls, timers>>
      /\ late' \subseteq late
      /\ hooks' = hooks \/ hooks' = [hooks EXCEPT ![h].status = "idle"]
  BY DEF LateReadEnds
<1>3. /\ HookTypes(hooks')
      /\ \A x \in Hooks : /\ hooks'[x].key = hooks[x].key
                          /\ hooks'[x].status = "fetching" => hooks[x].status = "fetching"
  BY <1>1, <1>2 DEF HookTypes, Hook
<1>4. Tied(calls, runs, hooks')
  BY <1>1, <1>3 DEF Tied, Callers
<1>5. Busy(calls, hooks')
  BY <1>1, <1>3 DEF Busy
<1> QED
  BY <1>2, <1>3, <1>4, <1>5 DEF ReadsInv, Books, TimerTypes, DataTypes

LEMMA TriggerInv ==
  ASSUME ReadsInv, NEW h \in Hooks, Trigger(h)
  PROVE  ReadsInv'
<1> DEFINE c == <<h, "trigger">>
<1>1. /\ c \in Callers /\ c[1] = h /\ Idle(c)
      /\ UNCHANGED <<server, record, timers, late>> /\ Revalidate(c, hooks[h], slot, runs)
      /\ hooks[h].key # None
  BY DEF Trigger, Callers, Kinds, Idle, Mounted
<1>2. Books(calls, runs, slot, hooks) /\ hooks[h] \in Hook
  BY DEF ReadsInv, Books, HookTypes
<1> HIDE DEF c
<1> QED
  BY <1>1, <1>2, RevalidateInv

\* A request that is cancelled leaves the map with its slot, and is still
\* waited for by those who did.
LEMMA CancelBooks ==
  ASSUME Books(calls, runs, slot, hooks), NEW k \in Keys, slot[k] # None
  PROVE  Books(calls, [runs EXCEPT ![slot[k]].aborted = TRUE, ![slot[k]].dropped = TRUE],
               [slot EXCEPT ![k] = None], hooks)
<1> DEFINE q == slot[k]
           rs == [runs EXCEPT ![q].aborted = TRUE, ![q].dropped = TRUE]
           sl == [slot EXCEPT ![k] = None]
<1>1. /\ CallTypes(calls) /\ RunTypes(runs) /\ SlotTypes(slot) /\ HookTypes(hooks)
      /\ Counted(calls, runs) /\ Mapped(slot, runs) /\ Tied(calls, runs, hooks)
      /\ Busy(calls, hooks)
  BY DEF Books
<1>2. q \in Runs /\ runs[q] # None /\ runs[q] \in Run /\ runs[q].key = k
  BY <1>1 DEF SlotTypes, Mapped, RunTypes
<1>3. /\ rs[q] = [runs[q] EXCEPT !.aborted = TRUE, !.dropped = TRUE]
      /\ \A r \in Runs : r # q => rs[r] = runs[r]
  <2> HIDE DEF q
  <2> QED
    BY <1>1, <1>2 DEF RunTypes
<1>4. /\ rs[q] \in Run /\ rs[q] # None /\ rs[q].waiters = runs[q].waiters
      /\ rs[q].key = k /\ rs[q].dropped /\ rs[q].aborted
  <2> HIDE DEF q, rs
  <2> QED
    BY <1>2, <1>3, Names DEF Run
<1>5. /\ SlotTypes(sl) /\ sl[k] = None
      /\ \A x \in Keys : x # k => sl[x] = slot[x]
  BY <1>1 DEF SlotTypes
<1>6. RunTypes(rs)
  <2> HIDE DEF q
  <2>1. DOMAIN rs = Runs /\ rs = [r \in Runs |-> rs[r]]
    BY <1>1 DEF RunTypes
  <2> HIDE DEF rs
  <2>2. \A r \in Runs : rs[r] \in Run \cup {None}
    BY <1>1, <1>3, <1>4 DEF RunTypes
  <2> QED
    BY <2>1, <2>2 DEF RunTypes
<1> HIDE DEF rs, sl
<1>7. Counted(calls, rs)
  BY <1>1, <1>2, <1>3, <1>4 DEF Counted
<1>8. Mapped(sl, rs)
  <2>1. ASSUME NEW x \in Keys, sl[x] # None
        PROVE  rs[sl[x]] # None /\ rs[sl[x]].key = x /\ ~ rs[sl[x]].dropped
    <3>1. x # k /\ sl[x] = slot[x] /\ slot[x] \in Runs /\ runs[slot[x]].key = x
      BY <1>1, <1>5, <2>1 DEF Mapped, SlotTypes
    <3>2. slot[x] # q
      BY <1>2, <3>1
    <3> QED
      BY <1>1, <1>3, <2>1, <3>1, <3>2 DEF Mapped
  <2>2. ASSUME NEW r \in Runs, rs[r] # None, ~ rs[r].dropped PROVE sl[rs[r].key] = r
    <3>1. r # q
      BY <1>4, <2>2
    <3>2. rs[r] = runs[r]
      BY <1>3, <3>1
    <3>3. slot[runs[r].key] = r /\ runs[r].key \in Keys
      BY <1>1, <2>2, <3>2 DEF Mapped, RunTypes, Run
    <3>4. runs[r].key # k
      BY <3>1, <3>3 DEF q
    <3> QED
      BY <1>5, <3>2, <3>3, <3>4
  <2> QED
    BY <2>1, <2>2 DEF Mapped
<1>9. Tied(calls, rs, hooks)
  <2>1. \A r \in Runs : runs[r] # None => rs[r] # None
    BY <1>3, <1>4
  <2> QED
    BY <1>1, <2>1, SameTied
<1> QED
  BY <1>1, <1>5, <1>6, <1>7, <1>8, <1>9 DEF Books, rs, sl

LEMMA RefetchInv ==
  ASSUME ReadsInv, NEW h \in Hooks, NEW cancel \in BOOLEAN, Refetch(h, cancel)
  PROVE  ReadsInv'
<1> DEFINE c == <<h, "refetch">>
           k == hooks[h].key
           q == slot[k]
           rs == [runs EXCEPT ![q].aborted = TRUE, ![q].dropped = TRUE]
           sl == [slot EXCEPT ![k] = None]
<1>1. /\ c \in Callers /\ c[1] = h /\ Idle(c)
      /\ UNCHANGED <<server, record, timers, late>> /\ k # None
      /\ \/ Revalidate(c, hooks[h], slot, runs)
         \/ q # None /\ Revalidate(c, hooks[h], sl, rs)
  BY DEF Refetch, Callers, Kinds, Idle, Mounted
<1>2. Books(calls, runs, slot, hooks) /\ hooks[h] \in Hook /\ k \in Keys
  BY <1>1 DEF ReadsInv, Books, HookTypes, Hook
<1> HIDE DEF c
<1>3. CASE Revalidate(c, hooks[h], slot, runs)
  BY <1>1, <1>2, <1>3, RevalidateInv
<1>4. CASE q # None /\ Revalidate(c, hooks[h], sl, rs)
  <2>1. Books(calls, rs, sl, hooks)
    BY <1>2, <1>4, CancelBooks
  <2> HIDE DEF rs, sl
  <2> QED
    BY <1>1, <1>2, <1>4, <2>1, RevalidateInv
<1> QED
  BY <1>1, <1>3, <1>4

\* What a request does on its own leaves callers, map and count alone.
LEMMA RunGoesOn ==
  ASSUME Books(calls, runs, slot, hooks), NEW r \in Runs, runs[r] # None, NEW run \in Run,
         run.key = runs[r].key, run.dropped = runs[r].dropped,
         run.waiters = runs[r].waiters, run.aborted = runs[r].aborted
  PROVE  Books(calls, [runs EXCEPT ![r] = run], slot, hooks)
<1> DEFINE rs == [runs EXCEPT ![r] = run]
<1>1. /\ CallTypes(calls) /\ RunTypes(runs) /\ SlotTypes(slot) /\ HookTypes(hooks)
      /\ Counted(calls, runs) /\ Mapped(slot, runs) /\ Tied(calls, runs, hooks)
      /\ Busy(calls, hooks)
  BY DEF Books
<1>2. RunTypes(rs) /\ rs[r] = run /\ \A q \in Runs : q # r => rs[q] = runs[q]
  BY <1>1 DEF RunTypes
<1>3. run # None
  BY Names
<1> HIDE DEF rs
<1>4. Counted(calls, rs)
  BY <1>1, <1>2, <1>3 DEF Counted
<1>5. Mapped(slot, rs)
  <2>1. \A q \in Runs : /\ rs[q] = None <=> runs[q] = None
                        /\ runs[q] # None => /\ rs[q].key = runs[q].key
                                             /\ rs[q].dropped = runs[q].dropped
    BY <1>2, <1>3
  <2> QED
    BY <1>1, <2>1, SameMapped
<1>6. Tied(calls, rs, hooks)
  <2>1. \A q \in Runs : runs[q] # None => rs[q] # None
    BY <1>2, <1>3
  <2> QED
    BY <1>1, <2>1, SameTied
<1> QED
  BY <1>1, <1>2, <1>4, <1>5, <1>6 DEF Books, rs

LEMMA RunStepInv ==
  ASSUME ReadsInv, NEW r \in Runs, RunStep(r)
  PROVE  ReadsInv'
<1> DEFINE k == runs[r].key
<1>1. /\ Books(calls, runs, slot, hooks) /\ runs[r] \in Run /\ runs[r] # None
      /\ k \in Keys /\ runs[r].got \in Versions /\ server[k] \in Versions
  BY DEF ReadsInv, Books, RunTypes, Run, RunStep, Answered, Rejected, Refused,
         UpdateRecord, InsertRecord, Is, DataTypes
<1>2. ASSUME Books(calls', runs', slot', hooks'), UNCHANGED <<server, record, timers, late>>
      PROVE  ReadsInv'
  BY <1>2 DEF ReadsInv, TimerTypes, DataTypes
<1>3. ASSUME NEW out, Settle(r, out) PROVE Books(calls', runs', slot', hooks')
  BY <1>1, <1>3, SettleBooks
<1>4. ASSUME NEW run \in Run, runs' = [runs EXCEPT ![r] = run],
             run.key = k, run.dropped = runs[r].dropped,
             run.waiters = runs[r].waiters, run.aborted = runs[r].aborted,
             UNCHANGED <<slot, hooks, calls>>
      PROVE  Books(calls', runs', slot', hooks')
  <2>1. Books(calls, [runs EXCEPT ![r] = run], slot, hooks)
    BY <1>1, <1>4, RunGoesOn
  <2> QED
    BY <1>4, <2>1
<1>5. CASE Answered(r)
  <2> DEFINE run == [runs[r] EXCEPT !.pc = "updating", !.got = server[k]]
  <2>1. runs' = [runs EXCEPT ![r] = run]
    BY <1>1, <1>5 DEF Answered, Books, RunTypes
  <2>2. /\ run \in Run /\ run.key = k /\ run.dropped = runs[r].dropped
        /\ run.waiters = runs[r].waiters /\ run.aborted = runs[r].aborted
    BY <1>1 DEF Run
  <2> HIDE DEF run
  <2> QED
    BY <1>2, <1>4, <1>5, <2>1, <2>2 DEF Answered
<1>6. CASE Rejected(r)
  BY <1>2, <1>3, <1>6 DEF Rejected
<1>7. CASE Refused(r)
  BY <1>2, <1>3, <1>7 DEF Refused
<1>8. ASSUME record' = [record EXCEPT ![k] = runs[r].got], UNCHANGED <<server, timers, late>>,
             Settle(r, "committed")
      PROVE  ReadsInv'
  <2>1. Books(calls', runs', slot', hooks')
    BY <1>3, <1>8
  <2> QED
    BY <1>1, <1>8, <2>1 DEF ReadsInv, TimerTypes, DataTypes
<1>9. CASE UpdateRecord(r)
  <2>1. CASE record[k] = None
    <3> DEFINE run == [runs[r] EXCEPT !.pc = "inserting"]
    <3>1. runs' = [runs EXCEPT ![r] = run]
      BY <1>1, <1>9, <2>1 DEF UpdateRecord, Books, RunTypes
    <3>2. /\ run \in Run /\ run.key = k /\ run.dropped = runs[r].dropped
          /\ run.waiters = runs[r].waiters /\ run.aborted = runs[r].aborted
      BY <1>1 DEF Run
    <3> HIDE DEF run
    <3> QED
      BY <1>2, <1>4, <1>9, <2>1, <3>1, <3>2 DEF UpdateRecord
  <2>2. CASE record[k] # None
    BY <1>8, <1>9, <2>2 DEF UpdateRecord
  <2> QED
    BY <2>1, <2>2
<1>10. CASE InsertRecord(r)
  BY <1>2, <1>3, <1>8, <1>10 DEF InsertRecord
<1> QED
  BY <1>5, <1>6, <1>7, <1>9, <1>10 DEF RunStep

LEMMA ForgettingInv ==
  ASSUME ReadsInv, NEW k \in Keys, TimerFires(k) \/ ForgetRecord(k) \/ ServerChanges(k)
  PROVE  ReadsInv'
<1>1. UNCHANGED <<slot, runs, hooks, calls>> /\ Books(calls', runs', slot', hooks')
  BY DEF ReadsInv, TimerFires, ForgetRecord, ServerChanges
<1>2. /\ timers[k] \in Timers /\ timers[k].live \in 0 .. MaxTimers
      /\ (timers[k].held => timers[k].live > 0)
      /\ MaxTimers \in Nat /\ MaxVersion \in Nat
  BY ReadsAssumption DEF ReadsInv, TimerTypes, Timers
<1>3. CASE TimerFires(k)
  <2> DEFINE t == [live |-> timers[k].live - 1, held |-> FALSE, deleting |-> TRUE]
  <2>1. t \in Timers /\ ~ t.held
    BY <1>2, <1>3 DEF TimerFires, Timers
  <2>2. timers' = [timers EXCEPT ![k] = t]
    BY <1>3 DEF TimerFires, ReadsInv, TimerTypes
  <2> HIDE DEF t
  <2>3. TimerTypes'
    BY <2>1, <2>2, TimersSet DEF ReadsInv
  <2> QED
    BY <1>1, <1>3, <2>3 DEF TimerFires, ReadsInv, DataTypes
<1>4. CASE ForgetRecord(k)
  <2> DEFINE t == [timers[k] EXCEPT !.deleting = FALSE]
  <2>1. t \in Timers /\ (t.held => t.live > 0)
    BY <1>2 DEF Timers
  <2>2. timers' = [timers EXCEPT ![k] = t]
    BY <1>4 DEF ForgetRecord, ReadsInv, TimerTypes
  <2> HIDE DEF t
  <2>3. TimerTypes'
    BY <2>1, <2>2, TimersSet DEF ReadsInv
  <2> QED
    BY <1>1, <1>4, <2>3 DEF ForgetRecord, ReadsInv, DataTypes
<1>5. CASE ServerChanges(k)
  <2>1. server[k] \in Versions /\ server[k] + 1 \in Versions
    BY <1>2, <1>5 DEF ServerChanges, ReadsInv, DataTypes, Versions
  <2>2. DataTypes' /\ TimerTypes' /\ UNCHANGED late
    BY <1>5, <2>1 DEF ServerChanges, ReadsInv, DataTypes, TimerTypes
  <2> QED
    BY <1>1, <2>2 DEF ReadsInv
<1> QED
  BY <1>3, <1>4, <1>5

LEMMA InitInv ==
  ASSUME Init
  PROVE  ReadsInv
<1>1. CallTypes(calls) /\ RunTypes(runs) /\ SlotTypes(slot)
  BY DEF Init, CallTypes, RunTypes, SlotTypes, Callers
<1>2. HookTypes(hooks)
  BY DEF Init, HookTypes, Absent, Hook
<1>3. Counted(calls, runs) /\ Mapped(slot, runs) /\ Tied(calls, runs, hooks)
  BY DEF Init, Counted, Mapped, Tied, Callers
<1>4. Busy(calls, hooks)
  BY DEF Init, Busy, Absent
<1>5. TimerTypes
  BY ReadsAssumption DEF Init, TimerTypes, Timers
<1>6. DataTypes
  BY ReadsAssumption DEF Init, DataTypes, Versions
<1>7. late \subseteq Hooks
  BY DEF Init
<1> QED
  BY <1>1, <1>2, <1>3, <1>4, <1>5, <1>6, <1>7 DEF ReadsInv, Books

LEMMA NextInv ==
  ASSUME ReadsInv, [Next]_vars
  PROVE  ReadsInv'
<1>1. CASE UNCHANGED vars
  BY <1>1 DEF vars, ReadsInv, TimerTypes, DataTypes
<1>2. ASSUME NEW h \in Hooks, NEW k \in Keys, Mount(h, k) PROVE ReadsInv'
  BY <1>2, MountBooks
<1>3. ASSUME NEW h \in Hooks, NEW k \in Keys, ChangeKey(h, k) PROVE ReadsInv'
  BY <1>3, ChangeKeyBooks
<1>4. ASSUME NEW h \in Hooks, Unmount(h) PROVE ReadsInv'
  BY <1>4, UnmountBooks
<1>5. ASSUME NEW h \in Hooks, ReadRecord(h) PROVE ReadsInv'
  BY <1>5, ReadRecordInv
<1>6. ASSUME NEW h \in Hooks, ReadFails(h) PROVE ReadsInv'
  BY <1>6, ReadFailsInv
<1>7. ASSUME NEW h \in Hooks, Trigger(h) PROVE ReadsInv'
  BY <1>7, TriggerInv
<1>8. ASSUME NEW h \in Hooks, NEW cancel \in BOOLEAN, Refetch(h, cancel) PROVE ReadsInv'
  BY <1>8, RefetchInv
<1>9. ASSUME NEW r \in Runs, RunStep(r) PROVE ReadsInv'
  BY <1>9, RunStepInv
<1>10. ASSUME NEW k \in Keys, TimerFires(k) \/ ForgetRecord(k) \/ ServerChanges(k)
       PROVE  ReadsInv'
  BY <1>10, ForgettingInv
<1>11. ASSUME NEW h \in Hooks, LateReadEnds(h) PROVE ReadsInv'
  BY <1>11, LateReadInv
<1> QED
  BY <1>1, <1>2, <1>3, <1>4, <1>5, <1>6, <1>7, <1>8, <1>9, <1>10, <1>11 DEF Next

LEMMA ReadsInvariant == Spec => []ReadsInv
<1>1. Init => ReadsInv
  BY InitInv
<1>2. ReadsInv /\ [Next]_vars => ReadsInv'
  BY NextInv
<1> QED
  BY <1>1, <1>2, PTL DEF Spec

-----------------------------------------------------------------------------

\* Every variable keeps its type.
THEOREM ReadsTypes == Spec => []TypeOK
<1>1. ReadsInv => TypeOK
  BY DEF ReadsInv, Books, CallTypes, RunTypes, SlotTypes, HookTypes, TimerTypes, DataTypes,
         TypeOK, Callers
<1> QED
  BY <1>1, ReadsInvariant, PTL

\* runShared counts exactly the callers that still wait.
THEOREM WaitersAreCounted == Spec => []WaitersCounted
<1>1. ReadsInv => WaitersCounted
  BY DEF ReadsInv, Books, Counted, WaitersCounted, Waiting, WaitsFor, WaitingIn, Callers
<1> QED
  BY <1>1, ReadsInvariant, PTL

\* One request at a time is out for a key, but for those a refetch cancelled.
THEOREM OneRequest == Spec => []OneRequestPerKey
<1>1. ReadsInv => OneRequestPerKey
  BY DEF ReadsInv, Books, Mapped, OneRequestPerKey
<1> QED
  BY <1>1, ReadsInvariant, PTL

\* A request nobody cancelled is awaited by a mounted component, or a trigger.
THEOREM TakersExist == Spec => []RequestsHaveTakers
<1>1. ASSUME ReadsInv, NEW r \in Runs, runs[r] # None, ~ runs[r].aborted
      PROVE  \E c \in Waiting(r) : c[2] = "trigger" \/ Mounted(c[1])
  <2>1. PICK c \in WaitingIn(calls, r) : TRUE
    BY <1>1 DEF ReadsInv, Books, Counted
  <2>2. c \in Waiting(r) /\ c \in Callers /\ calls[c] # None
    BY <2>1 DEF Waiting, WaitsFor, WaitingIn, Callers
  <2>3. c[2] = "trigger" \/ Mounted(c[1])
    BY <1>1, <2>2 DEF ReadsInv, Books, Tied, Mounted
  <2> QED
    BY <2>2, <2>3
<1>2. ReadsInv => RequestsHaveTakers
  BY <1>1 DEF RequestsHaveTakers
<1> QED
  BY <1>2, ReadsInvariant, PTL

\* A component that reports fetching awaits its record, or a request that is out.
THEOREM FetchingAwaits == Spec => []FetchingHasCall
<1>1. ASSUME ReadsInv, NEW h \in Hooks, Mounted(h), hooks[h].status = "fetching"
      PROVE  \E m \in Kinds :
               LET c == calls[<<h, m>>] IN
               c # None /\ IF c.run = None THEN m = "mount" ELSE runs[c.run] # None
  <2>1. PICK m \in Kinds : calls[<<h, m>>] # None
    BY <1>1 DEF ReadsInv, Books, Busy, Mounted
  <2>2. /\ calls[<<h, m>>].run # None => runs[calls[<<h, m>>].run] # None
        /\ calls[<<h, m>>].run = None => m = "mount"
    <3>1. <<h, m>> \in Callers /\ <<h, m>>[2] = m
      BY DEF Callers
    <3> QED
      BY <1>1, <2>1, <3>1 DEF ReadsInv, Books, Tied
  <2> QED
    BY <2>1, <2>2
<1>2. ReadsInv => FetchingHasCall
  BY <1>1 DEF FetchingHasCall
<1> QED
  BY <1>2, ReadsInvariant, PTL

-----------------------------------------------------------------------------

\* The request r is aborted and dropped, or not, as it was, when it is still out.
KeepsSignal(rs, r) ==
  runs'[r] # None =>
    runs'[r].aborted = rs[r].aborted /\ runs'[r].dropped = rs[r].dropped

LEMMA RevalidateKeeps ==
  ASSUME NEW rs, RunTypes(rs), NEW c, NEW seen, NEW sl, Revalidate(c, seen, sl, rs),
         NEW r \in Runs, rs[r] # None
  PROVE  KeepsSignal(rs, r)
<1>1. CASE runs' = rs
  BY <1>1 DEF KeepsSignal
<1>2. ASSUME NEW q \in Runs, Join(c, seen.key, q, sl, rs) PROVE KeepsSignal(rs, r)
  <2>1. runs' = [rs EXCEPT ![q].waiters = @ + 1] /\ rs[r] \in Run
    BY <1>2 DEF Join, RunTypes
  <2>2. CASE q = r
    <3>1. runs'[r] = [rs[r] EXCEPT !.waiters = rs[r].waiters + 1]
      BY <2>1, <2>2 DEF RunTypes
    <3> QED
      BY <2>1, <3>1 DEF KeepsSignal, Run
  <2>3. CASE q # r
    BY <2>1, <2>3 DEF RunTypes, KeepsSignal
  <2> QED
    BY <2>2, <2>3
<1>3. ASSUME NEW q \in Runs, Start(c, seen.key, q, sl, rs) PROVE KeepsSignal(rs, r)
  <2>1. runs' = [rs EXCEPT ![q] = NewRun(seen.key, rs)] /\ q # r
    BY <1>3 DEF Start
  <2> QED
    BY <2>1 DEF RunTypes, KeepsSignal
<1> QED
  BY <1>1, <1>2, <1>3 DEF Revalidate

\* One step, seen by one request
Abandoned(r) ==
  /\ runs[r] # None /\ runs'[r] # None
  /\ ~ runs[r].aborted /\ runs'[r].aborted /\ ~ runs'[r].dropped

\* Only callers that leave abandon a request.
LEMMA LeaversAbandon ==
  ASSUME ReadsInv, CallTypes(calls'), NEW S \in SUBSET Callers, runs' = Leave(S),
         \A c \in Callers \ S : calls'[c] = calls[c],
         \A c \in S : calls'[c] = None \/ calls'[c].run = None,
         NEW r \in Runs, Abandoned(r)
  PROVE  WaitingIn(calls', r) = {}
<1>1. CallTypes(calls) /\ RunTypes(runs) /\ Counted(calls, runs)
  BY DEF ReadsInv, Books
<1>2. runs[r] # None => (~ runs[r].aborted /\ Leave(S)[r].aborted => WaitingIn(calls', r) = {})
  BY <1>1, LeaveBooks
<1> QED
  BY <1>2 DEF Abandoned

LEMMA RefetchKeeps ==
  ASSUME ReadsInv, NEW h \in Hooks, NEW cancel \in BOOLEAN, Refetch(h, cancel),
         NEW r \in Runs, Abandoned(r)
  PROVE  FALSE
<1> DEFINE c == <<h, "refetch">>
           k == hooks[h].key
           q == slot[k]
           rs == [runs EXCEPT ![q].aborted = TRUE, ![q].dropped = TRUE]
           sl == [slot EXCEPT ![k] = None]
<1>1. RunTypes(runs) /\ Books(calls, runs, slot, hooks) /\ hooks[h] \in Hook /\ k # None
  BY DEF ReadsInv, Books, HookTypes, Refetch, Mounted
<1>2. \/ Revalidate(c, hooks[h], slot, runs)
      \/ q # None /\ Revalidate(c, hooks[h], sl, rs)
  BY DEF Refetch
<1>3. runs[r] # None /\ runs[r] \in Run
  BY <1>1 DEF Abandoned, RunTypes
<1> HIDE DEF c
<1>4. CASE Revalidate(c, hooks[h], slot, runs)
  BY <1>1, <1>3, <1>4, RevalidateKeeps DEF KeepsSignal, Abandoned
<1>5. CASE q # None /\ Revalidate(c, hooks[h], sl, rs)
  <2>1. k \in Keys
    BY <1>1 DEF Hook
  <2>2. RunTypes(rs)
    <3>1. Books(calls, rs, sl, hooks)
      BY <1>1, <1>5, <2>1, CancelBooks
    <3> HIDE DEF rs, sl
    <3> QED
      BY <3>1 DEF Books
  <2>3. q # r => rs[r] = runs[r]
    BY <1>1 DEF RunTypes
  <2>4. q = r => rs[r] = [runs[r] EXCEPT !.aborted = TRUE, !.dropped = TRUE]
    <3> HIDE DEF q
    <3> QED
      BY <1>1 DEF RunTypes
  <2>5. rs[r] # None
    <3>1. [runs[r] EXCEPT !.aborted = TRUE, !.dropped = TRUE] \in Run
      BY <1>3 DEF Run
    <3> HIDE DEF rs, q
    <3> QED
      BY <1>3, <2>3, <2>4, <3>1, Names
  <2> HIDE DEF rs, sl, q
  <2>6. KeepsSignal(rs, r)
    BY <1>5, <2>2, <2>5, RevalidateKeeps
  <2> QED
    BY <1>3, <2>3, <2>4, <2>6 DEF KeepsSignal, Abandoned, Run
<1> QED
  BY <1>2, <1>4, <1>5

LEMMA RunStepKeeps ==
  ASSUME ReadsInv, NEW q \in Runs, RunStep(q), NEW r \in Runs, Abandoned(r)
  PROVE  FALSE
<1>1. RunTypes(runs) /\ runs[r] \in Run /\ runs[r] # None
  BY DEF ReadsInv, Books, RunTypes, Abandoned
<1>2. runs'[r] # None => runs'[r].aborted = runs[r].aborted
  <2>1. CASE Settle(q, "committed") \/ Settle(q, "failed")
    BY <1>1, <2>1 DEF Settle, RunTypes
  <2>2. CASE Answered(q)
    BY <1>1, <2>2 DEF Answered, RunTypes, Run
  <2>3. CASE runs' = [runs EXCEPT ![q].pc = "inserting"]
    BY <1>1, <2>3 DEF RunTypes, Run
  <2> QED
    BY <2>1, <2>2, <2>3 DEF RunStep, Rejected, Refused, UpdateRecord, InsertRecord
<1> QED
  BY <1>2 DEF Abandoned

\* A request is aborted by the last caller that leaves it, and by no other.
THEOREM LastOneAborts == Spec => AbortedByTheLast
<1>1. ASSUME ReadsInv, [Next]_vars, NEW r \in Runs, Abandoned(r)
      PROVE  WaitingIn(calls', r) = {}
  <2>1. Books(calls, runs, slot, hooks) /\ RunTypes(runs) /\ CallTypes(calls)
    BY <1>1 DEF ReadsInv, Books
  <2>2. CallTypes(calls')
    <3>1. ReadsInv'
      BY <1>1, NextInv
    <3> QED
      BY <3>1 DEF ReadsInv, Books
  <2>3. CASE UNCHANGED runs
    BY <1>1, <2>3 DEF Abandoned
  <2>4. ASSUME NEW h \in Hooks, NEW k \in Keys, ChangeKey(h, k)
        PROVE  WaitingIn(calls', r) = {}
    <3> DEFINE c == <<h, "mount">>
               T == {c}
    <3>1. /\ c \in Callers /\ T \in SUBSET Callers /\ runs' = Leave(T)
          /\ calls' = [calls EXCEPT ![c] = [key |-> k, run |-> None]]
      BY <2>4 DEF ChangeKey, Callers, Kinds
    <3>2. /\ \A x \in Callers \ T : calls'[x] = calls[x]
          /\ \A x \in T : calls'[x] = None \/ calls'[x].run = None
      BY <2>1, <3>1 DEF CallTypes
    <3> HIDE DEF c, T
    <3> QED
      BY <1>1, <2>2, <3>1, <3>2, LeaversAbandon
  <2>5. ASSUME NEW h \in Hooks, Unmount(h) PROVE WaitingIn(calls', r) = {}
    <3> DEFINE T == {<<h, "mount">>, <<h, "refetch">>}
    <3>1. /\ T \in SUBSET Callers /\ runs' = Leave(T)
          /\ calls' = [c \in Callers |-> IF c \in T THEN None ELSE calls[c]]
      BY <2>5 DEF Unmount, Callers, Kinds
    <3>2. /\ \A x \in Callers \ T : calls'[x] = calls[x]
          /\ \A x \in T : calls'[x] = None \/ calls'[x].run = None
      <4> HIDE DEF T
      <4> QED
        BY <3>1
    <3> HIDE DEF T
    <3> QED
      BY <1>1, <2>2, <3>1, <3>2, LeaversAbandon
  <2>6. ASSUME NEW c, NEW seen, Revalidate(c, seen, slot, runs)
        PROVE  WaitingIn(calls', r) = {}
    BY <1>1, <2>1, <2>6, RevalidateKeeps DEF KeepsSignal, Abandoned
  <2>7. ASSUME NEW h \in Hooks, ReadRecord(h) \/ ReadFails(h) \/ Trigger(h)
        PROVE  WaitingIn(calls', r) = {}
    BY <2>3, <2>6, <2>7 DEF ReadRecord, ReadFails, Trigger
  <2>8. ASSUME NEW h \in Hooks, NEW cancel \in BOOLEAN, Refetch(h, cancel)
        PROVE  WaitingIn(calls', r) = {}
    BY <1>1, <2>8, RefetchKeeps
  <2>9. ASSUME NEW q \in Runs, RunStep(q) PROVE WaitingIn(calls', r) = {}
    BY <1>1, <2>9, RunStepKeeps
  <2> QED
    BY <1>1, <2>3, <2>4, <2>5, <2>7, <2>8, <2>9
    DEF Next, vars, Mount, LateReadEnds, TimerFires, ForgetRecord, ServerChanges
<1>2. ReadsInv /\ [Next]_vars =>
        [\A r \in Runs :
           /\ runs[r] # None /\ runs'[r] # None
           /\ ~ runs[r].aborted /\ runs'[r].aborted /\ ~ runs'[r].dropped
           => Waiting(r)' = {}]_vars
  BY <1>1 DEF Abandoned, Waiting, WaitsFor, WaitingIn, Callers
<1> QED
  BY <1>2, ReadsInvariant, PTL DEF AbortedByTheLast, Spec

-----------------------------------------------------------------------------

\* A request that began with no other of its key out, and was not cancelled,
\* is the only one of its key: so since it was answered nobody else has written
\* the record, and what it writes is no older than what is there.
FreshRuns(rs) ==
  \A r \in Runs : rs[r] # None =>
    /\ rs[r].pc # "asking" => rs[r].got <= server[rs[r].key]
    /\ rs[r].alone /\ ~ rs[r].dropped =>
         /\ \A q \in Runs \ {r} : rs[q] = None \/ rs[q].key # rs[r].key
         /\ rs[r].pc # "asking" /\ record[rs[r].key] # None
              => record[rs[r].key] <= rs[r].got

RecordsKnown == \A k \in Keys : record[k] # None => record[k] <= server[k]

FreshInv == RecordsKnown /\ FreshRuns(runs)

\* Requests that are as they were to all but their callers, cancelled, or gone
LEMMA SameFresh ==
  ASSUME NEW rs, FreshRuns(rs), NEW new,
         \A r \in Runs : new[r] # None =>
           /\ rs[r] # None
           /\ new[r].key = rs[r].key /\ new[r].pc = rs[r].pc /\ new[r].got = rs[r].got
           /\ new[r].alone = rs[r].alone /\ (rs[r].dropped => new[r].dropped)
  PROVE  FreshRuns(new)
<1> SUFFICES ASSUME NEW r \in Runs, new[r] # None
             PROVE  /\ new[r].pc # "asking" => new[r].got <= server[new[r].key]
                    /\ new[r].alone /\ ~ new[r].dropped =>
                         /\ \A q \in Runs \ {r} : new[q] = None \/ new[q].key # new[r].key
                         /\ new[r].pc # "asking" /\ record[new[r].key] # None
                              => record[new[r].key] <= new[r].got
  BY DEF FreshRuns
<1>1. /\ rs[r] # None
      /\ new[r].key = rs[r].key /\ new[r].pc = rs[r].pc /\ new[r].got = rs[r].got
      /\ new[r].alone = rs[r].alone /\ (rs[r].dropped => new[r].dropped)
  OBVIOUS
<1>2. ASSUME new[r].alone, ~ new[r].dropped, NEW q \in Runs \ {r}
      PROVE  new[q] = None \/ new[q].key # new[r].key
  BY <1>1, <1>2 DEF FreshRuns
<1> QED
  BY <1>1, <1>2 DEF FreshRuns

LEMMA RevalidateFresh ==
  ASSUME NEW rs, NEW sl, RunTypes(rs), SlotTypes(sl), Mapped(sl, rs), FreshRuns(rs),
         NEW c, NEW seen, seen.key \in Keys, Revalidate(c, seen, sl, rs)
  PROVE  FreshRuns(runs')
<1>1. CASE runs' = rs
  BY <1>1
<1>2. ASSUME NEW q \in Runs, Join(c, seen.key, q, sl, rs) PROVE FreshRuns(runs')
  <2>1. sl[seen.key] = q /\ runs' = [rs EXCEPT ![q].waiters = @ + 1]
    BY <1>2 DEF Join
  <2>2. rs[q] \in Run /\ rs[q] # None
    BY <2>1, Names DEF RunTypes, Mapped
  <2>3. ASSUME NEW r \in Runs
        PROVE  /\ runs'[r].key = rs[r].key /\ runs'[r].pc = rs[r].pc
               /\ runs'[r].got = rs[r].got /\ runs'[r].alone = rs[r].alone
               /\ runs'[r].dropped = rs[r].dropped
               /\ (rs[r] = None => runs'[r] = None)
    <3>1. CASE r = q
      <4>1. runs'[q] = [rs[q] EXCEPT !.waiters = rs[q].waiters + 1]
        BY <2>1 DEF RunTypes
      <4> QED BY <2>2, <3>1, <4>1 DEF Run
    <3>2. CASE r # q
      BY <2>1, <3>2 DEF RunTypes
    <3> QED BY <3>1, <3>2
  <2> QED BY <2>3, SameFresh
<1>3. ASSUME NEW q \in Runs, Start(c, seen.key, q, sl, rs) PROVE FreshRuns(runs')
  <2> DEFINE new == NewRun(seen.key, rs)
  <2>1. /\ sl[seen.key] = None /\ rs[q] = None
        /\ runs'[q] = new /\ \A r \in Runs \ {q} : runs'[r] = rs[r]
    BY <1>3 DEF Start, RunTypes
  <2>2. /\ new.key = seen.key /\ new.pc = "asking"
        /\ (new.alone <=> \A r \in Runs : rs[r] = None \/ rs[r].key # seen.key)
    BY DEF NewRun
  <2> HIDE DEF new
  <2>3. ASSUME NEW r \in Runs \ {q}, rs[r] # None, ~ rs[r].dropped PROVE rs[r].key # seen.key
    BY <2>1, <2>3, Names DEF Mapped
  <2>4. ASSUME NEW r \in Runs \ {q}, runs'[r] # None
        PROVE  /\ runs'[r].pc # "asking" => runs'[r].got <= server[runs'[r].key]
               /\ runs'[r].alone /\ ~ runs'[r].dropped =>
                    /\ \A x \in Runs \ {r} : runs'[x] = None \/ runs'[x].key # runs'[r].key
                    /\ runs'[r].pc # "asking" /\ record[runs'[r].key] # None
                         => record[runs'[r].key] <= runs'[r].got
    BY <2>1, <2>2, <2>3, <2>4 DEF FreshRuns
  <2>5. /\ runs'[q].pc = "asking"
        /\ runs'[q].alone =>
             \A x \in Runs \ {q} : runs'[x] = None \/ runs'[x].key # runs'[q].key
    BY <2>1, <2>2
  <2> QED BY <2>4, <2>5 DEF FreshRuns
<1> QED
  BY <1>1, <1>2, <1>3 DEF Revalidate

LEMMA LeaveFresh ==
  ASSUME RunTypes(runs), FreshRuns(runs), NEW S PROVE FreshRuns(Leave(S))
<1>1. ASSUME NEW r \in Runs
      PROVE  /\ runs[r] = None => Leave(S)[r] = None
             /\ Leave(S)[r].key = runs[r].key /\ Leave(S)[r].pc = runs[r].pc
             /\ Leave(S)[r].got = runs[r].got /\ Leave(S)[r].alone = runs[r].alone
             /\ Leave(S)[r].dropped = runs[r].dropped
  <2> DEFINE n == Cardinality(S \cap Waiting(r))
  <2>1. Leave(S)[r] = IF runs[r] = None \/ n = 0 THEN runs[r]
                      ELSE [runs[r] EXCEPT !.waiters = @ - n, !.aborted = @ \/ runs[r].waiters = n]
    BY DEF Leave
  <2>2. runs[r] = None \/ runs[r] \in Run
    BY DEF RunTypes
  <2> HIDE DEF n
  <2> QED BY <2>1, <2>2 DEF Run
<1> QED BY <1>1, SameFresh

LEMMA RefetchFresh ==
  ASSUME ReadsInv, FreshRuns(runs), NEW h \in Hooks, NEW cancel \in BOOLEAN, Refetch(h, cancel)
  PROVE  FreshRuns(runs')
<1> DEFINE c == <<h, "refetch">>
           k == hooks[h].key
           q == slot[k]
           rs == [runs EXCEPT ![q].aborted = TRUE, ![q].dropped = TRUE]
           sl == [slot EXCEPT ![k] = None]
<1>1. /\ Books(calls, runs, slot, hooks) /\ RunTypes(runs) /\ SlotTypes(slot)
      /\ Mapped(slot, runs) /\ hooks[h] \in Hook /\ k \in Keys
  BY DEF ReadsInv, Books, HookTypes, Hook, Refetch, Mounted
<1>2. \/ Revalidate(c, hooks[h], slot, runs)
      \/ q # None /\ Revalidate(c, hooks[h], sl, rs)
  BY DEF Refetch
<1> HIDE DEF c
<1>3. CASE Revalidate(c, hooks[h], slot, runs)
  BY <1>1, <1>3, RevalidateFresh
<1>4. CASE q # None /\ Revalidate(c, hooks[h], sl, rs)
  <2>1. Books(calls, rs, sl, hooks)
    BY <1>1, <1>4, CancelBooks
  <2>2. q \in Runs /\ runs[q] \in Run /\ runs[q] # None
    BY <1>1, <1>4 DEF SlotTypes, Mapped, RunTypes
  <2> HIDE DEF q
  <2>3. rs[q] = [runs[q] EXCEPT !.aborted = TRUE, !.dropped = TRUE]
        /\ \A r \in Runs \ {q} : rs[r] = runs[r]
    BY <1>1, <2>2 DEF RunTypes
  <2> HIDE DEF rs, sl
  <2>4. FreshRuns(rs)
    <3>1. /\ rs[q].key = runs[q].key /\ rs[q].pc = runs[q].pc /\ rs[q].got = runs[q].got
          /\ rs[q].alone = runs[q].alone /\ rs[q].dropped
      BY <2>2, <2>3 DEF Run
    <3>2. \A r \in Runs : rs[r] # None =>
            /\ runs[r] # None
            /\ rs[r].key = runs[r].key /\ rs[r].pc = runs[r].pc /\ rs[r].got = runs[r].got
            /\ rs[r].alone = runs[r].alone /\ (runs[r].dropped => rs[r].dropped)
      <4> TAKE r \in Runs
      <4>1. CASE r = q
        BY <2>2, <3>1, <4>1
      <4>2. CASE r # q
        BY <2>3, <4>2
      <4> QED BY <4>1, <4>2
    <3>3. FreshRuns(runs)
      BY DEF FreshInv
    <3> QED BY ONLY <3>2, <3>3, SameFresh
  <2> QED BY <1>1, <1>4, <2>1, <2>4, RevalidateFresh DEF Books
<1> QED
  BY <1>2, <1>3, <1>4

\* The record is written.
LEMMA CommitFresh ==
  ASSUME ReadsInv, FreshInv, NEW r \in Runs, runs[r] # None, runs[r].pc # "asking",
         record' = [record EXCEPT ![runs[r].key] = runs[r].got], UNCHANGED server,
         runs' = [runs EXCEPT ![r] = None]
  PROVE  FreshInv'
<1> DEFINE k == runs[r].key
<1>1. /\ RunTypes(runs) /\ runs[r] \in Run /\ k \in Keys
      /\ record \in [Keys -> Versions \cup {None}]
  BY DEF ReadsInv, Books, RunTypes, DataTypes, Run
<1>2. record'[k] = runs[r].got /\ \A x \in Keys \ {k} : record'[x] = record[x]
  BY <1>1
<1>3. runs'[r] = None /\ \A q \in Runs \ {r} : runs'[q] = runs[q]
  BY <1>1 DEF RunTypes
<1>4. runs[r].got <= server[k]
  BY DEF FreshInv, FreshRuns
<1>5. RecordsKnown'
  BY <1>2, <1>4 DEF FreshInv, RecordsKnown
<1> HIDE DEF k
<1>6. ASSUME NEW q \in Runs, runs'[q] # None
      PROVE  /\ runs'[q].pc # "asking" => runs'[q].got <= server[runs'[q].key]
             /\ runs'[q].alone /\ ~ runs'[q].dropped =>
                  /\ \A x \in Runs \ {q} : runs'[x] = None \/ runs'[x].key # runs'[q].key
                  /\ runs'[q].pc # "asking" /\ record'[runs'[q].key] # None
                       => record'[runs'[q].key] <= runs'[q].got
  <2>1. q # r /\ runs'[q] = runs[q] /\ runs[q] \in Run /\ runs[q].key \in Keys
    BY <1>1, <1>3, <1>6 DEF RunTypes, Run
  <2>2. runs[q].alone /\ ~ runs[q].dropped => runs[q].key # k
    BY <1>6, <2>1 DEF FreshInv, FreshRuns, k
  <2>3. runs[q].alone /\ ~ runs[q].dropped => record'[runs[q].key] = record[runs[q].key]
    BY <1>2, <2>1, <2>2
  <2> QED
    BY <1>3, <1>6, <2>1, <2>3 DEF FreshInv, FreshRuns
<1> QED BY <1>5, <1>6 DEF FreshInv, FreshRuns

LEMMA RunStepFresh ==
  ASSUME ReadsInv, FreshInv, NEW r \in Runs, RunStep(r)
  PROVE  FreshInv'
<1> DEFINE k == runs[r].key
<1>1. /\ RunTypes(runs) /\ runs[r] \in Run /\ runs[r] # None /\ k \in Keys
      /\ server \in [Keys -> Versions] /\ record \in [Keys -> Versions \cup {None}]
  BY DEF ReadsInv, Books, RunTypes, Run, RunStep, Answered, Rejected, Refused,
         UpdateRecord, InsertRecord, Is, DataTypes
<1>2. ASSUME UNCHANGED <<server, record>>, FreshRuns(runs') PROVE FreshInv'
  BY <1>2 DEF FreshInv, RecordsKnown, FreshRuns
<1>3. ASSUME UNCHANGED <<server, record>>, runs' = [runs EXCEPT ![r] = None] PROVE FreshInv'
  <2>1. \A q \in Runs : runs'[q] # None => runs'[q] = runs[q]
    BY <1>1, <1>3 DEF RunTypes
  <2> QED BY <1>2, <1>3, <2>1, SameFresh DEF FreshInv
<1>4. CASE Answered(r)
  <2> DEFINE run == [runs[r] EXCEPT !.pc = "updating", !.got = server[k]]
  <2>1. runs' = [runs EXCEPT ![r] = run] /\ UNCHANGED <<server, record>>
    BY <1>1, <1>4 DEF Answered, RunTypes
  <2>2. /\ run.key = k /\ run.got = server[k]
        /\ run.alone = runs[r].alone /\ run.dropped = runs[r].dropped
    BY <1>1 DEF Run
  <2> HIDE DEF run, k
  <2>3. runs'[r] = run /\ \A q \in Runs \ {r} : runs'[q] = runs[q]
    BY <1>1, <2>1 DEF RunTypes
  <2>4. server[k] <= server[k] /\ (record[k] # None => record[k] <= server[k])
    BY <1>1, ReadsAssumption DEF FreshInv, RecordsKnown, Versions
  <2>5. ASSUME NEW q \in Runs, runs'[q] # None
        PROVE  /\ runs'[q].key = runs[q].key /\ runs[q] # None
               /\ runs'[q].alone = runs[q].alone /\ runs'[q].dropped = runs[q].dropped
    BY <1>1, <2>2, <2>3, <2>5 DEF k
  <2>6. ASSUME NEW q \in Runs, runs'[q] # None
        PROVE  /\ runs'[q].pc # "asking" => runs'[q].got <= server[runs'[q].key]
               /\ runs'[q].alone /\ ~ runs'[q].dropped =>
                    /\ \A x \in Runs \ {q} : runs'[x] = None \/ runs'[x].key # runs'[q].key
                    /\ runs'[q].pc # "asking" /\ record[runs'[q].key] # None
                         => record[runs'[q].key] <= runs'[q].got
    <3>1. ASSUME runs'[q].alone, ~ runs'[q].dropped, NEW x \in Runs \ {q}
          PROVE  runs'[x] = None \/ runs'[x].key # runs'[q].key
      BY <2>5, <2>6, <3>1 DEF FreshInv, FreshRuns
    <3>2. CASE q = r
      BY <2>2, <2>3, <2>4, <3>1, <3>2
    <3>3. CASE q # r
      BY <2>3, <2>6, <3>1, <3>3 DEF FreshInv, FreshRuns
    <3> QED BY <3>2, <3>3
  <2> QED BY <1>2, <2>1, <2>6 DEF FreshRuns
<1>5. CASE Rejected(r)
  BY <1>3, <1>5 DEF Rejected, Settle
<1>6. CASE Refused(r)
  BY <1>3, <1>6 DEF Refused, Settle
<1>7. CASE UpdateRecord(r)
  <2>1. CASE record[k] = None
    <3> DEFINE run == [runs[r] EXCEPT !.pc = "inserting"]
    <3>1. runs' = [runs EXCEPT ![r] = run] /\ UNCHANGED <<server, record>>
      BY <1>1, <1>7, <2>1 DEF UpdateRecord, RunTypes
    <3>2. /\ run.key = k /\ run.got = runs[r].got /\ run.pc # "asking" /\ runs[r].pc # "asking"
          /\ run.alone = runs[r].alone /\ run.dropped = runs[r].dropped
      BY <1>1, <1>7 DEF Run, UpdateRecord, Is
    <3> HIDE DEF run, k
    <3>3. runs'[r] = run /\ \A q \in Runs \ {r} : runs'[q] = runs[q]
      BY <1>1, <3>1 DEF RunTypes
    <3>4. ASSUME NEW q \in Runs, runs'[q] # None
          PROVE  /\ runs'[q].key = runs[q].key /\ runs[q] # None /\ runs'[q].got = runs[q].got
                 /\ (runs'[q].pc # "asking" <=> runs[q].pc # "asking")
                 /\ runs'[q].alone = runs[q].alone /\ runs'[q].dropped = runs[q].dropped
      BY <1>1, <3>2, <3>3, <3>4 DEF k
    <3>5. ASSUME NEW q \in Runs, runs'[q] # None
          PROVE  /\ runs'[q].pc # "asking" => runs'[q].got <= server[runs'[q].key]
                 /\ runs'[q].alone /\ ~ runs'[q].dropped =>
                      /\ \A x \in Runs \ {q} : runs'[x] = None \/ runs'[x].key # runs'[q].key
                      /\ runs'[q].pc # "asking" /\ record[runs'[q].key] # None
                           => record[runs'[q].key] <= runs'[q].got
      <4>1. ASSUME runs'[q].alone, ~ runs'[q].dropped, NEW x \in Runs \ {q}
            PROVE  runs'[x] = None \/ runs'[x].key # runs'[q].key
        BY <3>4, <3>5, <4>1 DEF FreshInv, FreshRuns
      <4> QED BY <3>4, <3>5, <4>1 DEF FreshInv, FreshRuns
    <3> QED BY <1>2, <3>1, <3>5 DEF FreshRuns
  <2>2. CASE record[k] # None
    BY <1>1, <1>7, <2>2, CommitFresh DEF UpdateRecord, Settle, Is
  <2> QED BY <2>1, <2>2
<1>8. CASE InsertRecord(r)
  <2>1. CASE record[k] = None
    BY <1>1, <1>8, <2>1, CommitFresh DEF InsertRecord, Settle, Is
  <2>2. CASE record[k] # None
    BY <1>3, <1>8, <2>2 DEF InsertRecord, Settle
  <2> QED BY <2>1, <2>2
<1> QED
  BY <1>4, <1>5, <1>6, <1>7, <1>8 DEF RunStep

LEMMA InitFresh == Init => FreshInv
BY ReadsAssumption DEF Init, FreshInv, RecordsKnown, FreshRuns

LEMMA NextFresh ==
  ASSUME ReadsInv, FreshInv, [Next]_vars
  PROVE  FreshInv'
<1>1. /\ RunTypes(runs) /\ SlotTypes(slot) /\ Mapped(slot, runs) /\ HookTypes(hooks)
      /\ CallTypes(calls) /\ Tied(calls, runs, hooks)
      /\ FreshRuns(runs) /\ DataTypes
  BY DEF ReadsInv, Books, FreshInv
<1>2. ASSUME UNCHANGED <<server, record>>, FreshRuns(runs') PROVE FreshInv'
  BY <1>2 DEF FreshInv, RecordsKnown, FreshRuns
<1>3. CASE UNCHANGED <<server, record, runs>>
  BY <1>1, <1>2, <1>3
<1>4. ASSUME NEW S, runs' = Leave(S), UNCHANGED <<server, record>> PROVE FreshInv'
  BY <1>1, <1>2, <1>4, LeaveFresh
<1>5. ASSUME NEW h \in Hooks, NEW c, NEW seen, Revalidate(c, seen, slot, runs),
             seen.key = hooks[h].key, hooks[h].key # None, UNCHANGED <<server, record>>
      PROVE  FreshInv'
  <2>1. seen.key \in Keys
    BY <1>1, <1>5 DEF HookTypes, Hook
  <2> QED BY <1>1, <1>2, <1>5, <2>1, RevalidateFresh
<1>6. ASSUME NEW h \in Hooks, ReadRecord(h) PROVE FreshInv'
  <2> DEFINE c == <<h, "mount">>
             warm == [hooks[h] EXCEPT !.shown = hooks[h].key]
  <2>1. hooks[h] \in Hook /\ hooks[h].key # None
    <3>1. c \in Callers /\ calls[c] # None /\ c[2] = "mount" /\ c[1] = h
      BY <1>6 DEF ReadRecord, Reads, Callers, Kinds
    <3> QED BY <1>1, <3>1 DEF Tied, HookTypes
  <2>2. warm.key = hooks[h].key
    BY <2>1 DEF Hook
  <2>3. /\ UNCHANGED <<server, record>>
        /\ UNCHANGED runs \/ Revalidate(c, warm, slot, runs)
           \/ Revalidate(c, hooks[h], slot, runs)
    BY <1>6 DEF ReadRecord
  <2> HIDE DEF warm, c
  <2> QED BY <1>3, <1>5, <2>1, <2>2, <2>3
<1>7. ASSUME NEW h \in Hooks, Trigger(h) PROVE FreshInv'
  <2>1. /\ UNCHANGED <<server, record>> /\ hooks[h].key # None
        /\ Revalidate(<<h, "trigger">>, hooks[h], slot, runs)
    BY <1>7 DEF Trigger, Mounted
  <2> QED BY <1>5, <2>1
<1>8. ASSUME NEW h \in Hooks, NEW cancel \in BOOLEAN, Refetch(h, cancel) PROVE FreshInv'
  <2>1. UNCHANGED <<server, record>>
    BY <1>8 DEF Refetch
  <2> QED BY <1>1, <1>2, <1>8, <2>1, RefetchFresh
<1>9. ASSUME NEW k \in Keys, ForgetRecord(k) PROVE FreshInv'
  BY <1>1, <1>9 DEF ForgetRecord, FreshInv, RecordsKnown, FreshRuns, DataTypes, RunTypes, Run
<1>10. ASSUME NEW k \in Keys, ServerChanges(k) PROVE FreshInv'
  <2>1. \A x \in Keys : server[x] \in Nat /\ server'[x] \in Nat /\ server[x] <= server'[x]
    BY <1>1, <1>10, ReadsAssumption DEF ServerChanges, DataTypes, Versions
  <2>2. UNCHANGED <<record, runs>>
    BY <1>10 DEF ServerChanges
  <2>3. \A x \in Keys : record[x] # None => record[x] \in Nat
    BY <1>1, ReadsAssumption DEF DataTypes, Versions
  <2>4. RecordsKnown'
    BY <2>1, <2>2, <2>3 DEF FreshInv, RecordsKnown
  <2>5. \A r \in Runs : runs[r] # None => runs[r].key \in Keys /\ runs[r].got \in Nat
    BY <1>1, ReadsAssumption DEF RunTypes, Run, Versions
  <2>6. FreshRuns(runs)'
    BY <1>1, <2>1, <2>2, <2>5 DEF FreshRuns
  <2> QED BY <2>4, <2>6 DEF FreshInv
<1> QED
  BY <1>3, <1>4, <1>6, <1>7, <1>8, <1>9, <1>10, RunStepFresh
  DEF Next, vars, Mount, ChangeKey, Unmount, ReadFails, LateReadEnds, TimerFires

\* A record goes back to an older result set only by a request that a refetch
\* cancelled, or by one begun while a cancelled one was still out.
THEOREM RecordsGoForward == Spec => RecordMonotone
<1>1. ASSUME ReadsInv, FreshInv, [Next]_vars, NEW r \in Runs, NEW k \in Keys,
             runs[r] # None, runs'[r] = None, runs[r].alone, ~ runs[r].dropped,
             record[k] # None, record'[k] # None
      PROVE  record'[k] >= record[k]
  <2>1. /\ record[k] \in Nat /\ runs[r] \in Run /\ runs[r].got \in Nat /\ runs[r].key \in Keys
        /\ record \in [Keys -> Versions \cup {None}] /\ RunTypes(runs)
    BY <1>1, ReadsAssumption DEF ReadsInv, Books, RunTypes, Run, DataTypes, Versions
  <2>2. CASE record' = record
    BY <2>1, <2>2
  <2>3. ASSUME NEW q \in Runs, RunStep(q) PROVE record'[k] >= record[k]
    <3>1. CASE record' = [record EXCEPT ![runs[q].key] = runs[q].got]
               /\ runs' = [runs EXCEPT ![q] = None] /\ runs[q].pc # "asking"
      <4>1. q = r
        BY <1>1, <2>1, <3>1 DEF RunTypes
      <4>2. record[runs[r].key] # None => record[runs[r].key] <= runs[r].got
        BY <1>1, <3>1, <4>1 DEF FreshInv, FreshRuns
      <4>3. record'[k] = IF k = runs[r].key THEN runs[r].got ELSE record[k]
        BY <2>1, <3>1, <4>1
      <4> QED BY <1>1, <2>1, <4>2, <4>3
    <3> QED
      BY <2>2, <2>3, <3>1
      DEF RunStep, Answered, Rejected, Refused, UpdateRecord, InsertRecord, Settle, Is
  <2>4. CASE runs' = runs
    BY <1>1, <2>4
  <2> QED
    BY <1>1, <2>2, <2>3, <2>4
    DEF Next, vars, Mount, ChangeKey, Unmount, ReadRecord, ReadFails, LateReadEnds, Trigger,
        Refetch, TimerFires, ForgetRecord, ServerChanges
<1>2. Init => ReadsInv /\ FreshInv
  BY InitInv, InitFresh
<1>3. (ReadsInv /\ FreshInv) /\ [Next]_vars => (ReadsInv /\ FreshInv)'
  BY NextInv, NextFresh
<1>4. (ReadsInv /\ FreshInv) /\ [Next]_vars =>
        [\A r \in Runs, k \in Keys :
           /\ runs[r] # None /\ runs'[r] = None
           /\ runs[r].alone /\ ~ runs[r].dropped
           /\ record[k] # None /\ record'[k] # None
           => record'[k] >= record[k]]_vars
  BY <1>1
<1> QED
  BY <1>2, <1>3, <1>4, PTL DEF RecordMonotone, Spec
=============================================================================
