------------------------ MODULE DrainSchedulerProofs ------------------------
(***************************************************************************)
(* The flush threshold is told of every write, for any number of documents *)
(* and writes, any policy and any threshold.                               *)
(***************************************************************************)
EXTENDS DrainScheduler, FiniteSetTheorems, TLAPS

\* A cycle picks all that is due.
Covering == Cardinality(Docs) <= Batch

\* Why the counter covers the backlog: a document written and not yet seen
\* is due, or is being sent in an older state; so a cycle that has started
\* and sends nothing yet will pick them all.
FreshInv ==
  /\ \A d \in fresh : state[d] \in {"due", "sending"}
  /\ running # "sending" => \A d \in Docs : state[d] # "sending"

CoverInv == TypeOK /\ FreshInv /\ CounterCoversBacklog

LEMMA DocsFinite ==
  IsFiniteSet(Docs) /\ Cardinality(Docs) \in Nat
BY SchedulerAssumption, FS_CardinalityType

LEMMA FreshFinite ==
  ASSUME NEW S \in SUBSET Docs
  PROVE  IsFiniteSet(S) /\ Cardinality(S) \in Nat /\ Cardinality(S) <= Cardinality(Docs)
BY DocsFinite, FS_Subset, FS_CardinalityType

LEMMA InitTypes == Init => TypeOK
BY SchedulerAssumption DEF Init, TypeOK

LEMMA NextTypes == TypeOK /\ [Next]_vars => TypeOK'
<1> SUFFICES ASSUME TypeOK, [Next]_vars PROVE TypeOK'
  OBVIOUS
<1> USE SchedulerAssumption
<1>1. ASSUME NEW d \in Docs, NEW m \in Modes, Commit(d, m) PROVE TypeOK'
  BY <1>1 DEF TypeOK, Commit
<1>2. ASSUME NEW m \in Modes, Ask(m) PROVE TypeOK'
  BY <1>2 DEF TypeOK, Ask, NoteWrite, RequestDrain, Run, Decline
<1>3. CASE Tick
  BY <1>3 DEF TypeOK, Tick, Run
<1>4. CASE Hide
  BY <1>4 DEF TypeOK, Hide, Run
<1>5. CASE Reconnect
  BY <1>5 DEF TypeOK, Reconnect, Run, Decline
<1>6. CASE Disconnect
  BY <1>6 DEF TypeOK, Disconnect
<1>7. CASE TakeOver
  BY <1>7 DEF TypeOK, TakeOver
<1>8. CASE Skip
  BY <1>8 DEF TypeOK, Skip
<1>9. CASE End
  BY <1>9 DEF TypeOK, End
<1>10. ASSUME NEW S \in SUBSET Docs, Select(S) PROVE TypeOK'
  BY <1>10 DEF TypeOK, Select
<1>11. ASSUME NEW d \in Docs, Settle(d) \/ Supersede(d) \/ Defer(d) \/ BackoffElapses(d)
       PROVE  TypeOK'
  BY <1>11 DEF TypeOK, Settle, Supersede, Defer, BackoffElapses
<1>12. CASE UNCHANGED vars
  BY <1>12 DEF TypeOK, vars
<1> QED
  BY <1>1, <1>2, <1>3, <1>4, <1>5, <1>6, <1>7, <1>8, <1>9, <1>10, <1>11, <1>12 DEF Next

\* The scheduler's variables keep their types, whatever the policy.
THEOREM SchedulerTypes == Spec => []TypeOK
BY InitTypes, NextTypes, PTL DEF Spec

-----------------------------------------------------------------------------

\* The writes counted, or about to be.
Told == since + NotingOf("optimistic") + NotingOf("queued") + NotingOf("retry")

LEMMA ToldNat == TypeOK => Told \in Nat
BY SchedulerAssumption DEF TypeOK, Told, NotingOf

\* A commit adds one write to be counted; counting it moves it.
LEMMA CommitTells ==
  ASSUME TypeOK, NEW d \in Docs, NEW m \in Modes, Commit(d, m)
  PROVE  Told' = Told + 1
BY SchedulerAssumption DEF TypeOK, Commit, Told, NotingOf

LEMMA AskTells ==
  ASSUME TypeOK, NEW m \in Modes, Ask(m)
  PROVE  running' = "started" \/ Told' = Told
<1>1. running' = "started" \/ (since' = since + 1 /\ UNCHANGED running)
  BY DEF Ask, NoteWrite, RequestDrain, Run, Decline
<1>2. noting[m] > 0 /\ noting' = [noting EXCEPT ![m] = @ - 1]
  BY DEF Ask
<1> QED
  BY <1>1, <1>2, SchedulerAssumption DEF TypeOK, Told, NotingOf

\* A cycle with room for all picks every document written and not yet seen.
LEMMA SelectClears ==
  ASSUME Covering, TypeOK, FreshInv, NEW S \in SUBSET Docs, Select(S)
  PROVE  fresh' = {}
<1> DEFINE AllDue == {d \in Docs : state[d] = "due"}
<1>1. running = "started" /\ fresh' = fresh \ S /\ (S = AllDue \/ Cardinality(S) = Batch)
  BY DEF Select
<1>2. fresh \subseteq AllDue
  BY <1>1 DEF FreshInv, TypeOK
<1>3. CASE S = AllDue
  BY <1>1, <1>2, <1>3
<1>4. CASE Cardinality(S) = Batch
  <2>1. Cardinality(S) = Cardinality(Docs)
    BY <1>4, FreshFinite, DocsFinite, SchedulerAssumption DEF Covering
  <2>2. S = Docs
    BY <2>1, DocsFinite, FS_Subset
  <2> QED
    BY <1>1, <2>2 DEF TypeOK
<1> QED BY <1>1, <1>3, <1>4

LEMMA InitFresh == Init => FreshInv
BY DEF Init, FreshInv

LEMMA NextFresh == TypeOK /\ FreshInv /\ [Next]_vars => FreshInv'
<1> SUFFICES ASSUME TypeOK, FreshInv, [Next]_vars PROVE FreshInv'
  OBVIOUS
<1> USE SchedulerAssumption DEF FreshInv
<1>1. ASSUME NEW d \in Docs, NEW m \in Modes, Commit(d, m) PROVE FreshInv'
  BY <1>1 DEF TypeOK, Commit
<1>2. ASSUME NEW m \in Modes, Ask(m) PROVE FreshInv'
  BY <1>2 DEF TypeOK, Ask, NoteWrite, RequestDrain, Run, Decline
<1>3. CASE Tick
  BY <1>3 DEF TypeOK, Tick, Run
<1>4. CASE Hide
  BY <1>4 DEF TypeOK, Hide, Run
<1>5. CASE Reconnect
  BY <1>5 DEF TypeOK, Reconnect, Run, Decline
<1>6. CASE Disconnect
  BY <1>6 DEF Disconnect
<1>7. CASE TakeOver
  BY <1>7 DEF TakeOver
<1>8. CASE Skip
  BY <1>8 DEF Skip
<1>9. CASE End
  BY <1>9 DEF End
<1>10. ASSUME NEW S \in SUBSET Docs, Select(S) PROVE FreshInv'
  BY <1>10 DEF TypeOK, Select
<1>11. ASSUME NEW d \in Docs, Settle(d) \/ Supersede(d) \/ Defer(d) \/ BackoffElapses(d)
       PROVE  FreshInv'
  BY <1>11 DEF TypeOK, Settle, Supersede, Defer, BackoffElapses
<1>12. CASE UNCHANGED vars
  BY <1>12 DEF vars
<1> QED
  BY <1>1, <1>2, <1>3, <1>4, <1>5, <1>6, <1>7, <1>8, <1>9, <1>10, <1>11, <1>12 DEF Next

LEMMA InitCovers == Init => CounterCoversBacklog
BY SchedulerAssumption, FS_EmptySet DEF Init, CounterCoversBacklog, NotingOf

\* Nothing else adds to what is fresh, or takes from what is counted.
LEMMA QuietCovers ==
  ASSUME TypeOK, TypeOK', CounterCoversBacklog, fresh' \subseteq fresh,
         running' = "started" \/ (Told' = Told /\ running # "started")
  PROVE  CounterCoversBacklog'
<1>1. CASE running' = "started"
  BY <1>1 DEF CounterCoversBacklog
<1>2. CASE Told' = Told /\ running # "started"
  <2>1. IsFiniteSet(fresh) /\ Cardinality(fresh) \in Nat
    BY FreshFinite DEF TypeOK
  <2>2. Cardinality(fresh') \in Nat /\ Cardinality(fresh') <= Cardinality(fresh)
    BY <2>1, FS_Subset, FS_CardinalityType
  <2>3. Cardinality(fresh) <= Told
    BY <1>2 DEF CounterCoversBacklog, Told
  <2>4. Cardinality(fresh') <= Told'
    BY <1>2, <2>1, <2>2, <2>3, ToldNat
  <2> QED BY <2>4 DEF CounterCoversBacklog, Told, NotingOf
<1> QED BY <1>1, <1>2

LEMMA NextCovers ==
  Covering /\ TypeOK /\ TypeOK' /\ FreshInv /\ CounterCoversBacklog /\ [Next]_vars
    => CounterCoversBacklog'
<1> SUFFICES ASSUME Covering, TypeOK, TypeOK', FreshInv, CounterCoversBacklog, [Next]_vars
             PROVE  CounterCoversBacklog'
  OBVIOUS
<1> DEFINE Quiet == /\ fresh' \subseteq fresh
                    /\ \/ running' = "started"
                       \/ Told' = Told /\ running # "started"
<1>1. ASSUME NEW d \in Docs, NEW m \in Modes, Commit(d, m)
      PROVE  CounterCoversBacklog'
  <2>1. fresh' = fresh \cup {d} /\ running' = running
    BY <1>1 DEF Commit
  <2>2. Cardinality(fresh) \in Nat /\ IsFiniteSet(fresh)
    BY FreshFinite DEF TypeOK
  <2>3. Cardinality(fresh') \in Nat /\ Cardinality(fresh') <= Cardinality(fresh) + 1
    BY <2>1, <2>2, FS_AddElement
  <2>4. Told' = Told + 1 /\ Told \in Nat
    BY <1>1, CommitTells, ToldNat
  <2>5. running # "started" => Cardinality(fresh) <= Told
    BY DEF CounterCoversBacklog, Told
  <2>6. running' # "started" => Cardinality(fresh') <= Told'
    BY <2>1, <2>2, <2>3, <2>4, <2>5
  <2> QED BY <2>6 DEF CounterCoversBacklog, Told, NotingOf
<1>2. ASSUME NEW S \in SUBSET Docs, Select(S) PROVE CounterCoversBacklog'
  <2>1. Cardinality(fresh') = 0
    BY <1>2, SelectClears, FS_EmptySet
  <2>2. Told' \in Nat
    BY SchedulerAssumption DEF TypeOK, Told, NotingOf
  <2> QED BY <2>1, <2>2 DEF CounterCoversBacklog, Told, NotingOf
<1>3. ASSUME NEW m \in Modes, Ask(m) PROVE Quiet \/ (running = "started" /\ running' = running)
  BY <1>3, AskTells DEF Ask, NoteWrite, RequestDrain, Run, Decline
<1>4. (Tick \/ Hide) => Quiet \/ (running = "started" /\ running' = running)
  BY DEF Tick, Hide, Run, Told, NotingOf
<1>5. (Reconnect \/ Disconnect) => Quiet \/ (running = "started" /\ running' = running)
  BY DEF Reconnect, Disconnect, Run, Decline, Told, NotingOf
<1>6. TakeOver => Quiet \/ (running = "started" /\ running' = running)
  BY DEF TakeOver, Told, NotingOf
<1>7. End => Quiet
  BY DEF End, Told, NotingOf
<1>8. ASSUME NEW d \in Docs, Settle(d) \/ Supersede(d) \/ Defer(d) \/ BackoffElapses(d)
      PROVE  Quiet \/ (running = "started" /\ running' = running)
  BY <1>8 DEF Settle, Supersede, Defer, BackoffElapses, Told, NotingOf
<1>9. (UNCHANGED vars) => Quiet \/ (running = "started" /\ running' = running)
  BY DEF vars, Told, NotingOf
<1>10. Quiet => CounterCoversBacklog'
  BY QuietCovers
<1>11. running = "started" /\ running' = running => CounterCoversBacklog'
  BY DEF CounterCoversBacklog
<1>12. ASSUME Skip PROVE CounterCoversBacklog'
  <2>1. Cardinality(fresh') = 0
    BY <1>12, FS_EmptySet DEF Skip
  <2>2. Told' \in Nat
    BY SchedulerAssumption DEF TypeOK, Told, NotingOf
  <2> QED BY <2>1, <2>2 DEF CounterCoversBacklog, Told, NotingOf
<1> QED
  BY <1>1, <1>2, <1>3, <1>4, <1>5, <1>6, <1>7, <1>8, <1>9, <1>10, <1>11, <1>12 DEF Next

\* The threshold is told of every write no cycle has come past, with a batch
\* that holds all documents.
THEOREM SchedulerCounts == Covering => (Spec => []CounterCoversBacklog)
<1>1. Covering /\ Init => CoverInv
  BY InitTypes, InitFresh, InitCovers DEF CoverInv
<1>2. Covering /\ CoverInv /\ [Next]_vars => CoverInv'
  BY NextTypes, NextFresh, NextCovers DEF CoverInv
<1>3. CoverInv => CounterCoversBacklog
  BY DEF CoverInv
<1> QED
  <2> SUFFICES ASSUME Covering PROVE Spec => []CounterCoversBacklog
    OBVIOUS
  <2>1. Init => CoverInv
    BY <1>1
  <2>2. CoverInv /\ [Next]_vars => CoverInv'
    BY <1>2
  <2> QED BY <2>1, <2>2, <1>3, PTL DEF Spec

=============================================================================
