--------------------------- MODULE WebhookProofs ---------------------------
(***************************************************************************)
(* What the change webhook keeps, for any documents, writers, sizes of the *)
(* queue and numbers of attempts: its counters agree with its chains, the  *)
(* endpoint follows the order of the chains and ends with the collection   *)
(* as it is; and where the engine's answers come in order, so do the       *)
(* events.                                                                 *)
(*                                                                         *)
(* The invariant is about one document at a time: its chain c, the number  *)
(* m of events made for it, the latest commit t they tell, its state st in *)
(* the collection and cp at the endpoint, the requests W on their way and  *)
(* the keys H the endpoint has.                                            *)
(***************************************************************************)
EXTENDS Webhook, FiniteSetTheorems, SequenceTheorems, TLAPS

\* The number of the first event that is not settled
Current(c, m) == m - Len(c) + 1

\* Events are numbered as they were made.
NumberedOK(c, m) ==
  /\ c \in Seq(Event) /\ m \in Nat /\ Len(c) <= m
  /\ \A i \in 1 .. Len(c) : c[i].id = m - Len(c) + i

\* They carry ever later commits, unless one was queued too late.
OrderOK(c, t) ==
  /\ \A i \in 1 .. Len(c) : c[i].n <= t
  /\ \A i, j \in 1 .. Len(c) : i <= j => c[i].n <= c[j].n

\* No request is ahead of the current event.
WireOK(d, c, m, W) ==
  \A r \in W : r.doc = d =>
    /\ r.event.id <= m /\ r.event.id <= Current(c, m)
    /\ r.event.id = Current(c, m) => r.event = Head(c)

HeardOK(d, c, m, H) ==
  \A i \in Nat \ {0} : <<d, i>> \in H => i <= m /\ i <= Current(c, m)

ImageOf(e) == [n |-> e.n, there |-> e.op # "delete"]

\* Where no event was given up, the endpoint has all that came before the
\* current one, and its copy is that one's once it has it.
CopyOK(d, c, m, cp, H) ==
  /\ \A i \in Nat \ {0} : i < Current(c, m) => <<d, i>> \in H
  /\ c # <<>> /\ <<d, Current(c, m)>> \in H => cp = ImageOf(Head(c))

\* The endpoint is behind what the chain has for it.
BehindOK(c, t, cp) == cp.n <= t /\ \A i \in 1 .. Len(c) : cp.n <= c[i].n

\* The last event tells what the document is.
Tells(c, t, st, cp) ==
  /\ t = st.n
  /\ IF c = <<>> THEN cp = st ELSE ImageOf(c[Len(c)]) = st

-----------------------------------------------------------------------------

\* An event is queued.
LEMMA AppendOK ==
  ASSUME NEW d \in Docs, NEW c, NEW m, NEW e \in Event, NumberedOK(c, m), e.id = m + 1
  PROVE  /\ NumberedOK(Append(c, e), m + 1)
         /\ \A W \in SUBSET Request : WireOK(d, c, m, W) => WireOK(d, Append(c, e), m + 1, W)
         /\ \A H : HeardOK(d, c, m, H) => HeardOK(d, Append(c, e), m + 1, H)
         /\ \A cp, H : HeardOK(d, c, m, H) /\ CopyOK(d, c, m, cp, H)
                         => CopyOK(d, Append(c, e), m + 1, cp, H)
         /\ \A t \in Nat : t <= e.n /\ OrderOK(c, t) => OrderOK(Append(c, e), e.n)
         /\ \A t \in Nat : \A cp \in Image :
              t <= e.n /\ BehindOK(c, t, cp) => BehindOK(Append(c, e), e.n, cp)
         /\ \A st, cp : ImageOf(e) = st => Tells(Append(c, e), e.n, st, cp)
<1> DEFINE a == Append(c, e)
<1>1. c \in Seq(Event) /\ m \in Nat /\ Len(c) \in Nat /\ Len(c) <= m /\ e.n \in Nat
      /\ \A i \in 1 .. Len(c) : c[i].n \in Nat
  <2>1. c \in Seq(Event) /\ m \in Nat /\ Len(c) <= m
    BY DEF NumberedOK
  <2>2. \A i \in 1 .. Len(c) : c[i] \in Event
    BY <2>1
  <2>3. Len(c) \in Nat /\ e.n \in Nat /\ \A i \in 1 .. Len(c) : c[i].n \in Nat
    BY <2>1, <2>2 DEF Event
  <2> QED
    BY <2>1, <2>3
<1>2. /\ a \in Seq(Event) /\ Len(a) = Len(c) + 1 /\ a[Len(a)] = e /\ a # <<>>
      /\ \A i \in 1 .. Len(c) : a[i] = c[i]
  BY <1>1
<1>3. c # <<>> => Head(a) = Head(c)
  BY <1>1, <1>2
<1>4. c = <<>> => Len(c) = 0
  OBVIOUS
<1>5. Current(a, m + 1) = Current(c, m)
  BY <1>1, <1>2 DEF Current
<1>6. \A i \in 1 .. Len(a) : i \in 1 .. Len(c) \/ i = Len(a)
  BY <1>1, <1>2
<1> HIDE DEF a
<1>7. NumberedOK(a, m + 1)
  <2>1. ASSUME NEW i \in 1 .. Len(a) PROVE a[i].id = m + 1 - Len(a) + i
    <3>1. CASE i \in 1 .. Len(c)
      BY <1>1, <1>2, <3>1 DEF NumberedOK
    <3>2. CASE i = Len(a)
      BY <1>1, <1>2, <3>2
    <3> QED
      BY <1>6, <3>1, <3>2
  <2>2. a \in Seq(Event) /\ m + 1 \in Nat /\ Len(a) <= m + 1
    BY <1>1, <1>2
  <2> QED
    BY <2>1, <2>2 DEF NumberedOK
<1>8. ASSUME NEW W \in SUBSET Request, WireOK(d, c, m, W) PROVE WireOK(d, a, m + 1, W)
  <2>1. ASSUME NEW r \in W, r.doc = d
        PROVE  /\ r.event.id <= m + 1 /\ r.event.id <= Current(a, m + 1)
               /\ r.event.id = Current(a, m + 1) => r.event = Head(a)
    <3>1. r.event.id \in Nat
      BY DEF Request, Event
    <3>2. /\ r.event.id <= m /\ r.event.id <= Current(c, m)
          /\ r.event.id = Current(c, m) => r.event = Head(c)
      BY <1>8, <2>1 DEF WireOK
    <3>3. r.event.id = Current(c, m) => c # <<>>
      BY <1>1, <1>4, <3>1, <3>2 DEF Current
    <3> QED
      BY <1>1, <1>3, <1>5, <3>1, <3>2, <3>3
  <2> QED
    BY <2>1 DEF WireOK
<1>9. ASSUME NEW H, HeardOK(d, c, m, H) PROVE HeardOK(d, a, m + 1, H)
  BY <1>1, <1>5, <1>9 DEF HeardOK
<1>10. ASSUME NEW cp, NEW H, HeardOK(d, c, m, H), CopyOK(d, c, m, cp, H)
       PROVE  CopyOK(d, a, m + 1, cp, H)
  <2>1. <<d, Current(a, m + 1)>> \in H => c # <<>>
    <3>1. Current(c, m) \in Nat \ {0} /\ (c = <<>> => Current(c, m) > m)
      BY <1>1, <1>4 DEF Current
    <3> QED
      BY <1>1, <1>5, <1>10, <3>1 DEF HeardOK
  <2> QED
    BY <1>2, <1>3, <1>5, <1>10, <2>1 DEF CopyOK
<1>11. ASSUME NEW t \in Nat, t <= e.n, OrderOK(c, t) PROVE OrderOK(a, e.n)
  <2>1. ASSUME NEW i \in 1 .. Len(a) PROVE a[i].n <= e.n
    <3>1. CASE i \in 1 .. Len(c)
      BY <1>1, <1>2, <1>11, <3>1 DEF OrderOK
    <3>2. CASE i = Len(a)
      BY <1>1, <1>2, <3>2
    <3> QED
      BY <1>6, <3>1, <3>2
  <2>2. ASSUME NEW i \in 1 .. Len(a), NEW j \in 1 .. Len(a), i <= j
        PROVE  a[i].n <= a[j].n
    <3>1. CASE j \in 1 .. Len(c)
      BY <1>1, <1>2, <1>11, <2>2, <3>1 DEF OrderOK
    <3>2. CASE j = Len(a)
      BY <1>2, <2>1, <3>2
    <3> QED
      BY <1>6, <3>1, <3>2
  <2> QED
    BY <2>1, <2>2 DEF OrderOK
<1>12. ASSUME NEW t \in Nat, NEW cp \in Image, t <= e.n, BehindOK(c, t, cp)
       PROVE  BehindOK(a, e.n, cp)
  <2>1. cp.n \in Nat /\ cp.n <= t /\ cp.n <= e.n
    BY <1>1, <1>12 DEF BehindOK, Image
  <2>2. \A i \in 1 .. Len(a) : cp.n <= a[i].n
    BY <1>2, <1>6, <1>12, <2>1 DEF BehindOK
  <2> QED
    BY <2>1, <2>2 DEF BehindOK
<1>13. ASSUME NEW st, NEW cp, ImageOf(e) = st PROVE Tells(a, e.n, st, cp)
  BY <1>2, <1>13 DEF Tells, ImageOf
<1> QED
  BY <1>7, <1>8, <1>9, <1>10, <1>11, <1>12, <1>13 DEF a

\* The current event is settled.
LEMMA TailOK ==
  ASSUME NEW d \in Docs, NEW c, NEW m, NumberedOK(c, m), c # <<>>,
         NEW t, t = Tail(c)
  PROVE  /\ NumberedOK(t, m)
         /\ Current(t, m) = Current(c, m) + 1
         /\ \A W \in SUBSET Request : WireOK(d, c, m, W) => WireOK(d, t, m, W)
         /\ \A H : HeardOK(d, c, m, H) => HeardOK(d, t, m, H)
         /\ \A cp, H :
              HeardOK(d, c, m, H) /\ CopyOK(d, c, m, cp, H) /\ <<d, Current(c, m)>> \in H
                => CopyOK(d, t, m, cp, H)
         /\ \A l : OrderOK(c, l) => OrderOK(t, l)
         /\ \A l, cp : BehindOK(c, l, cp) => BehindOK(t, l, cp)
         /\ \A l, st, cp, H :
              Tells(c, l, st, cp) /\ CopyOK(d, c, m, cp, H) /\ <<d, Current(c, m)>> \in H
                => Tells(t, l, st, cp)
<1>1. c \in Seq(Event) /\ m \in Nat /\ Len(c) \in Nat \ {0} /\ Len(c) <= m
  BY DEF NumberedOK
<1>2. /\ t \in Seq(Event) /\ Len(t) = Len(c) - 1 /\ Head(c) = c[1]
      /\ \A i \in 1 .. Len(t) : t[i] = c[i + 1] /\ i + 1 \in 1 .. Len(c)
  BY <1>1
<1>3. Current(t, m) = Current(c, m) + 1 /\ Current(c, m) \in Nat \ {0} /\ Current(c, m) <= m
  <2>1. \A k \in Nat \ {0} : \A l : l = k - 1 /\ k <= m =>
          m - l + 1 = m - k + 1 + 1 /\ m - k + 1 \in Nat \ {0} /\ m - k + 1 <= m
    BY <1>1
  <2>2. Len(t) = Len(c) - 1
    BY <1>2
  <2> QED
    BY <1>1, <2>1, <2>2 DEF Current
<1>5. t = <<>> => Len(c) = 1
  <2>1. t = <<>> => Len(t) = 0
    OBVIOUS
  <2> QED
    BY <1>1, <1>2, <2>1
<1>6. t # <<>> => Len(t) \in 1 .. Len(t) /\ t[Len(t)] = c[Len(c)]
  <2>1. t \in Seq(Event) /\ (t # <<>> => Len(t) \in Nat \ {0})
    BY <1>2
  <2> QED
    BY <1>1, <1>2, <2>1
<1>7. NumberedOK(t, m)
  <2>1. ASSUME NEW i \in 1 .. Len(t) PROVE t[i].id = m - Len(t) + i
    <3>1. i + 1 \in 1 .. Len(c) /\ t[i] = c[i + 1]
      BY <1>2
    <3>2. c[i + 1].id = m - Len(c) + (i + 1)
      BY <3>1 DEF NumberedOK
    <3>3. Len(t) \in Nat /\ i \in Nat /\ m - Len(c) + (i + 1) = m - Len(t) + i
      BY <1>1, <1>2
    <3> QED
      BY <3>1, <3>2, <3>3
  <2> QED
    BY <1>1, <1>2, <2>1 DEF NumberedOK
<1>8. ASSUME NEW W \in SUBSET Request, WireOK(d, c, m, W) PROVE WireOK(d, t, m, W)
  <2>1. ASSUME NEW r \in W, r.doc = d
        PROVE  /\ r.event.id <= m /\ r.event.id <= Current(t, m)
               /\ r.event.id # Current(t, m)
    <3>1. r.event.id \in Nat
      BY DEF Request, Event
    <3> QED
      BY <1>3, <1>8, <2>1, <3>1 DEF WireOK
  <2> QED
    BY <2>1 DEF WireOK
<1>9. ASSUME NEW H, HeardOK(d, c, m, H) PROVE HeardOK(d, t, m, H)
  BY <1>1, <1>3, <1>9 DEF HeardOK
<1>10. ASSUME NEW cp, NEW H, HeardOK(d, c, m, H), CopyOK(d, c, m, cp, H),
              <<d, Current(c, m)>> \in H
       PROVE  CopyOK(d, t, m, cp, H)
  <2>1. <<d, Current(t, m)>> \notin H
    BY <1>3, <1>10 DEF HeardOK
  <2>2. \A i \in Nat \ {0} : i < Current(t, m) => <<d, i>> \in H
    <3>1. \A i \in Nat : i < Current(c, m) + 1 => i < Current(c, m) \/ i = Current(c, m)
      BY <1>3
    <3> QED
      BY <1>3, <1>10, <3>1 DEF CopyOK
  <2> QED
    BY <1>10, <2>1, <2>2 DEF CopyOK
<1>11. ASSUME NEW l, OrderOK(c, l) PROVE OrderOK(t, l)
  BY <1>1, <1>2, <1>11 DEF OrderOK
<1>12. ASSUME NEW l, NEW cp, BehindOK(c, l, cp) PROVE BehindOK(t, l, cp)
  BY <1>2, <1>12 DEF BehindOK
<1>13. ASSUME NEW l, NEW st, NEW cp, NEW H, Tells(c, l, st, cp), CopyOK(d, c, m, cp, H),
              <<d, Current(c, m)>> \in H
       PROVE  Tells(t, l, st, cp)
  <2>1. CASE t = <<>>
    BY <1>1, <1>2, <1>5, <1>13, <2>1 DEF Tells, CopyOK
  <2>2. CASE t # <<>>
    BY <1>6, <1>13, <2>2 DEF Tells
  <2> QED
    BY <2>1, <2>2
<1>14. Current(t, m) = Current(c, m) + 1
  BY <1>3
<1>15. \A cp, H : HeardOK(d, c, m, H) /\ CopyOK(d, c, m, cp, H) /\ <<d, Current(c, m)>> \in H
                   => CopyOK(d, t, m, cp, H)
  BY <1>10
<1>16. \A l, st, cp, H : Tells(c, l, st, cp) /\ CopyOK(d, c, m, cp, H)
                          /\ <<d, Current(c, m)>> \in H => Tells(t, l, st, cp)
  BY <1>13
<1>17. \A W \in SUBSET Request : WireOK(d, c, m, W) => WireOK(d, t, m, W)
  BY <1>8
<1>18. \A H : HeardOK(d, c, m, H) => HeardOK(d, t, m, H)
  BY <1>9
<1>19. (\A l : OrderOK(c, l) => OrderOK(t, l)) /\ \A l, cp : BehindOK(c, l, cp) => BehindOK(t, l, cp)
  BY <1>11, <1>12
<1> QED
  BY <1>7, <1>14, <1>15, <1>16, <1>17, <1>18, <1>19

-----------------------------------------------------------------------------
(***************************************************************************)
(* Counting places.                                                        *)
(***************************************************************************)

LEMMA PlacesAre ==
  ASSUME NEW count \in [Docs -> Nat], NEW p
  PROVE  p \in Places(count) <=> \E d \in Docs : \E i \in 1 .. count[d] : p = <<d, i>>
BY DEF Places

LEMMA PlacesFinite ==
  ASSUME NEW count \in [Docs -> Nat]
  PROVE  IsFiniteSet(Places(count)) /\ Cardinality(Places(count)) \in Nat
<1> DEFINE f == [d \in Docs |-> {d} \X (1 .. count[d])]
           T == {{d} \X (1 .. count[d]) : d \in Docs}
<1>1. f \in Surjection(Docs, T)
  BY DEF Surjection
<1>2. IsFiniteSet(T)
  <2> HIDE DEF T, f
  <2>1. IsFiniteSet(Docs)
    BY WebhookAssumption
  <2> QED
    BY <1>1, <2>1, FS_Surjection
<1>3. ASSUME NEW d \in Docs PROVE IsFiniteSet({d} \X (1 .. count[d]))
  <2>1. count[d] \in Int /\ 1 \in Int
    OBVIOUS
  <2>2. IsFiniteSet({d})
    BY FS_Singleton
  <2>3. IsFiniteSet(1 .. count[d])
    BY <2>1, FS_Interval
  <2> QED
    BY <2>2, <2>3, FS_Product
<1>4. \A t \in T : IsFiniteSet(t)
  BY <1>3
<1>5. Places(count) = UNION T
  BY DEF Places
<1> HIDE DEF T
<1>6. IsFiniteSet(UNION T)
  BY <1>2, <1>4, FS_UNION
<1> QED
  BY <1>5, <1>6, FS_CardinalityType

\* One more for each of the documents of kept
LEMMA PlacesMore ==
  ASSUME NEW count \in [Docs -> Nat], NEW more \in [Docs -> Nat], NEW kept \in SUBSET Docs,
         \A d \in Docs : more[d] = IF d \in kept THEN count[d] + 1 ELSE count[d]
  PROVE  /\ IsFiniteSet(kept)
         /\ Cardinality(Places(more)) = Cardinality(Places(count)) + Cardinality(kept)
<1> DEFINE f == [d \in kept |-> <<d, count[d] + 1>>]
           New == {<<d, count[d] + 1>> : d \in kept}
<1>1. IsFiniteSet(kept)
  BY FS_Subset, WebhookAssumption
<1>2. f \in Bijection(kept, New)
  BY DEF Bijection, Injection, Surjection, IsInjective
<1>3. IsFiniteSet(New) /\ Cardinality(New) = Cardinality(kept)
  BY <1>1, <1>2, FS_Bijection DEF ExistsBijection
<1>4. Places(more) = Places(count) \cup New
  <2>1. ASSUME NEW p, p \in Places(more) PROVE p \in Places(count) \cup New
    <3>0. PICK d \in Docs : \E i \in 1 .. more[d] : p = <<d, i>>
      BY <2>1, PlacesAre
    <3>1. PICK i \in 1 .. more[d] : p = <<d, i>>
      BY <3>0
    <3>2. i \in 1 .. count[d] \/ (d \in kept /\ i = count[d] + 1)
      OBVIOUS
    <3> QED
      BY <3>1, <3>2, PlacesAre
  <2>2. ASSUME NEW p, p \in Places(count) PROVE p \in Places(more)
    <3>0. PICK d \in Docs : \E i \in 1 .. count[d] : p = <<d, i>>
      BY <2>2, PlacesAre
    <3>1. PICK i \in 1 .. count[d] : p = <<d, i>>
      BY <3>0
    <3>2. i \in 1 .. more[d]
      OBVIOUS
    <3> QED
      BY <3>1, <3>2, PlacesAre
  <2>3. ASSUME NEW d \in kept PROVE <<d, count[d] + 1>> \in Places(more)
    <3>1. count[d] + 1 \in 1 .. more[d]
      OBVIOUS
    <3> QED
      BY <3>1, PlacesAre
  <2> QED
    BY <2>1, <2>2, <2>3
<1>5. Places(count) \cap New = {}
  <2>1. ASSUME NEW d \in kept, <<d, count[d] + 1>> \in Places(count) PROVE FALSE
    <3>1. PICK e \in Docs : \E i \in 1 .. count[e] : <<d, count[d] + 1>> = <<e, i>>
      BY <2>1, PlacesAre
    <3> QED
      BY <3>1
  <2> QED
    BY <2>1
<1> HIDE DEF New
<1>6. Cardinality(Places(count) \cap New) = 0
  BY <1>5, FS_EmptySet
<1>7. IsFiniteSet(Places(count)) /\ Cardinality(Places(count)) \in Nat
  BY PlacesFinite
<1>8. Cardinality(kept) \in Nat
  BY <1>1, FS_CardinalityType
<1>9. Cardinality(Places(more))
        = Cardinality(Places(count)) + Cardinality(New) - Cardinality(Places(count) \cap New)
  BY <1>3, <1>4, <1>7, FS_Union
<1> QED
  BY <1>1, <1>3, <1>6, <1>7, <1>8, <1>9

\* One less for a document
LEMMA PlacesLess ==
  ASSUME NEW count \in [Docs -> Nat], NEW less \in [Docs -> Nat], NEW d \in Docs,
         count[d] = less[d] + 1, \A e \in Docs \ {d} : less[e] = count[e]
  PROVE  /\ Cardinality(Places(count)) = Cardinality(Places(less)) + 1
         /\ Cardinality(Places(less)) \in Nat
<1>1. \A e \in Docs : count[e] = IF e \in {d} THEN less[e] + 1 ELSE less[e]
  OBVIOUS
<1>2. Cardinality(Places(count)) = Cardinality(Places(less)) + Cardinality({d})
  BY <1>1, PlacesMore
<1> QED
  BY <1>2, PlacesFinite, FS_Singleton

-----------------------------------------------------------------------------
(***************************************************************************)
(* The invariant.                                                          *)
(***************************************************************************)

DocOK(d) ==
  /\ NumberedOK(chains[d], made[d])
  /\ WireOK(d, chains[d], made[d], wire)
  /\ HeardOK(d, chains[d], made[d], heard)
  /\ d \notin given => CopyOK(d, chains[d], made[d], copy[d], heard)
  /\ d \notin crossed => OrderOK(chains[d], told[d])
  /\ d \notin crossed \cup given => BehindOK(chains[d], told[d], copy[d])

\* What deliver() is at is the first of the chain, and the endpoint has it
\* once its answer is on its way.
DeliveryOK(d) ==
  /\ delivery[d].pc # "idle" => chains[d] # <<>>
  /\ delivery[d].pc = "taken" => <<d, Current(chains[d], made[d])>> \in heard

\* A last change that is owed nothing is told by the last event, or by one
\* that a write under way is about to queue.
Telling(w, d) ==
  \/ At(w, "committed") /\ d \in writes[w].ids
  \/ At(w, "answered") /\ d \in writes[w].ids /\ writes[w].image[d] = store[d]

ToTell(d) == \E w \in Writers : Telling(w, d)

Reported(d) ==
  d \in owed \cup given \/ ToTell(d) \/ Tells(chains[d], told[d], store[d], copy[d])

\* An image is of a commit there was.
WriteOK(W, st) ==
  W # None =>
    /\ W.pc = "committed" => W.op # "delete"
    /\ W.pc = "answered" => \A d \in W.ids :
         W.image[d].n <= st[d].n /\ (W.image[d].there => W.op # "delete")

WritesOK == \A w \in Writers : WriteOK(writes[w], store)

WebhookInv ==
  /\ TypeOK
  /\ \A d \in Docs : DocOK(d) /\ DeliveryOK(d) /\ Reported(d) /\ told[d] <= store[d].n
  /\ WritesOK
  /\ Accounted

-----------------------------------------------------------------------------

\* What emit does, the documents kept fitting.
Queues(kept, ids, op, image) ==
  /\ \A d \in kept : \E e \in Event :
       /\ e.id = made[d] + 1 /\ e.n = image[d].n
       /\ e.op = IF image[d].there THEN op ELSE "delete"
       /\ chains'[d] = Append(chains[d], e) /\ made'[d] = made[d] + 1
  /\ \A d \in Docs \ kept : chains'[d] = chains[d] /\ made'[d] = made[d]
  /\ \A d \in Docs : told'[d] = IF d \in kept /\ ~ Late(d, image) THEN image[d].n ELSE told[d]
  /\ crossed' = crossed \cup {d \in kept : Late(d, image)}
  /\ owed' = (owed \ {d \in kept : image[d] = store[d]})
             \cup (ids \ kept) \cup {d \in kept : Misleads(d, image)}

\* emit queues what fits, and counts it.
LEMMA EmitOK ==
  ASSUME TypeOK, Accounted, NEW ids \in SUBSET Docs, NEW op \in Ops,
         NEW image \in [Docs -> Image], Emit(ids, op, image)
  PROVE  /\ chains' \in [Docs -> Seq(Event)] /\ made' \in [Docs -> Nat]
         /\ stats' \in [ pending : 0 .. MaxQueue, delivered : Nat, failed : Nat, dropped : Nat ]
         /\ told' \in [Docs -> Nat] /\ crossed' \in SUBSET Docs /\ owed' \in SUBSET Docs
         /\ Accounted'
         /\ \E kept \in SUBSET ids : Queues(kept, ids, op, image)
<1>1. PICK kept \in Fitting(ids) :
        /\ chains' = [d \in Docs |->
             IF d \in kept
               THEN Append(chains[d],
                           [id |-> made[d] + 1, n |-> image[d].n,
                            op |-> IF image[d].there THEN op ELSE "delete"])
               ELSE chains[d]]
        /\ made' = [d \in Docs |-> IF d \in kept THEN made[d] + 1 ELSE made[d]]
        /\ stats' = [stats EXCEPT !.pending = @ + Cardinality(kept),
                                  !.dropped = @ + Cardinality(ids \ kept)]
        /\ told' = [d \in Docs |->
             IF d \in kept /\ ~Late(d, image) THEN image[d].n ELSE told[d]]
        /\ crossed' = crossed \cup {d \in kept : Late(d, image)}
        /\ owed' = (owed \ {d \in kept : image[d] = store[d]})
                   \cup (ids \ kept) \cup {d \in kept : Misleads(d, image)}
  BY DEF Emit, OpOf
<1>2. /\ chains \in [Docs -> Seq(Event)] /\ made \in [Docs -> Nat] /\ owed \in SUBSET Docs
      /\ told \in [Docs -> Nat] /\ crossed \in SUBSET Docs
      /\ stats \in [ pending : 0 .. MaxQueue, delivered : Nat, failed : Nat, dropped : Nat ]
      /\ MaxQueue \in Nat
  BY WebhookAssumption DEF TypeOK
<1>3. IsFiniteSet(ids) /\ kept \in SUBSET ids /\ IsFiniteSet(kept) /\ IsFiniteSet(ids \ kept)
  <2>1. IsFiniteSet(ids)
    BY WebhookAssumption, FS_Subset
  <2>2. kept \in SUBSET ids
    BY DEF Fitting
  <2> QED
    BY <2>1, <2>2, FS_Subset, FS_Difference
<1>4. Cardinality(kept) \in Nat /\ Cardinality(ids \ kept) \in Nat
      /\ Cardinality(kept) + stats.pending <= MaxQueue
  <2>1. Cardinality(ids) \in Nat /\ Cardinality(kept) \in Nat /\ Cardinality(ids \ kept) \in Nat
    BY <1>3, FS_CardinalityType
  <2>2. Cardinality(kept) = IF Cardinality(ids) <= Room THEN Cardinality(ids) ELSE Room
    BY DEF Fitting
  <2> QED
    BY <1>2, <2>1, <2>2 DEF Room
<1>5. ASSUME NEW d \in kept
      PROVE  \E e \in Event :
               /\ e.id = made[d] + 1 /\ e.n = image[d].n
               /\ e.op = IF image[d].there THEN op ELSE "delete"
               /\ chains'[d] = Append(chains[d], e) /\ made'[d] = made[d] + 1
  <2>1. d \in Docs /\ image[d].n \in Nat /\ made[d] + 1 \in Nat \ {0}
    BY <1>2, <1>3 DEF Image
  <2>2. (IF image[d].there THEN op ELSE "delete") \in Ops
    BY DEF Ops
  <2>3. [id |-> made[d] + 1, n |-> image[d].n,
         op |-> IF image[d].there THEN op ELSE "delete"] \in Event
    BY <2>1, <2>2 DEF Event
  <2> QED
    BY <1>1, <2>1, <2>3
<1>6. \A d \in Docs \ kept : chains'[d] = chains[d] /\ made'[d] = made[d]
  BY <1>1
<1>7. chains' \in [Docs -> Seq(Event)] /\ made' \in [Docs -> Nat]
  <2>1. ASSUME NEW d \in Docs PROVE chains'[d] \in Seq(Event) /\ made'[d] \in Nat
    <3>1. CASE d \in kept
      <4>1. PICK e \in Event : chains'[d] = Append(chains[d], e) /\ made'[d] = made[d] + 1
        BY <1>5, <3>1
      <4> QED
        BY <1>2, <4>1
    <3> QED
      BY <1>2, <1>6, <3>1
  <2>2. DOMAIN chains' = Docs /\ DOMAIN made' = Docs /\ chains' = [d \in Docs |-> chains'[d]]
        /\ made' = [d \in Docs |-> made'[d]]
    BY <1>1
  <2> QED
    BY <2>1, <2>2
<1>8. /\ stats'.pending = stats.pending + Cardinality(kept)
      /\ stats'.delivered = stats.delivered /\ stats'.failed = stats.failed
      /\ stats' \in [ pending : 0 .. MaxQueue, delivered : Nat, failed : Nat, dropped : Nat ]
  <2> DEFINE k == Cardinality(kept)
             n == Cardinality(ids \ kept)
  <2>1. k \in Nat /\ n \in Nat /\ k + stats.pending <= MaxQueue
        /\ stats' = [stats EXCEPT !.pending = @ + k, !.dropped = @ + n]
    BY <1>1, <1>4
  <2> HIDE DEF k, n
  <2>2. stats.pending + k \in 0 .. MaxQueue /\ stats.dropped + n \in Nat
    BY <1>2, <2>1
  <2>3. stats' \in [ pending : 0 .. MaxQueue, delivered : Nat, failed : Nat, dropped : Nat ]
    BY <1>2, <2>1, <2>2
  <2>4. stats'.pending = stats.pending + k
        /\ stats'.delivered = stats.delivered /\ stats'.failed = stats.failed
    BY <1>2, <2>1
  <2> QED
    BY <2>3, <2>4 DEF k
<1>9. Cardinality(Places(made')) = Cardinality(Places(made)) + Cardinality(kept)
  <2>1. \A d \in Docs : made'[d] = IF d \in kept THEN made[d] + 1 ELSE made[d]
    BY <1>1
  <2>2. kept \in SUBSET Docs
    BY <1>3
  <2>3. ASSUME NEW more \in [Docs -> Nat], more = made'
        PROVE  Cardinality(Places(more)) = Cardinality(Places(made)) + Cardinality(kept)
    <3>1. \A d \in Docs : more[d] = IF d \in kept THEN made[d] + 1 ELSE made[d]
      BY <2>1, <2>3
    <3>2. made \in [Docs -> Nat] /\ more \in [Docs -> Nat]
      BY <1>2
    <3> QED
      BY ONLY <2>2, <3>1, <3>2, PlacesMore
  <2> QED
    BY <1>7, <2>3
<1>10. Cardinality(Queued') = Cardinality(Queued) + Cardinality(kept)
  <2> DEFINE count == [d \in Docs |-> Len(chains[d])]
             more == [d \in Docs |-> Len(chains'[d])]
  <2>1. count \in [Docs -> Nat] /\ more \in [Docs -> Nat]
    BY <1>2, <1>7
  <2>2. ASSUME NEW d \in Docs
        PROVE  more[d] = IF d \in kept THEN count[d] + 1 ELSE count[d]
    <3>1. CASE d \in kept
      <4>1. PICK e \in Event : chains'[d] = Append(chains[d], e)
        BY <1>5, <3>1
      <4>2. chains[d] \in Seq(Event)
        BY <1>2
      <4>3. Len(chains'[d]) = Len(chains[d]) + 1
        BY <4>1, <4>2
      <4> QED
        BY <3>1, <4>3
    <3> QED
      BY <1>6, <3>1
  <2>3. Queued = Places(count) /\ Queued' = Places(more)
    BY DEF Queued, Places
  <2> HIDE DEF count, more
  <2> QED
    BY <1>3, <2>1, <2>2, <2>3, PlacesMore
<1>11. Accounted'
  <2>1. (Places(made))' = Places(made')
    BY DEF Places
  <2>2. Cardinality(Places(made)) \in Nat
    BY <1>2, PlacesFinite
  <2> QED
    BY <1>2, <1>4, <1>8, <1>9, <1>10, <2>1, <2>2 DEF Accounted
<1>12. told' \in [Docs -> Nat] /\ crossed' \in SUBSET Docs /\ owed' \in SUBSET Docs
  <2>1. \A d \in Docs : image[d].n \in Nat
    BY DEF Image
  <2> QED
    BY <1>1, <1>2, <1>3, <2>1
<1>13. Queues(kept, ids, op, image)
  <2>1. \A d \in Docs : told'[d] = IF d \in kept /\ ~ Late(d, image) THEN image[d].n ELSE told[d]
    BY <1>1
  <2>2. /\ crossed' = crossed \cup {d \in kept : Late(d, image)}
        /\ owed' = (owed \ {d \in kept : image[d] = store[d]})
                   \cup (ids \ kept) \cup {d \in kept : Misleads(d, image)}
    BY <1>1
  <2> QED
    BY <1>5, <1>6, <2>1, <2>2 DEF Queues
<1> QED
  BY <1>3, <1>7, <1>8, <1>11, <1>12, <1>13

\* What every action says of the queue, the counters and each document
Books ==
  /\ Accounted
  /\ \A d \in Docs : DocOK(d) /\ DeliveryOK(d) /\ Reported(d) /\ told[d] <= store[d].n

BooksTypes ==
  /\ chains \in [Docs -> Seq(Event)] /\ made \in [Docs -> Nat]
  /\ stats \in [ pending : 0 .. MaxQueue, delivered : Nat, failed : Nat, dropped : Nat ]
  /\ told \in [Docs -> Nat] /\ crossed \in SUBSET Docs /\ owed \in SUBSET Docs

\* A write that queues nothing.
LEMMA QuietBooks ==
  ASSUME WebhookInv, Quietly, UNCHANGED <<inOrder, delivery, wire, heard, copy, given>>,
         store' \in [Docs -> Image], owed' \in SUBSET Docs,
         \A d \in Docs : /\ store[d].n <= store'[d].n
                         /\ store'[d] # store[d] => d \in owed' \/ ToTell(d)'
                         /\ d \in owed => d \in owed'
                         /\ store'[d] = store[d] /\ ToTell(d) => d \in owed' \/ ToTell(d)'
  PROVE  Books' /\ BooksTypes'
<1>1. /\ chains' = chains /\ made' = made /\ stats' = stats /\ delivery' = delivery
      /\ wire' = wire /\ heard' = heard /\ copy' = copy /\ given' = given
      /\ told' = told /\ crossed' = crossed
  BY DEF Quietly
<1>2. Accounted'
  <2>1. Accounted
    BY DEF WebhookInv
  <2> QED
    BY <1>1, <2>1 DEF Accounted, Queued, Places
<1>3. ASSUME NEW d \in Docs
      PROVE  DocOK(d)' /\ DeliveryOK(d)' /\ Reported(d)' /\ told'[d] <= store'[d].n
  <2>1. DocOK(d) /\ DeliveryOK(d) /\ Reported(d)
    BY DEF WebhookInv
  <2>2. DocOK(d)' /\ DeliveryOK(d)'
    BY <1>1, <2>1 DEF DocOK, DeliveryOK
  <2>3. Reported(d)'
    <3>1. CASE d \in owed \cup given \/ ToTell(d) \/ store'[d] # store[d]
      BY <1>1, <3>1 DEF Reported
    <3>2. CASE store'[d] = store[d] /\ Tells(chains[d], told[d], store[d], copy[d])
      BY <1>1, <3>2 DEF Reported
    <3> QED
      BY <2>1, <3>1, <3>2 DEF Reported
  <2>4. told'[d] <= store'[d].n
    <3>1. /\ told[d] \in Nat /\ store[d].n \in Nat /\ store'[d].n \in Nat
          /\ told[d] <= store[d].n
      BY DEF WebhookInv, TypeOK, Image
    <3>2. store[d].n <= store'[d].n
      OBVIOUS
    <3> QED
      BY <1>1, <3>1, <3>2
  <2> QED
    BY <2>2, <2>3, <2>4
<1>4. BooksTypes'
  BY <1>1 DEF BooksTypes, WebhookInv, TypeOK
<1> QED
  BY <1>2, <1>3, <1>4 DEF Books

\* A write's events are queued.
LEMMA EmitBooks ==
  ASSUME WebhookInv, NEW ids \in SUBSET Docs, NEW op \in Ops, NEW image \in [Docs -> Image],
         Emit(ids, op, image), UNCHANGED <<inOrder, store, delivery, wire, heard, copy, given>>,
         \A d \in ids : image[d].n <= store[d].n /\ (image[d].there => op # "delete"),
         \A d \in Docs : ToTell(d) => ToTell(d)' \/ (d \in ids /\ image[d] = store[d])
  PROVE  Books' /\ BooksTypes'
<1>1. TypeOK /\ Accounted
  BY DEF WebhookInv
<1>2. /\ chains' \in [Docs -> Seq(Event)] /\ made' \in [Docs -> Nat]
      /\ stats' \in [ pending : 0 .. MaxQueue, delivered : Nat, failed : Nat, dropped : Nat ]
      /\ told' \in [Docs -> Nat] /\ crossed' \in SUBSET Docs /\ owed' \in SUBSET Docs
      /\ Accounted'
      /\ \E kept \in SUBSET ids : Queues(kept, ids, op, image)
  BY <1>1, EmitOK
<1>3. PICK kept \in SUBSET ids : Queues(kept, ids, op, image)
  BY <1>2
<1>4. /\ delivery' = delivery /\ wire' = wire /\ heard' = heard /\ copy' = copy /\ given' = given
      /\ store' = store /\ wire \in SUBSET Request
  BY <1>1 DEF TypeOK
<1>5. ASSUME NEW d \in Docs
      PROVE  DocOK(d)' /\ DeliveryOK(d)' /\ Reported(d)' /\ told'[d] <= store'[d].n
  <2>1. /\ DocOK(d) /\ DeliveryOK(d) /\ Reported(d) /\ told[d] <= store[d].n
        /\ store[d] \in Image /\ copy[d] \in Image /\ image[d] \in Image
        /\ told[d] \in Nat /\ store[d].n \in Nat /\ image[d].n \in Nat
    BY <1>1 DEF WebhookInv, TypeOK, Image
  <2>2. /\ told'[d] = IF d \in kept /\ ~ Late(d, image) THEN image[d].n ELSE told[d]
        /\ crossed' = crossed \cup {e \in kept : Late(e, image)}
        /\ owed' = (owed \ {e \in kept : image[e] = store[e]})
                   \cup (ids \ kept) \cup {e \in kept : Misleads(e, image)}
    BY <1>3 DEF Queues
  <2>3. told'[d] <= store'[d].n
    BY <1>4, <2>1, <2>2
  <2>4. CASE d \notin kept
    <3>1. chains'[d] = chains[d] /\ made'[d] = made[d] /\ told'[d] = told[d]
          /\ (d \in crossed' <=> d \in crossed)
      BY <1>3, <2>2, <2>4 DEF Queues
    <3>2. DocOK(d)' /\ DeliveryOK(d)'
      BY <1>4, <2>1, <3>1 DEF DocOK, DeliveryOK
    <3>3. Reported(d)'
      <4>1. CASE d \in ids
        BY <2>2, <2>4, <4>1 DEF Reported
      <4>2. CASE d \notin ids
        BY <1>4, <2>1, <2>2, <2>4, <3>1, <4>2 DEF Reported
      <4> QED
        BY <4>1, <4>2
    <3> QED
      BY <2>3, <3>2, <3>3
  <2>5. CASE d \in kept
    <3>1. PICK e \in Event :
            /\ e.id = made[d] + 1 /\ e.n = image[d].n
            /\ e.op = IF image[d].there THEN op ELSE "delete"
            /\ chains'[d] = Append(chains[d], e) /\ made'[d] = made[d] + 1
      BY <1>3, <2>5 DEF Queues
    <3>2. ImageOf(e) = image[d]
      <4>1. image[d].there \in BOOLEAN /\ image[d] = [n |-> image[d].n, there |-> image[d].there]
        BY <2>1 DEF Image
      <4>2. (e.op # "delete") = image[d].there
        BY <2>5, <3>1, <4>1
      <4> QED
        BY <3>1, <4>1, <4>2 DEF ImageOf
    <3>3. NumberedOK(chains[d], made[d])
      BY <2>1 DEF DocOK
    <3>4. /\ NumberedOK(Append(chains[d], e), made[d] + 1)
          /\ \A W \in SUBSET Request : WireOK(d, chains[d], made[d], W)
                => WireOK(d, Append(chains[d], e), made[d] + 1, W)
          /\ \A H : HeardOK(d, chains[d], made[d], H)
                => HeardOK(d, Append(chains[d], e), made[d] + 1, H)
          /\ \A cp, H : HeardOK(d, chains[d], made[d], H) /\ CopyOK(d, chains[d], made[d], cp, H)
                => CopyOK(d, Append(chains[d], e), made[d] + 1, cp, H)
          /\ \A t \in Nat : t <= e.n /\ OrderOK(chains[d], t)
                => OrderOK(Append(chains[d], e), e.n)
          /\ \A t \in Nat : \A cp \in Image : t <= e.n /\ BehindOK(chains[d], t, cp)
                => BehindOK(Append(chains[d], e), e.n, cp)
          /\ \A st, cp : ImageOf(e) = st => Tells(Append(chains[d], e), e.n, st, cp)
      BY <3>1, <3>3, AppendOK
    <3>5. Late(d, image) => d \in crossed' /\ d \in owed'
      BY <2>2, <2>5 DEF Misleads
    <3>6. ~ Late(d, image) => told'[d] = e.n /\ told[d] <= e.n /\ (d \in crossed' <=> d \in crossed)
      BY <2>1, <2>2, <2>5, <3>1 DEF Late
    <3>7. DocOK(d)'
      <4>1. NumberedOK(chains'[d], made'[d])
        BY <3>1, <3>4
      <4>2. WireOK(d, chains'[d], made'[d], wire')
        BY <1>4, <2>1, <3>1, <3>4 DEF DocOK
      <4>3. HeardOK(d, chains'[d], made'[d], heard')
        BY <1>4, <2>1, <3>1, <3>4 DEF DocOK
      <4>4. d \notin given' => CopyOK(d, chains'[d], made'[d], copy'[d], heard')
        BY <1>4, <2>1, <3>1, <3>4 DEF DocOK
      <4>5. d \notin crossed' => OrderOK(chains'[d], told'[d])
        BY <2>1, <3>1, <3>4, <3>5, <3>6 DEF DocOK
      <4>6. d \notin crossed' \cup given' => BehindOK(chains'[d], told'[d], copy'[d])
        BY <1>4, <2>1, <3>1, <3>4, <3>5, <3>6 DEF DocOK
      <4> QED
        BY <4>1, <4>2, <4>3, <4>4, <4>5, <4>6 DEF DocOK
    <3>8. DeliveryOK(d)'
      <4>1. chains[d] \in Seq(Event) /\ made[d] \in Nat
        BY <3>3 DEF NumberedOK
      <4>2. chains'[d] # <<>> /\ Len(chains'[d]) = Len(chains[d]) + 1
            /\ Len(chains[d]) \in Int /\ made[d] \in Int /\ made'[d] = made[d] + 1
        <5>1. chains'[d] = Append(chains[d], e) /\ made'[d] = made[d] + 1
          BY <3>1
        <5> QED
          BY ONLY <4>1, <5>1
      <4>3. Current(chains'[d], made'[d]) = Current(chains[d], made[d])
        BY ONLY <4>2 DEF Current
      <4> QED
        BY <1>4, <2>1, <4>2, <4>3 DEF DeliveryOK
    <3>9. Reported(d)'
      <4>1. CASE Misleads(d, image)
        BY <2>2, <2>5, <4>1 DEF Reported
      <4>2. CASE image[d] = store[d] /\ ~ Misleads(d, image)
        <5>1. Tells(chains'[d], told'[d], store'[d], copy'[d])
          BY <1>4, <3>1, <3>2, <3>4, <3>6, <4>2 DEF Misleads
        <5> QED
          BY <5>1 DEF Reported
      <4>3. CASE image[d] # store[d] /\ ~ Misleads(d, image)
        <5>1. told[d] # store[d].n
          BY <2>1, <2>5, <4>3 DEF Misleads, Late
        <5>2. d \in owed \cup given \/ ToTell(d)
          BY <2>1, <5>1 DEF Reported, Tells
        <5> QED
          BY <1>4, <2>2, <4>3, <5>2 DEF Reported
      <4> QED
        BY <4>1, <4>2, <4>3
    <3> QED
      BY <2>3, <3>7, <3>8, <3>9
  <2> QED
    BY <2>4, <2>5
<1> QED
  BY <1>2, <1>5 DEF Books, BooksTypes

\* The current event of d is settled: the endpoint has it, or d is given up.
LEMMA SettleInv ==
  ASSUME WebhookInv, NEW d \in Docs, NEW outcome, chains[d] # <<>>, Settle(d, outcome),
         wire' \subseteq wire, UNCHANGED <<inOrder, store, writes, ahead, made, heard, copy, told, crossed, owed>>,
         given' = given \cup {d} \/ (given' = given /\ delivery[d].pc = "taken")
  PROVE  WebhookInv'
<1>1. TypeOK /\ Accounted /\ WritesOK
  BY DEF WebhookInv
<1>2. /\ chains \in [Docs -> Seq(Event)] /\ made \in [Docs -> Nat]
      /\ stats \in [ pending : 0 .. MaxQueue, delivered : Nat, failed : Nat, dropped : Nat ]
      /\ delivery \in [Docs -> [ pc : {"idle", "sent", "taken"}, attempt : 0 .. Retries ]]
      /\ MaxQueue \in Nat /\ Retries \in Nat /\ wire \in SUBSET Request
  BY <1>1, WebhookAssumption DEF TypeOK
<1>3. /\ chains' = [chains EXCEPT ![d] = Tail(@)]
      /\ delivery' = [delivery EXCEPT ![d] = [pc |-> "idle", attempt |-> 0]]
      /\ stats' = IF outcome = "failed"
                    THEN [stats EXCEPT !.failed = @ + 1, !.pending = @ - 1]
                    ELSE [stats EXCEPT !.delivered = @ + 1, !.pending = @ - 1]
  BY DEF Settle
<1>4. /\ chains' \in [Docs -> Seq(Event)] /\ chains'[d] = Tail(chains[d])
      /\ \A e \in Docs \ {d} : chains'[e] = chains[e]
      /\ Len(chains'[d]) \in Nat /\ Len(chains[d]) = Len(chains'[d]) + 1
  <2>1. chains[d] \in Seq(Event) /\ chains[d] # <<>>
    BY <1>2
  <2>2. Tail(chains[d]) \in Seq(Event) /\ Len(chains[d]) = Len(Tail(chains[d])) + 1
        /\ Len(Tail(chains[d])) \in Nat
    BY <2>1
  <2> QED
    BY <1>2, <1>3, <2>2
<1>5. Cardinality(Queued) = Cardinality(Queued') + 1 /\ Cardinality(Queued') \in Nat
  <2> DEFINE count == [e \in Docs |-> Len(chains[e])]
             less == [e \in Docs |-> Len(chains'[e])]
  <2>1. count \in [Docs -> Nat] /\ less \in [Docs -> Nat]
    BY <1>2, <1>4
  <2>2. count[d] = less[d] + 1 /\ \A e \in Docs \ {d} : less[e] = count[e]
    BY <1>4
  <2>3. Queued = Places(count) /\ Queued' = Places(less)
    BY DEF Queued, Places
  <2> HIDE DEF count, less
  <2> QED
    BY <2>1, <2>2, <2>3, PlacesLess
<1>6. Cardinality(Places(made)) \in Nat /\ (Places(made))' = Places(made)
  <2>1. (Places(made))' = Places(made)
    BY DEF Places
  <2> QED
    BY <1>2, <2>1, PlacesFinite
<1>7. /\ stats' \in [ pending : 0 .. MaxQueue, delivered : Nat, failed : Nat, dropped : Nat ]
      /\ stats'.pending = stats.pending - 1
      /\ stats'.delivered + stats'.failed = stats.delivered + stats.failed + 1
  <2>1. stats.pending = Cardinality(Queued') + 1
    BY <1>1, <1>5 DEF Accounted
  <2>2. stats.pending \in 0 .. MaxQueue /\ stats.delivered \in Nat /\ stats.failed \in Nat
    BY <1>2
  <2>3. stats.pending - 1 \in 0 .. MaxQueue /\ stats.delivered + 1 \in Nat
        /\ stats.failed + 1 \in Nat
    BY <1>2, <1>5, <2>1, <2>2
  <2>4. CASE outcome = "failed"
    <3>1. stats' = [stats EXCEPT !.failed = @ + 1, !.pending = @ - 1]
      BY <1>3, <2>4
    <3>2. stats'.failed = stats.failed + 1 /\ stats'.delivered = stats.delivered
          /\ stats'.pending = stats.pending - 1
      BY <1>2, <3>1
    <3>3. stats' \in [ pending : 0 .. MaxQueue, delivered : Nat, failed : Nat, dropped : Nat ]
      BY <1>2, <2>3, <3>1
    <3> QED
      BY <2>2, <3>2, <3>3
  <2>5. CASE outcome # "failed"
    <3>1. stats' = [stats EXCEPT !.delivered = @ + 1, !.pending = @ - 1]
      BY <1>3, <2>5
    <3>2. stats'.delivered = stats.delivered + 1 /\ stats'.failed = stats.failed
          /\ stats'.pending = stats.pending - 1
      BY <1>2, <3>1
    <3>3. stats' \in [ pending : 0 .. MaxQueue, delivered : Nat, failed : Nat, dropped : Nat ]
      BY <1>2, <2>3, <3>1
    <3> QED
      BY <2>2, <3>2, <3>3
  <2> QED
    BY <2>4, <2>5
<1>8. Accounted'
  <2>0. stats.pending = Cardinality(Queued)
    BY <1>1 DEF Accounted
  <2>1. stats'.pending = Cardinality(Queued')
    BY <1>5, <1>7, <2>0
  <2>2. stats.pending + stats.delivered + stats.failed = Cardinality(Places(made))
    BY <1>1 DEF Accounted
  <2>3. /\ stats.pending \in Int /\ stats.delivered \in Int /\ stats.failed \in Int
        /\ stats'.delivered \in Int /\ stats'.failed \in Int
        /\ stats'.pending = stats.pending - 1
        /\ stats'.delivered + stats'.failed = stats.delivered + stats.failed + 1
    BY <1>2, <1>7
  <2>4. stats'.pending + stats'.delivered + stats'.failed
          = stats.pending + stats.delivered + stats.failed
    BY ONLY <2>3
  <2> QED
    BY <1>6, <2>1, <2>2, <2>4 DEF Accounted
<1>9. /\ delivery' \in [Docs -> [ pc : {"idle", "sent", "taken"}, attempt : 0 .. Retries ]]
      /\ delivery'[d].pc = "idle" /\ \A e \in Docs \ {d} : delivery'[e] = delivery[e]
  <2>1. [pc |-> "idle", attempt |-> 0] \in [ pc : {"idle", "sent", "taken"}, attempt : 0 .. Retries ]
    BY <1>2
  <2> QED
    BY <1>2, <1>3, <2>1
<1>10. TypeOK'
  BY <1>1, <1>2, <1>4, <1>7, <1>9 DEF TypeOK
<1>11. WritesOK'
  BY <1>1 DEF WritesOK
<1>12. ASSUME NEW e \in Docs 
       PROVE  DocOK(e)' /\ DeliveryOK(e)' /\ Reported(e)' /\ told'[e] <= store'[e].n
  <2>1. /\ DocOK(e) /\ DeliveryOK(e) /\ Reported(e) /\ wire' \in SUBSET wire
        /\ store' = store /\ made' = made /\ heard' = heard /\ copy' = copy /\ owed' = owed
        /\ told' = told /\ crossed' = crossed /\ given \subseteq given'
        /\ told[e] <= store[e].n /\ ToTell(e)' = ToTell(e)
    BY <1>1 DEF WebhookInv, ToTell, Telling, At
  <2>2. NumberedOK(chains[e], made[e]) /\ HeardOK(e, chains[e], made[e], heard)
    BY <2>1 DEF DocOK
  <2>3. CASE e # d
    <3>1. chains'[e] = chains[e] /\ delivery'[e] = delivery[e]
      BY <1>4, <1>9, <2>3
    <3>2. DocOK(e)'
      BY <2>1, <3>1 DEF DocOK, WireOK
    <3>3. DeliveryOK(e)'
      BY <2>1, <3>1 DEF DeliveryOK
    <3>4. Reported(e)'
      BY <2>1, <3>1 DEF Reported
    <3> QED
      BY <2>1, <3>2, <3>3, <3>4
  <2>4. CASE e = d
    <3> DEFINE t == chains'[d]
    <3>1. t = Tail(chains[d])
      BY <1>4
    <3> HIDE DEF t
    <3>2. /\ NumberedOK(t, made[d])
          /\ \A W \in SUBSET Request :
               WireOK(d, chains[d], made[d], W) => WireOK(d, t, made[d], W)
          /\ \A H : HeardOK(d, chains[d], made[d], H) => HeardOK(d, t, made[d], H)
          /\ \A cp, H :
               HeardOK(d, chains[d], made[d], H) /\ CopyOK(d, chains[d], made[d], cp, H)
                 /\ <<d, Current(chains[d], made[d])>> \in H
                 => CopyOK(d, t, made[d], cp, H)
          /\ \A l : OrderOK(chains[d], l) => OrderOK(t, l)
          /\ \A l, cp : BehindOK(chains[d], l, cp) => BehindOK(t, l, cp)
          /\ \A l, st, cp, H :
               Tells(chains[d], l, st, cp) /\ CopyOK(d, chains[d], made[d], cp, H)
                 /\ <<d, Current(chains[d], made[d])>> \in H
                 => Tells(t, l, st, cp)
      BY <2>1, <2>2, <2>4, <3>1, TailOK
    <3>3. WireOK(d, t, made[d], wire')
      BY <1>2, <2>1, <2>4, <3>2 DEF DocOK, WireOK
    <3>4. d \notin given' => <<d, Current(chains[d], made[d])>> \in heard /\ d \notin given
      BY <2>1, <2>4 DEF DeliveryOK
    <3>5. d \notin given' => CopyOK(d, t, made[d], copy[d], heard)
      BY <2>1, <2>2, <2>4, <3>2, <3>4 DEF DocOK
    <3>6. DocOK(d)'
      <4>1. d \notin crossed => OrderOK(t, told[d])
        BY <2>1, <2>4, <3>2 DEF DocOK
      <4>2. d \notin crossed \cup given' => BehindOK(t, told[d], copy[d])
        BY <2>1, <2>4, <3>2, <3>4 DEF DocOK
      <4>3. HeardOK(d, t, made[d], heard)
        BY <2>2, <2>4, <3>2
      <4> QED
        BY <2>1, <2>4, <3>2, <3>3, <3>5, <4>1, <4>2, <4>3 DEF DocOK, t
    <3>7. DeliveryOK(d)'
      BY <1>9 DEF DeliveryOK
    <3>8. Reported(d)'
      <4>1. CASE d \in owed \cup given' \/ ToTell(d)
        BY <2>1, <2>4, <4>1 DEF Reported
      <4>2. CASE d \notin owed \cup given' /\ ~ ToTell(d)
        <5>1. Tells(chains[d], told[d], store[d], copy[d])
          BY <2>1, <2>4, <3>4, <4>2 DEF Reported
        <5>2. Tells(t, told[d], store[d], copy[d])
          BY <2>1, <2>4, <3>2, <3>4, <4>2, <5>1 DEF DocOK
        <5> QED
          BY <2>1, <2>4, <5>2 DEF Reported, t
      <4> QED
        BY <4>1, <4>2
    <3> QED
      BY <2>1, <2>4, <3>6, <3>7, <3>8
  <2> QED
    BY <2>3, <2>4
<1> QED
  BY <1>8, <1>10, <1>11, <1>12 DEF WebhookInv

\* What leaves the collection, the writes, the chains and the counters alone.
LEMMA DeliveryInv ==
  ASSUME WebhookInv, UNCHANGED <<inOrder, store, writes, ahead, chains, made, stats, told, crossed, owed, given>>,
         delivery' \in [Docs -> [ pc : {"idle", "sent", "taken"}, attempt : 0 .. Retries ]],
         wire' \subseteq Request, heard' \subseteq Docs \X (Nat \ {0}),
         copy' \in [Docs -> Image],
         \A d \in Docs :
           /\ WireOK(d, chains[d], made[d], wire')
           /\ HeardOK(d, chains[d], made[d], heard')
           /\ d \notin given => CopyOK(d, chains[d], made[d], copy'[d], heard')
           /\ d \notin crossed \cup given => BehindOK(chains[d], told[d], copy'[d])
           /\ d \notin given /\ chains[d] = <<>> => copy'[d] = copy[d]
           /\ DeliveryOK(d)'
  PROVE  WebhookInv'
<1>1. TypeOK /\ Accounted /\ WritesOK
  BY DEF WebhookInv
<1>2. TypeOK'
  BY <1>1 DEF TypeOK
<1>3. Accounted' /\ WritesOK'
  BY <1>1 DEF Accounted, Queued, Places, WritesOK
<1>4. ASSUME NEW d \in Docs PROVE DocOK(d)' /\ Reported(d)' /\ told'[d] <= store'[d].n
  <2>1. DocOK(d) /\ Reported(d) /\ ToTell(d)' = ToTell(d) /\ told[d] <= store[d].n
    BY DEF WebhookInv, ToTell, Telling, At
  <2>2. DocOK(d)'
    BY <2>1 DEF DocOK
  <2>3. Reported(d)'
    BY <2>1 DEF Reported, Tells
  <2> QED
    BY <2>1, <2>2, <2>3
<1> QED
  BY <1>2, <1>3, <1>4 DEF WebhookInv

-----------------------------------------------------------------------------

-----------------------------------------------------------------------------

LEMMA ReachedIn ==
  ASSUME NEW filter \in SUBSET Docs, NEW many \in BOOLEAN
  PROVE  Reached(filter, many) \in SUBSET filter
BY DEF Reached, There

LEMMA ChangedOK ==
  ASSUME TypeOK, NEW S \in SUBSET Docs, NEW op, store' = Changed(S, op)
  PROVE  /\ store' \in [Docs -> Image]
         /\ \A d \in Docs : store[d].n <= store'[d].n
         /\ \A d \in Docs \ S : store'[d] = store[d]
         /\ \A d \in S : store'[d] = [n |-> store'[d].n, there |-> op # "delete"]
<1>1. store \in [Docs -> Image]
  BY DEF TypeOK
<1>2. ASSUME NEW d \in Docs
      PROVE  /\ store'[d] \in Image /\ store[d].n <= store'[d].n
             /\ d \notin S => store'[d] = store[d]
             /\ d \in S => store'[d] = [n |-> store'[d].n, there |-> op # "delete"]
  <2>1. store[d] \in Image /\ store[d].n \in Nat
    BY <1>1 DEF Image
  <2>2. CASE d \in S
    <3>1. store'[d] = [n |-> store[d].n + 1, there |-> op # "delete"]
      BY <2>2 DEF Changed
    <3> QED
      BY <2>1, <2>2, <3>1 DEF Image
  <2>3. CASE d \notin S
    BY <2>1, <2>3 DEF Changed, Image
  <2> QED
    BY <2>2, <2>3
<1>3. store' \in [Docs -> Image]
  BY <1>2 DEF Changed
<1> QED
  BY <1>2, <1>3

\* A write of a writer, the rest being as its books are.
LEMMA WritesInv ==
  ASSUME WebhookInv, Books', BooksTypes', NEW w \in Writers, NEW W \in Write \cup {None},
         writes' = [writes EXCEPT ![w] = W], ahead' \in [Writers -> SUBSET Writers],
         WriteOK(W, store'), store' \in [Docs -> Image],
         \A d \in Docs : store[d].n <= store'[d].n,
         UNCHANGED <<inOrder, delivery, wire, heard, copy, given>>
  PROVE  WebhookInv'
<1>1. TypeOK /\ WritesOK
  BY DEF WebhookInv
<1>2. writes' \in [Writers -> Write \cup {None}]
  BY <1>1 DEF TypeOK
<1>3. TypeOK'
  BY <1>1, <1>2 DEF TypeOK, BooksTypes
<1>4. ASSUME NEW v \in Writers PROVE WriteOK(writes'[v], store')
  <2>1. CASE v = w
    BY <1>1, <2>1 DEF TypeOK
  <2>2. CASE v # w
    <3>1. writes'[v] = writes[v] /\ writes[v] \in Write \cup {None} /\ WriteOK(writes[v], store)
      BY <1>1, <2>2 DEF TypeOK, WritesOK
    <3>2. ASSUME writes[v] # None, writes[v].pc = "answered", NEW d \in writes[v].ids
          PROVE  /\ writes[v].image[d].n <= store'[d].n
                 /\ writes[v].image[d].there => writes[v].op # "delete"
      <4>1. writes[v] \in Write /\ d \in Docs /\ writes[v].image[d] \in Image
        BY <3>1, <3>2 DEF Write
      <4>2. /\ writes[v].image[d].n <= store[d].n
            /\ writes[v].image[d].there => writes[v].op # "delete"
        BY <3>1, <3>2 DEF WriteOK
      <4>3. /\ writes[v].image[d].n \in Nat /\ store[d].n \in Nat /\ store'[d].n \in Nat
            /\ store[d].n <= store'[d].n
        BY <1>1, <4>1 DEF TypeOK, Image
      <4> QED
        BY <4>2, <4>3
    <3> QED
      BY <3>1, <3>2 DEF WriteOK
  <2> QED
    BY <2>1, <2>2
<1>5. WritesOK'
  BY <1>4 DEF WritesOK
<1> QED
  BY <1>3, <1>5 DEF WebhookInv, Books

\* What another write has still to tell
LEMMA ToTellByOthers ==
  ASSUME TypeOK, NEW w \in Writers, NEW W, writes' = [writes EXCEPT ![w] = W],
         NEW d \in Docs, store'[d] = store[d], ToTell(d), ~ Telling(w, d)
  PROVE  ToTell(d)'
<1>1. PICK v \in Writers : Telling(v, d)
  BY DEF ToTell
<1>2. v # w /\ writes'[v] = writes[v]
  BY <1>1 DEF TypeOK
<1>3. Telling(v, d)'
  BY <1>1, <1>2 DEF Telling, At
<1> QED
  BY <1>3 DEF ToTell

LEMMA ToTellByOwn ==
  ASSUME TypeOK, NEW w \in Writers, NEW W \in Write, writes' = [writes EXCEPT ![w] = W],
         NEW d \in W.ids,
         W.pc = "committed" \/ (W.pc = "answered" /\ W.image[d] = store'[d])
  PROVE  ToTell(d)'
<1>1. writes'[w] = W /\ W # None
  BY WebhookAssumption DEF TypeOK
<1>2. Telling(w, d)'
  BY <1>1 DEF Telling, At
<1> QED
  BY <1>2 DEF ToTell

\* An engine's answer is put behind those there are.
LEMMA WorkedOK ==
  ASSUME TypeOK, NEW w \in Writers, NEW image \in [Docs -> Image], writes[w] # None,
         Worked(w, image)
  PROVE  /\ ahead' \in [Writers -> SUBSET Writers]
         /\ \E W \in Write :
              /\ writes' = [writes EXCEPT ![w] = W] /\ W.pc = "answered" /\ W.image = image
              /\ W.op = writes[w].op /\ W.ids = writes[w].ids
<1> DEFINE W == [writes[w] EXCEPT !.pc = "answered", !.filter = {}, !.many = FALSE,
                                  !.image = image]
<1>1. writes[w] \in Write /\ ahead \in [Writers -> SUBSET Writers]
  BY DEF TypeOK
<1>2. W \in Write /\ W.pc = "answered" /\ W.image = image /\ W.op = writes[w].op
      /\ W.ids = writes[w].ids
  BY <1>1 DEF Write
<1>3. writes' = [writes EXCEPT ![w] = W]
  BY DEF Worked, TypeOK
<1>4. ahead' \in [Writers -> SUBSET Writers]
  BY <1>1 DEF Worked
<1> HIDE DEF W
<1> QED
  BY <1>2, <1>3, <1>4

LEMMA LeavesOK ==
  ASSUME TypeOK, NEW w \in Writers, Leaves(w)
  PROVE  /\ writes' = [writes EXCEPT ![w] = None]
         /\ ahead' \in [Writers -> SUBSET Writers]
BY DEF Leaves, TypeOK

LEMMA UntoldType == Untold \in [Docs -> Image]
BY DEF Untold, Image

LEMMA InsertInv ==
  ASSUME WebhookInv, NEW w \in Writers, NEW S \in SUBSET Docs, InsertDocs(w, S)
  PROVE  WebhookInv'
<1> DEFINE W == [op |-> "insert", filter |-> {}, many |-> FALSE, ids |-> S,
                 pc |-> "committed", image |-> Untold]
<1>1. /\ writes[w] = None /\ store' = Changed(S, "insert") /\ writes' = [writes EXCEPT ![w] = W]
      /\ Quietly /\ UNCHANGED <<inOrder, ahead, delivery, wire, heard, copy, owed, given>>
  BY DEF InsertDocs
<1>2. W \in Write /\ W.ids = S /\ W.pc = "committed" /\ W.op # "delete"
  BY UntoldType DEF Write, Ops
<1> HIDE DEF W
<1>3. TypeOK
  BY DEF WebhookInv
<1>4. /\ store' \in [Docs -> Image] /\ \A d \in Docs : store[d].n <= store'[d].n
      /\ \A d \in Docs \ S : store'[d] = store[d]
  BY <1>1, <1>3, ChangedOK
<1>5. \A d \in Docs : store'[d] = store[d] /\ ToTell(d) => ToTell(d)'
  BY <1>1, <1>3, ToTellByOthers DEF Telling, At
<1>6. \A d \in S : ToTell(d)'
  BY <1>1, <1>2, <1>3, ToTellByOwn
<1>7. owed' \in SUBSET Docs /\ ahead' \in [Writers -> SUBSET Writers]
  BY <1>1, <1>3 DEF TypeOK
<1>8. Books' /\ BooksTypes'
  BY <1>1, <1>4, <1>5, <1>6, <1>7, QuietBooks
<1>9. WriteOK(W, store')
  BY <1>2 DEF WriteOK
<1> QED
  BY <1>1, <1>2, <1>4, <1>7, <1>8, <1>9, WritesInv

LEMMA ResolveInv ==
  ASSUME WebhookInv, NEW w \in Writers, NEW op \in Ops, NEW filter \in SUBSET Docs,
         NEW many \in BOOLEAN, Resolve(w, op, filter, many)
  PROVE  WebhookInv'
<1> DEFINE W == [op |-> op, filter |-> filter, many |-> many,
                 ids |-> ResolvedIds(op, filter, many), pc |-> "resolved", image |-> Untold]
<1>1. /\ writes[w] = None /\ writes' = [writes EXCEPT ![w] = W]
      /\ Quietly /\ UNCHANGED <<inOrder, store, ahead, delivery, wire, heard, copy, owed, given>>
  BY DEF Resolve
<1>2. W \in Write /\ W.pc = "resolved"
  <2>1. ResolvedIds(op, filter, many) \in SUBSET Docs
    BY ReachedIn DEF ResolvedIds
  <2> QED
    BY <2>1, UntoldType DEF Write
<1> HIDE DEF W
<1>3. TypeOK
  BY DEF WebhookInv
<1>4. \A d \in Docs : ToTell(d) => ToTell(d)'
  BY <1>1, <1>3, ToTellByOthers DEF Telling, At
<1>5. store' \in [Docs -> Image] /\ \A d \in Docs : store[d].n <= store'[d].n
  BY <1>1, <1>3 DEF TypeOK, Image
<1>6. owed' \in SUBSET Docs /\ ahead' \in [Writers -> SUBSET Writers]
  BY <1>1, <1>3 DEF TypeOK
<1>7. Books' /\ BooksTypes'
  BY <1>1, <1>4, <1>5, <1>6, QuietBooks
<1>8. WriteOK(W, store')
  BY <1>2 DEF WriteOK
<1> QED
  BY <1>1, <1>2, <1>5, <1>6, <1>7, <1>8, WritesInv

LEMMA NothingReachedInv ==
  ASSUME WebhookInv, NEW w \in Writers, NothingReached(w)
  PROVE  WebhookInv'
<1>1. /\ At(w, "resolved") /\ Leaves(w)
      /\ Quietly /\ UNCHANGED <<inOrder, store, delivery, wire, heard, copy, owed, given>>
  BY DEF NothingReached
<1>2. TypeOK
  BY DEF WebhookInv
<1>3. writes' = [writes EXCEPT ![w] = None] /\ ahead' \in [Writers -> SUBSET Writers]
  BY <1>1, <1>2, LeavesOK
<1>4. \A d \in Docs : ToTell(d) => ToTell(d)'
  BY <1>1, <1>2, <1>3, ToTellByOthers DEF Telling, At
<1>5. store' \in [Docs -> Image] /\ owed' \in SUBSET Docs
      /\ \A d \in Docs : store[d].n <= store'[d].n
  BY <1>1, <1>2 DEF TypeOK, Image
<1>6. Books' /\ BooksTypes'
  BY <1>1, <1>4, <1>5, QuietBooks
<1>7. WriteOK(None, store')
  BY DEF WriteOK
<1> QED
  BY <1>1, <1>3, <1>5, <1>6, <1>7, WritesInv

LEMMA RejectedInv ==
  ASSUME WebhookInv, NEW w \in Writers, Rejected(w)
  PROVE  WebhookInv'
<1>1. /\ writes[w] # None
      /\ owed' = IF At(w, "resolved") THEN owed ELSE owed \cup writes[w].ids
      /\ Leaves(w) /\ Quietly /\ UNCHANGED <<inOrder, store, delivery, wire, heard, copy, given>>
  BY DEF Rejected
<1>2. TypeOK /\ writes[w] \in Write
  BY <1>1 DEF WebhookInv, TypeOK
<1>3. writes' = [writes EXCEPT ![w] = None] /\ ahead' \in [Writers -> SUBSET Writers]
  BY <1>1, <1>2, LeavesOK
<1>4. ASSUME NEW d \in Docs, ToTell(d) PROVE d \in owed' \/ ToTell(d)'
  <2>1. Telling(w, d) => d \in owed'
    BY <1>1 DEF Telling, At
  <2>2. ~ Telling(w, d) => ToTell(d)'
    BY <1>1, <1>2, <1>3, <1>4, ToTellByOthers
  <2> QED
    BY <2>1, <2>2
<1>5. store' \in [Docs -> Image] /\ owed' \in SUBSET Docs
      /\ \A d \in Docs : store[d].n <= store'[d].n
  BY <1>1, <1>2 DEF TypeOK, Image, Write
<1>6. Books' /\ BooksTypes'
  BY <1>1, <1>4, <1>5, QuietBooks
<1>7. WriteOK(None, store')
  BY DEF WriteOK
<1> QED
  BY <1>1, <1>3, <1>5, <1>6, <1>7, WritesInv

LEMMA CommitUpdateInv ==
  ASSUME WebhookInv, NEW w \in Writers, CommitUpdate(w)
  PROVE  WebhookInv'
<1> DEFINE W == writes[w]
           S == Reached(W.filter, W.many)
           V == [W EXCEPT !.pc = "committed", !.filter = {}, !.many = FALSE]
<1>1. /\ W # None /\ W.pc = "resolved" /\ W.op = "update" /\ store' = Changed(S, "update")
      /\ writes' = [writes EXCEPT ![w] = V] /\ owed' = owed \cup (S \ W.ids)
      /\ Quietly /\ UNCHANGED <<inOrder, ahead, delivery, wire, heard, copy, given>>
  BY DEF CommitUpdate, At
<1>2. TypeOK
  BY DEF WebhookInv
<1>3. W \in Write
  BY <1>1, <1>2 DEF TypeOK
<1>4. V \in Write /\ V.ids = W.ids /\ V.pc = "committed" /\ V.op # "delete"
      /\ S \in SUBSET Docs
  BY <1>1, <1>3, ReachedIn DEF Write
<1> HIDE DEF V, S
<1>5. /\ store' \in [Docs -> Image] /\ \A d \in Docs : store[d].n <= store'[d].n
      /\ \A d \in Docs \ S : store'[d] = store[d]
  BY <1>1, <1>2, <1>4, ChangedOK
<1>6. \A d \in Docs : store'[d] = store[d] /\ ToTell(d) => ToTell(d)'
  BY <1>1, <1>2, ToTellByOthers DEF Telling, At
<1>7. \A d \in S : d \in owed' \/ ToTell(d)'
  BY <1>1, <1>2, <1>4, ToTellByOwn
<1>8. owed' \in SUBSET Docs /\ ahead' \in [Writers -> SUBSET Writers]
  BY <1>1, <1>2, <1>4 DEF TypeOK
<1>9. Books' /\ BooksTypes'
  BY <1>1, <1>5, <1>6, <1>7, <1>8, QuietBooks
<1>10. WriteOK(V, store')
  BY <1>4 DEF WriteOK
<1> QED
  BY <1>1, <1>4, <1>5, <1>8, <1>9, <1>10, WritesInv

LEMMA CommitDeleteInv ==
  ASSUME WebhookInv, NEW w \in Writers, CommitDelete(w)
  PROVE  WebhookInv'
<1> DEFINE W == writes[w]
           S == Reached(W.filter, W.many)
           image == [d \in Docs |->
                       IF d \in W.ids THEN [n |-> store'[d].n, there |-> FALSE] ELSE Untold[d]]
<1>1. /\ W # None /\ W.pc = "resolved" /\ store' = Changed(S, "delete")
      /\ Worked(w, image) /\ owed' = owed \cup (S \ W.ids)
      /\ Quietly /\ UNCHANGED <<inOrder, delivery, wire, heard, copy, given>>
  BY DEF CommitDelete, At
<1>2. TypeOK
  BY DEF WebhookInv
<1>3. W \in Write
  BY <1>1, <1>2 DEF TypeOK
<1>4. S \in SUBSET Docs /\ W.ids \in SUBSET Docs
  BY <1>3, ReachedIn DEF Write
<1> HIDE DEF S
<1>5. /\ store' \in [Docs -> Image] /\ \A d \in Docs : store[d].n <= store'[d].n
      /\ \A d \in Docs \ S : store'[d] = store[d]
      /\ \A d \in S : store'[d] = [n |-> store'[d].n, there |-> "delete" # "delete"]
  BY <1>1, <1>2, <1>4, ChangedOK
<1>6. image \in [Docs -> Image]
  <2>1. \A d \in Docs : store'[d].n \in Nat
    BY <1>5 DEF Image
  <2> QED
    BY <2>1, UntoldType DEF Image
<1>7. \A d \in W.ids : image[d] = [n |-> store'[d].n, there |-> FALSE]
  BY <1>4
<1> HIDE DEF image
<1>8. ahead' \in [Writers -> SUBSET Writers]
      /\ \E V \in Write :
              /\ writes' = [writes EXCEPT ![w] = V] /\ V.pc = "answered" /\ V.image = image
              /\ V.op = writes[w].op /\ V.ids = writes[w].ids
  BY <1>1, <1>2, <1>6, WorkedOK
<1>9. PICK V \in Write :
              /\ writes' = [writes EXCEPT ![w] = V] /\ V.pc = "answered" /\ V.image = image
              /\ V.ids = W.ids
  BY <1>8
<1>10. \A d \in Docs : store'[d] = store[d] /\ ToTell(d) => ToTell(d)'
  BY <1>1, <1>2, <1>9, ToTellByOthers DEF Telling, At
<1>11. \A d \in S : d \in owed' \/ ToTell(d)'
  <2>1. ASSUME NEW d \in S, d \in W.ids PROVE ToTell(d)'
    <3>1. V.image[d] = store'[d]
      BY <1>5, <1>7, <1>9, <2>1
    <3> QED
      BY <1>2, <1>9, <2>1, <3>1, ToTellByOwn
  <2> QED
    BY <1>1, <2>1
<1>12. owed' \in SUBSET Docs
  BY <1>1, <1>2, <1>4 DEF TypeOK
<1>13. Books' /\ BooksTypes'
  BY <1>1, <1>5, <1>10, <1>11, <1>12, QuietBooks
<1>14. WriteOK(V, store')
  <2>1. ASSUME NEW d \in V.ids
        PROVE  V.image[d].n <= store'[d].n /\ V.image[d].there = FALSE
    <3>1. V.image[d] = [n |-> store'[d].n, there |-> FALSE] /\ store'[d].n \in Nat
      BY <1>4, <1>5, <1>7, <1>9, <2>1 DEF Image
    <3> QED
      BY <3>1
  <2> QED
    BY <1>9, <2>1 DEF WriteOK
<1> QED
  BY <1>1, <1>5, <1>8, <1>9, <1>13, <1>14, WritesInv

LEMMA ReadImagesInv ==
  ASSUME WebhookInv, NEW w \in Writers, ReadImages(w)
  PROVE  WebhookInv'
<1> DEFINE W == writes[w]
           image == [d \in Docs |-> IF d \in W.ids THEN store[d] ELSE Untold[d]]
<1>1. /\ W # None /\ W.pc = "committed" /\ Worked(w, image)
      /\ Quietly /\ UNCHANGED <<inOrder, store, delivery, wire, heard, copy, owed, given>>
  BY DEF ReadImages, At
<1>2. TypeOK /\ store \in [Docs -> Image]
  BY DEF WebhookInv, TypeOK
<1>3. W \in Write /\ W.ids \in SUBSET Docs /\ W.op # "delete"
  BY <1>1, <1>2 DEF TypeOK, Write, WebhookInv, WritesOK, WriteOK
<1>4. image \in [Docs -> Image] /\ \A d \in W.ids : image[d] = store[d]
  BY <1>2, <1>3, UntoldType
<1> HIDE DEF image
<1>5. ahead' \in [Writers -> SUBSET Writers]
      /\ \E V \in Write :
              /\ writes' = [writes EXCEPT ![w] = V] /\ V.pc = "answered" /\ V.image = image
              /\ V.op = writes[w].op /\ V.ids = writes[w].ids
  BY <1>1, <1>2, <1>4, WorkedOK
<1>6. PICK V \in Write :
              /\ writes' = [writes EXCEPT ![w] = V] /\ V.pc = "answered" /\ V.image = image
              /\ V.op = W.op /\ V.ids = W.ids
  BY <1>5
<1>7. ASSUME NEW d \in Docs, ToTell(d) PROVE ToTell(d)'
  <2>1. CASE d \in W.ids
    <3>1. V.image[d] = store'[d]
      BY <1>1, <1>4, <1>6, <2>1
    <3> QED
      BY <1>2, <1>6, <2>1, <3>1, ToTellByOwn
  <2>2. CASE d \notin W.ids
    BY <1>1, <1>2, <1>6, <1>7, <2>2, ToTellByOthers DEF Telling, At
  <2> QED
    BY <2>1, <2>2
<1>8. store' \in [Docs -> Image] /\ owed' \in SUBSET Docs
      /\ \A d \in Docs : store[d].n <= store'[d].n
  BY <1>1, <1>2 DEF TypeOK, Image
<1>9. Books' /\ BooksTypes'
  BY <1>1, <1>7, <1>8, QuietBooks
<1>10. WriteOK(V, store')
  <2>1. ASSUME NEW d \in V.ids PROVE V.image[d].n <= store'[d].n
    <3>1. V.image[d] = store[d] /\ store[d].n \in Nat
      BY <1>2, <1>3, <1>4, <1>6, <2>1 DEF Image
    <3> QED
      BY <1>1, <3>1
  <2> QED
    BY <1>3, <1>6, <2>1 DEF WriteOK
<1> QED
  BY <1>1, <1>5, <1>6, <1>8, <1>9, <1>10, WritesInv

LEMMA ReportInv ==
  ASSUME WebhookInv, NEW w \in Writers, Report(w)
  PROVE  WebhookInv'
<1> DEFINE W == writes[w]
<1>1. /\ W # None /\ W.pc = "answered" /\ Emit(W.ids, W.op, W.image) /\ Leaves(w)
      /\ UNCHANGED <<inOrder, store, delivery, wire, heard, copy, given>>
  BY DEF Report, At
<1>2. TypeOK /\ store \in [Docs -> Image]
  BY DEF WebhookInv, TypeOK
<1>3. W \in Write /\ W.ids \in SUBSET Docs /\ W.op \in Ops /\ W.image \in [Docs -> Image]
  BY <1>1, <1>2 DEF TypeOK, Write
<1>4. \A d \in W.ids : W.image[d].n <= store[d].n /\ (W.image[d].there => W.op # "delete")
  BY <1>1 DEF WebhookInv, WritesOK, WriteOK
<1>5. writes' = [writes EXCEPT ![w] = None] /\ ahead' \in [Writers -> SUBSET Writers]
  BY <1>1, <1>2, LeavesOK
<1>6. ASSUME NEW d \in Docs, ToTell(d) PROVE ToTell(d)' \/ (d \in W.ids /\ W.image[d] = store[d])
  <2>1. Telling(w, d) => d \in W.ids /\ W.image[d] = store[d]
    BY <1>1 DEF Telling, At
  <2>2. ~ Telling(w, d) => ToTell(d)'
    BY <1>1, <1>2, <1>5, <1>6, ToTellByOthers
  <2> QED
    BY <2>1, <2>2
<1>7. Books' /\ BooksTypes'
  BY <1>1, <1>3, <1>4, <1>6, EmitBooks
<1>8. WriteOK(None, store') /\ store' \in [Docs -> Image]
      /\ \A d \in Docs : store[d].n <= store'[d].n
  BY <1>1, <1>2 DEF WriteOK, Image
<1> QED
  BY <1>1, <1>5, <1>7, <1>8, WritesInv

-----------------------------------------------------------------------------

\* The current event
LEMMA HeadOK ==
  ASSUME NEW c, NEW m, NumberedOK(c, m), c # <<>>
  PROVE  /\ Head(c) \in Event /\ Head(c).id = Current(c, m)
         /\ Current(c, m) \in Nat \ {0} /\ Current(c, m) <= m
         /\ \A l : OrderOK(c, l) => BehindOK(c, l, ImageOf(Head(c)))
         /\ \A l, cp : BehindOK(c, l, cp) => cp.n <= Head(c).n
<1>1. c \in Seq(Event) /\ m \in Nat /\ Len(c) \in Nat \ {0} /\ Len(c) <= m
  BY DEF NumberedOK
<1>2. Head(c) = c[1] /\ 1 \in 1 .. Len(c) /\ c[1] \in Event
  BY <1>1
<1>3. c[1].id = m - Len(c) + 1
  BY <1>2 DEF NumberedOK
<1>4. Current(c, m) = m - Len(c) + 1
  BY DEF Current
<1>5. m - Len(c) + 1 \in Nat \ {0} /\ m - Len(c) + 1 <= m
  BY <1>1
<1>6. ASSUME NEW l, OrderOK(c, l) PROVE BehindOK(c, l, ImageOf(Head(c)))
  <2>1. \A i \in 1 .. Len(c) : 1 <= i
    BY <1>1
  <2> QED
    BY <1>2, <1>6, <2>1 DEF OrderOK, BehindOK, ImageOf
<1>7. ASSUME NEW l, NEW cp, BehindOK(c, l, cp) PROVE cp.n <= Head(c).n
  BY <1>2, <1>7 DEF BehindOK
<1> QED
  BY <1>2, <1>3, <1>4, <1>5, <1>6, <1>7

LEMMA RequestOK ==
  ASSUME WebhookInv, NEW d \in Docs, chains[d] # <<>>
  PROVE  RequestOf(d) \in Request /\ RequestOf(d).doc = d /\ RequestOf(d).event = Head(chains[d])
<1>1. NumberedOK(chains[d], made[d]) /\ delivery[d].attempt \in 0 .. Retries
  BY DEF WebhookInv, DocOK, TypeOK
<1>2. Head(chains[d]) \in Event
  BY <1>1, HeadOK
<1> QED
  BY <1>1, <1>2 DEF RequestOf, Request

LEMMA SendInv ==
  ASSUME WebhookInv, NEW d \in Docs, Send(d)
  PROVE  WebhookInv'
<1>1. /\ chains[d] # <<>> /\ delivery[d].pc = "idle"
      /\ delivery' = [delivery EXCEPT ![d].pc = "sent"]
      /\ wire' = wire \cup {RequestOf(d)}
      /\ UNCHANGED <<inOrder, store, writes, ahead, chains, made, stats, heard, copy, told, crossed, owed, given>>
  BY DEF Send, books
<1>2. /\ delivery \in [Docs -> [ pc : {"idle", "sent", "taken"}, attempt : 0 .. Retries ]]
      /\ wire \subseteq Request /\ heard \subseteq Docs \X (Nat \ {0}) /\ copy \in [Docs -> Image]
  BY DEF WebhookInv, TypeOK
<1>3. RequestOf(d) \in Request /\ RequestOf(d).doc = d /\ RequestOf(d).event = Head(chains[d])
  BY <1>1, RequestOK
<1>4. /\ delivery' \in [Docs -> [ pc : {"idle", "sent", "taken"}, attempt : 0 .. Retries ]]
      /\ delivery'[d].pc = "sent" /\ \A e \in Docs \ {d} : delivery'[e] = delivery[e]
  BY <1>1, <1>2
<1>5. ASSUME NEW e \in Docs
      PROVE  /\ WireOK(e, chains[e], made[e], wire')
             /\ HeardOK(e, chains[e], made[e], heard')
             /\ e \notin given => CopyOK(e, chains[e], made[e], copy'[e], heard')
             /\ e \notin crossed \cup given => BehindOK(chains[e], told[e], copy'[e])
             /\ DeliveryOK(e)'
  <2>1. DocOK(e) /\ DeliveryOK(e)
    BY DEF WebhookInv
  <2>2. WireOK(e, chains[e], made[e], wire')
    <3>1. CASE e = d
      <4>1. /\ RequestOf(d).event.id = Current(chains[d], made[d])
            /\ Current(chains[d], made[d]) \in Nat /\ Current(chains[d], made[d]) <= made[d]
        BY <1>1, <1>3, <2>1, <3>1, HeadOK DEF DocOK
      <4> QED
        BY <1>1, <1>3, <2>1, <3>1, <4>1 DEF DocOK, WireOK
    <3>2. CASE e # d
      BY <1>1, <1>3, <2>1, <3>2 DEF DocOK, WireOK
    <3> QED
      BY <3>1, <3>2
  <2>3. DeliveryOK(e)'
    <3>1. CASE e = d
      BY <1>1, <1>4, <3>1 DEF DeliveryOK
    <3>2. CASE e # d
      BY <1>1, <1>4, <2>1, <3>2 DEF DeliveryOK
    <3> QED
      BY <3>1, <3>2
  <2> QED
    BY <1>1, <2>1, <2>2, <2>3 DEF DocOK
<1>6. wire' \subseteq Request /\ heard' \subseteq Docs \X (Nat \ {0}) /\ copy' \in [Docs -> Image]
      /\ \A e \in Docs : copy'[e] = copy[e]
  BY <1>1, <1>2, <1>3
<1> QED
  BY <1>1, <1>4, <1>5, <1>6, DeliveryInv

\* A request that arrives for a document no event of which was given up has
\* arrived before, or is of the current event.
LEMMA ArrivingIsCurrent ==
  ASSUME WebhookInv, NEW r \in wire, r.doc \notin given, KeyOf(r) \notin heard
  PROVE  /\ chains[r.doc] # <<>> /\ r.event = Head(chains[r.doc])
         /\ r.event.id = Current(chains[r.doc], made[r.doc])
<1> DEFINE d == r.doc
           c == chains[d]
           m == made[d]
<1>1. r \in Request /\ d \in Docs /\ r.event.id \in Nat \ {0}
  BY DEF WebhookInv, TypeOK, Request, Event
<1>2. NumberedOK(c, m) /\ WireOK(d, c, m, wire) /\ CopyOK(d, c, m, copy[d], heard)
  BY <1>1 DEF WebhookInv, DocOK
<1>3. /\ r.event.id <= m /\ r.event.id <= Current(c, m)
      /\ r.event.id = Current(c, m) => r.event = Head(c)
  BY <1>2 DEF WireOK
<1>4. c \in Seq(Event) /\ m \in Nat /\ Current(c, m) = m - Len(c) + 1 /\ Len(c) \in Nat
  BY <1>2 DEF NumberedOK, Current
<1>5. ~ (r.event.id < Current(c, m))
  BY <1>1, <1>2 DEF CopyOK, KeyOf
<1>6. r.event.id = Current(c, m)
  BY <1>1, <1>3, <1>4, <1>5
<1>7. c = <<>> => Len(c) = 0
  OBVIOUS
<1>8. c # <<>>
  BY <1>1, <1>3, <1>4, <1>6, <1>7
<1> QED
  BY <1>3, <1>6, <1>8

LEMMA ArriveInv ==
  ASSUME WebhookInv, NEW r \in wire, Arrive(r)
  PROVE  WebhookInv'
<1> DEFINE d == r.doc
<1>1. /\ wire' = wire \ {r} /\ heard' = heard \cup {KeyOf(r)}
      /\ copy' = IF KeyOf(r) \in heard THEN copy
                 ELSE [copy EXCEPT ![d] = [n |-> r.event.n, there |-> r.event.op # "delete"]]
      /\ delivery' = IF AwaitedBy(r) THEN [delivery EXCEPT ![d].pc = "taken"] ELSE delivery
      /\ UNCHANGED <<inOrder, store, writes, ahead, chains, made, stats, told, crossed, owed, given>>
  BY DEF Arrive, books
<1>2. /\ delivery \in [Docs -> [ pc : {"idle", "sent", "taken"}, attempt : 0 .. Retries ]]
      /\ wire \subseteq Request /\ heard \subseteq Docs \X (Nat \ {0}) /\ copy \in [Docs -> Image]
  BY DEF WebhookInv, TypeOK
<1>3. r \in Request /\ d \in Docs /\ r.event \in Event /\ r.event.id \in Nat \ {0}
      /\ r.event.n \in Nat /\ KeyOf(r) = <<d, r.event.id>>
  BY <1>2 DEF Request, Event, KeyOf
<1>4. ImageOf(r.event) \in Image
  BY <1>3 DEF ImageOf, Image
<1>5. /\ copy' \in [Docs -> Image] /\ \A e \in Docs \ {d} : copy'[e] = copy[e]
      /\ copy'[d] = IF KeyOf(r) \in heard THEN copy[d] ELSE ImageOf(r.event)
  <2>1. CASE KeyOf(r) \in heard
    BY <1>1, <1>2, <2>1
  <2>2. CASE KeyOf(r) \notin heard
    <3>1. copy' = [copy EXCEPT ![d] = ImageOf(r.event)]
      BY <1>1, <2>2 DEF ImageOf
    <3> QED
      BY <1>2, <1>3, <1>4, <2>2, <3>1
  <2> QED
    BY <2>1, <2>2
<1>6. /\ delivery' \in [Docs -> [ pc : {"idle", "sent", "taken"}, attempt : 0 .. Retries ]]
      /\ \A e \in Docs : delivery'[e] = delivery[e] \/ (e = d /\ AwaitedBy(r))
  BY <1>1, <1>2, <1>3
<1>7. ASSUME NEW e \in Docs
      PROVE  /\ WireOK(e, chains[e], made[e], wire')
             /\ HeardOK(e, chains[e], made[e], heard')
             /\ e \notin given => CopyOK(e, chains[e], made[e], copy'[e], heard')
             /\ e \notin crossed \cup given => BehindOK(chains[e], told[e], copy'[e])
             /\ e \notin given /\ chains[e] = <<>> => copy'[e] = copy[e]
             /\ DeliveryOK(e)'
  <2>1. /\ NumberedOK(chains[e], made[e]) /\ WireOK(e, chains[e], made[e], wire)
        /\ HeardOK(e, chains[e], made[e], heard) /\ DeliveryOK(e)
        /\ e \notin given => CopyOK(e, chains[e], made[e], copy[e], heard)
        /\ e \notin crossed => OrderOK(chains[e], told[e])
        /\ e \notin crossed \cup given => BehindOK(chains[e], told[e], copy[e])
    BY DEF WebhookInv, DocOK
  <2>2. WireOK(e, chains[e], made[e], wire')
    BY <1>1, <2>1 DEF WireOK
  <2>3. HeardOK(e, chains[e], made[e], heard')
    BY <1>1, <1>3, <2>1 DEF HeardOK, WireOK
  <2>4. ASSUME e \notin given, e = d, KeyOf(r) \notin heard
        PROVE  /\ CopyOK(e, chains[e], made[e], copy'[e], heard')
               /\ e \notin crossed => BehindOK(chains[e], told[e], copy'[e])
               /\ chains[e] # <<>>
    <3>1. chains[d] # <<>> /\ r.event = Head(chains[d])
      BY <2>4, ArrivingIsCurrent
    <3>2. copy'[d] = ImageOf(Head(chains[d]))
      BY <1>5, <2>4, <3>1
    <3>3. d \notin crossed => BehindOK(chains[d], told[d], copy'[d])
      BY <2>1, <2>4, <3>1, <3>2, HeadOK
    <3>4. \A i \in Nat \ {0} : i < Current(chains[d], made[d]) => <<d, i>> \in heard'
      BY <1>1, <2>1, <2>4 DEF CopyOK
    <3> QED
      BY <2>4, <3>1, <3>2, <3>3, <3>4 DEF CopyOK
  <2>5. ASSUME e # d \/ KeyOf(r) \in heard
        PROVE  /\ e \notin given => CopyOK(e, chains[e], made[e], copy'[e], heard')
               /\ e \notin crossed \cup given => BehindOK(chains[e], told[e], copy'[e])
               /\ copy'[e] = copy[e]
    <3>1. copy'[e] = copy[e] /\ \A i : <<e, i>> \in heard' <=> <<e, i>> \in heard
      BY <1>1, <1>3, <1>5, <2>5
    <3> QED
      BY <2>1, <3>1 DEF CopyOK
  <2>6. DeliveryOK(e)'
    <3>1. CASE delivery'[e] = delivery[e]
      BY <1>1, <2>1, <3>1 DEF DeliveryOK
    <3>2. CASE e = d /\ AwaitedBy(r)
      <4>1. chains[d] # <<>> /\ r = RequestOf(d)
        BY <3>2 DEF AwaitedBy
      <4>2. r.event = Head(chains[d])
        BY <4>1 DEF RequestOf
      <4>3. r.event.id = Current(chains[d], made[d])
        BY <2>1, <3>2, <4>1, <4>2, HeadOK
      <4> QED
        BY <1>1, <1>3, <3>2, <4>1, <4>3 DEF DeliveryOK
    <3> QED
      BY <1>6, <3>1, <3>2
  <2> QED
    BY <2>2, <2>3, <2>4, <2>5, <2>6
<1>8. wire' \subseteq Request /\ heard' \subseteq Docs \X (Nat \ {0})
  BY <1>1, <1>2, <1>3
<1> QED
  BY <1>1, <1>5, <1>6, <1>7, <1>8, DeliveryInv

LEMMA DeliveredInv ==
  ASSUME WebhookInv, NEW d \in Docs, Delivered(d)
  PROVE  WebhookInv'
<1>1. /\ delivery[d].pc = "taken" /\ Settle(d, "delivered") /\ wire' = wire /\ given' = given
      /\ UNCHANGED <<inOrder, store, writes, ahead, made, heard, copy, told, crossed, owed>>
  BY DEF Delivered, books
<1>2. chains[d] # <<>>
  BY <1>1 DEF WebhookInv, DeliveryOK
<1> QED
  BY <1>1, <1>2, SettleInv

LEMMA RefusedInv ==
  ASSUME WebhookInv, NEW d \in Docs, Refused(d)
  PROVE  WebhookInv'
<1>1. /\ delivery[d].pc = "sent" /\ Settle(d, "failed") /\ wire' \subseteq wire
      /\ given' = given \cup {d} 
      /\ UNCHANGED <<inOrder, store, writes, ahead, made, heard, copy, told, crossed, owed>>
  BY DEF Refused, books
<1>2. chains[d] # <<>>
  BY <1>1 DEF WebhookInv, DeliveryOK
<1> QED
  BY <1>1, <1>2, SettleInv

LEMMA ErroredInv ==
  ASSUME WebhookInv, NEW d \in Docs, Errored(d)
  PROVE  WebhookInv'
<1>1. delivery[d].pc # "idle" 
      /\ UNCHANGED <<inOrder, store, writes, ahead, made, wire, heard, copy, told, crossed, owed>>
  BY DEF Errored, books
<1>2. chains[d] # <<>>
  BY <1>1 DEF WebhookInv, DeliveryOK
<1>3. CASE delivery[d].attempt < Retries
  <2>1. /\ delivery' = [delivery EXCEPT ![d] = [pc |-> "idle", attempt |-> @.attempt + 1]]
        /\ UNCHANGED <<chains, stats, given>>
    BY <1>3 DEF Errored
  <2>2. /\ delivery \in [Docs -> [ pc : {"idle", "sent", "taken"}, attempt : 0 .. Retries ]]
        /\ wire \subseteq Request /\ heard \subseteq Docs \X (Nat \ {0})
        /\ copy \in [Docs -> Image] /\ Retries \in Nat
    BY WebhookAssumption DEF WebhookInv, TypeOK
  <2>3. [pc |-> "idle", attempt |-> delivery[d].attempt + 1]
          \in [ pc : {"idle", "sent", "taken"}, attempt : 0 .. Retries ]
    BY <1>3, <2>2
  <2>4. /\ delivery' \in [Docs -> [ pc : {"idle", "sent", "taken"}, attempt : 0 .. Retries ]]
        /\ delivery'[d].pc = "idle" /\ \A e \in Docs \ {d} : delivery'[e] = delivery[e]
    BY <2>1, <2>2, <2>3
  <2>5. ASSUME NEW e \in Docs
        PROVE  /\ WireOK(e, chains[e], made[e], wire')
               /\ HeardOK(e, chains[e], made[e], heard')
               /\ e \notin given => CopyOK(e, chains[e], made[e], copy'[e], heard')
               /\ e \notin crossed \cup given => BehindOK(chains[e], told[e], copy'[e])
               /\ e \notin given /\ chains[e] = <<>> => copy'[e] = copy[e]
               /\ DeliveryOK(e)'
    <3>1. DocOK(e) /\ DeliveryOK(e)
      BY DEF WebhookInv
    <3> QED
      BY <1>1, <2>1, <2>4, <3>1 DEF DocOK, DeliveryOK
  <2>6. wire' \subseteq Request /\ heard' \subseteq Docs \X (Nat \ {0}) /\ copy' \in [Docs -> Image]
        /\ \A e \in Docs : copy'[e] = copy[e]
    BY <1>1, <2>2
  <2>7. UNCHANGED <<inOrder, store, writes, ahead, chains, made, stats, told, crossed, owed, given>>
    BY <1>1, <2>1
  <2> QED
    BY <2>4, <2>5, <2>6, <2>7, DeliveryInv
<1>4. CASE ~ (delivery[d].attempt < Retries)
  <2>1. Settle(d, "failed") /\ given' = given \cup {d}
    BY <1>4 DEF Errored
  <2> QED
    BY <1>1, <1>2, <2>1, SettleInv
<1> QED
  BY <1>3, <1>4

-----------------------------------------------------------------------------

LEMMA NoPlaces ==
  ASSUME NEW count \in [Docs -> Nat], \A d \in Docs : count[d] = 0
  PROVE  Cardinality(Places(count)) = 0
<1>1. Places(count) = {}
  BY PlacesAre
<1> QED
  BY <1>1, FS_EmptySet

LEMMA WebhookInitInv == ASSUME Init PROVE WebhookInv
<1>1. /\ store \in [Docs -> Image] /\ copy = store
      /\ \A d \in Docs : store[d].n = 0
  BY DEF Init, Image
<1>2. /\ writes = [w \in Writers |-> None] /\ ahead = [w \in Writers |-> {}]
      /\ told = [d \in Docs |-> 0] /\ crossed = {}
      /\ chains = [d \in Docs |-> <<>>] /\ made = [d \in Docs |-> 0]
      /\ delivery = [d \in Docs |-> [pc |-> "idle", attempt |-> 0]]
      /\ stats = [pending |-> 0, delivered |-> 0, failed |-> 0, dropped |-> 0]
      /\ wire = {} /\ heard = {} /\ owed = {} /\ given = {}
      /\ Retries \in Nat /\ MaxQueue \in Nat /\ inOrder \in BOOLEAN
  BY WebhookAssumption DEF Init
<1>3. TypeOK
  <2>1. chains \in [Docs -> Seq(Event)]
    BY <1>2
  <2>2. delivery \in [Docs -> [ pc : {"idle", "sent", "taken"}, attempt : 0 .. Retries ]]
    BY <1>2
  <2>3. stats \in [ pending : 0 .. MaxQueue, delivered : Nat, failed : Nat, dropped : Nat ]
    BY <1>2
  <2> QED
    BY <1>1, <1>2, <2>1, <2>2, <2>3 DEF TypeOK
<1>4. ASSUME NEW d \in Docs PROVE DocOK(d) /\ DeliveryOK(d) /\ Reported(d) /\ told[d] <= store[d].n
  <2>1. chains[d] = <<>> /\ made[d] = 0 /\ Len(chains[d]) = 0 /\ chains[d] \in Seq(Event)
    BY <1>2
  <2>2. Current(chains[d], made[d]) = 1
    BY <2>1 DEF Current
  <2>3. NumberedOK(chains[d], made[d]) /\ OrderOK(chains[d], told[d])
    BY <2>1 DEF NumberedOK, OrderOK
  <2>4. /\ CopyOK(d, chains[d], made[d], copy[d], heard)
        /\ BehindOK(chains[d], told[d], copy[d])
    BY <1>1, <1>2, <2>1, <2>2 DEF CopyOK, BehindOK
  <2>5. WireOK(d, chains[d], made[d], wire) /\ HeardOK(d, chains[d], made[d], heard)
    BY <1>2 DEF WireOK, HeardOK
  <2>6. DeliveryOK(d)
    BY <1>2 DEF DeliveryOK
  <2>7. Reported(d)
    BY <1>1, <1>2, <2>1 DEF Reported, Tells
  <2>8. told[d] <= store[d].n
    BY <1>1, <1>2
  <2> QED
    BY <2>8, <2>3, <2>4, <2>5, <2>6, <2>7 DEF DocOK
<1>5. Accounted
  <2> DEFINE count == [d \in Docs |-> Len(chains[d])]
  <2>1. count \in [Docs -> Nat] /\ \A d \in Docs : count[d] = 0
    BY <1>2
  <2>2. made \in [Docs -> Nat] /\ \A d \in Docs : made[d] = 0
    BY <1>2
  <2>3. Queued = Places(count)
    BY DEF Queued
  <2> HIDE DEF count
  <2>4. Cardinality(Queued) = 0 /\ Cardinality(Places(made)) = 0
    BY <2>1, <2>2, <2>3, NoPlaces
  <2> QED
    BY <1>2, <2>4 DEF Accounted
<1>6. WritesOK
  BY <1>2 DEF WritesOK, WriteOK
<1> QED
  BY <1>3, <1>4, <1>5, <1>6 DEF WebhookInv

LEMMA WebhookStays == ASSUME WebhookInv, UNCHANGED vars PROVE WebhookInv'
<1>1. TypeOK' /\ Accounted' /\ WritesOK'
  BY DEF vars, books, WebhookInv, TypeOK, Accounted, Queued, Places, WritesOK
<1>2. ASSUME NEW d \in Docs
      PROVE  DocOK(d)' /\ DeliveryOK(d)' /\ Reported(d)' /\ told'[d] <= store'[d].n
  BY DEF vars, books, WebhookInv, DocOK, DeliveryOK, Reported, ToTell, Telling, At
<1> QED
  BY <1>1, <1>2 DEF WebhookInv

LEMMA WebhookNextInv ==
  ASSUME WebhookInv, [Next]_vars
  PROVE  WebhookInv'
<1>1. CASE UNCHANGED vars
  BY <1>1, WebhookStays
<1>2. ASSUME NEW w \in Writers, NEW S \in SUBSET Docs, InsertDocs(w, S) PROVE WebhookInv'
  BY <1>2, InsertInv
<1>3. ASSUME NEW w \in Writers, NEW S \in SUBSET Docs, NEW op \in Ops, NEW many \in BOOLEAN,
             Resolve(w, op, S, many)
      PROVE  WebhookInv'
  BY <1>3, ResolveInv
<1>4. ASSUME NEW w \in Writers, Returned(w) PROVE WebhookInv'
  BY <1>4, NothingReachedInv, CommitUpdateInv, CommitDeleteInv, ReadImagesInv, ReportInv
  DEF Returned
<1>5. ASSUME NEW w \in Writers, Rejected(w) PROVE WebhookInv'
  BY <1>5, RejectedInv
<1>6. ASSUME NEW d \in Docs, Send(d) PROVE WebhookInv'
  BY <1>6, SendInv
<1>7. ASSUME NEW d \in Docs, Answer(d) PROVE WebhookInv'
  BY <1>7, DeliveredInv, RefusedInv, ErroredInv DEF Answer
<1>8. ASSUME NEW r \in wire, Arrive(r) PROVE WebhookInv'
  BY <1>8, ArriveInv
<1> QED
  BY <1>1, <1>2, <1>3, <1>4, <1>5, <1>6, <1>7, <1>8 DEF Next

LEMMA WebhookInvariant == Spec => []WebhookInv
<1>1. WebhookInv /\ [Next]_vars => WebhookInv'
  BY WebhookNextInv
<1> QED
  BY <1>1, WebhookInitInv, PTL DEF Spec

-----------------------------------------------------------------------------
(***************************************************************************)
(* Answers in the order the engine worked.                                 *)
(***************************************************************************)

\* The answers on their way are one behind the other, each with images no
\* older than those before it, and none older than what was told.
AheadOK(v, w) ==
  \A d \in writes[v].ids \cap writes[w].ids : writes[v].image[d].n <= writes[w].image[d].n

OrderInv ==
  /\ crossed = {}
  /\ \A v, w \in Writers : v \in ahead[w] => At(v, "answered") /\ At(w, "answered")
  /\ \A v, w \in Writers :
       At(v, "answered") /\ At(w, "answered") /\ v # w => v \in ahead[w] \/ w \in ahead[v]
  /\ \A v, w \in Writers : v \in ahead[w] => v # w /\ AheadOK(v, w)
  /\ \A w \in Writers : At(w, "answered") =>
       \A d \in writes[w].ids : told[d] <= writes[w].image[d].n

\* A write that has no answer on its way before or after.
LEMMA OrderAlone ==
  ASSUME TypeOK, OrderInv, NEW w \in Writers, ~ At(w, "answered"), NEW W,
         writes' = [writes EXCEPT ![w] = W], W = None \/ W.pc # "answered",
         UNCHANGED <<ahead, told, crossed>>
  PROVE  OrderInv'
<1>1. \A v \in Writers : At(v, "answered")' <=> At(v, "answered")
  BY DEF At, TypeOK
<1>2. \A v \in Writers : At(v, "answered") => writes'[v] = writes[v]
  BY DEF TypeOK
<1>3. \A u, v \in Writers : u \in ahead[v] => AheadOK(u, v)'
  <2>1. ASSUME NEW u \in Writers, NEW v \in Writers, u \in ahead[v] PROVE AheadOK(u, v)'
    <3>1. AheadOK(u, v) /\ At(u, "answered") /\ At(v, "answered")
      BY <2>1 DEF OrderInv
    <3>2. writes'[u] = writes[u] /\ writes'[v] = writes[v]
      BY <1>2, <3>1
    <3> QED
      BY <3>1, <3>2 DEF AheadOK
  <2> QED
    BY <2>1
<1> QED
  BY <1>1, <1>2, <1>3 DEF OrderInv

\* A write leaves, and what was told of its documents is no older than before.
LEMMA OrderLeaves ==
  ASSUME TypeOK, OrderInv, NEW w \in Writers, Leaves(w), crossed' = {},
         \A v \in Writers \ {w} : At(v, "answered") =>
           \A d \in writes[v].ids : told'[d] <= writes[v].image[d].n
  PROVE  OrderInv'
<1>1. /\ \A v \in Writers \ {w} : writes'[v] = writes[v]
      /\ writes'[w] = None /\ ahead'[w] = {}
      /\ \A v \in Writers \ {w} : ahead'[v] = ahead[v] \ {w}
  BY DEF Leaves, TypeOK
<1>2. /\ \A v \in Writers \ {w} : At(v, "answered")' <=> At(v, "answered")
      /\ ~ At(w, "answered")'
  BY <1>1 DEF At
<1>3. \A u, v \in Writers : u \in ahead'[v] => u \in ahead[v] /\ u # w /\ v # w
  BY <1>1
<1>4. \A u, v \in Writers : u \in ahead'[v] => AheadOK(u, v)'
  BY <1>1, <1>3 DEF OrderInv, AheadOK
<1>5. \A u, v \in Writers : u \in ahead'[v] => At(u, "answered")' /\ At(v, "answered")' /\ u # v
  BY <1>2, <1>3 DEF OrderInv
<1>6. \A u, v \in Writers :
        At(u, "answered")' /\ At(v, "answered")' /\ u # v => u \in ahead'[v] \/ v \in ahead'[u]
  BY <1>1, <1>2 DEF OrderInv
<1>7. \A v \in Writers : At(v, "answered")' =>
        \A d \in writes'[v].ids : told'[d] <= writes'[v].image[d].n
  BY <1>1, <1>2
<1> QED
  BY <1>4, <1>5, <1>6, <1>7 DEF OrderInv

\* The engine works for a write: its answer comes behind those on their way.
LEMMA OrderWorked ==
  ASSUME inOrder, WebhookInv, OrderInv, NEW w \in Writers, ~ At(w, "answered"), writes[w] # None,
         NEW image \in [Docs -> Image], Worked(w, image), UNCHANGED <<told, crossed>>,
         \A d \in writes[w].ids : store[d].n <= image[d].n
  PROVE  OrderInv'
<1>1. TypeOK /\ store \in [Docs -> Image] /\ told \in [Docs -> Nat]
  BY DEF WebhookInv, TypeOK
<1>2. PICK W \in Write :
        /\ writes' = [writes EXCEPT ![w] = W] /\ W.pc = "answered" /\ W.image = image
        /\ W.ids = writes[w].ids
  BY <1>1, WorkedOK
<1>3. /\ writes'[w] = W /\ W # None /\ \A v \in Writers \ {w} : writes'[v] = writes[v]
      /\ W.ids \in SUBSET Docs
  BY <1>1, <1>2, WebhookAssumption DEF TypeOK, Write
<1>4. /\ ahead'[w] = {v \in Writers : At(v, "answered")}
      /\ \A v \in Writers \ {w} : ahead'[v] = ahead[v]
  BY <1>1 DEF Worked, TypeOK
<1>5. /\ At(w, "answered")' /\ \A v \in Writers \ {w} : At(v, "answered")' <=> At(v, "answered")
  BY <1>2, <1>3 DEF At
<1>6. \A u, v \in Writers : u \in ahead[v] => u # w /\ v # w
  BY DEF OrderInv
<1>7. ASSUME NEW u \in Writers, NEW v \in Writers, u \in ahead'[v]
      PROVE  /\ At(u, "answered")' /\ At(v, "answered")' /\ u # v /\ AheadOK(u, v)'
  <2>1. CASE v = w
    <3>1. u # w /\ At(u, "answered")
      BY <1>4, <1>7, <2>1
    <3>2. ASSUME NEW d \in writes[u].ids \cap W.ids PROVE writes[u].image[d].n <= image[d].n
      <4>1. writes[u].image[d].n <= store[d].n /\ store[d].n <= image[d].n
        BY <1>2, <3>1, <3>2 DEF WebhookInv, WritesOK, WriteOK, At
      <4>2. d \in Docs /\ writes[u] \in Write
        BY <1>1, <1>3, <3>1, <3>2 DEF TypeOK, At
      <4>3. writes[u].image[d].n \in Nat /\ store[d].n \in Nat /\ image[d].n \in Nat
        BY <1>1, <4>2 DEF Write, Image
      <4> QED
        BY <4>1, <4>3
    <3>3. writes'[u] = writes[u] /\ writes'[v] = W
      BY <1>3, <2>1, <3>1
    <3>4. AheadOK(u, v)'
      BY <1>2, <3>2, <3>3 DEF AheadOK
    <3> QED
      BY <1>5, <2>1, <3>1, <3>4
  <2>2. CASE v # w
    <3>1. u \in ahead[v] /\ u # w
      BY <1>4, <1>6, <1>7, <2>2
    <3>2. AheadOK(u, v) /\ At(u, "answered") /\ At(v, "answered") /\ u # v
      BY <3>1 DEF OrderInv
    <3>3. writes'[u] = writes[u] /\ writes'[v] = writes[v]
      BY <1>3, <2>2, <3>1
    <3>4. AheadOK(u, v)'
      BY <3>2, <3>3 DEF AheadOK
    <3> QED
      BY <1>5, <2>2, <3>1, <3>2, <3>4
  <2> QED
    BY <2>1, <2>2
<1>8. \A u, v \in Writers :
        At(u, "answered")' /\ At(v, "answered")' /\ u # v => u \in ahead'[v] \/ v \in ahead'[u]
  BY <1>4, <1>5 DEF OrderInv
<1>9. ASSUME NEW v \in Writers, At(v, "answered")', NEW d \in writes'[v].ids
      PROVE  told'[d] <= writes'[v].image[d].n
  <2>1. CASE v = w
    <3>1. d \in W.ids /\ writes'[v].image[d] = image[d] /\ d \in Docs
      BY <1>2, <1>3, <1>9, <2>1
    <3>2. told[d] <= store[d].n /\ store[d].n <= image[d].n
      BY <1>2, <3>1 DEF WebhookInv
    <3>3. told[d] \in Nat /\ store[d].n \in Nat /\ image[d].n \in Nat
      BY <1>1, <3>1 DEF Image
    <3> QED
      BY <3>1, <3>2, <3>3
  <2>2. CASE v # w
    BY <1>3, <1>5, <1>9, <2>2 DEF OrderInv
  <2> QED
    BY <2>1, <2>2
<1> QED
  BY <1>7, <1>8, <1>9 DEF OrderInv

\* Events are told only when no answer is before theirs.
LEMMA OrderReport ==
  ASSUME WebhookInv, OrderInv, NEW w \in Writers, Report(w)
  PROVE  OrderInv'
<1> DEFINE W == writes[w]
<1>1. /\ At(w, "answered") /\ ahead[w] = {} /\ Emit(W.ids, W.op, W.image) /\ Leaves(w)
  BY DEF Report
<1>2. TypeOK /\ Accounted
  BY DEF WebhookInv
<1>3. W \in Write /\ W.ids \in SUBSET Docs /\ W.op \in Ops /\ W.image \in [Docs -> Image]
  BY <1>1, <1>2 DEF TypeOK, Write, At
<1>4. \E kept \in SUBSET W.ids : Queues(kept, W.ids, W.op, W.image)
  BY <1>1, <1>2, <1>3, EmitOK
<1>5. PICK kept \in SUBSET W.ids :
        /\ \A d \in Docs :
             told'[d] = IF d \in kept /\ ~ Late(d, W.image) THEN W.image[d].n ELSE told[d]
        /\ crossed' = crossed \cup {d \in kept : Late(d, W.image)}
  BY <1>4 DEF Queues
<1>6. \A d \in W.ids : ~ Late(d, W.image)
  <2>1. ASSUME NEW d \in W.ids PROVE ~ Late(d, W.image)
    <3>1. told[d] <= W.image[d].n
      BY <1>1 DEF OrderInv
    <3>2. told[d] \in Nat /\ W.image[d].n \in Nat
      BY <1>2, <1>3 DEF TypeOK, Image
    <3> QED
      BY <3>1, <3>2 DEF Late
  <2> QED
    BY <2>1
<1>7. crossed' = {}
  BY <1>5, <1>6 DEF OrderInv
<1>8. ASSUME NEW v \in Writers \ {w}, At(v, "answered"), NEW d \in writes[v].ids
      PROVE  told'[d] <= writes[v].image[d].n
  <2>1. d \in Docs
    BY <1>2, <1>8 DEF TypeOK, Write, At
  <2>2. AheadOK(w, v)
    BY <1>1, <1>8 DEF OrderInv
  <2>3. CASE d \in kept
    BY <1>5, <1>6, <1>8, <2>1, <2>2, <2>3 DEF AheadOK
  <2>4. CASE d \notin kept
    BY <1>5, <1>8, <2>1, <2>4 DEF OrderInv
  <2> QED
    BY <2>3, <2>4
<1> QED
  BY <1>1, <1>2, <1>7, <1>8, OrderLeaves

LEMMA OrderNext ==
  ASSUME inOrder, WebhookInv, OrderInv, [Next]_vars
  PROVE  OrderInv'
<1>1. TypeOK /\ store \in [Docs -> Image]
  BY DEF WebhookInv, TypeOK
<1>2. CASE UNCHANGED <<writes, ahead, told, crossed>>
  BY <1>2 DEF OrderInv, AheadOK, At
<1>3. ASSUME NEW w \in Writers, NEW S \in SUBSET Docs, InsertDocs(w, S) PROVE OrderInv'
  <2> DEFINE W == [op |-> "insert", filter |-> {}, many |-> FALSE, ids |-> S,
                   pc |-> "committed", image |-> Untold]
  <2>1. /\ writes[w] = None /\ writes' = [writes EXCEPT ![w] = W] /\ W.pc = "committed"
        /\ UNCHANGED <<ahead, told, crossed>>
    BY <1>3 DEF InsertDocs, Quietly
  <2> HIDE DEF W
  <2> QED
    BY <1>1, <2>1, OrderAlone DEF At
<1>4. ASSUME NEW w \in Writers, NEW S \in SUBSET Docs, NEW op \in Ops, NEW many \in BOOLEAN,
             Resolve(w, op, S, many)
      PROVE  OrderInv'
  <2> DEFINE W == [op |-> op, filter |-> S, many |-> many,
                   ids |-> ResolvedIds(op, S, many), pc |-> "resolved", image |-> Untold]
  <2>1. /\ writes[w] = None /\ writes' = [writes EXCEPT ![w] = W] /\ W.pc = "resolved"
        /\ UNCHANGED <<ahead, told, crossed>>
    BY <1>4 DEF Resolve, Quietly
  <2> HIDE DEF W
  <2> QED
    BY <1>1, <2>1, OrderAlone DEF At
<1>5. ASSUME NEW w \in Writers, CommitUpdate(w) PROVE OrderInv'
  <2> DEFINE W == [writes[w] EXCEPT !.pc = "committed", !.filter = {}, !.many = FALSE]
  <2>1. /\ At(w, "resolved") /\ writes' = [writes EXCEPT ![w] = W]
        /\ UNCHANGED <<ahead, told, crossed>>
    BY <1>5 DEF CommitUpdate, Quietly
  <2>2. W.pc = "committed"
    BY <1>1, <2>1 DEF At, TypeOK, Write
  <2> HIDE DEF W
  <2> QED
    BY <1>1, <2>1, <2>2, OrderAlone DEF At
<1>6. ASSUME NEW w \in Writers, CommitDelete(w) PROVE OrderInv'
  <2> DEFINE S == Reached(writes[w].filter, writes[w].many)
             image == [d \in Docs |->
                         IF d \in writes[w].ids THEN [n |-> store'[d].n, there |-> FALSE]
                                                ELSE Untold[d]]
  <2>1. /\ At(w, "resolved") /\ Worked(w, image) /\ UNCHANGED <<told, crossed>>
        /\ store' = Changed(S, "delete")
    BY <1>6 DEF CommitDelete, Quietly
  <2>2. writes[w] # None /\ writes[w] \in Write /\ ~ At(w, "answered")
    BY <1>1, <2>1 DEF At, TypeOK
  <2>3. S \in SUBSET Docs /\ writes[w].ids \in SUBSET Docs
    BY <2>2, ReachedIn DEF Write
  <2> HIDE DEF S
  <2>4. store' \in [Docs -> Image] /\ \A d \in Docs : store[d].n <= store'[d].n
    BY <1>1, <2>1, <2>3, ChangedOK
  <2>5. image \in [Docs -> Image] /\ \A d \in writes[w].ids : image[d].n = store'[d].n
    <3>1. \A d \in Docs : store'[d].n \in Nat
      BY <2>4 DEF Image
    <3> QED
      BY <2>3, <3>1, UntoldType DEF Image
  <2> HIDE DEF image
  <2>6. \A d \in writes[w].ids : store[d].n <= image[d].n
    BY <2>3, <2>4, <2>5
  <2> QED
    BY <2>1, <2>2, <2>5, <2>6, OrderWorked
<1>7. ASSUME NEW w \in Writers, ReadImages(w) PROVE OrderInv'
  <2> DEFINE image == [d \in Docs |-> IF d \in writes[w].ids THEN store[d] ELSE Untold[d]]
  <2>1. /\ At(w, "committed") /\ Worked(w, image) /\ UNCHANGED <<told, crossed>>
    BY <1>7 DEF ReadImages, Quietly
  <2>2. writes[w] # None /\ writes[w].ids \in SUBSET Docs /\ ~ At(w, "answered")
    BY <1>1, <2>1 DEF At, TypeOK, Write
  <2>3. image \in [Docs -> Image] /\ \A d \in writes[w].ids : store[d].n <= image[d].n
    <3>1. \A d \in Docs : store[d].n \in Nat
      BY <1>1 DEF Image
    <3> QED
      BY <1>1, <2>2, <3>1, UntoldType
  <2> HIDE DEF image
  <2> QED
    BY <2>1, <2>2, <2>3, OrderWorked
<1>8. ASSUME NEW w \in Writers, NothingReached(w) \/ Rejected(w) PROVE OrderInv'
  <2>1. Leaves(w) /\ UNCHANGED <<told, crossed>>
    BY <1>8 DEF NothingReached, Rejected, Quietly
  <2> QED
    BY <1>1, <2>1, OrderLeaves DEF OrderInv
<1>9. ASSUME NEW w \in Writers, Returned(w) \/ Rejected(w) PROVE OrderInv'
  BY <1>5, <1>6, <1>7, <1>8, <1>9, OrderReport DEF Returned
<1>10. ASSUME NEW d \in Docs, Send(d) \/ Answer(d) PROVE OrderInv'
  BY <1>2, <1>10 DEF Send, Answer, Delivered, Refused, Errored, books
<1>11. ASSUME NEW r \in wire, Arrive(r) PROVE OrderInv'
  BY <1>2, <1>11 DEF Arrive, books
<1>12. CASE UNCHANGED vars
  BY <1>2, <1>12 DEF vars, books
<1> QED
  BY <1>3, <1>4, <1>9, <1>10, <1>11, <1>12 DEF Next

LEMMA OrderInit == ASSUME Init PROVE OrderInv
BY DEF Init, OrderInv, At

\* The runtime is the same all along.
LEMMA RuntimeStays == ASSUME [Next]_vars PROVE inOrder' = inOrder
<1>1. CASE UNCHANGED vars
  BY <1>1 DEF vars
<1>2. CASE \E w \in Writers, S \in SUBSET Docs :
             \/ InsertDocs(w, S)
             \/ \E op \in Ops, many \in BOOLEAN : Resolve(w, op, S, many)
  BY <1>2 DEF InsertDocs, Resolve
<1>3. CASE \E w \in Writers : Returned(w) \/ Rejected(w)
  BY <1>3
  DEF Returned, NothingReached, CommitUpdate, CommitDelete, ReadImages, Report, Rejected
<1>4. CASE \E d \in Docs : Send(d) \/ Answer(d)
  BY <1>4 DEF Send, Answer, Delivered, Refused, Errored
<1>5. CASE \E r \in wire : Arrive(r)
  BY <1>5 DEF Arrive
<1> QED
  BY <1>1, <1>2, <1>3, <1>4, <1>5 DEF Next

\* Where the runtime answers in order, its answers stay in line.
InLine == inOrder => OrderInv

-----------------------------------------------------------------------------

\* Every variable keeps its type: the queue stays within max_queue, and an
\* event within its attempts.
THEOREM WebhookTypes == Spec => []TypeOK
<1>1. WebhookInv => TypeOK
  BY DEF WebhookInv
<1> QED
  BY <1>1, WebhookInvariant, PTL

\* The counters of webhookStats agree with the chains: no event is queued
\* without being pending, none ends without being counted once.
THEOREM CountersAgree == Spec => []Accounted
<1>1. WebhookInv => Accounted
  BY DEF WebhookInv
<1> QED
  BY <1>1, WebhookInvariant, PTL

\* When all is quiet the endpoint has every document as the collection has
\* it, in whatever order the engine's answers came, unless an event of it was
\* dropped, failed, drifted, or was last queued behind a later one, or a
\* write of it rejected after its commit.
THEOREM EndpointConverges == Spec => []Converges
<1>1. WebhookInv => Converges
  <2> SUFFICES ASSUME WebhookInv, Quiet, NEW d \in Docs \ (owed \cup given)
               PROVE  copy[d] = store[d]
    BY DEF Converges
  <2>1. Reported(d)
    BY DEF WebhookInv
  <2>2. chains[d] = <<>> /\ ~ ToTell(d)
    BY DEF Quiet, ToTell, Telling, At
  <2> QED
    BY <2>1, <2>2 DEF Reported, Tells
<1> QED
  BY <1>1, WebhookInvariant, PTL

\* Where the engine's answers come in the order it worked, no event of a
\* document is queued behind that of a later commit, whichever writes overlap.
THEOREM EventsKeepOrder == Spec => []EventsInOrder
<1>1. InLine => EventsInOrder
  BY DEF InLine, OrderInv, EventsInOrder
<1>2. WebhookInv /\ InLine /\ [Next]_vars => InLine'
  BY OrderNext, RuntimeStays DEF InLine
<1>3. Init => InLine
  BY OrderInit DEF InLine
<1> QED
  BY <1>1, <1>2, <1>3, WebhookInvariant, PTL DEF Spec

\* A step takes no document back to an earlier commit at the endpoint, if its
\* events are in order and none was given up.
LEMMA StepForward ==
  ASSUME WebhookInv, [Next]_vars, NEW d \in Docs \ (crossed \cup given)
  PROVE  copy'[d].n >= copy[d].n
<1>1. copy \in [Docs -> Image] /\ d \in Docs
  BY DEF WebhookInv, TypeOK
<1>2. CASE copy'[d] = copy[d]
  BY <1>1, <1>2 DEF Image
<1>3. ASSUME NEW r \in wire, Arrive(r) PROVE copy'[d].n >= copy[d].n
  <2>1. CASE r.doc = d /\ KeyOf(r) \notin heard
    <3>1. chains[d] # <<>> /\ r.event = Head(chains[d])
      BY <1>3, <2>1, ArrivingIsCurrent
    <3>2. NumberedOK(chains[d], made[d]) /\ BehindOK(chains[d], told[d], copy[d])
      BY DEF WebhookInv, DocOK
    <3>3. copy[d].n <= r.event.n /\ r.event \in Event
      BY <3>1, <3>2, HeadOK
    <3>4. copy'[d].n = r.event.n
      BY <1>1, <1>3, <2>1 DEF Arrive
    <3>5. r.event.n \in Nat /\ copy[d].n \in Nat
      BY <1>1, <3>3 DEF Event, Image
    <3> QED
      BY <3>3, <3>4, <3>5
  <2>2. CASE r.doc # d \/ KeyOf(r) \in heard
    <3>1. copy'[d] = copy[d]
      BY <1>1, <1>3, <2>2 DEF Arrive
    <3> QED
      BY <1>2, <3>1
  <2> QED
    BY <2>1, <2>2
<1>4. CASE UNCHANGED copy
  BY <1>2, <1>4
<1>5. CASE UNCHANGED vars
  BY <1>4, <1>5 DEF vars
<1>6. CASE \E w \in Writers, S \in SUBSET Docs :
             \/ InsertDocs(w, S)
             \/ \E op \in Ops, many \in BOOLEAN : Resolve(w, op, S, many)
  BY <1>4, <1>6 DEF InsertDocs, Resolve
<1>7. CASE \E w \in Writers : Returned(w) \/ Rejected(w)
  BY <1>4, <1>7
  DEF Returned, NothingReached, CommitUpdate, CommitDelete, ReadImages, Report, Rejected
<1>8. CASE \E e \in Docs : Send(e) \/ Answer(e)
  BY <1>4, <1>8 DEF Send, Answer, Delivered, Refused, Errored
<1>9. CASE \E r \in wire : Arrive(r)
  BY <1>3, <1>9
<1> QED
  BY <1>5, <1>6, <1>7, <1>8, <1>9 DEF Next

\* Delivery keeps the order of a chain: a document at the endpoint never goes
\* back to an earlier commit, whatever requests arrive late or twice, while no
\* event of it was queued out of order or given up.
THEOREM EndpointNeverGoesBack == Spec => NeverOvertaken
<1>1. ASSUME WebhookInv, [Next]_vars
      PROVE  [\A d \in Docs \ (crossed \cup given) : copy'[d].n >= copy[d].n]_vars
  BY <1>1, StepForward
<1>2. Spec => [][Next]_vars
  BY DEF Spec
<1> QED
  BY <1>1, <1>2, WebhookInvariant, PTL DEF NeverOvertaken
=============================================================================
