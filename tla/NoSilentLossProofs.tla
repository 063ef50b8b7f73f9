------------------------- MODULE NoSilentLossProofs -------------------------
(***************************************************************************)
(* No optimistic or queued write is lost in silence, for any number of     *)
(* documents, callers, tabs, edits, lost replies and stray requests.       *)
(*                                                                         *)
(* The argument: an edit leaves the queue at five places only, and at each *)
(* of them what the actor read tells that the edit is accounted for.  A    *)
(* cancelled insert and a discarded write give up what they have read; a   *)
(* refresh has seen a document that owes nothing; an update that drops a   *)
(* tombstone has seen none; a settled write is still at the revision that  *)
(* was sent, so what the server took is all there was.                     *)
(*                                                                         *)
(* The second half is about order and agreement: the writes of a document  *)
(* reach the server in the order they were made, and device and server     *)
(* agree once the queue has let go, where only the queue writes.           *)
(***************************************************************************)
EXTENDS WriteQueueProofs

\* A backend that upserts, and no immediate writes: with either of them the
\* other way TLC finds edits lost.
Upserting == Upsert = TRUE /\ "immediate" \notin Operations

Safe(e) == e \in accepted \/ e \in abandoned \/ e \in raced

AllSafe(d) == \A e \in made[d] : Safe(e)

NoDirect == \A w \in Callers : direct[w] = None

\* Revisions are handed out once: none in use is from the future ...
Revisions ==
  /\ \A d \in Docs : Present(d) => store[d].rev <= clock
  /\ \A t \in Tabs, d \in Docs : req[t][d] # None => req[t][d].rev <= clock

\* ... a document without one has nothing left to lose ...
Unrevised == \A d \in Docs : Present(d) /\ store[d].rev = 0 => AllSafe(d)

\* ... and one of the revision that was sent is the document that was sent.
SentAsStored ==
  \A t \in Tabs, d \in Docs :
    req[t][d] # None /\ Present(d) /\ store[d].rev = req[t][d].rev /\ store[d].rev # 0
      => /\ store[d].val = req[t][d].val
         /\ store[d].op \in {req[t][d].op, NoOp}

\* A reply that settles a write comes from a server that took it.
Landed ==
  \A t \in Tabs, d \in Docs :
    /\ req[t][d] # None /\ req[t][d].pc \in {"replied", "checked"}
    /\ req[t][d].outcome \in {"ok", "applied"}
    => Carried(req[t][d].op, req[t][d].val) \subseteq accepted

\* The windows: what is about to be undone is accounted for.
SettleSafe == \A d \in Docs : DrainOpen(d) => AllSafe(d)

HydrateSafe == \A d \in Docs : HydrationOpen(d) => AllSafe(d)

CallSafe(w) ==
  call[w] # None =>
    /\ call[w].kind = "drop" \/ call[w].next = Cancel =>
         \A e \in made[call[w].doc] : e \in call[w].seen.val \/ Safe(e)
    /\ call[w].kind = "update" /\ call[w].next # "delete" =>
         \A e \in made[call[w].doc] : e.kind = "delete" => Safe(e)
    /\ call[w].kind = "delete" => call[w].next \in {"delete", Cancel}

CallsSafe == \A w \in Callers : CallSafe(w)

LossInv ==
  /\ NoDirect /\ Revisions /\ Unrevised /\ SentAsStored /\ Landed
  /\ SettleSafe /\ HydrateSafe /\ CallsSafe
  /\ NoSilentLoss

LossTyped == Typed /\ LossInv

(***************************************************************************)
(* What is accounted for stays accounted for.                              *)
(***************************************************************************)
Grows == accepted \subseteq accepted' /\ abandoned \subseteq abandoned' /\ raced \subseteq raced'

LEMMA SafeStays == ASSUME Grows, NEW e, Safe(e) PROVE Safe(e)'
BY DEF Grows, Safe

LEMMA RacesGrow == RecordRaces => raced \subseteq raced'
BY DEF RecordRaces

LEMMA ServeGrows ==
  ASSUME NEW d, NEW op, NEW rev, NEW val, Serve(d, op, rev, val)
  PROVE  accepted \subseteq accepted'
BY DEF Serve

\* An upserting server that answers has taken the write.
LEMMA ServeTakes ==
  ASSUME Upsert = TRUE, NEW d \in Docs, NEW op \in Ops, NEW rev, NEW val, Serve(d, op, rev, val)
  PROVE  Carried(op, val) \subseteq accepted'
<1>1. Handle(server[d], op, val).outcome = "ok"
  BY DEF Handle, Reply, Ops
<1> QED BY <1>1 DEF Serve

(***************************************************************************)
(* A step that makes no edit leaves each document as it was, as far as the *)
(* queue is concerned, or lets go of it when all of it is accounted for.   *)
(***************************************************************************)
Kept(d) ==
  /\ Present(d)' = Present(d)
  /\ Present(d) =>
       /\ store'[d].rev = store[d].rev /\ store'[d].val = store[d].val
       /\ store'[d].op = store[d].op
       /\ Owes(store[d]) => Owes(store'[d])

LetGo(d) ==
  /\ AllSafe(d)'
  /\ Present(d)' =>
       \/ store'[d].rev = 0
       \/ /\ Present(d)
          /\ store'[d].rev = store[d].rev /\ store'[d].val = store[d].val
          /\ store'[d].op \in {store[d].op, NoOp}

RequestsKept ==
  \A t \in Tabs, d \in Docs : req'[t][d] # None =>
    /\ req[t][d] # None
    /\ req'[t][d].rev = req[t][d].rev /\ req'[t][d].op = req[t][d].op
    /\ req'[t][d].val = req[t][d].val

QueueInv == Revisions /\ Unrevised /\ SentAsStored /\ NoSilentLoss

LEMMA QuietQueue ==
  ASSUME Typed, QueueInv, Grows, made' = made, RequestsKept,
         clock' \in Nat, clock <= clock',
         \A d \in Docs : Kept(d) \/ LetGo(d)
  PROVE  QueueInv'
<1>1. Revisions'
  <2>1. ASSUME NEW d \in Docs, Present(d)' PROVE store'[d].rev <= clock'
    <3>1. clock \in Nat
      BY DEF Typed, TypeOK, LocalTypeOK
    <3>2. CASE store'[d].rev = 0
      BY <3>2
    <3>3. CASE Present(d) /\ store'[d].rev = store[d].rev
      <4>1. store[d].rev \in Nat /\ store[d].rev <= clock
        BY <3>3, PresentType DEF QueueInv, Revisions, Typed, TypeOK, Document
      <4> QED BY <3>1, <3>3, <4>1
    <3> QED BY <2>1, <3>2, <3>3 DEF Kept, LetGo
  <2>2. ASSUME NEW t \in Tabs, NEW d \in Docs, req'[t][d] # None PROVE req'[t][d].rev <= clock'
    <3>1. req[t][d] # None /\ req'[t][d].rev = req[t][d].rev
      BY <2>2 DEF RequestsKept
    <3>2. req[t][d].rev \in Nat /\ req[t][d].rev <= clock
      BY <3>1, RequestType DEF QueueInv, Revisions, Typed, TypeOK, Request
    <3> QED BY <3>1, <3>2 DEF Typed, TypeOK, LocalTypeOK
  <2> QED BY <2>1, <2>2 DEF Revisions
<1>2. Unrevised'
  <2> SUFFICES ASSUME NEW d \in Docs, Present(d)', store'[d].rev = 0 PROVE AllSafe(d)'
    BY DEF Unrevised
  <2>1. CASE LetGo(d)
    BY <2>1 DEF LetGo
  <2>2. CASE Kept(d)
    <3>1. AllSafe(d)
      BY <2>2 DEF Kept, QueueInv, Unrevised
    <3> QED BY <3>1, SafeStays DEF AllSafe
  <2> QED BY <2>1, <2>2
<1>3. SentAsStored'
  <2> SUFFICES ASSUME NEW t \in Tabs, NEW d \in Docs, req'[t][d] # None, Present(d)',
                      store'[d].rev = req'[t][d].rev, store'[d].rev # 0
               PROVE  store'[d].val = req'[t][d].val /\ store'[d].op \in {req'[t][d].op, NoOp}
    BY DEF SentAsStored
  <2>1. /\ Present(d) /\ store'[d].rev = store[d].rev /\ store'[d].val = store[d].val
        /\ store'[d].op \in {store[d].op, NoOp}
    BY DEF Kept, LetGo
  <2>2. /\ req[t][d] # None /\ req'[t][d].rev = req[t][d].rev
        /\ req'[t][d].op = req[t][d].op /\ req'[t][d].val = req[t][d].val
    BY DEF RequestsKept
  <2>3. store[d].val = req[t][d].val /\ store[d].op \in {req[t][d].op, NoOp}
    BY <2>1, <2>2 DEF QueueInv, SentAsStored
  <2> QED BY <2>1, <2>2, <2>3
<1>4. NoSilentLoss'
  <2> SUFFICES ASSUME NEW d \in Docs, NEW e \in made[d] PROVE Queued(d, e)' \/ Safe(e)'
    BY DEF NoSilentLoss, Safe
  <2>1. CASE LetGo(d)
    BY <2>1 DEF LetGo, AllSafe
  <2>2. CASE Kept(d)
    <3>1. Queued(d, e) \/ Safe(e)
      BY DEF QueueInv, NoSilentLoss, Safe
    <3>2. Queued(d, e) => Queued(d, e)'
      BY <2>2 DEF Kept, Queued
    <3> QED BY <3>1, <3>2, SafeStays
  <2> QED BY <2>1, <2>2
<1> QED BY <1>1, <1>2, <1>3, <1>4 DEF QueueInv

\* Windows that were open, and no new edit.
LEMMA QuietSettle ==
  ASSUME SettleSafe, Grows, made' = made, \A d \in Docs : DrainOpen(d)' => DrainOpen(d)
  PROVE  SettleSafe'
BY SafeStays DEF SettleSafe, AllSafe

LEMMA QuietHydrate ==
  ASSUME HydrateSafe, Grows, made' = made, \A d \in Docs : HydrationOpen(d)' => HydrationOpen(d)
  PROVE  HydrateSafe'
BY SafeStays DEF HydrateSafe, AllSafe

LEMMA QuietCall ==
  ASSUME Grows, made' = made, NEW w \in Callers, CallSafe(w), call'[w] \in {call[w], None}
  PROVE  CallSafe(w)'
BY SafeStays DEF CallSafe

(***************************************************************************)
(* A step that makes an edit: the document is queued anew under the next   *)
(* revision, with the new edit in it, and windows open on it know.         *)
(***************************************************************************)
LEMMA EditStep ==
  ASSUME Typed, LossInv, NEW d \in Docs, NEW doc \in Document, NEW edit \in Edit,
         store' = [store EXCEPT ![d] = doc], made' = [made EXCEPT ![d] = @ \cup {edit}],
         clock' = clock + 1, abandoned' = abandoned,
         UNCHANGED <<serverVars, direct, drainVars, responses, fetch>>, RecordRaces,
         \A w \in Callers : call'[w] \in {call[w], None},
         doc.sync = "pending", doc.rev = clock + 1,
         edit \in doc.val, edit.kind = "delete" => doc.op = "delete",
         \A e \in made[d] : Queued(d, e) =>
           Safe(e) \/ (e \in doc.val /\ (e.kind = "delete" => doc.op = "delete"))
  PROVE  LossInv'
<1>1. clock \in Nat /\ made \in [Docs -> Content] /\ store \in [Docs -> Document \cup {None}]
  BY DEF Typed, TypeOK, LocalTypeOK, WritesTypeOK
<1>2. Grows
  BY RacesGrow DEF Grows, serverVars
<1>3. /\ \A c \in Docs \ {d} : store'[c] = store[c] /\ made'[c] = made[c]
      /\ store'[d] = doc /\ made'[d] = made[d] \cup {edit}
  BY <1>1
<1>4. Present(d)' /\ doc.rev # 0 /\ Owes(doc)
  BY <1>1, <1>3, NoneAssumption DEF Present, Owes
<1>5. ASSUME AtRisk(d, edit)' PROVE edit \in made[d] \/ Safe(edit)'
  BY <1>3, <1>5 DEF RecordRaces, NewEdits, Safe
<1>6. NoDirect' /\ Landed'
  BY DEF LossInv, NoDirect, Landed, drainVars, serverVars
<1>7. Revisions'
  <2>1. ASSUME NEW c \in Docs, Present(c)' PROVE store'[c].rev <= clock'
    <3>1. CASE c = d
      BY <1>1, <1>3, <3>1
    <3>2. CASE c # d
      <4>1. Present(c) /\ store'[c] = store[c]
        BY <1>3, <2>1, <3>2 DEF Present
      <4>2. store[c].rev \in Nat /\ store[c].rev <= clock
        BY <4>1, PresentType DEF LossInv, Revisions, Typed, TypeOK, Document
      <4> QED BY <1>1, <4>1, <4>2
    <3> QED BY <3>1, <3>2
  <2>2. ASSUME NEW t \in Tabs, NEW c \in Docs, req'[t][c] # None PROVE req'[t][c].rev <= clock'
    <3>1. req[t][c] # None /\ req' = req
      BY <2>2 DEF drainVars
    <3>2. req[t][c].rev \in Nat /\ req[t][c].rev <= clock
      BY <3>1, RequestType DEF LossInv, Revisions, Typed, TypeOK, Request
    <3> QED BY <1>1, <3>1, <3>2
  <2> QED BY <2>1, <2>2 DEF Revisions
<1>8. Unrevised'
  <2> SUFFICES ASSUME NEW c \in Docs, Present(c)', store'[c].rev = 0 PROVE AllSafe(c)'
    BY DEF Unrevised
  <2>1. c # d
    BY <1>3, <1>4
  <2>2. AllSafe(c)
    BY <1>3, <2>1 DEF Present, LossInv, Unrevised
  <2> QED BY <1>2, <1>3, <2>1, <2>2, SafeStays DEF AllSafe
<1>9. SentAsStored'
  <2> SUFFICES ASSUME NEW t \in Tabs, NEW c \in Docs, req[t][c] # None, Present(c)',
                      store'[c].rev = req[t][c].rev, store'[c].rev # 0
               PROVE  store'[c].val = req[t][c].val /\ store'[c].op \in {req[t][c].op, NoOp}
    BY DEF SentAsStored, drainVars
  <2>1. c # d
    <3>1. req[t][c].rev \in Nat /\ req[t][c].rev <= clock
      BY RequestType DEF LossInv, Revisions, Typed, TypeOK, Request
    <3> QED BY <1>1, <1>3, <3>1
  <2> QED BY <1>3, <2>1 DEF Present, LossInv, SentAsStored
<1>10. SettleSafe'
  <2> SUFFICES ASSUME NEW c \in Docs, DrainOpen(c)', NEW e \in made'[c] PROVE Safe(e)'
    BY DEF SettleSafe, AllSafe
  <2>1. \A x \in made[c] : Safe(x)'
    BY <1>2, SafeStays DEF LossInv, SettleSafe, AllSafe, DrainOpen, InState, drainVars
  <2>2. CASE c = d
    BY <1>3, <1>5, <2>1, <2>2 DEF AtRisk
  <2> QED BY <1>3, <2>1, <2>2
<1>11. HydrateSafe'
  <2> SUFFICES ASSUME NEW c \in Docs, HydrationOpen(c)', NEW e \in made'[c] PROVE Safe(e)'
    BY DEF HydrateSafe, AllSafe
  <2>1. \A x \in made[c] : Safe(x)'
    BY <1>2, SafeStays DEF LossInv, HydrateSafe, AllSafe, HydrationOpen
  <2>2. CASE c = d
    BY <1>3, <1>5, <2>1, <2>2 DEF AtRisk
  <2> QED BY <1>3, <2>1, <2>2
<1>12. CallsSafe'
  <2> SUFFICES ASSUME NEW w \in Callers, call'[w] # None PROVE CallSafe(w)'
    BY DEF CallsSafe, CallSafe
  <2> DEFINE c == call[w].doc
  <2>1. call'[w] = call[w] /\ call[w] # None /\ CallSafe(w)
    BY DEF LossInv, CallsSafe
  <2>2. c \in Docs
    BY <2>1 DEF Typed, TypeOK, WritesTypeOK, Call
  <2>3. ASSUME call[w].kind = "drop" \/ call[w].next = Cancel, NEW e \in made'[c]
        PROVE  e \in call[w].seen.val \/ Safe(e)'
    <3>1. CASE e \in made[c]
      BY <1>2, <2>1, <2>3, <3>1, SafeStays DEF CallSafe
    <3>2. CASE c = d /\ e = edit
      BY <1>5, <2>1, <2>3, <3>1, <3>2 DEF AtRisk
    <3> QED BY <1>3, <2>2, <3>1, <3>2
  <2>4. ASSUME call[w].kind = "update" /\ call[w].next # "delete", NEW e \in made'[c],
               e.kind = "delete"
        PROVE  Safe(e)'
    <3>1. CASE e \in made[c]
      BY <1>2, <2>1, <2>4, <3>1, SafeStays DEF CallSafe
    <3>2. CASE c = d /\ e = edit
      BY <1>5, <2>1, <2>4, <3>1, <3>2 DEF AtRisk
    <3> QED BY <1>3, <2>2, <3>1, <3>2
  <2> QED BY <2>1, <2>3, <2>4 DEF CallSafe
<1>13. NoSilentLoss'
  <2> SUFFICES ASSUME NEW c \in Docs, NEW e \in made'[c] PROVE Queued(c, e)' \/ Safe(e)'
    BY DEF NoSilentLoss, Safe
  <2>1. CASE c # d
    <3>1. Queued(c, e) \/ Safe(e)
      BY <1>3, <2>1 DEF LossInv, NoSilentLoss, Safe
    <3>2. Queued(c, e)' = Queued(c, e)
      BY <1>3, <2>1 DEF Queued, Present
    <3> QED BY <1>2, <3>1, <3>2, SafeStays
  <2>2. CASE c = d /\ e = edit
    BY <1>3, <1>4, <2>2 DEF Queued
  <2>3. CASE c = d /\ e \in made[d]
    <3>1. Queued(d, e) \/ Safe(e)
      BY <2>3 DEF LossInv, NoSilentLoss, Safe
    <3>2. CASE Safe(e)
      BY <1>2, <3>2, SafeStays
    <3>3. CASE Queued(d, e) /\ ~ Safe(e)
      BY <1>3, <1>4, <2>3, <3>3 DEF Queued
    <3> QED BY <3>1, <3>2, <3>3
  <2> QED BY <1>3, <2>1, <2>2, <2>3
<1> QED
  BY <1>6, <1>7, <1>8, <1>9, <1>10, <1>11, <1>12, <1>13 DEF LossInv

(***************************************************************************)
(* Local writes.                                                           *)
(***************************************************************************)
WritesFrame == UNCHANGED <<serverVars, direct, drainVars, responses, fetch>> /\ RecordRaces

\* A local step that makes no edit.
LEMMA QuietWrite ==
  ASSUME Typed, LossInv, WritesFrame, made' = made, abandoned \subseteq abandoned',
         clock' \in Nat, clock <= clock',
         \A d \in Docs : Kept(d) \/ LetGo(d),
         \A w \in Callers : call'[w] \in {call[w], None} \/ CallSafe(w)'
  PROVE  LossInv'
<1>1. Grows
  BY RacesGrow DEF Grows, WritesFrame, serverVars
<1>2. NoDirect' /\ Landed'
  BY DEF LossInv, NoDirect, Landed, WritesFrame, drainVars, serverVars
<1>3. RequestsKept
  BY DEF RequestsKept, WritesFrame, drainVars
<1>4. QueueInv'
  BY <1>1, <1>3, QuietQueue DEF QueueInv, LossInv
<1>5. SettleSafe'
  BY <1>1, QuietSettle DEF LossInv, WritesFrame, DrainOpen, InState, drainVars
<1>6. HydrateSafe'
  BY <1>1, QuietHydrate DEF LossInv, WritesFrame, HydrationOpen
<1>7. CallsSafe'
  BY <1>1, QuietCall DEF LossInv, CallsSafe
<1> QED BY <1>2, <1>4, <1>5, <1>6, <1>7 DEF LossInv, QueueInv

\* An update that matches nothing changes nothing.
LEMMA UpdateKeeps ==
  ASSUME LocalTypeOK, NEW d \in Docs, NEW doc, UpdateOne(d, doc),
         Present(d) => /\ doc \in Document
                       /\ doc.rev = store[d].rev /\ doc.val = store[d].val
                       /\ doc.op = store[d].op
                       /\ Owes(store[d]) => Owes(doc)
  PROVE  \A c \in Docs : Kept(c)
<1>1. CASE ~ Present(d)
  BY <1>1 DEF UpdateOne, Kept, Present
<1>2. CASE Present(d)
  BY <1>2, NoneAssumption DEF UpdateOne, Kept, Present, LocalTypeOK
<1> QED BY <1>1, <1>2

LEMMA UnchangedKeeps == UNCHANGED store => \A d \in Docs : Kept(d)
BY DEF Kept, Present

LEMMA InsertLossFree ==
  ASSUME Typed, LossInv, WritesFrame, NEW d \in Docs, NEW routed \in Routes, Insert(d, routed)
  PROVE  LossInv'
<1> DEFINE edit == EditFor(clock + 1, "insert")
           doc  == StampPending("insert", clock + 1, {edit}, routed)
<1>1. clock \in Nat /\ clock + 1 \in Nat
  BY DEF Typed, TypeOK, LocalTypeOK
<1>2. edit \in Edit /\ edit.kind = "write"
  BY <1>1, EditForType DEF EditFor
<1>3. doc \in Document
  BY <1>1, <1>2, StampPendingType, WritesAssumption DEF Content, Ops
<1>4. doc.sync = "pending" /\ doc.rev = clock + 1 /\ doc.val = {edit}
  BY DEF StampPending
<1>5. /\ ~ Present(d) /\ store' = [store EXCEPT ![d] = doc]
      /\ made' = [made EXCEPT ![d] = @ \cup {edit}] /\ clock' = clock + 1
      /\ call' = call /\ abandoned' = abandoned
  BY DEF Insert, InsertOne
<1>6. \A e \in made[d] : ~ Queued(d, e)
  BY <1>5 DEF Queued
<1> HIDE DEF edit, doc
<1> QED
  BY <1>2, <1>3, <1>4, <1>5, <1>6, EditStep DEF WritesFrame

LEMMA FindExistingLossFree ==
  ASSUME Typed, LossInv, WritesFrame, NEW w \in Callers, NEW d \in Docs,
         NEW kind \in {"update", "delete"}, NEW routed \in Routes,
         FindExisting(w, d, kind, routed)
  PROVE  LossInv'
<1> DEFINE c == [kind |-> kind, doc |-> d, seen |-> store[d], routed |-> routed,
                 next |-> Coalesce(PendingOp(store[d]), kind)]
<1>1. call' = [call EXCEPT ![w] = c] /\ UNCHANGED <<localVars, made, abandoned>> /\ Present(d)
  BY DEF FindExisting
<1>2. call'[w] = c /\ \A v \in Callers \ {w} : call'[v] = call[v]
  BY <1>1 DEF Typed, TypeOK, WritesTypeOK
<1>3. \A e \in made[d] : Queued(d, e) \/ Safe(e)
  BY DEF LossInv, NoSilentLoss, Safe
<1>4. Grows
  BY <1>1, RacesGrow DEF Grows, WritesFrame, serverVars
<1>5. \A e \in made[d] : Queued(d, e) \/ Safe(e)'
  BY <1>3, <1>4, SafeStays
<1>6. store[d] \in Document
  BY <1>1, PresentType DEF Typed, TypeOK
<1>7. kind = "delete" => c.next \in {"delete", Cancel}
  BY <1>6, PendingOpType DEF Coalesce, Ops, NoOp
<1>8. ASSUME kind = "update", c.next # "delete", NEW e \in made[d], e.kind = "delete"
      PROVE  Safe(e)'
  <2>1. PendingOp(store[d]) # "delete"
    BY <1>8 DEF Coalesce, NoOp
  <2>2. ~ Queued(d, e)
    BY <1>8, <2>1 DEF Queued, PendingOp
  <2> QED BY <1>5, <2>2
<1>9. CallSafe(w)'
  BY <1>1, <1>2, <1>5, <1>7, <1>8 DEF CallSafe, Queued
<1>10. clock' \in Nat /\ clock <= clock'
  BY <1>1 DEF Typed, TypeOK, LocalTypeOK, localVars
<1> QED
  BY <1>1, <1>2, <1>9, <1>10, QuietWrite, UnchangedKeeps DEF localVars

LEMMA DecideLossFree ==
  ASSUME Typed, LossInv, WritesFrame, NEW w \in Callers, NEW d \in Docs,
         NEW kind \in {"retry", "discard"}, Decide(w, d, kind)
  PROVE  LossInv'
<1>1. UNCHANGED <<localVars, made, abandoned>>
  BY DEF Decide
<1>2. /\ call'[w].kind = kind /\ call'[w].next = NoOp
      /\ \A v \in Callers \ {w} : call'[v] = call[v]
  BY DEF Decide, Typed, TypeOK, WritesTypeOK
<1>3. CallSafe(w)'
  BY <1>2 DEF CallSafe, NoOp, Cancel
<1>4. clock' \in Nat /\ clock <= clock'
  BY <1>1 DEF Typed, TypeOK, LocalTypeOK, localVars
<1> QED
  BY <1>1, <1>2, <1>3, <1>4, QuietWrite, UnchangedKeeps DEF localVars

LEMMA CommitLossFree ==
  ASSUME Typed, LossInv, WritesFrame, NEW w \in Callers, CommitWrite(w)
  PROVE  LossInv'
<1> DEFINE d    == call[w].doc
           edit == EditFor(clock + 1, call[w].kind)
           doc  == StampPending(call[w].next, clock + 1, store[d].val \cup {edit},
                                call[w].routed)
<1>1. /\ call[w] # None /\ call[w].kind \in {"update", "delete"} /\ call[w].next # Cancel
      /\ UpdateOne(d, doc) /\ clock' = clock + 1 /\ abandoned' = abandoned
      /\ made' = IF Present(d) THEN [made EXCEPT ![d] = @ \cup {edit}] ELSE made
      /\ call' = [call EXCEPT ![w] = None]
  BY DEF CommitWrite, Committable, Finish
<1>2. call[w] \in Call /\ clock \in Nat /\ clock + 1 \in Nat
  BY <1>1 DEF Typed, TypeOK, WritesTypeOK, LocalTypeOK
<1>3. d \in Docs /\ call[w].next \in Ops \cup {NoOp} /\ call[w].routed \in BOOLEAN
  BY <1>1, <1>2 DEF Call
<1>4. \A v \in Callers : call'[v] \in {call[v], None}
  BY <1>1 DEF Typed, TypeOK, WritesTypeOK
<1>5. CASE ~ Present(d)
  <2>1. UNCHANGED store /\ made' = made
    BY <1>1, <1>5 DEF UpdateOne
  <2>2. clock' \in Nat /\ clock <= clock'
    BY <1>1, <1>2
  <2> QED BY <1>1, <1>4, <2>1, <2>2, QuietWrite, UnchangedKeeps
<1>6. CASE Present(d)
  <2>1. edit \in Edit /\ (edit.kind = "delete" <=> call[w].kind = "delete")
    BY <1>2, EditForType DEF EditFor
  <2>2. store[d].val \cup {edit} \in Content
    BY <1>3, <1>6, <2>1, PresentType DEF Typed, TypeOK, Document, Content
  <2>3. doc \in Document
    BY <1>2, <1>3, <2>2, StampPendingType
  <2>4. /\ doc.sync = "pending" /\ doc.rev = clock + 1 /\ doc.op = call[w].next
        /\ doc.val = store[d].val \cup {edit}
    BY DEF StampPending
  <2>5. CallSafe(w)
    BY DEF LossInv, CallsSafe
  <2>6. edit.kind = "delete" => doc.op = "delete"
    BY <1>1, <2>1, <2>4, <2>5 DEF CallSafe
  <2>7. ASSUME NEW e \in made[d], Queued(d, e)
        PROVE  Safe(e) \/ (e \in doc.val /\ (e.kind = "delete" => doc.op = "delete"))
    <3>1. e \in doc.val
      BY <2>4, <2>7 DEF Queued
    <3>2. e.kind = "delete" => doc.op = "delete" \/ Safe(e)
      BY <1>1, <2>4, <2>5, <2>7 DEF CallSafe
    <3> QED BY <3>1, <3>2
  <2>8. /\ store' = [store EXCEPT ![d] = doc]
        /\ made' = [made EXCEPT ![d] = @ \cup {edit}]
    BY <1>1, <1>6 DEF UpdateOne
  <2>9. edit \in doc.val
    BY <2>4
  <2> HIDE DEF edit, doc, d
  <2> QED
    BY <1>1, <1>3, <1>4, <2>1, <2>3, <2>4, <2>6, <2>7, <2>8, <2>9, EditStep DEF WritesFrame
<1> QED BY <1>5, <1>6

\* What a cancelled or discarded write has read is given up with it.
LEMMA GivesUp ==
  ASSUME Typed, LossInv, WritesFrame, NEW w \in Callers, call[w] # None,
         call[w].kind = "drop" \/ call[w].next = Cancel,
         abandoned' = abandoned \cup call[w].seen.val, made' = made,
         NEW d \in Docs, d = call[w].doc
  PROVE  AllSafe(d)'
<1>1. Grows
  BY RacesGrow DEF Grows, WritesFrame, serverVars
<1>2. \A e \in made[d] : e \in call[w].seen.val \/ Safe(e)
  BY DEF LossInv, CallsSafe, CallSafe
<1>3. \A e \in call[w].seen.val : Safe(e)'
  BY DEF Safe
<1> QED BY <1>1, <1>2, <1>3, SafeStays DEF AllSafe

LEMMA DeleteLetsGo ==
  ASSUME LocalTypeOK, NEW d \in Docs, DeleteOne(d), AllSafe(d)'
  PROVE  \A c \in Docs : Kept(c) \/ LetGo(c)
<1>1. LetGo(d)
  BY DEF DeleteOne, LetGo, Present, LocalTypeOK
<1>2. \A c \in Docs \ {d} : Kept(c)
  BY DEF DeleteOne, Kept, Present, LocalTypeOK
<1> QED BY <1>1, <1>2

LEMMA CancelLossFree ==
  ASSUME Typed, LossInv, WritesFrame, NEW w \in Callers, CancelInsert(w)
  PROVE  LossInv'
<1>1. /\ call[w] # None /\ call[w].next = Cancel /\ DeleteOne(call[w].doc)
      /\ abandoned' = abandoned \cup call[w].seen.val /\ made' = made /\ clock' = clock
      /\ call' = [call EXCEPT ![w] = None]
  BY DEF CancelInsert, Finish
<1>2. LocalTypeOK /\ clock \in Nat
  BY DEF Typed, TypeOK, LocalTypeOK
<1>3. PICK d \in Docs : d = call[w].doc
  BY <1>1 DEF Typed, TypeOK, WritesTypeOK, Call
<1>4. AllSafe(d)'
  BY <1>1, <1>3, GivesUp
<1>5. \A c \in Docs : Kept(c) \/ LetGo(c)
  BY <1>1, <1>2, <1>3, <1>4, DeleteLetsGo
<1>6. \A v \in Callers : call'[v] \in {call[v], None}
  BY <1>1 DEF Typed, TypeOK, WritesTypeOK
<1> QED BY <1>1, <1>2, <1>5, <1>6, QuietWrite

LEMMA RetryLossFree ==
  ASSUME Typed, LossInv, WritesFrame, NEW w \in Callers, Retry(w)
  PROVE  LossInv'
<1> DEFINE d   == call[w].doc
           doc == [store[d] EXCEPT !.sync = "pending", !.due = TRUE]
<1>1. /\ call[w] # None /\ UpdateOne(d, doc) /\ call' = [call EXCEPT ![w] = None]
      /\ clock' = clock /\ made' = made /\ abandoned' = abandoned
  BY DEF Retry, Finish
<1>2. d \in Docs /\ LocalTypeOK /\ clock \in Nat
  BY <1>1 DEF Typed, TypeOK, WritesTypeOK, LocalTypeOK, Call
<1>3. ASSUME Present(d)
      PROVE  /\ doc \in Document /\ doc.rev = store[d].rev /\ doc.val = store[d].val
             /\ doc.op = store[d].op /\ Owes(doc)
  <2>1. store[d] \in Document
    BY <1>2, <1>3, PresentType
  <2> QED BY <2>1 DEF Document, Owes
<1>4. \A c \in Docs : Kept(c)
  <2> HIDE DEF doc, d
  <2> QED BY <1>1, <1>2, <1>3, UpdateKeeps
<1>5. \A v \in Callers : call'[v] \in {call[v], None}
  BY <1>1 DEF Typed, TypeOK, WritesTypeOK
<1> QED BY <1>1, <1>2, <1>4, <1>5, QuietWrite

LEMMA FindDiscardedLossFree ==
  ASSUME Typed, LossInv, WritesFrame, NEW w \in Callers, FindDiscarded(w)
  PROVE  LossInv'
<1> DEFINE d   == call[w].doc
           new == [call[w] EXCEPT !.kind = "drop", !.seen = store[d],
                                  !.next = IF store[d].op = "insert" THEN Cancel ELSE NoOp]
<1>1. /\ call[w] # None /\ UNCHANGED <<localVars, made, abandoned>>
      /\ call' = [call EXCEPT ![w] = IF Present(d) THEN new ELSE None]
  BY DEF FindDiscarded, Finish
<1>2. call[w] \in Call /\ d \in Docs /\ clock \in Nat /\ call \in [Callers -> Call \cup {None}]
  BY <1>1 DEF Typed, TypeOK, WritesTypeOK, LocalTypeOK, Call
<1>3. \A v \in Callers \ {w} : call'[v] = call[v]
  BY <1>1, <1>2
<1>4. call'[w] = None \/ CallSafe(w)'
  <2>1. CASE ~ Present(d)
    BY <1>1, <1>2, <2>1
  <2>2. CASE Present(d)
    <3>1. call'[w] = new
      BY <1>1, <1>2, <2>2
    <3>2. new.kind = "drop" /\ new.doc = d /\ new.seen = store[d]
      BY <1>2 DEF Call
    <3>3. \A e \in made[d] : Queued(d, e) \/ Safe(e)
      BY <1>2 DEF LossInv, NoSilentLoss, Safe
    <3>4. Grows
      BY <1>1, RacesGrow DEF Grows, WritesFrame, serverVars
    <3>5. \A e \in made[d] : e \in store[d].val \/ Safe(e)'
      BY <3>3, <3>4, SafeStays DEF Queued
    <3> QED BY <1>1, <3>1, <3>2, <3>5 DEF CallSafe
  <2> QED BY <2>1, <2>2
<1> QED
  BY <1>1, <1>2, <1>3, <1>4, QuietWrite, UnchangedKeeps DEF localVars

LEMMA DiscardLossFree ==
  ASSUME Typed, LossInv, WritesFrame, NEW w \in Callers, Discard(w)
  PROVE  LossInv'
<1>0. PICK d \in Docs : d = call[w].doc
  BY DEF Discard, Typed, TypeOK, WritesTypeOK, Call
<1> DEFINE doc == [store[d] EXCEPT !.sync = "synced", !.op = NoOp, !.due = TRUE]
<1>1. /\ call[w] # None /\ call[w].kind = "drop" /\ call' = [call EXCEPT ![w] = None]
      /\ IF call[w].next = Cancel THEN DeleteOne(d) ELSE UpdateOne(d, doc)
      /\ clock' = clock /\ made' = made /\ abandoned' = abandoned \cup call[w].seen.val
  BY <1>0 DEF Discard, Finish
<1>2. LocalTypeOK /\ clock \in Nat
  BY DEF Typed, TypeOK, LocalTypeOK
<1>3. AllSafe(d)'
  BY <1>0, <1>1, GivesUp
<1>4. \A c \in Docs : Kept(c) \/ LetGo(c)
  <2>1. CASE call[w].next = Cancel
    BY <1>1, <1>2, <1>3, <2>1, DeleteLetsGo
  <2>2. CASE call[w].next # Cancel /\ ~ Present(d)
    BY <1>1, <2>2, UnchangedKeeps DEF UpdateOne
  <2>3. CASE call[w].next # Cancel /\ Present(d)
    <3>1. store' = [store EXCEPT ![d] = doc] /\ store \in [Docs -> Document \cup {None}]
      BY <1>1, <1>2, <2>3 DEF UpdateOne, LocalTypeOK
    <3>2. doc.rev = store[d].rev /\ doc.val = store[d].val /\ doc.op = NoOp
      BY <1>2, <2>3, PresentType DEF Document
    <3>3. LetGo(d)
      BY <1>2, <1>3, <2>3, <3>1, <3>2 DEF LetGo
    <3>4. \A c \in Docs \ {d} : Kept(c)
      BY <3>1 DEF Kept, Present
    <3> QED BY <3>3, <3>4
  <2> QED BY <2>1, <2>2, <2>3
<1>5. \A v \in Callers : call'[v] \in {call[v], None}
  BY <1>1 DEF Typed, TypeOK, WritesTypeOK
<1> QED BY <1>1, <1>2, <1>4, <1>5, QuietWrite

LEMMA CallerGoneLossFree ==
  ASSUME Typed, LossInv, WritesFrame, NEW w \in Callers, CallerGone(w)
  PROVE  LossInv'
<1>1. UNCHANGED <<localVars, made, abandoned>> /\ call' = [call EXCEPT ![w] = None]
  BY DEF CallerGone, Finish
<1>2. \A v \in Callers : call'[v] \in {call[v], None}
  BY <1>1 DEF Typed, TypeOK, WritesTypeOK
<1>3. clock \in Nat
  BY DEF Typed, TypeOK, LocalTypeOK
<1> QED BY <1>1, <1>2, <1>3, QuietWrite, UnchangedKeeps DEF localVars

LEMMA WritesLossFree == Typed /\ LossInv /\ Writes => LossInv'
<1> SUFFICES ASSUME Typed, LossInv, Writes PROVE LossInv'
  OBVIOUS
<1>1. LocalWriteStep /\ WritesFrame
  BY DEF Writes, WritesFrame
<1> QED
  BY <1>1, InsertLossFree, FindExistingLossFree, DecideLossFree, CommitLossFree, CancelLossFree, RetryLossFree,
     FindDiscardedLossFree, DiscardLossFree, CallerGoneLossFree DEF LocalWriteStep

(***************************************************************************)
(* The drain.                                                              *)
(***************************************************************************)
DrainsFrame == UNCHANGED <<callVars, direct, responses, fetch>> /\ RecordRaces

LEMMA QuietDrain ==
  ASSUME Typed, LossInv, DrainsFrame, clock' = clock, accepted \subseteq accepted',
         RequestsKept, Landed', SettleSafe', \A d \in Docs : Kept(d) \/ LetGo(d)
  PROVE  LossInv'
<1>1. Grows
  BY RacesGrow DEF Grows, DrainsFrame, callVars
<1>2. NoDirect'
  BY DEF LossInv, NoDirect, DrainsFrame
<1>3. QueueInv'
  <2>1. clock \in Nat
    BY DEF Typed, TypeOK, LocalTypeOK
  <2> QED BY <1>1, <2>1, QuietQueue DEF QueueInv, LossInv, DrainsFrame, callVars
<1>4. HydrateSafe'
  BY <1>1, QuietHydrate DEF LossInv, DrainsFrame, callVars, HydrationOpen
<1>5. CallsSafe'
  BY <1>1, QuietCall DEF LossInv, CallsSafe, DrainsFrame, callVars
<1> QED BY <1>2, <1>3, <1>4, <1>5 DEF LossInv, QueueInv

\* Requests that only go away, or only stay as they are.
RepliesKept ==
  \A t \in Tabs, d \in Docs :
    req'[t][d] # None /\ req'[t][d].pc \in {"replied", "checked"} =>
      /\ req'[t][d].outcome \in {"ok", "applied"} =>
           /\ req[t][d].pc \in {"replied", "checked"}
           /\ req[t][d].outcome \in {"ok", "applied"}
      /\ req'[t][d].pc = "checked" /\ req'[t][d].outcome \in {"ok", "applied"} =>
           req[t][d].pc = "checked"

LEMMA QuietReplies ==
  ASSUME LossInv, DrainsFrame, accepted \subseteq accepted', RequestsKept, RepliesKept
  PROVE  Landed' /\ SettleSafe'
<1>1. Landed'
  BY DEF Landed, LossInv, RequestsKept, RepliesKept
<1>2. Grows
  BY RacesGrow DEF Grows, DrainsFrame, callVars
<1>3. \A d \in Docs : DrainOpen(d)' => DrainOpen(d)
  BY DEF DrainOpen, InState, RequestsKept, RepliesKept
<1> QED
  BY <1>1, <1>2, <1>3, QuietSettle DEF LossInv, DrainsFrame, callVars

LEMMA UnchangedReplies == UNCHANGED req => RequestsKept /\ RepliesKept
BY DEF RequestsKept, RepliesKept

LEMMA CloseReplies ==
  ASSUME DrainTypeOK, NEW t \in Tabs, NEW d \in Docs, Close(t, d)
  PROVE  RequestsKept /\ RepliesKept
<1>1. \A u \in Tabs, c \in Docs : req'[u][c] \in {req[u][c], None}
  BY DEF Close, DrainTypeOK
<1> QED BY <1>1 DEF RequestsKept, RepliesKept

LEMMA AnswerReplies ==
  ASSUME DrainTypeOK, NEW t \in Tabs, NEW d \in Docs, req[t][d] # None,
         NEW outcome, NEW body, Answer(t, d, outcome, body)
  PROVE  /\ RequestsKept
         /\ \A u \in Tabs, c \in Docs : <<u, c>> # <<t, d>> => req'[u][c] = req[u][c]
         /\ req'[t][d].pc = "replied" /\ req'[t][d].outcome = outcome
<1>1. req[t][d] \in Request
  BY RequestType
<1>2. req' = [req EXCEPT ![t][d] = [req[t][d] EXCEPT !.pc = "replied", !.outcome = outcome,
                                                      !.body = body]]
  BY DEF Answer, DrainTypeOK
<1>3. req'[t][d] = [req[t][d] EXCEPT !.pc = "replied", !.outcome = outcome, !.body = body]
  BY <1>2 DEF DrainTypeOK
<1>4. /\ req'[t][d].rev = req[t][d].rev /\ req'[t][d].op = req[t][d].op
      /\ req'[t][d].val = req[t][d].val
      /\ req'[t][d].pc = "replied" /\ req'[t][d].outcome = outcome
  BY <1>1, <1>3 DEF Request
<1>5. \A u \in Tabs, c \in Docs : <<u, c>> # <<t, d>> => req'[u][c] = req[u][c]
  BY <1>2 DEF DrainTypeOK
<1> QED BY <1>4, <1>5 DEF RequestsKept

LEMMA SelectLossFree ==
  ASSUME Typed, LossInv, DrainsFrame, NEW t \in Tabs, Select(t)
  PROVE  LossInv'
<1>1. /\ UNCHANGED <<localVars, serverVars>>
      /\ req' = [req EXCEPT ![t] =
           [d \in Docs |-> IF d \in Sendable THEN SendOf(store[d]) ELSE None]]
  BY DEF Select
<1>2. /\ \A u \in Tabs \ {t} : req'[u] = req[u]
      /\ \A d \in Docs : req'[t][d] = IF d \in Sendable THEN SendOf(store[d]) ELSE None
  BY <1>1 DEF Typed, TypeOK, DrainTypeOK
<1>3. \A d \in Sendable : Present(d)
  BY DEF Sendable, Picked, Due
<1>4. Grows
  BY <1>1, RacesGrow DEF Grows, DrainsFrame, callVars, serverVars
<1>5. NoDirect'
  BY DEF LossInv, NoDirect, DrainsFrame
<1>6. Revisions'
  BY <1>1, <1>2, <1>3 DEF Revisions, LossInv, SendOf, Present, localVars
<1>7. Unrevised'
  BY <1>1, <1>4, SafeStays DEF Unrevised, LossInv, Present, AllSafe, localVars, DrainsFrame, callVars
<1>8. SentAsStored'
  BY <1>1, <1>2 DEF SentAsStored, LossInv, SendOf, Present, localVars
<1>9. Landed'
  BY <1>1, <1>2 DEF Landed, LossInv, SendOf, serverVars
<1>10. SettleSafe'
  <2>1. ASSUME NEW u \in Tabs, NEW d \in Docs, InState(u, d, "checked")' PROVE req'[u][d] = req[u][d]
    <3>1. CASE u = t
      <4>0. SendOf(store[d]).pc = "sent"
        BY DEF SendOf
      <4>1. d \in Sendable => req'[t][d].pc = "sent"
        BY <1>2, <4>0
      <4>2. d \notin Sendable => req'[t][d] = None
        BY <1>2
      <4> QED BY <2>1, <3>1, <4>1, <4>2 DEF InState
    <3> QED BY <1>2, <3>1
  <2>2. \A d \in Docs : DrainOpen(d)' => DrainOpen(d)
    BY <2>1 DEF DrainOpen, InState
  <2> QED BY <1>4, <2>2, QuietSettle DEF LossInv, DrainsFrame, callVars
<1>11. HydrateSafe'
  BY <1>4, QuietHydrate DEF LossInv, DrainsFrame, callVars, HydrationOpen
<1>12. CallsSafe'
  BY <1>4, QuietCall DEF LossInv, CallsSafe, DrainsFrame, callVars
<1>13. NoSilentLoss'
  <2> SUFFICES ASSUME NEW d \in Docs, NEW e \in made[d] PROVE Queued(d, e)' \/ Safe(e)'
    BY DEF NoSilentLoss, Safe, DrainsFrame, callVars
  <2>1. Queued(d, e) \/ Safe(e)
    BY DEF LossInv, NoSilentLoss, Safe
  <2>2. Queued(d, e)' = Queued(d, e)
    BY <1>1 DEF Queued, Present, localVars
  <2> QED BY <1>4, <2>1, <2>2, SafeStays
<1> QED
  BY <1>5, <1>6, <1>7, <1>8, <1>9, <1>10, <1>11, <1>12, <1>13 DEF LossInv

LEMMA ReceivedLossFree ==
  ASSUME Upsert = TRUE, Typed, LossInv, DrainsFrame, NEW t \in Tabs, NEW d \in Docs,
         Received(t, d)
  PROVE  LossInv'
<1> DEFINE reply == Handle(server[d], req[t][d].op, req[t][d].val)
<1>1. /\ req[t][d] # None /\ req[t][d].op \in Ops
      /\ Serve(d, req[t][d].op, req[t][d].rev, req[t][d].val)
      /\ \E body : Answer(t, d, reply.outcome, body)
      /\ UNCHANGED localVars
  BY DEF Received, InState
<1>2. accepted \subseteq accepted'
  BY <1>1, ServeGrows
<1>3. Carried(req[t][d].op, req[t][d].val) \subseteq accepted'
  BY <1>1, ServeTakes
<1>4. /\ RequestsKept
      /\ \A u \in Tabs, c \in Docs : <<u, c>> # <<t, d>> => req'[u][c] = req[u][c]
      /\ req'[t][d].pc = "replied"
  BY <1>1, AnswerReplies DEF Typed, TypeOK
<1>5. Landed'
  BY <1>2, <1>3, <1>4 DEF Landed, LossInv, RequestsKept
<1>6. Grows
  BY <1>2, RacesGrow DEF Grows, DrainsFrame, callVars
<1>7. SettleSafe'
  <2>1. \A c \in Docs : DrainOpen(c)' => DrainOpen(c)
    BY <1>4 DEF DrainOpen, InState
  <2> QED BY <1>6, <2>1, QuietSettle DEF LossInv, DrainsFrame, callVars
<1> QED
  BY <1>1, <1>2, <1>4, <1>5, <1>7, QuietDrain, UnchangedKeeps DEF localVars

LEMMA RefusedLossFree ==
  ASSUME Typed, LossInv, DrainsFrame, NEW t \in Tabs, NEW d \in Docs,
         NEW outcome \in {"retry", "terminal"}, Refused(t, d, outcome)
  PROVE  LossInv'
<1>1. /\ req[t][d] # None /\ Answer(t, d, outcome, None)
      /\ UNCHANGED <<localVars, serverVars>>
  BY DEF Refused, InState
<1>2. /\ RequestsKept
      /\ \A u \in Tabs, c \in Docs : <<u, c>> # <<t, d>> => req'[u][c] = req[u][c]
      /\ req'[t][d].outcome = outcome
  BY <1>1, AnswerReplies DEF Typed, TypeOK
<1>3. RepliesKept
  BY <1>2 DEF RepliesKept
<1>4. Landed' /\ SettleSafe'
  BY <1>1, <1>2, <1>3, QuietReplies DEF serverVars
<1> QED
  BY <1>1, <1>2, <1>4, QuietDrain, UnchangedKeeps DEF localVars, serverVars

LEMMA DeferKeeps ==
  ASSUME LocalTypeOK, NEW d \in Docs, Defer(d) PROVE \A c \in Docs : Kept(c)
<1> DEFINE doc == [store[d] EXCEPT !.due = FALSE]
<1>1. ASSUME Present(d)
      PROVE  /\ doc \in Document /\ doc.rev = store[d].rev /\ doc.val = store[d].val
             /\ doc.op = store[d].op /\ (Owes(store[d]) => Owes(doc))
  <2>1. store[d] \in Document
    BY <1>1, PresentType
  <2> QED BY <2>1 DEF Document, Owes
<1>2. UpdateOne(d, doc)
  BY DEF Defer
<1> HIDE DEF doc
<1> QED BY <1>1, <1>2, UpdateKeeps

LEMMA TransportLossFree ==
  ASSUME Typed, LossInv, DrainsFrame, NEW t \in Tabs, NEW d \in Docs, TransportFailure(t, d)
  PROVE  LossInv'
<1>1. Defer(d) /\ Close(t, d) /\ accepted' = accepted /\ clock' = clock
  BY DEF TransportFailure
<1>2. RequestsKept /\ RepliesKept
  BY <1>1, CloseReplies DEF Typed, TypeOK
<1>3. Landed' /\ SettleSafe'
  BY <1>1, <1>2, QuietReplies
<1>4. \A c \in Docs : Kept(c)
  BY <1>1, DeferKeeps DEF Typed, TypeOK
<1> QED BY <1>1, <1>2, <1>3, <1>4, QuietDrain

\* The document is at the revision that was sent: it is the one that was
\* sent, and what the server took is all there is.
LEMMA CheckLossFree ==
  ASSUME Typed, LossInv, DrainsFrame, NEW t \in Tabs, NEW d \in Docs, Check(t, d)
  PROVE  LossInv'
<1> DEFINE r == [req[t][d] EXCEPT !.pc = "checked", !.seen = store[d]]
<1>1. req[t][d] # None /\ req[t][d].pc = "replied" /\ UNCHANGED <<localVars, serverVars>>
  BY DEF Check, InState
<1>2. CASE Superseded(t, d)
  <2>1. Close(t, d)
    BY <1>2 DEF Check
  <2>2. RequestsKept /\ RepliesKept
    BY <2>1, CloseReplies DEF Typed, TypeOK
  <2>3. Landed' /\ SettleSafe'
    BY <1>1, <2>2, QuietReplies DEF serverVars
  <2> QED BY <1>1, <2>2, <2>3, QuietDrain, UnchangedKeeps DEF localVars, serverVars
<1>3. CASE ~ Superseded(t, d)
  <2>1. req' = [req EXCEPT ![t][d] = r] /\ req[t][d] \in Request
    BY <1>1, <1>3, RequestType DEF Check, Typed, TypeOK, DrainTypeOK
  <2>2. /\ req'[t][d] = r
        /\ \A u \in Tabs, c \in Docs : <<u, c>> # <<t, d>> => req'[u][c] = req[u][c]
    BY <2>1 DEF Typed, TypeOK, DrainTypeOK
  <2>3. /\ r.pc = "checked" /\ r.outcome = req[t][d].outcome /\ r.rev = req[t][d].rev
        /\ r.op = req[t][d].op /\ r.val = req[t][d].val
    BY <2>1 DEF Request
  <2>4. RequestsKept
    BY <1>1, <2>2, <2>3 DEF RequestsKept
  <2>5. Landed'
    <3>1. Landed /\ accepted' = accepted
      BY <1>1 DEF LossInv, serverVars
    <3>2. ASSUME r.outcome \in {"ok", "applied"} PROVE Carried(r.op, r.val) \subseteq accepted
      BY <1>1, <2>3, <3>1, <3>2 DEF Landed
    <3> HIDE DEF r
    <3> QED BY <2>2, <3>1, <3>2 DEF Landed
  <2>6. Grows
    BY <1>1, RacesGrow DEF Grows, DrainsFrame, callVars, serverVars
  <2>7. ASSUME req[t][d].outcome \in {"ok", "applied"} PROVE AllSafe(d)
    <3>1. Present(d) /\ store[d].rev = req[t][d].rev
      BY <1>3 DEF Superseded
    <3>2. CASE store[d].rev = 0
      BY <3>1, <3>2 DEF LossInv, Unrevised
    <3>3. CASE store[d].rev # 0
      <4>1. store[d].val = req[t][d].val /\ store[d].op \in {req[t][d].op, NoOp}
        BY <1>1, <3>1, <3>3 DEF LossInv, SentAsStored
      <4>2. Carried(req[t][d].op, req[t][d].val) \subseteq accepted
        BY <1>1, <2>7 DEF LossInv, Landed
      <4>3. ASSUME NEW e \in made[d], Queued(d, e) PROVE e \in accepted
        BY <4>1, <4>2, <4>3 DEF Queued, Carried, NoOp
      <4>4. \A e \in made[d] : Queued(d, e) \/ Safe(e)
        BY DEF LossInv, NoSilentLoss, Safe
      <4> QED BY <4>3, <4>4 DEF AllSafe, Safe
    <3> QED BY <3>2, <3>3
  <2>8. SettleSafe'
    <3> SUFFICES ASSUME NEW c \in Docs, DrainOpen(c)' PROVE AllSafe(c)'
      BY DEF SettleSafe
    <3>1. AllSafe(c)
      BY <2>2, <2>3, <2>7 DEF DrainOpen, InState, LossInv, SettleSafe
    <3> QED BY <2>6, <3>1, SafeStays DEF AllSafe, DrainsFrame, callVars
  <2> QED
    BY <1>1, <2>4, <2>5, <2>8, QuietDrain, UnchangedKeeps DEF localVars, serverVars
<1> QED BY <1>2, <1>3

\* Replacing a document that is accounted for by a canonical one.
LEMMA ApplyLetsGo ==
  ASSUME LocalTypeOK, NEW d \in Docs, NEW seen \in Document \cup {None}, NEW val,
         ApplyCanonical(d, seen, val), AllSafe(d)'
  PROVE  \A c \in Docs : Kept(c) \/ LetGo(c)
<1>1. CASE UNCHANGED store
  BY <1>1, UnchangedKeeps
<1>2. ASSUME NEW doc, store' = [store EXCEPT ![d] = doc], doc.rev = 0
      PROVE  \A c \in Docs : Kept(c) \/ LetGo(c)
  <2>1. LetGo(d)
    BY <1>2 DEF LetGo, LocalTypeOK
  <2>2. \A c \in Docs \ {d} : Kept(c)
    BY <1>2 DEF Kept, Present, LocalTypeOK
  <2> QED BY <2>1, <2>2
<1>3. StampSynced(val).rev = 0 /\ Canonical(d, seen, val).rev = 0
  BY DEF Canonical, StampSynced
<1>4. \/ UNCHANGED store
      \/ store' = [store EXCEPT ![d] = StampSynced(val)]
      \/ store' = [store EXCEPT ![d] = Canonical(d, seen, val)]
  BY DEF ApplyCanonical, UpdateOne, InsertOne
<1> QED BY <1>1, <1>2, <1>3, <1>4

LEMMA SettleLossFree ==
  ASSUME Typed, LossInv, DrainsFrame, NEW t \in Tabs, NEW d \in Docs, Settle(t, d)
  PROVE  LossInv'
<1> DEFINE r == req[t][d]
<1>1. /\ InState(t, d, "checked") /\ Close(t, d) /\ UNCHANGED <<serverVars, clock>>
      /\ Settled(t, d) \/ Failed(t, d) \/ Deferred(t, d)
  BY DEF Settle
<1>2. LocalTypeOK /\ DrainTypeOK
  BY DEF Typed, TypeOK
<1>3. RequestsKept /\ RepliesKept
  BY <1>1, <1>2, CloseReplies
<1>4. Landed' /\ SettleSafe'
  BY <1>1, <1>3, QuietReplies DEF serverVars
<1>5. \A c \in Docs : Kept(c) \/ LetGo(c)
  <2>1. CASE Settled(t, d)
    <3>1. AllSafe(d)
      BY <1>1, <2>1 DEF Settled, DrainOpen, LossInv, SettleSafe
    <3>2. Grows
      BY <1>1, RacesGrow DEF Grows, DrainsFrame, callVars, serverVars
    <3>3. AllSafe(d)'
      BY <3>1, <3>2, SafeStays DEF AllSafe, DrainsFrame, callVars
    <3>4. CASE DeleteOne(d)
      BY <1>2, <3>3, <3>4, DeleteLetsGo
    <3>5. ASSUME NEW val, ApplyCanonical(d, r.seen, val)
          PROVE  \A c \in Docs : Kept(c) \/ LetGo(c)
      <4>1. r.seen \in Document
        BY <1>1 DEF Typed, ReadsAreThere, DrainRead
      <4> QED BY <1>2, <3>3, <3>5, <4>1, ApplyLetsGo
    <3> QED BY <2>1, <3>4, <3>5 DEF Settled
  <2>2. CASE Failed(t, d)
    <3> DEFINE doc == [store[d] EXCEPT !.sync = "failed"]
    <3>1. ASSUME Present(d)
          PROVE  /\ doc \in Document /\ doc.rev = store[d].rev /\ doc.val = store[d].val
                 /\ doc.op = store[d].op /\ Owes(doc)
      <4>1. store[d] \in Document
        BY <1>2, <3>1, PresentType
      <4> QED BY <4>1 DEF Document, Owes
    <3>2. UpdateOne(d, doc)
      BY <2>2 DEF Failed
    <3> HIDE DEF doc
    <3> QED BY <1>2, <3>1, <3>2, UpdateKeeps
  <2>3. CASE Deferred(t, d)
    BY <1>2, <2>3, DeferKeeps DEF Deferred
  <2> QED BY <1>1, <2>1, <2>2, <2>3
<1> QED BY <1>1, <1>3, <1>4, <1>5, QuietDrain DEF serverVars

LEMMA ReloadLossFree ==
  ASSUME Typed, LossInv, DrainsFrame, NEW t \in Tabs, Reload(t)
  PROVE  LossInv'
<1>1. /\ UNCHANGED localVars /\ accepted' = accepted
      /\ req' = [req EXCEPT ![t] = NoRequests]
  BY DEF Reload
<1>2. \A u \in Tabs, d \in Docs : req'[u][d] \in {req[u][d], None}
  BY <1>1 DEF NoRequests, Typed, TypeOK, DrainTypeOK
<1>3. RequestsKept /\ RepliesKept
  BY <1>2 DEF RequestsKept, RepliesKept
<1>4. Landed' /\ SettleSafe'
  BY <1>1, <1>3, QuietReplies
<1> QED BY <1>1, <1>3, <1>4, QuietDrain, UnchangedKeeps DEF localVars

LEMMA BackoffLossFree ==
  ASSUME Typed, LossInv, DrainsFrame, NEW d \in Docs, BackoffElapses(d)
  PROVE  LossInv'
<1> DEFINE doc == [store[d] EXCEPT !.due = TRUE]
<1>1. /\ Present(d) /\ store' = [store EXCEPT ![d].due = TRUE]
      /\ UNCHANGED <<clock, req>> /\ accepted' = accepted
  BY DEF BackoffElapses, serverVars, drainVars
<1>2. store[d] \in Document /\ store \in [Docs -> Document \cup {None}]
  BY <1>1, PresentType DEF Typed, TypeOK, LocalTypeOK
<1>3. /\ doc \in Document /\ doc.rev = store[d].rev /\ doc.val = store[d].val
      /\ doc.op = store[d].op /\ (Owes(store[d]) => Owes(doc))
  BY <1>2 DEF Document, Owes
<1>4. store' = [store EXCEPT ![d] = doc]
  BY <1>1, <1>2
<1>5. \A c \in Docs : Kept(c)
  <2> HIDE DEF doc
  <2> QED BY <1>1, <1>2, <1>3, <1>4, NoneAssumption DEF Kept, Present
<1>6. Landed' /\ SettleSafe'
  BY <1>1, UnchangedReplies, QuietReplies
<1> QED BY <1>1, <1>5, <1>6, UnchangedReplies, QuietDrain

LEMMA IdleLossFree ==
  ASSUME Typed, LossInv, DrainsFrame, UNCHANGED <<localVars, req>>, accepted \subseteq accepted'
  PROVE  LossInv'
<1>1. RequestsKept /\ Landed' /\ SettleSafe'
  BY UnchangedReplies, QuietReplies
<1> QED BY <1>1, QuietDrain, UnchangedKeeps DEF localVars

LEMMA DrainsLossFree == Upsert = TRUE /\ Typed /\ LossInv /\ Drains => LossInv'
<1> SUFFICES ASSUME Upsert = TRUE, Typed, LossInv, Drains PROVE LossInv'
  OBVIOUS
<1>1. DrainStep /\ DrainsFrame
  BY DEF Drains, DrainsFrame
<1>2. ASSUME NEW t \in Tabs, Begin(t) \/ End(t) \/ OwnershipMoves(t) PROVE LossInv'
  BY <1>1, <1>2, IdleLossFree DEF Begin, End, OwnershipMoves, serverVars
<1> QED
  BY <1>1, <1>2, SelectLossFree, ReloadLossFree, ReceivedLossFree, RefusedLossFree, TransportLossFree,
     CheckLossFree, SettleLossFree, BackoffLossFree DEF DrainStep

LEMMA StraysLossFree == Typed /\ LossInv /\ Strays => LossInv'
<1> SUFFICES ASSUME Typed, LossInv, Strays PROVE LossInv'
  OBVIOUS
<1>1. DrainsFrame /\ UNCHANGED req
  BY DEF Strays, DrainsFrame, drainVars
<1>2. UNCHANGED localVars /\ accepted \subseteq accepted'
  BY ServeGrows DEF Strays, StrayArrives
<1> QED BY <1>1, <1>2, IdleLossFree

(***************************************************************************)
(* Hydration.                                                              *)
(***************************************************************************)
LEMMA QuietHydration ==
  ASSUME Typed, LossInv, UNCHANGED <<callVars, direct, drainVars, accepted>>, RecordRaces,
         clock' = clock, HydrateSafe', \A d \in Docs : Kept(d) \/ LetGo(d)
  PROVE  LossInv'
<1>1. Grows
  BY RacesGrow DEF Grows, callVars
<1>2. NoDirect' /\ Landed'
  BY DEF LossInv, NoDirect, Landed, drainVars
<1>3. QueueInv'
  <2>1. clock \in Nat
    BY DEF Typed, TypeOK, LocalTypeOK
  <2> QED BY <1>1, <2>1, QuietQueue, UnchangedReplies DEF QueueInv, LossInv, callVars, drainVars
<1>4. SettleSafe'
  BY <1>1, QuietSettle DEF LossInv, DrainOpen, InState, drainVars, callVars
<1>5. CallsSafe'
  BY <1>1, QuietCall DEF LossInv, CallsSafe, callVars
<1> QED BY <1>2, <1>3, <1>4, <1>5 DEF LossInv, QueueInv

LEMMA HydratesLossFree == Typed /\ LossInv /\ Hydrates => LossInv'
<1> SUFFICES ASSUME Typed, LossInv, Hydrates PROVE LossInv'
  OBVIOUS
<1>1. HydrationStep /\ UNCHANGED <<callVars, direct, drainVars>> /\ RecordRaces
  BY DEF Hydrates
<1>2. accepted' = accepted /\ clock' = clock
  BY <1>1 DEF HydrationStep, FetchAnswered, HydrateRead, HydrateDoc, HydrateFresh, FetchDropped,
              localVars, serverVars
<1>3. Grows
  BY <1>1, <1>2, RacesGrow DEF Grows, callVars
<1>4. made' = made
  BY <1>1 DEF callVars
<1>5. CASE FetchAnswered \/ FetchDropped
  <2>1. \A d \in Docs : HydrationOpen(d)' => HydrationOpen(d)
    BY <1>5 DEF FetchAnswered, FetchDropped, HydrationOpen
  <2>2. HydrateSafe'
    BY <1>3, <1>4, <2>1, QuietHydrate DEF LossInv
  <2>3. UNCHANGED store
    BY <1>5 DEF FetchAnswered, FetchDropped, localVars
  <2> QED BY <1>1, <1>2, <2>2, <2>3, QuietHydration, UnchangedKeeps
<1>6. ASSUME NEW rows \in responses, HydrateRead(rows) PROVE LossInv'
  <2>1. UNCHANGED store
    BY <1>6 DEF HydrateRead, localVars
  <2>2. ASSUME NEW d \in Docs, HydrationOpen(d)' PROVE Refreshable(d)
    BY <1>6, <2>2 DEF HydrateRead, HydrationOpen
  <2>3. ASSUME NEW d \in Docs, Refreshable(d) PROVE AllSafe(d)
    BY <2>3 DEF Refreshable, LossInv, NoSilentLoss, Queued, AllSafe, Safe
  <2>4. HydrateSafe'
    BY <1>3, <1>4, <2>2, <2>3, SafeStays DEF HydrateSafe, AllSafe
  <2> QED BY <1>1, <1>2, <2>1, <2>4, QuietHydration, UnchangedKeeps
<1>7. CASE HydrateFresh
  <2>1. HydrateSafe'
    BY <1>7 DEF HydrateFresh, HydrateSafe, HydrationOpen
  <2>2. ASSUME NEW d \in Docs PROVE Kept(d) \/ LetGo(d)
    <3>1. CASE store'[d] = store[d]
      BY <3>1 DEF Kept, Present
    <3>2. CASE ~ Present(d) /\ store'[d] = StampSynced(fetch.rows[d])
      <4>1. AllSafe(d)
        BY <3>2 DEF LossInv, NoSilentLoss, Queued, AllSafe, Safe
      <4>2. AllSafe(d)'
        BY <1>3, <1>4, <4>1, SafeStays DEF AllSafe
      <4> QED BY <3>2, <4>2 DEF LetGo, StampSynced
    <3> QED BY <1>7, <3>1, <3>2 DEF HydrateFresh
  <2> QED BY <1>1, <1>2, <2>1, <2>2, QuietHydration
<1>8. ASSUME NEW d \in Docs, HydrateDoc(d) PROVE LossInv'
  <2>1. /\ HydrationOpen(d) /\ ApplyCanonical(d, fetch.seen[d], fetch.rows[d])
        /\ fetch' = [fetch EXCEPT !.todo = @ \ {d}] /\ fetch \in Fetch
    BY <1>8 DEF HydrateDoc, HydrationOpen, Typed, TypeOK, HydrationTypeOK
  <2>2. AllSafe(d)'
    BY <1>3, <1>4, <2>1, SafeStays DEF LossInv, HydrateSafe, AllSafe
  <2>3. fetch.seen[d] \in Document \cup {None}
    BY <2>1 DEF Fetch
  <2>4. \A c \in Docs : Kept(c) \/ LetGo(c)
    BY <2>1, <2>2, <2>3, ApplyLetsGo DEF Typed, TypeOK
  <2>5. \A c \in Docs : HydrationOpen(c)' => HydrationOpen(c)
    BY <2>1 DEF HydrationOpen, Fetch
  <2>6. HydrateSafe'
    BY <1>3, <1>4, <2>5, QuietHydrate DEF LossInv
  <2> QED BY <1>1, <1>2, <2>4, <2>6, QuietHydration
<1> QED BY <1>1, <1>5, <1>6, <1>7, <1>8 DEF HydrationStep

(***************************************************************************)
(* All together.                                                           *)
(***************************************************************************)
LEMMA InitLossFree == Init => LossInv
BY DEF Init, LocalInit, WritesInit, DirectInit, DrainInit, HydrationInit, NoRequests, Synced,
       StampSynced, LossInv, NoDirect, Revisions, Unrevised, AllSafe, SentAsStored, Landed,
       SettleSafe, HydrateSafe, DrainOpen, InState, HydrationOpen, CallsSafe, CallSafe,
       NoSilentLoss, Present

LEMMA NextLossFree == Upserting /\ Typed /\ LossInv /\ [Next]_vars => LossInv'
<1> SUFFICES ASSUME Upserting, Typed, LossInv, [Next]_vars PROVE LossInv'
  OBVIOUS
<1>1. CASE Directs
  BY <1>1 DEF Directs, DirectStep, DirectAnswered, DirectRetried, SendThenStore, DirectLost,
              DirectDelete, DirectMerge, DirectFind, DirectStore, LossInv, NoDirect, Upserting
<1>2. CASE UNCHANGED vars
  <2>1. DrainsFrame
    BY <1>2 DEF DrainsFrame, vars, RecordRaces, NewEdits, callVars
  <2> QED BY <1>2, <2>1, IdleLossFree DEF vars, serverVars, drainVars
<1> QED
  BY <1>1, <1>2, WritesLossFree, DrainsLossFree, StraysLossFree, HydratesLossFree DEF Next, Upserting

\* Whatever the interleaving of mutations, retries, discards, drain cycles,
\* lost replies, stray requests, reloads, tab changes and refetches: an edit
\* the user saw committed is queued until the server has taken it, unless it
\* was given up or fell into a window.
THEOREM QueueLosesNothing == Upserting => (Spec => []NoSilentLoss)
<1> SUFFICES ASSUME Upserting PROVE Spec => []NoSilentLoss
  OBVIOUS
<1>1. Init => LossTyped
  BY InitTyped, InitLossFree DEF LossTyped
<1>2. LossTyped /\ [Next]_vars => LossTyped'
  BY NextTyped, NextLossFree DEF LossTyped
<1>3. LossTyped => NoSilentLoss
  BY DEF LossTyped, LossInv
<1> QED BY <1>1, <1>2, <1>3, PTL DEF Spec

(***************************************************************************)
(* Order and agreement.  Where one tab drains, no request outlives its     *)
(* page, and nothing but the queue writes, a document has one request at a *)
(* time, and the server has heard nothing of it that is newer.             *)
(***************************************************************************)

\* Each of these the other way, TLC finds order and agreement broken: a request of a
\* page that is gone or of another tab lands late, an immediate write overtakes
\* the queue, and a response older than the last write is put in its place and
\* sent by a retry that was decided before.
Undisturbed ==
  MaxStrays = 0 /\ ~ Handoff /\ "immediate" \notin Operations /\ "refetch" \notin Operations

\* One tab drains, and nothing else is on its way.
Alone ==
  /\ \A d \in Docs : stray[d] = {}
  /\ NoDirect /\ fetch = None
  /\ \A t \in Tabs :
       /\ cycle[t] # "idle" => t = primary
       /\ cycle[t] # "sending" => \A d \in Docs : req[t][d] = None

LEMMA OneRequestOnly ==
  ASSUME Alone, NEW t \in Tabs, NEW u \in Tabs, NEW d \in Docs, NEW c \in Docs,
         req[t][d] # None, req[u][c] # None
  PROVE  t = u
BY DEF Alone

LEMMA AloneInit == Init => Alone
BY DEF Init, BackendInit, DirectInit, NoDirect, HydrationInit, DrainInit, NoRequests, Alone

\* Only the drain and local writes happen.
LEMMA AloneActs ==
  ASSUME Undisturbed, Alone, Next
  PROVE  Writes \/ Drains
<1>1. ~ Directs
  BY DEF Directs, DirectStep, DirectAnswered, DirectRetried, SendThenStore, DirectLost,
         DirectDelete, DirectMerge, DirectFind, DirectStore, Alone, NoDirect, Undisturbed
<1>2. ~ Strays
  BY DEF Strays, StrayArrives, Alone
<1>3. ~ Hydrates
  BY DEF Hydrates, Undisturbed
<1> QED
  BY <1>1, <1>2, <1>3 DEF Next

LEMMA NoneAbandoned ==
  ASSUME Undisturbed, Alone, NEW t, NEW S, Abandon(t, S)
  PROVE  \A d \in Docs : stray'[d] = {}
<1>1. ASSUME NEW d \in Docs PROVE ~ (Cardinality(stray[d]) < MaxStrays)
  <2>1. Cardinality(stray[d]) = 0
    BY FS_EmptySet DEF Alone
  <2> QED
    BY <2>1 DEF Undisturbed
<1> QED
  BY <1>1 DEF Abandon, Alone

LEMMA AloneNext ==
  ASSUME Undisturbed, Typed, Alone, [Next]_vars
  PROVE  Alone'
<1>0. cycle \in [Tabs -> {"idle", "selecting", "sending"}] /\ req \in [Tabs -> [Docs -> Request \cup {None}]]
  BY DEF Typed, TypeOK, DrainTypeOK
<1>1. CASE UNCHANGED vars
  BY <1>1 DEF Alone, NoDirect, vars, serverVars, drainVars
<1>2. CASE Writes
  BY <1>2 DEF Writes, Alone, NoDirect, serverVars, drainVars
<1>3. CASE Drains
  <2>1. DrainStep /\ NoDirect' /\ fetch' = None
    BY <1>3 DEF Drains, Alone, NoDirect
  <2>2. ASSUME NEW t \in Tabs, Begin(t) \/ End(t) PROVE Alone'
    <3>1. UNCHANGED <<stray, primary, req>>
      BY <2>2 DEF Begin, End, serverVars
    <3>2. \A u \in Tabs \ {t} : cycle'[u] = cycle[u]
      BY <1>0, <2>2 DEF Begin, End
    <3>3. \/ cycle[t] = "idle" /\ cycle'[t] = "selecting" /\ t = primary
          \/ cycle'[t] = "idle" /\ req[t] = NoRequests
      BY <1>0, <2>2 DEF Begin, End, Owner
    <3>4. cycle'[t] # "sending" /\ (cycle'[t] # "idle" => t = primary)
      BY <3>3
    <3>5. \A d \in Docs : req[t][d] = None
      BY <3>3 DEF Alone, NoRequests
    <3> QED
      BY <2>1, <3>1, <3>2, <3>4, <3>5 DEF Alone
  <2>3. ASSUME NEW t \in Tabs, Select(t) PROVE Alone'
    <3>1. cycle[t] = "selecting" /\ cycle'[t] = "sending"
      BY <1>0, <2>3 DEF Select
    <3>2. \A u \in Tabs \ {t} : req'[u] = req[u] /\ cycle'[u] = cycle[u]
      BY <1>0, <2>3 DEF Select
    <3> QED
      BY <2>1, <2>3, <3>1, <3>2 DEF Select, Alone, serverVars
  <2>4. ASSUME NEW t \in Tabs, Reload(t) PROVE Alone'
    <3>1. \A d \in Docs : stray'[d] = {}
      BY <2>4, NoneAbandoned DEF Reload
    <3>2. /\ cycle'[t] = "idle" /\ \A d \in Docs : req'[t][d] = None
          /\ \A u \in Tabs \ {t} : req'[u] = req[u] /\ cycle'[u] = cycle[u]
          /\ primary' = primary
      BY <1>0, <2>4 DEF Reload, NoRequests
    <3> QED
      BY <2>1, <3>1, <3>2 DEF Alone
  <2>5. ASSUME NEW t \in Tabs, OwnershipMoves(t) PROVE Alone'
    BY <2>5 DEF OwnershipMoves, Undisturbed
  <2>6. ASSUME \A d \in Docs : stray'[d] = {}, UNCHANGED <<primary, cycle>>,
               \A t \in Tabs, d \in Docs : req[t][d] = None => req'[t][d] = None
        PROVE  Alone'
    BY <2>1, <2>6 DEF Alone
  <2>7. ASSUME NEW t \in Tabs, NEW d \in Docs, req[t][d] # None,
               \A u \in Tabs, c \in Docs : <<u, c>> # <<t, d>> => req'[u][c] = req[u][c]
        PROVE  \A u \in Tabs, c \in Docs : req[u][c] = None => req'[u][c] = None
    BY <2>7
  <2>8. ASSUME NEW t \in Tabs, NEW d \in Docs, Close(t, d)
        PROVE  \A u \in Tabs, c \in Docs : <<u, c>> # <<t, d>> => req'[u][c] = req[u][c]
    BY <1>0, <2>8 DEF Close
  <2>9. ASSUME NEW t \in Tabs, NEW d \in Docs, NEW outcome, NEW body, Answer(t, d, outcome, body)
        PROVE  \A u \in Tabs, c \in Docs : <<u, c>> # <<t, d>> => req'[u][c] = req[u][c]
    BY <1>0, <2>9 DEF Answer
  <2>10. ASSUME NEW t \in Tabs, NEW d \in Docs, Received(t, d) PROVE Alone'
    <3>1. /\ req[t][d] # None /\ UNCHANGED <<stray, primary, cycle>>
          /\ \E outcome, body : Answer(t, d, outcome, body)
      BY <2>10 DEF Received, InState
    <3> QED
      BY <2>6, <2>7, <2>9, <3>1 DEF Alone
  <2>11. ASSUME NEW t \in Tabs, NEW d \in Docs, NEW outcome, Refused(t, d, outcome) PROVE Alone'
    <3>1. /\ req[t][d] # None /\ UNCHANGED <<stray, primary, cycle>>
          /\ Answer(t, d, outcome, None)
      BY <2>11 DEF Refused, InState, serverVars
    <3> QED
      BY <2>6, <2>7, <2>9, <3>1 DEF Alone
  <2>12. ASSUME NEW t \in Tabs, NEW d \in Docs, TransportFailure(t, d) PROVE Alone'
    <3>1. req[t][d] # None /\ UNCHANGED <<primary, cycle>> /\ Close(t, d)
      BY <2>12 DEF TransportFailure, InState
    <3>2. \A c \in Docs : stray'[c] = {}
      BY <2>12, NoneAbandoned DEF TransportFailure
    <3> QED
      BY <2>6, <2>7, <2>8, <3>1, <3>2
  <2>13. ASSUME NEW t \in Tabs, NEW d \in Docs, Check(t, d) PROVE Alone'
    <3>1. req[t][d] # None /\ UNCHANGED <<stray, primary, cycle>>
      BY <2>13 DEF Check, InState, serverVars
    <3>2. \A u \in Tabs, c \in Docs : <<u, c>> # <<t, d>> => req'[u][c] = req[u][c]
      BY <1>0, <2>13 DEF Check, Close
    <3> QED
      BY <2>6, <2>7, <3>1, <3>2 DEF Alone
  <2>14. ASSUME NEW t \in Tabs, NEW d \in Docs, Settle(t, d) PROVE Alone'
    <3>1. req[t][d] # None /\ UNCHANGED <<stray, primary, cycle>> /\ Close(t, d)
      BY <2>14 DEF Settle, InState, serverVars
    <3> QED
      BY <2>6, <2>7, <2>8, <3>1 DEF Alone
  <2>15. ASSUME NEW d \in Docs, BackoffElapses(d) PROVE Alone'
    BY <2>6, <2>15 DEF BackoffElapses, serverVars, drainVars, Alone
  <2> QED
    BY <2>1, <2>2, <2>3, <2>4, <2>5, <2>10, <2>11, <2>12, <2>13, <2>14, <2>15 DEF DrainStep
<1> QED
  BY <1>1, <1>2, <1>3, AloneActs

(***************************************************************************)
(* A stored revision is at least the one served and the ones under way.    *)
(* A document without one has no route either, and is not sent.            *)
(***************************************************************************)
StoreInOrder(d) ==
  /\ served[d] <= clock
  /\ Present(d) =>
       /\ store[d].rev <= clock
       /\ IF store[d].rev = 0 THEN ~ store[d].routed ELSE served[d] <= store[d].rev

RequestInOrder(t, d) ==
  req[t][d] # None =>
    /\ req[t][d].rev # 0 /\ req[t][d].rev <= clock /\ served[d] <= req[t][d].rev
    /\ Present(d) /\ store[d].rev # 0 => req[t][d].rev <= store[d].rev
    /\ Present(d) /\ store[d].rev = req[t][d].rev =>
         store[d].routed /\ store[d].val = req[t][d].val
    /\ req[t][d].pc = "checked" =>
         req[t][d].seen.routed /\ req[t][d].seen.val = req[t][d].val

OrderInv == \A d \in Docs : StoreInOrder(d) /\ \A t \in Tabs : RequestInOrder(t, d)

(***************************************************************************)
(* What is queued, sent or about to be given up has an edit of this device *)
(* in it, so that giving it up shows; and while a request is out, its      *)
(* document is queued, unless edits of it were given up or raced.          *)
(***************************************************************************)
OfHere(d, val) == val \cap made[d] # {}

Clean(d) == made[d] \cap (abandoned \cup raced) = {}

StoreOfHere(d) ==
  Present(d) =>
    /\ store[d].rev # 0 \/ Owes(store[d]) => made[d] # {}
    /\ made[d] # {} => OfHere(d, store[d].val)

CallOfHere(w) ==
  call[w] # None =>
    /\ call[w].kind \in {"retry", "discard", "drop"} => made[call[w].doc] # {}
    /\ call[w].kind = "drop" \/ call[w].next = Cancel => OfHere(call[w].doc, call[w].seen.val)

\* What the server has, once it has answered: nothing after a delete.
ResultOf(r) == IF r.op = "delete" THEN None ELSE r.val

RequestAgrees(t, d) ==
  req[t][d] # None =>
    /\ OfHere(d, req[t][d].val)
    /\ Clean(d) => Present(d) /\ Owes(store[d])
    /\ req[t][d].body \in {None, req[t][d].val}
    /\ Upsert = TRUE => req[t][d].outcome # "applied"
    /\ req[t][d].pc # "sent" /\ req[t][d].outcome = "ok" => server[d] = ResultOf(req[t][d])

AgreeInv ==
  /\ \A d \in Docs : StoreOfHere(d) /\ \A t \in Tabs : RequestAgrees(t, d)
  /\ \A w \in Callers : CallOfHere(w)
  /\ Upsert = TRUE => Converged

(***************************************************************************)
(* What a step does to a document.                                         *)
(***************************************************************************)
Held(d) ==
  /\ Present(d)' = Present(d)
  /\ Present(d) => /\ store'[d].rev = store[d].rev /\ store'[d].val = store[d].val
                   /\ store'[d].routed = store[d].routed

\* It stays as it is, but for its back-off and the kind of its debt.
Still(d) ==
  /\ Held(d) /\ made'[d] = made[d]
  /\ Present(d) => (Owes(store'[d]) <=> Owes(store[d]))

\* It is queued again.
Requeued(d) ==
  /\ Held(d) /\ made'[d] = made[d] /\ made[d] # {}
  /\ Present(d) => Owes(store'[d])

\* Its write is given up.
GivenUp(d) == (Held(d) \/ ~ Present(d)') /\ made'[d] = made[d] /\ ~ Clean(d)'

\* It is edited.
Renewed(d) ==
  /\ Present(d)' /\ Owes(store'[d]) /\ store'[d].rev = clock' /\ clock' = clock + 1
  /\ \E e \in store'[d].val : made'[d] = made[d] \cup {e}

\* It is settled by the request that was out for it.
Replaced(d) ==
  /\ made'[d] = made[d] /\ made[d] # {}
  /\ \A t \in Tabs : req'[t][d] = None
  /\ Present(d)' => /\ store'[d].rev = 0 /\ ~ store'[d].routed /\ ~ Owes(store'[d])
                    /\ OfHere(d, store'[d].val)
  /\ Upsert = TRUE => server[d] = IF Present(d)' THEN store'[d].val ELSE None

Moves == \A d \in Docs : Still(d) \/ Requeued(d) \/ GivenUp(d) \/ Renewed(d) \/ Replaced(d)

\* Requests that stay what they are, or go away.
Carries(t, d) ==
  req'[t][d] # None =>
    /\ req[t][d] # None
    /\ req'[t][d].op = req[t][d].op /\ req'[t][d].rev = req[t][d].rev
    /\ req'[t][d].val = req[t][d].val
    /\ req'[t][d].pc = "checked" =>
         req'[t][d].seen.routed /\ req'[t][d].seen.val = req[t][d].val
    /\ req'[t][d].outcome = "applied" => req[t][d].outcome = "applied"
    /\ req'[t][d].body \in {None, req[t][d].body}
    /\ req'[t][d].pc # "sent" /\ req'[t][d].outcome = "ok" =>
         req[t][d].pc # "sent" /\ req[t][d].outcome = "ok"

Carrying == \A t \in Tabs, d \in Docs : Carries(t, d)

Passes ==
  /\ clock' \in Nat /\ clock <= clock'
  /\ abandoned \subseteq abandoned' /\ raced \subseteq raced'

LEMMA CleanWas ==
  ASSUME Passes, NEW d \in Docs, made[d] \subseteq made'[d], Clean(d)'
  PROVE  Clean(d)
BY DEF Passes, Clean

LEMMA MovesMade == ASSUME Moves, NEW d \in Docs PROVE made[d] \subseteq made'[d]
BY DEF Moves, Still, Requeued, GivenUp, Renewed, Replaced

LEMMA OrderNumbers ==
  ASSUME Typed, NEW d \in Docs
  PROVE  /\ clock \in Nat /\ served[d] \in Nat
         /\ Present(d) => store[d].rev \in Nat
         /\ \A t \in Tabs : req[t][d] # None => req[t][d].rev \in Nat
<1>1. Present(d) => store[d].rev \in Nat
  BY PresentType DEF Typed, TypeOK, Document
<1>2. \A t \in Tabs : req[t][d] # None => req[t][d].rev \in Nat
  BY RequestType DEF Typed, TypeOK, Request
<1> QED
  BY <1>1, <1>2 DEF Typed, TypeOK, LocalTypeOK, BackendTypeOK

LEMMA OrderStep ==
  ASSUME Typed, OrderInv, Moves, Carrying, Passes, served' = served
  PROVE  OrderInv'
<1> SUFFICES ASSUME NEW d \in Docs PROVE StoreInOrder(d)' /\ \A t \in Tabs : RequestInOrder(t, d)'
  BY DEF OrderInv
<1>1. /\ clock \in Nat /\ clock' \in Nat /\ clock <= clock' /\ served[d] \in Nat
      /\ served[d] <= clock
      /\ Present(d) => store[d].rev \in Nat /\ store[d].rev <= clock
      /\ served'[d] = served[d]
  BY OrderNumbers DEF Passes, OrderInv, StoreInOrder
<1>2. \/ Held(d)
      \/ ~ Present(d)'
      \/ Present(d)' /\ store'[d].rev = clock' /\ clock' = clock + 1
      \/ Present(d)' /\ store'[d].rev = 0 /\ ~ store'[d].routed
  BY DEF Moves, Still, Requeued, GivenUp, Renewed, Replaced
<1>3. StoreInOrder(d)'
  <2>1. StoreInOrder(d)
    BY DEF OrderInv
  <2>2. CASE Held(d)
    BY <1>1, <2>1, <2>2 DEF Held, StoreInOrder
  <2>3. CASE ~ Present(d)'
    BY <1>1, <2>3 DEF StoreInOrder
  <2>4. CASE Present(d)' /\ store'[d].rev = clock' /\ clock' = clock + 1
    BY <1>1, <2>4 DEF StoreInOrder
  <2>5. CASE Present(d)' /\ store'[d].rev = 0 /\ ~ store'[d].routed
    BY <1>1, <2>5 DEF StoreInOrder
  <2> QED
    BY <1>2, <2>2, <2>3, <2>4, <2>5
<1>4. ASSUME NEW t \in Tabs, req'[t][d] # None PROVE RequestInOrder(t, d)'
  <2>1. /\ req[t][d] # None
        /\ req'[t][d].rev = req[t][d].rev /\ req'[t][d].val = req[t][d].val
        /\ req'[t][d].pc = "checked" =>
             req'[t][d].seen.routed /\ req'[t][d].seen.val = req[t][d].val
    BY <1>4 DEF Carrying, Carries
  <2>2. RequestInOrder(t, d) /\ req[t][d].rev \in Nat
    BY <2>1, OrderNumbers DEF OrderInv
  <2>3. /\ req[t][d].rev # 0 /\ req[t][d].rev <= clock /\ req[t][d].rev <= clock'
        /\ served[d] <= req[t][d].rev
    BY <1>1, <2>1, <2>2 DEF RequestInOrder
  <2>4. CASE Held(d)
    BY <1>1, <2>1, <2>2, <2>3, <2>4 DEF Held, RequestInOrder
  <2>5. CASE ~ Present(d)'
    BY <1>1, <2>1, <2>2, <2>3, <2>5 DEF RequestInOrder
  <2>6. CASE Present(d)' /\ store'[d].rev = clock' /\ clock' = clock + 1
    BY <1>1, <2>1, <2>2, <2>3, <2>6 DEF RequestInOrder
  <2>7. CASE Present(d)' /\ store'[d].rev = 0 /\ ~ store'[d].routed
    BY <1>1, <2>1, <2>2, <2>3, <2>7 DEF RequestInOrder
  <2> QED
    BY <1>2, <2>4, <2>5, <2>6, <2>7
<1> QED
  BY <1>3, <1>4 DEF RequestInOrder

LEMMA StoreOfHereStep ==
  ASSUME Typed, AgreeInv, Moves, NEW d \in Docs
  PROVE  StoreOfHere(d)'
<1> SUFFICES ASSUME Present(d)'
             PROVE  /\ store'[d].rev # 0 \/ Owes(store'[d]) => made'[d] # {}
                    /\ made'[d] # {} => store'[d].val \cap made'[d] # {}
  BY DEF StoreOfHere, OfHere
<1>1. StoreOfHere(d)
  BY DEF AgreeInv
<1>2. CASE Still(d)
  BY <1>1, <1>2 DEF Still, Held, StoreOfHere, OfHere
<1>3. CASE Requeued(d)
  BY <1>1, <1>3 DEF Requeued, Held, StoreOfHere, OfHere
<1>4. CASE GivenUp(d)
  BY <1>1, <1>4 DEF GivenUp, Held, StoreOfHere, OfHere, Clean
<1>5. CASE Renewed(d)
  BY <1>5 DEF Renewed, OfHere
<1>6. CASE Replaced(d)
  BY <1>6 DEF Replaced, OfHere
<1> QED
  BY <1>2, <1>3, <1>4, <1>5, <1>6 DEF Moves

LEMMA RequestAgreesStep ==
  ASSUME AgreeInv, Moves, Passes, NEW t \in Tabs, NEW d \in Docs, Carries(t, d),
         server'[d] = server[d]
  PROVE  RequestAgrees(t, d)'
<1> SUFFICES ASSUME req'[t][d] # None PROVE RequestAgrees(t, d)'
  BY DEF RequestAgrees
<1>1. req[t][d] # None /\ req'[t][d].op = req[t][d].op /\ req'[t][d].val = req[t][d].val
  BY DEF Carries
<1>2. RequestAgrees(t, d)
  BY DEF AgreeInv
<1>3. req'[t][d].val \cap made'[d] # {}
  BY <1>1, <1>2, MovesMade DEF RequestAgrees, OfHere
<1>4. ASSUME Clean(d)' PROVE Present(d)' /\ Owes(store'[d])
  <2>1. Clean(d)
    BY <1>4, CleanWas, MovesMade
  <2>2. Present(d) /\ Owes(store[d])
    BY <1>1, <1>2, <2>1 DEF RequestAgrees
  <2> QED
    BY <1>4, <2>2 DEF Moves, Still, Requeued, GivenUp, Renewed, Replaced, Held
<1>5. /\ Upsert = TRUE => req'[t][d].outcome # "applied"
      /\ req'[t][d].body \in {None, req'[t][d].val}
  BY <1>1, <1>2 DEF RequestAgrees, Carries
<1>6. ASSUME req'[t][d].pc # "sent", req'[t][d].outcome = "ok"
      PROVE  server'[d] = ResultOf(req'[t][d])
  <2>1. req[t][d].pc # "sent" /\ req[t][d].outcome = "ok"
    BY <1>6 DEF Carries
  <2>2. server[d] = ResultOf(req[t][d])
    BY <1>1, <1>2, <2>1 DEF RequestAgrees
  <2> QED
    BY <1>1, <2>1, <2>2 DEF ResultOf
<1> QED
  BY <1>3, <1>4, <1>5, <1>6 DEF RequestAgrees, OfHere

LEMMA ConvergedStep ==
  ASSUME Typed, Typed', Converged, Moves, Passes, server' = server, Upsert = TRUE
  PROVE  Converged'
<1> SUFFICES ASSUME NEW d \in Docs, made'[d] # {}, Clean(d)', Present(d)' => store'[d].sync = "synced"
             PROVE  server[d] = IF Present(d)' THEN store'[d].val ELSE None
  BY DEF Converged, Clean
<1>1. Clean(d)
  BY CleanWas, MovesMade
<1>2. Present(d)' => ~ Owes(store'[d])
  BY DEF Owes
<1>3. Present(d) => (store[d].sync = "synced" <=> ~ Owes(store[d]))
  BY PresentType DEF Typed, TypeOK, Document, Owes
<1>4. CASE Still(d)
  BY <1>1, <1>2, <1>3, <1>4 DEF Still, Held, Converged, Clean
<1>5. CASE Requeued(d)
  BY <1>1, <1>2, <1>3, <1>5 DEF Requeued, Held, Converged, Clean
<1>6. CASE GivenUp(d)
  BY <1>6 DEF GivenUp
<1>7. CASE Renewed(d)
  BY <1>2, <1>7 DEF Renewed
<1>8. CASE Replaced(d)
  BY <1>8 DEF Replaced
<1> QED
  BY <1>4, <1>5, <1>6, <1>7, <1>8 DEF Moves

LEMMA CallStays ==
  ASSUME WritesTypeOK, Moves, NEW w \in Callers, CallOfHere(w), call'[w] \in {call[w], None}
  PROVE  CallOfHere(w)'
<1> SUFFICES ASSUME call'[w] # None PROVE CallOfHere(w)'
  BY DEF CallOfHere
<1>1. call'[w] = call[w] /\ call[w].doc \in Docs
  BY DEF WritesTypeOK, Call
<1> QED
  BY <1>1, MovesMade DEF CallOfHere, OfHere

\* A step that the server has no part in.
LEMMA AgreeStep ==
  ASSUME Typed, Typed', OrderInv, AgreeInv, Moves, Carrying, Passes, UNCHANGED <<server, served>>,
         \A w \in Callers : call'[w] \in {call[w], None} \/ CallOfHere(w)'
  PROVE  OrderInv' /\ AgreeInv'
<1>1. OrderInv'
  BY OrderStep
<1>2. \A d \in Docs : StoreOfHere(d)' /\ \A t \in Tabs : RequestAgrees(t, d)'
  BY StoreOfHereStep, RequestAgreesStep DEF Carrying
<1>3. \A w \in Callers : CallOfHere(w)'
  BY CallStays DEF AgreeInv, Typed, TypeOK
<1>4. Upsert = TRUE => Converged'
  BY ConvergedStep DEF AgreeInv
<1> QED
  BY <1>1, <1>2, <1>3, <1>4 DEF AgreeInv

\* Requests that are as they were.
LEMMA CarriesSame ==
  ASSUME OrderInv, NEW t \in Tabs, NEW d \in Docs, req'[t][d] \in {req[t][d], None}
  PROVE  Carries(t, d)
BY DEF Carries, OrderInv, RequestInOrder

\* The document d is written, the others are as they were.
LEMMA MovesOne ==
  ASSUME NEW d \in Docs, \A c \in Docs \ {d} : store'[c] = store[c] /\ made'[c] = made[c],
         Still(d) \/ Requeued(d) \/ GivenUp(d) \/ Renewed(d) \/ Replaced(d)
  PROVE  Moves
<1>1. \A c \in Docs \ {d} : Still(c)
  BY DEF Still, Held, Present
<1> QED
  BY <1>1 DEF Moves

LEMMA NothingMoves == UNCHANGED <<store, made>> => Moves
BY DEF Moves, Still, Held, Present

\* An update of a document, and of nothing where there is none.
LEMMA UpdateMoves ==
  ASSUME LocalTypeOK, NEW d \in Docs, NEW doc, UpdateOne(d, doc), made' = made,
         Present(d) =>
           /\ doc \in Document
           /\ doc.rev = store[d].rev /\ doc.val = store[d].val /\ doc.routed = store[d].routed
           /\ (Owes(doc) <=> Owes(store[d])) \/ (made[d] # {} /\ Owes(doc)) \/ ~ Clean(d)'
  PROVE  Moves
<1>1. CASE ~ Present(d)
  BY <1>1, NothingMoves DEF UpdateOne
<1>2. CASE Present(d)
  <2>1. store'[d] = doc /\ \A c \in Docs \ {d} : store'[c] = store[c]
    BY <1>2 DEF UpdateOne, LocalTypeOK
  <2>2. Present(d)'
    BY <1>2, <2>1, NoneAssumption DEF Present
  <2>3. Held(d)
    BY <1>2, <2>1, <2>2 DEF Held
  <2>4. Still(d) \/ Requeued(d) \/ GivenUp(d)
    BY <1>2, <2>1, <2>3 DEF Still, Requeued, GivenUp
  <2> QED
    BY <2>1, <2>4, MovesOne
<1> QED
  BY <1>1, <1>2

LEMMA WritesAgree ==
  ASSUME Typed, Typed', OrderInv, AgreeInv, Writes
  PROVE  OrderInv' /\ AgreeInv'
<1>1. /\ LocalWriteStep /\ UNCHANGED <<server, served, req>> /\ raced \subseteq raced'
      /\ LocalTypeOK /\ call \in [Callers -> Call \cup {None}] /\ made \in [Docs -> Content]
      /\ clock \in Nat /\ clock' \in Nat
  BY RacesGrow DEF Writes, serverVars, drainVars, Typed, TypeOK, WritesTypeOK, LocalTypeOK
<1>2. Carrying
  BY <1>1, CarriesSame DEF Carrying
<1>3. ASSUME Moves, clock <= clock', abandoned \subseteq abandoned',
             \A w \in Callers : call'[w] \in {call[w], None} \/ CallOfHere(w)'
      PROVE  OrderInv' /\ AgreeInv'
  BY <1>1, <1>2, <1>3, AgreeStep DEF Passes
<1>4. ASSUME NEW d \in Docs, NEW routed \in Routes, Insert(d, routed)
      PROVE  OrderInv' /\ AgreeInv'
  <2> DEFINE edit == EditFor(clock + 1, "insert")
             doc == StampPending("insert", clock + 1, {edit}, routed)
  <2>1. /\ store' = [store EXCEPT ![d] = doc] /\ made' = [made EXCEPT ![d] = @ \cup {edit}]
        /\ clock' = clock + 1 /\ call' = call /\ abandoned' = abandoned
    BY <1>4 DEF Insert, InsertOne
  <2>2. doc.rev = clock + 1 /\ doc.val = {edit} /\ Owes(doc)
    BY DEF StampPending, Owes
  <2>3. doc \in Document
    <3>1. edit \in Edit
      BY <1>1, EditForType
    <3> QED
      BY <1>1, <3>1, StampPendingType, WritesAssumption DEF Content, Ops
  <2> HIDE DEF doc, edit
  <2>4. /\ store'[d] = doc /\ made'[d] = made[d] \cup {edit}
        /\ \A c \in Docs \ {d} : store'[c] = store[c] /\ made'[c] = made[c]
    BY <1>1, <2>1 DEF LocalTypeOK
  <2>5. Renewed(d)
    BY <2>1, <2>2, <2>3, <2>4, NoneAssumption DEF Renewed, Present
  <2>6. Moves
    BY <2>4, <2>5, MovesOne
  <2> QED
    BY <1>1, <1>3, <2>1, <2>6
<1>5. ASSUME NEW w \in Callers, NEW d \in Docs, NEW kind \in {"update", "delete"},
             NEW routed \in Routes, FindExisting(w, d, kind, routed)
      PROVE  OrderInv' /\ AgreeInv'
  <2> DEFINE c == [kind |-> kind, doc |-> d, seen |-> store[d], routed |-> routed,
                   next |-> Coalesce(PendingOp(store[d]), kind)]
  <2>1. /\ call' = [call EXCEPT ![w] = c] /\ UNCHANGED <<localVars, made, abandoned>>
        /\ Present(d)
    BY <1>5 DEF FindExisting
  <2>2. call'[w] = c /\ \A v \in Callers \ {w} : call'[v] = call[v]
    BY <1>1, <2>1
  <2>3. StoreOfHere(d)
    BY DEF AgreeInv
  <2>4. store[d] \in Document
    BY <1>1, <2>1, PresentType
  <2>5. c.next = Cancel => PendingOp(store[d]) # NoOp
    BY DEF Coalesce, NoOp, Cancel
  <2>6. c.next = Cancel => OfHere(d, store[d].val)
    BY <2>1, <2>3, <2>5 DEF PendingOp, StoreOfHere
  <2>7. CallOfHere(w)'
    BY <2>1, <2>2, <2>6 DEF CallOfHere, OfHere
  <2> QED
    BY <1>1, <1>3, <2>1, <2>2, <2>7, NothingMoves DEF localVars
<1>6. ASSUME NEW w \in Callers, NEW d \in Docs, NEW kind \in {"retry", "discard"},
             Decide(w, d, kind)
      PROVE  OrderInv' /\ AgreeInv'
  <2>1. UNCHANGED <<localVars, made, abandoned>> /\ Present(d) /\ store[d].sync = "failed"
    BY <1>6 DEF Decide
  <2>2. /\ call'[w].kind = kind /\ call'[w].next = NoOp /\ call'[w].doc = d
        /\ \A v \in Callers \ {w} : call'[v] = call[v]
    BY <1>1, <1>6 DEF Decide
  <2>3. made[d] # {}
    BY <2>1 DEF AgreeInv, StoreOfHere, Owes
  <2>4. CallOfHere(w)'
    BY <2>1, <2>2, <2>3 DEF CallOfHere, NoOp, Cancel
  <2> QED
    BY <1>1, <1>3, <2>1, <2>2, <2>4, NothingMoves DEF localVars
<1>7. ASSUME NEW w \in Callers, CommitWrite(w) PROVE OrderInv' /\ AgreeInv'
  <2>0. PICK d \in Docs : d = call[w].doc
    BY <1>1, <1>7 DEF CommitWrite, Committable, Call
  <2>a. call[w] \in Call
    BY <1>1, <1>7 DEF CommitWrite, Committable
  <2> DEFINE edit == EditFor(clock + 1, call[w].kind)
             doc == StampPending(call[w].next, clock + 1, store[d].val \cup {edit}, call[w].routed)
  <2>1. /\ UpdateOne(d, doc) /\ clock' = clock + 1 /\ abandoned' = abandoned
        /\ made' = IF Present(d) THEN [made EXCEPT ![d] = @ \cup {edit}] ELSE made
        /\ call' = [call EXCEPT ![w] = None]
    BY <1>7, <2>0 DEF CommitWrite, Finish
  <2>2. \A v \in Callers : call'[v] \in {call[v], None}
    BY <1>1, <2>1
  <2>3. doc.rev = clock + 1 /\ edit \in doc.val /\ Owes(doc) /\ (Present(d) => doc # None)
    <3>1. doc.rev = clock + 1 /\ doc.sync = "pending" /\ doc.val = store[d].val \cup {edit}
      BY DEF StampPending
    <3>2. ASSUME Present(d) PROVE doc \in Document
      <4>1. call[w].next \in Ops \cup {NoOp} /\ call[w].routed \in BOOLEAN
        BY <1>7, <2>a DEF CommitWrite, Committable, Call
      <4>2. store[d].val \cup {edit} \in Content
        BY <1>1, <3>2, PresentType, EditForType DEF Document, Content
      <4>3. clock + 1 \in Nat
        BY <1>1
      <4> HIDE DEF edit
      <4> QED
        BY <4>1, <4>2, <4>3, StampPendingType
    <3> HIDE DEF doc
    <3> QED
      BY <3>1, <3>2, NoneAssumption DEF Owes
  <2> HIDE DEF doc, edit
  <2>4. CASE Present(d)
    <3>1. /\ store'[d] = doc /\ made'[d] = made[d] \cup {edit}
          /\ \A c \in Docs \ {d} : store'[c] = store[c] /\ made'[c] = made[c]
      BY <1>1, <2>1, <2>4 DEF UpdateOne, LocalTypeOK
    <3>2. Renewed(d)
      BY <2>1, <2>3, <2>4, <3>1 DEF Renewed, Present
    <3> QED
      BY <1>1, <1>3, <2>1, <2>2, <3>1, <3>2, MovesOne
  <2>5. CASE ~ Present(d)
    BY <1>1, <1>3, <2>1, <2>2, <2>5, NothingMoves DEF UpdateOne
  <2> QED
    BY <2>4, <2>5
<1>8. ASSUME NEW w \in Callers, NEW d \in Docs, call[w] # None, d = call[w].doc,
             call[w].kind = "drop" \/ call[w].next = Cancel,
             abandoned' = abandoned \cup call[w].seen.val, made' = made
      PROVE  ~ Clean(d)'
  <2>1. OfHere(d, call[w].seen.val)
    BY <1>8 DEF AgreeInv, CallOfHere
  <2> QED
    BY <1>8, <2>1 DEF OfHere, Clean
<1>9. ASSUME NEW w \in Callers, NEW d \in Docs, DeleteOne(d), ~ Clean(d)', made' = made,
             clock' = clock, abandoned \subseteq abandoned', call' = [call EXCEPT ![w] = None]
      PROVE  OrderInv' /\ AgreeInv'
  <2>1. store'[d] = None /\ \A c \in Docs \ {d} : store'[c] = store[c]
    BY <1>1, <1>9 DEF DeleteOne, LocalTypeOK
  <2>2. GivenUp(d)
    BY <1>9, <2>1 DEF GivenUp, Present
  <2>3. \A v \in Callers : call'[v] \in {call[v], None}
    BY <1>1, <1>9
  <2> QED
    BY <1>1, <1>3, <1>9, <2>1, <2>2, <2>3, MovesOne
<1>10. ASSUME NEW w \in Callers, CancelInsert(w) PROVE OrderInv' /\ AgreeInv'
  <2>1. PICK d \in Docs : d = call[w].doc
    BY <1>1, <1>10 DEF CancelInsert, Call
  <2> QED
    BY <1>8, <1>9, <1>10, <2>1 DEF CancelInsert, Finish
<1>11. ASSUME NEW w \in Callers, Retry(w) PROVE OrderInv' /\ AgreeInv'
  <2>1. PICK d \in Docs : d = call[w].doc
    BY <1>1, <1>11 DEF Retry, Call
  <2> DEFINE doc == [store[d] EXCEPT !.sync = "pending", !.due = TRUE]
  <2>2. /\ UpdateOne(d, doc) /\ call' = [call EXCEPT ![w] = None]
        /\ clock' = clock /\ made' = made /\ abandoned' = abandoned
    BY <1>11, <2>1 DEF Retry, Finish
  <2>3. made[d] # {}
    BY <1>11, <2>1 DEF AgreeInv, CallOfHere, Retry
  <2>4. ASSUME Present(d)
        PROVE  /\ doc \in Document /\ doc.rev = store[d].rev /\ doc.val = store[d].val
               /\ doc.routed = store[d].routed /\ Owes(doc)
    <3>1. store[d] \in Document
      BY <1>1, <2>4, PresentType
    <3> QED
      BY <3>1 DEF Document, Owes
  <2> HIDE DEF doc
  <2>5. Moves
    BY <1>1, <2>2, <2>3, <2>4, UpdateMoves
  <2>6. \A v \in Callers : call'[v] \in {call[v], None}
    BY <1>1, <2>2
  <2> QED
    BY <1>1, <1>3, <2>2, <2>5, <2>6
<1>12. ASSUME NEW w \in Callers, FindDiscarded(w) PROVE OrderInv' /\ AgreeInv'
  <2>1. PICK d \in Docs : d = call[w].doc
    BY <1>1, <1>12 DEF FindDiscarded, Call
  <2> DEFINE new == [call[w] EXCEPT !.kind = "drop", !.seen = store[d],
                                    !.next = IF store[d].op = "insert" THEN Cancel ELSE NoOp]
  <2>2. /\ call[w] # None /\ call[w].kind = "discard" /\ UNCHANGED <<localVars, made, abandoned>>
        /\ call' = [call EXCEPT ![w] = IF Present(d) THEN new ELSE None]
    BY <1>12, <2>1 DEF FindDiscarded, Finish
  <2>3. made[d] # {}
    BY <2>1, <2>2 DEF AgreeInv, CallOfHere
  <2>4. new.kind = "drop" /\ new.seen = store[d] /\ new.doc = d
    BY <1>1, <2>1, <2>2 DEF Call
  <2> HIDE DEF new
  <2>5. /\ call'[w] = IF Present(d) THEN new ELSE None
        /\ \A v \in Callers \ {w} : call'[v] = call[v]
    BY <1>1, <2>2
  <2>6. Present(d) => OfHere(d, store[d].val)
    BY <2>3 DEF AgreeInv, StoreOfHere
  <2>7. call'[w] = None \/ CallOfHere(w)'
    BY <2>2, <2>3, <2>4, <2>5, <2>6 DEF CallOfHere, OfHere
  <2> QED
    BY <1>1, <1>3, <2>2, <2>5, <2>7, NothingMoves DEF localVars
<1>13. ASSUME NEW w \in Callers, Discard(w) PROVE OrderInv' /\ AgreeInv'
  <2>1. PICK d \in Docs : d = call[w].doc
    BY <1>1, <1>13 DEF Discard, Call
  <2> DEFINE doc == [store[d] EXCEPT !.sync = "synced", !.op = NoOp, !.due = TRUE]
  <2>2. /\ call[w] # None /\ call[w].kind = "drop" /\ call' = [call EXCEPT ![w] = None]
        /\ IF call[w].next = Cancel THEN DeleteOne(d) ELSE UpdateOne(d, doc)
        /\ clock' = clock /\ made' = made /\ abandoned' = abandoned \cup call[w].seen.val
    BY <1>13, <2>1 DEF Discard, Finish
  <2>3. ~ Clean(d)'
    BY <1>8, <2>1, <2>2
  <2>4. ASSUME Present(d)
        PROVE  /\ doc \in Document /\ doc.rev = store[d].rev /\ doc.val = store[d].val
               /\ doc.routed = store[d].routed
    <3>1. store[d] \in Document
      BY <1>1, <2>4, PresentType
    <3> QED
      BY <3>1 DEF Document, NoOp
  <2> HIDE DEF doc
  <2>5. CASE call[w].next = Cancel
    BY <1>9, <2>2, <2>3, <2>5
  <2>6. CASE call[w].next # Cancel
    <3>1. Moves
      BY <1>1, <2>2, <2>3, <2>4, <2>6, UpdateMoves
    <3>2. \A v \in Callers : call'[v] \in {call[v], None}
      BY <1>1, <2>2
    <3> QED
      BY <1>1, <1>3, <2>2, <3>1, <3>2
  <2> QED
    BY <2>5, <2>6
<1>14. ASSUME NEW w \in Callers, CallerGone(w) PROVE OrderInv' /\ AgreeInv'
  <2>1. UNCHANGED <<localVars, made, abandoned>> /\ call' = [call EXCEPT ![w] = None]
    BY <1>14 DEF CallerGone, Finish
  <2>2. \A v \in Callers : call'[v] \in {call[v], None}
    BY <1>1, <2>1
  <2> QED
    BY <1>1, <1>3, <2>1, <2>2, NothingMoves DEF localVars
<1> QED
  BY <1>1, <1>4, <1>5, <1>6, <1>7, <1>10, <1>11, <1>12, <1>13, <1>14 DEF LocalWriteStep

LEMMA HandleAgrees ==
  ASSUME NEW row, NEW op \in Ops, NEW val
  PROVE  /\ Handle(row, op, val).outcome = "ok" =>
              Handle(row, op, val).row = IF op = "delete" THEN None ELSE val
         /\ Handle(row, op, val).body \in {None, val}
         /\ Handle(row, op, val).outcome = "applied" => Upsert # TRUE
<1>1. CASE op = "insert"
  BY <1>1 DEF Handle, Reply
<1>2. CASE op = "update"
  BY <1>2 DEF Handle, Reply
<1>3. CASE op = "delete"
  BY <1>3 DEF Handle, Reply
<1> QED
  BY <1>1, <1>2, <1>3 DEF Ops

\* No edit is made, so none falls into a window.
LEMMA NoRaces == RecordRaces /\ made' = made => raced' = raced
BY DEF RecordRaces, NewEdits

LEMMA SelectAgrees ==
  ASSUME Typed, Typed', OrderInv, AgreeInv, UNCHANGED <<callVars, raced>>, NEW t \in Tabs, Select(t)
  PROVE  OrderInv' /\ AgreeInv' /\ served' = served
<1>1. /\ UNCHANGED <<store, clock, server, served, call, made, abandoned, raced>>
      /\ \A u \in Tabs \ {t} : req'[u] = req[u]
      /\ \A d \in Docs : req'[t][d] = IF d \in Sendable THEN SendOf(store[d]) ELSE None
  BY DEF Select, callVars, localVars, serverVars, Typed, TypeOK, DrainTypeOK
<1>2. Moves
  BY <1>1, NothingMoves
<1>3. clock \in Nat
  BY DEF Typed, TypeOK, LocalTypeOK
<1>4. Passes
  BY <1>1, <1>3 DEF Passes
<1>5. ASSUME NEW d \in Docs, NEW u \in Tabs, req'[u][d] \in {req[u][d], None}
      PROVE  RequestInOrder(u, d)' /\ RequestAgrees(u, d)'
  <2>1. RequestInOrder(u, d)
    BY DEF OrderInv
  <2>2. RequestInOrder(u, d)'
    BY <1>1, <1>5, <2>1 DEF RequestInOrder, Present
  <2>3. RequestAgrees(u, d)'
    BY <1>1, <1>2, <1>4, <1>5, CarriesSame, RequestAgreesStep
  <2> QED
    BY <2>2, <2>3
<1>6. ASSUME NEW d \in Sendable PROVE RequestInOrder(t, d)' /\ RequestAgrees(t, d)'
  <2>1. d \in Docs /\ Present(d) /\ store[d].sync = "pending" /\ store[d].routed
    BY DEF Sendable, Picked, Due
  <2>2. StoreInOrder(d) /\ StoreOfHere(d)
    BY <2>1 DEF OrderInv, AgreeInv
  <2>3. store[d].rev # 0 /\ store[d].rev <= clock /\ served[d] <= store[d].rev
    BY <2>1, <2>2 DEF StoreInOrder
  <2>4. OfHere(d, store[d].val) /\ Owes(store[d])
    BY <2>1, <2>2 DEF StoreOfHere, Owes
  <2>5. /\ req'[t][d].rev = store[d].rev /\ req'[t][d].val = store[d].val
        /\ req'[t][d].pc = "sent" /\ req'[t][d].outcome = "none"
        /\ req'[t][d].body = None
    <3>1. req'[t][d] = SendOf(store[d])
      BY <1>1, <2>1
    <3> QED
      BY <3>1 DEF SendOf
  <2>6. store[d].rev \in Nat
    BY <2>1, OrderNumbers
  <2>7. RequestInOrder(t, d)'
    BY <1>1, <2>1, <2>3, <2>5, <2>6 DEF RequestInOrder
  <2>8. RequestAgrees(t, d)'
    BY <1>1, <2>1, <2>4, <2>5 DEF RequestAgrees, OfHere, Present
  <2> QED
    BY <2>7, <2>8
<1>7. \A d \in Docs, u \in Tabs : RequestInOrder(u, d)' /\ RequestAgrees(u, d)'
  <2> TAKE d \in Docs, u \in Tabs
  <2>1. req'[u][d] \in {req[u][d], None} \/ (u = t /\ d \in Sendable)
    BY <1>1
  <2> QED
    BY <1>5, <1>6, <2>1
<1>8. \A d \in Docs : StoreInOrder(d)' /\ StoreOfHere(d)'
  BY <1>1, <1>2, StoreOfHereStep DEF OrderInv, StoreInOrder, Present
<1>9. \A w \in Callers : CallOfHere(w)'
  BY <1>1 DEF AgreeInv, CallOfHere, OfHere
<1>10. Upsert = TRUE => Converged'
  BY <1>1, <1>2, <1>4, ConvergedStep DEF AgreeInv
<1> QED
  BY <1>1, <1>7, <1>8, <1>9, <1>10 DEF OrderInv, AgreeInv

\* The server takes the write, if it does, of the only request that is out.
LEMMA ReceivedAgrees ==
  ASSUME Typed, Typed', Alone, OrderInv, AgreeInv, UNCHANGED <<callVars, raced>>,
         NEW t \in Tabs, NEW d \in Docs, Received(t, d)
  PROVE  OrderInv' /\ AgreeInv' /\ \A c \in Docs : served'[c] >= served[c]
<1> DEFINE r == req[t][d]
           h == Handle(server[d], r.op, r.val)
<1>1. /\ r # None /\ r.pc = "sent" /\ r.op \in Ops /\ Serve(d, r.op, r.rev, r.val)
      /\ UNCHANGED <<store, clock, call, made, abandoned, raced>>
  BY DEF Received, InState, callVars, localVars
<1>2. PICK body \in {h.body, None} : Answer(t, d, h.outcome, body)
  BY DEF Received
<1>3. r \in Request /\ r.rev \in Nat
  BY <1>1, RequestType DEF Typed, TypeOK, Request
<1> DEFINE s == [r EXCEPT !.pc = "replied", !.outcome = h.outcome, !.body = body]
<1>4. /\ req'[t][d] = s
      /\ \A u \in Tabs, c \in Docs : <<u, c>> # <<t, d>> => req'[u][c] = req[u][c]
  <2>1. req' = [req EXCEPT ![t][d] = s]
    BY <1>2 DEF Answer, Typed, TypeOK, DrainTypeOK
  <2> QED
    BY <2>1 DEF Typed, TypeOK, DrainTypeOK
<1>5. /\ s.pc = "replied" /\ s.outcome = h.outcome /\ s.body = body
      /\ s.op = r.op /\ s.rev = r.rev /\ s.val = r.val
  BY <1>3 DEF Request
<1>6. /\ \A c \in Docs \ {d} : server'[c] = server[c] /\ served'[c] = served[c]
      /\ h.outcome = "ok" => server'[d] = h.row /\ served'[d] = r.rev
      /\ h.outcome # "ok" => server'[d] = server[d] /\ served'[d] = served[d]
  BY <1>1 DEF Serve, Typed, TypeOK, BackendTypeOK
<1>a. h = Handle(server[d], r.op, r.val)
  OBVIOUS
<1> HIDE DEF r, h, s
<1>7. /\ h.outcome = "ok" => h.row = ResultOf(r)
      /\ h.body \in {None, r.val}
      /\ h.outcome = "applied" => Upsert # TRUE
  <2>1. r.op \in Ops
    BY <1>1
  <2>2. /\ h.outcome = "ok" => h.row = IF r.op = "delete" THEN None ELSE r.val
        /\ h.body \in {None, r.val}
        /\ h.outcome = "applied" => Upsert # TRUE
    BY ONLY <2>1, <1>a, HandleAgrees
  <2> QED
    BY <2>2 DEF ResultOf
<1>8. /\ r.rev # 0 /\ r.rev <= clock /\ served[d] <= r.rev
      /\ Present(d) /\ store[d].rev # 0 => r.rev <= store[d].rev
  BY <1>1 DEF OrderInv, RequestInOrder, r
<1>9. \A u \in Tabs \ {t} : req[u][d] = None
  BY <1>1, OneRequestOnly DEF r
<1>10. served'[d] \in {served[d], r.rev} /\ served'[d] <= r.rev /\ served[d] <= served'[d]
  <2>1. served[d] \in Nat
    BY OrderNumbers
  <2> QED
    BY <1>3, <1>6, <1>8, <2>1
<1>11. \A c \in Docs : StoreInOrder(c)'
  <2> TAKE c \in Docs
  <2>1. StoreInOrder(c) /\ clock \in Nat /\ (Present(c) => store[c].rev \in Nat)
    BY OrderNumbers DEF OrderInv
  <2>2. CASE c = d
    BY <1>1, <1>3, <1>8, <1>10, <2>1, <2>2 DEF StoreInOrder, Present
  <2>3. CASE c # d
    BY <1>1, <1>6, <2>1, <2>3 DEF StoreInOrder, Present
  <2> QED
    BY <2>2, <2>3
<1>12. \A u \in Tabs, c \in Docs : RequestInOrder(u, c)' /\ RequestAgrees(u, c)'
  <2> TAKE u \in Tabs, c \in Docs
  <2>1. RequestInOrder(u, c) /\ RequestAgrees(u, c)
    BY DEF OrderInv, AgreeInv
  <2>2. CASE u = t /\ c = d
    <3>1. RequestInOrder(u, c)'
      BY <1>1, <1>4, <1>5, <1>8, <1>10, <2>1, <2>2 DEF RequestInOrder, Present, r
    <3>2. RequestAgrees(u, c)'
      BY <1>1, <1>2, <1>4, <1>5, <1>6, <1>7, <2>1, <2>2
      DEF RequestAgrees, OfHere, Clean, Present, ResultOf, r
    <3> QED
      BY <3>1, <3>2
  <2>3. CASE c = d /\ u # t
    BY <1>4, <1>9, <2>3 DEF RequestInOrder, RequestAgrees
  <2>4. CASE c # d
    BY <1>1, <1>4, <1>6, <2>1, <2>4 DEF RequestInOrder, RequestAgrees, OfHere, Clean, Present, ResultOf
  <2> QED
    BY <2>2, <2>3, <2>4
<1>13. \A c \in Docs : StoreOfHere(c)'
  BY <1>1 DEF AgreeInv, StoreOfHere, OfHere, Present
<1>14. \A w \in Callers : CallOfHere(w)'
  BY <1>1 DEF AgreeInv, CallOfHere, OfHere
<1>15. Upsert = TRUE => Converged'
  <2>1. Clean(d) => Present(d) /\ store[d].sync # "synced"
    BY <1>1 DEF AgreeInv, RequestAgrees, Owes, r
  <2> QED
    BY <1>1, <1>6, <2>1 DEF AgreeInv, Converged, Clean, Present
<1>16. \A c \in Docs : served'[c] >= served[c]
  <2> TAKE c \in Docs
  <2>1. served[c] \in Nat
    BY OrderNumbers
  <2>2. CASE c = d
    BY <1>3, <1>10, <2>1, <2>2
  <2>3. CASE c # d
    BY <1>6, <2>1, <2>3
  <2> QED
    BY <2>2, <2>3
<1> QED
  BY <1>11, <1>12, <1>13, <1>14, <1>15, <1>16 DEF OrderInv, AgreeInv

LEMMA QuietAgrees ==
  ASSUME Typed, Typed', OrderInv, AgreeInv, UNCHANGED <<callVars, raced, clock, server, served>>,
         Moves, Carrying
  PROVE  OrderInv' /\ AgreeInv'
<1>1. clock \in Nat
  BY DEF Typed, TypeOK, LocalTypeOK
<1>2. Passes
  BY <1>1 DEF Passes, callVars
<1>3. call' = call
  BY DEF callVars
<1> QED
  BY <1>2, <1>3, AgreeStep

LEMMA CloseCarries ==
  ASSUME Typed, OrderInv, NEW t \in Tabs, NEW d \in Docs, Close(t, d)
  PROVE  /\ Carrying
         /\ \A u \in Tabs, c \in Docs : req'[u][c] = IF u = t /\ c = d THEN None ELSE req[u][c]
<1>1. \A u \in Tabs, c \in Docs : req'[u][c] = IF u = t /\ c = d THEN None ELSE req[u][c]
  BY DEF Close, Typed, TypeOK, DrainTypeOK
<1> QED
  BY <1>1, CarriesSame DEF Carrying

\* One request changes.
LEMMA CarriesOne ==
  ASSUME OrderInv, NEW t \in Tabs, NEW d \in Docs, Carries(t, d),
         \A u \in Tabs, c \in Docs : <<u, c>> # <<t, d>> => req'[u][c] = req[u][c]
  PROVE  Carrying
<1>1. \A u \in Tabs, c \in Docs : <<u, c>> # <<t, d>> => Carries(u, c)
  BY CarriesSame
<1> QED
  BY <1>1 DEF Carrying

LEMMA DeferMoves ==
  ASSUME LocalTypeOK, NEW d \in Docs, Defer(d), made' = made
  PROVE  Moves
<1> DEFINE doc == [store[d] EXCEPT !.due = FALSE]
<1>1. ASSUME Present(d)
      PROVE  /\ doc \in Document /\ doc.rev = store[d].rev /\ doc.val = store[d].val
             /\ doc.routed = store[d].routed /\ (Owes(doc) <=> Owes(store[d]))
  <2>1. store[d] \in Document
    BY <1>1, PresentType
  <2> QED
    BY <2>1 DEF Document, Owes
<1>2. UpdateOne(d, doc)
  BY DEF Defer
<1> HIDE DEF doc
<1> QED
  BY <1>1, <1>2, UpdateMoves

LEMMA CheckAgrees ==
  ASSUME Typed, Typed', OrderInv, AgreeInv, UNCHANGED <<callVars, raced>>,
         NEW t \in Tabs, NEW d \in Docs, Check(t, d)
  PROVE  OrderInv' /\ AgreeInv'
<1>1. /\ req[t][d] # None /\ req[t][d].pc = "replied"
      /\ UNCHANGED <<store, made, clock, server, served>>
  BY DEF Check, InState, localVars, serverVars, callVars
<1>2. CASE Superseded(t, d)
  <2>1. Close(t, d)
    BY <1>2 DEF Check
  <2> QED
    BY <1>1, <2>1, CloseCarries, NothingMoves, QuietAgrees
<1>3. CASE ~ Superseded(t, d)
  <2> DEFINE r == [req[t][d] EXCEPT !.pc = "checked", !.seen = store[d]]
  <2>1. req[t][d] \in Request /\ req' = [req EXCEPT ![t][d] = r]
    BY <1>1, <1>3, RequestType DEF Check, Typed, TypeOK, DrainTypeOK
  <2>2. /\ req'[t][d] = r
        /\ \A u \in Tabs, c \in Docs : <<u, c>> # <<t, d>> => req'[u][c] = req[u][c]
    BY <2>1 DEF Typed, TypeOK, DrainTypeOK
  <2>3. /\ r.op = req[t][d].op /\ r.rev = req[t][d].rev /\ r.val = req[t][d].val
        /\ r.outcome = req[t][d].outcome /\ r.body = req[t][d].body
        /\ r.seen = store[d]
    BY <2>1 DEF Request
  <2>4. store[d].routed /\ store[d].val = req[t][d].val
    BY <1>1, <1>3 DEF Superseded, OrderInv, RequestInOrder
  <2> HIDE DEF r
  <2>5. Carries(t, d)
    BY <1>1, <2>2, <2>3, <2>4 DEF Carries
  <2> QED
    BY <1>1, <2>2, <2>5, CarriesOne, NothingMoves, QuietAgrees
<1> QED
  BY <1>2, <1>3

LEMMA RefusedAgrees ==
  ASSUME Typed, Typed', OrderInv, AgreeInv, UNCHANGED <<callVars, raced>>,
         NEW t \in Tabs, NEW d \in Docs, NEW outcome \in {"retry", "terminal"},
         Refused(t, d, outcome)
  PROVE  OrderInv' /\ AgreeInv'
<1> DEFINE r == [req[t][d] EXCEPT !.pc = "replied", !.outcome = outcome, !.body = None]
<1>1. /\ req[t][d] # None /\ Answer(t, d, outcome, None)
      /\ UNCHANGED <<store, made, clock, server, served>>
  BY DEF Refused, InState, localVars, serverVars, callVars
<1>2. req[t][d] \in Request /\ req' = [req EXCEPT ![t][d] = r]
  <2>1. req[t][d] \in Request
    BY <1>1, RequestType DEF Typed, TypeOK
  <2>2. req' = [req EXCEPT ![t][d] = r]
    BY <1>1 DEF Answer, Typed, TypeOK, DrainTypeOK
  <2> QED
    BY <2>1, <2>2
<1>3. /\ req'[t][d] = r
      /\ \A u \in Tabs, c \in Docs : <<u, c>> # <<t, d>> => req'[u][c] = req[u][c]
  BY <1>2 DEF Typed, TypeOK, DrainTypeOK
<1>4. /\ r.op = req[t][d].op /\ r.rev = req[t][d].rev /\ r.val = req[t][d].val
      /\ r.pc = "replied" /\ r.outcome = outcome /\ r.body = None
  BY <1>2 DEF Request
<1> HIDE DEF r
<1>5. Carries(t, d)
  BY <1>1, <1>3, <1>4 DEF Carries
<1> QED
  BY <1>1, <1>3, <1>5, CarriesOne, NothingMoves, QuietAgrees

\* What the server said is what the document becomes.
LEMMA SettleAgrees ==
  ASSUME Typed, Typed', Alone, OrderInv, AgreeInv, UNCHANGED <<callVars, raced>>,
         NEW t \in Tabs, NEW d \in Docs, Settle(t, d)
  PROVE  OrderInv' /\ AgreeInv'
<1>1. /\ req[t][d] # None /\ req[t][d].pc = "checked" /\ Close(t, d)
      /\ UNCHANGED <<made, clock, server, served>>
      /\ Settled(t, d) \/ Failed(t, d) \/ Deferred(t, d)
  BY DEF Settle, InState, serverVars, callVars
<1>2. LocalTypeOK /\ store \in [Docs -> Document \cup {None}]
  BY DEF Typed, TypeOK, LocalTypeOK
<1>3. Carrying /\ \A u \in Tabs : req'[u][d] = None
  <2>1. \A u \in Tabs \ {t} : req[u][d] = None
    BY <1>1, OneRequestOnly
  <2> QED
    BY <1>1, <2>1, CloseCarries
<1>4. RequestInOrder(t, d) /\ RequestAgrees(t, d)
  BY DEF OrderInv, AgreeInv
<1>5. made[d] # {} /\ OfHere(d, req[t][d].val)
  BY <1>1, <1>4 DEF RequestAgrees, OfHere
<1>6. ASSUME NEW doc, UpdateOne(d, doc),
             Present(d) => /\ doc \in Document
                           /\ doc.rev = store[d].rev /\ doc.val = store[d].val
                           /\ doc.routed = store[d].routed /\ Owes(doc)
      PROVE  Moves
  BY <1>1, <1>2, <1>5, <1>6, UpdateMoves
<1>7. CASE Failed(t, d)
  <2> DEFINE doc == [store[d] EXCEPT !.sync = "failed"]
  <2>1. ASSUME Present(d)
        PROVE  /\ doc \in Document /\ doc.rev = store[d].rev /\ doc.val = store[d].val
               /\ doc.routed = store[d].routed /\ Owes(doc)
    <3>1. store[d] \in Document
      BY <1>2, <2>1, PresentType
    <3> QED
      BY <3>1 DEF Document, Owes
  <2>2. UpdateOne(d, doc)
    BY <1>7 DEF Failed
  <2> HIDE DEF doc
  <2>3. Moves
    BY <1>6, <2>1, <2>2
  <2> QED
    BY <1>1, <1>3, <2>3, QuietAgrees
<1>8. CASE Deferred(t, d)
  BY <1>1, <1>2, <1>3, <1>8, DeferMoves, QuietAgrees DEF Deferred
<1>9. CASE Settled(t, d)
  <2>1. Upsert = TRUE => req[t][d].outcome = "ok"
    BY <1>1, <1>4, <1>9 DEF Settled, RequestAgrees
  <2>2. Upsert = TRUE => server[d] = ResultOf(req[t][d])
    BY <1>1, <1>4, <2>1 DEF RequestAgrees
  <2>3. CASE req[t][d].op = "delete"
    <3>1. DeleteOne(d)
      BY <1>9, <2>3 DEF Settled
    <3>2. store'[d] = None /\ \A c \in Docs \ {d} : store'[c] = store[c]
      BY <1>2, <3>1 DEF DeleteOne
    <3>3. Replaced(d)
      BY <1>1, <1>3, <1>5, <2>2, <2>3, <3>2 DEF Replaced, Present, ResultOf
    <3>4. Moves
      BY <1>1, <3>2, <3>3, MovesOne
    <3> QED
      BY <1>1, <1>3, <3>4, QuietAgrees
  <2>4. CASE req[t][d].op # "delete"
    <3> DEFINE doc == Canonical(d, req[t][d].seen, req[t][d].val)
    <3>1. req[t][d].seen.routed /\ req[t][d].seen.val = req[t][d].val
      BY <1>1, <1>4 DEF RequestInOrder
    <3>2. (IF req[t][d].body = None THEN req[t][d].seen.val ELSE req[t][d].body) = req[t][d].val
      BY <1>1, <1>4, <3>1 DEF RequestAgrees
    <3>3. req[t][d].seen # None
      BY <1>1, NoneAssumption DEF Typed, ReadsAreThere, DrainRead, InState
    <3>4. UpdateOne(d, doc)
      BY <1>9, <2>4, <3>2, <3>3 DEF Settled, ApplyCanonical
    <3>5. doc.rev = 0 /\ doc.val = req[t][d].val /\ doc.routed = FALSE /\ doc.sync = "synced"
      BY <3>1 DEF Canonical, StampSynced
    <3> HIDE DEF doc
    <3>6. CASE Present(d)
      <4>1. store'[d] = doc /\ \A c \in Docs \ {d} : store'[c] = store[c]
        BY <1>2, <3>4, <3>6 DEF UpdateOne
      <4>2. OfHere(d, store'[d].val) /\ ~ Owes(store'[d])
        BY <1>5, <3>5, <4>1 DEF Owes
      <4>3. Upsert = TRUE => server[d] = req[t][d].val
        BY <2>2, <2>4 DEF ResultOf
      <4>4. Present(d)'
        <5>1. Canonical(d, req[t][d].seen, req[t][d].val) \in Document
          <6>1. req[t][d].seen \in Document /\ req[t][d].val \in Content
            BY <1>1, RequestType DEF Typed, TypeOK, ReadsAreThere, DrainRead, InState, Request
          <6> QED
            BY <1>2, <3>6, <6>1, CanonicalType
        <5> QED
          BY <4>1, <5>1, NoneAssumption DEF Present, doc
      <4>5. Replaced(d)
        BY <1>1, <1>3, <1>5, <3>5, <4>1, <4>2, <4>3, <4>4 DEF Replaced
      <4>6. Moves
        BY <1>1, <4>1, <4>5, MovesOne
      <4> QED
        BY <1>1, <1>3, <4>6, QuietAgrees
    <3>7. CASE ~ Present(d)
      <4>1. Moves
        BY <1>1, <3>4, <3>7, NothingMoves DEF UpdateOne
      <4> QED
        BY <1>1, <1>3, <4>1, QuietAgrees
    <3> QED
      BY <3>6, <3>7
  <2> QED
    BY <2>3, <2>4
<1> QED
  BY <1>1, <1>7, <1>8, <1>9

LEMMA DrainsAgree ==
  ASSUME Undisturbed, Typed, Typed', Alone, OrderInv, AgreeInv, Drains
  PROVE  OrderInv' /\ AgreeInv' /\ \A d \in Docs : served'[d] >= served[d]
<1>1. DrainStep /\ UNCHANGED <<callVars, raced>> /\ made' = made
  BY NoRaces DEF Drains, callVars
<1>2. served' = served => \A d \in Docs : served'[d] >= served[d]
  BY OrderNumbers
<1>3. ASSUME NEW t \in Tabs, Begin(t) \/ End(t) \/ OwnershipMoves(t)
      PROVE  OrderInv' /\ AgreeInv' /\ served' = served
  <2>1. UNCHANGED <<store, clock, server, served, req>>
    BY <1>3 DEF Begin, End, OwnershipMoves, localVars, serverVars
  <2>2. Carrying
    BY <2>1, CarriesSame DEF Carrying
  <2> QED
    BY <1>1, <2>1, <2>2, NothingMoves, QuietAgrees
<1>4. ASSUME NEW t \in Tabs, Reload(t) PROVE OrderInv' /\ AgreeInv' /\ served' = served
  <2>1. UNCHANGED <<store, clock, server, served>> /\ req' = [req EXCEPT ![t] = NoRequests]
    BY <1>4 DEF Reload, localVars
  <2>2. \A u \in Tabs, c \in Docs : req'[u][c] \in {req[u][c], None}
    BY <2>1 DEF NoRequests, Typed, TypeOK, DrainTypeOK
  <2>3. Carrying
    BY <2>2, CarriesSame DEF Carrying
  <2> QED
    BY <1>1, <2>1, <2>3, NothingMoves, QuietAgrees
<1>5. ASSUME NEW t \in Tabs, NEW d \in Docs, TransportFailure(t, d)
      PROVE  OrderInv' /\ AgreeInv' /\ served' = served
  <2>1. UNCHANGED <<clock, server, served>> /\ Close(t, d) /\ Defer(d)
    BY <1>5 DEF TransportFailure
  <2>2. Moves
    BY <1>1, <2>1, DeferMoves DEF Typed, TypeOK
  <2> QED
    BY <1>1, <2>1, <2>2, CloseCarries, QuietAgrees
<1>6. ASSUME NEW d \in Docs, BackoffElapses(d) PROVE OrderInv' /\ AgreeInv' /\ served' = served
  <2> DEFINE doc == [store[d] EXCEPT !.due = TRUE]
  <2>1. /\ Present(d) /\ store' = [store EXCEPT ![d].due = TRUE]
        /\ UNCHANGED <<clock, server, served, req>>
    BY <1>6 DEF BackoffElapses, serverVars, drainVars
  <2>2. store[d] \in Document /\ store \in [Docs -> Document \cup {None}]
    BY <2>1, PresentType DEF Typed, TypeOK, LocalTypeOK
  <2>3. /\ doc \in Document /\ doc.rev = store[d].rev /\ doc.val = store[d].val
        /\ doc.routed = store[d].routed /\ (Owes(doc) <=> Owes(store[d]))
    BY <2>2 DEF Document, Owes
  <2>4. store'[d] = doc /\ \A c \in Docs \ {d} : store'[c] = store[c]
    BY <2>1, <2>2
  <2> HIDE DEF doc
  <2>5. Still(d)
    BY <1>1, <2>1, <2>3, <2>4, NoneAssumption DEF Still, Held, Present
  <2>6. Moves
    BY <1>1, <2>4, <2>5, MovesOne
  <2>7. Carrying
    BY <2>1, CarriesSame DEF Carrying
  <2> QED
    BY <1>1, <2>1, <2>6, <2>7, QuietAgrees
<1>7. ASSUME NEW t \in Tabs, NEW d \in Docs,
             Check(t, d) \/ Settle(t, d) \/ \E outcome \in {"retry", "terminal"} : Refused(t, d, outcome)
      PROVE  OrderInv' /\ AgreeInv' /\ served' = served
  <2>1. served' = served
    BY <1>7 DEF Check, Settle, Refused, serverVars
  <2> QED
    BY <1>1, <1>7, <2>1, CheckAgrees, SettleAgrees, RefusedAgrees
<1>8. ASSUME NEW t \in Tabs, NEW d \in Docs, Received(t, d)
      PROVE  OrderInv' /\ AgreeInv' /\ \A c \in Docs : served'[c] >= served[c]
  BY <1>1, <1>8, ReceivedAgrees
<1>9. ASSUME NEW t \in Tabs, Select(t) PROVE OrderInv' /\ AgreeInv' /\ served' = served
  BY <1>1, <1>9, SelectAgrees
<1> QED
  BY <1>1, <1>2, <1>3, <1>4, <1>5, <1>6, <1>7, <1>8, <1>9 DEF DrainStep

AgreeTyped == Typed /\ Alone /\ OrderInv /\ AgreeInv

LEMMA AgreeInit == Init => AgreeTyped
<1> SUFFICES ASSUME Init PROVE AgreeTyped
  OBVIOUS
<1>1. Typed /\ Alone
  BY InitTyped, AloneInit
<1>2. /\ \A d \in Docs : made[d] = {} /\ served[d] = 0
      /\ \A t \in Tabs, d \in Docs : req[t][d] = None
      /\ \A w \in Callers : call[w] = None
      /\ clock = 0 /\ store \in [Docs -> Synced \cup {None}]
  BY DEF Init, LocalInit, BackendInit, WritesInit, DrainInit, NoRequests
<1>3. \A d \in Docs : Present(d) => store[d] = StampSynced({})
  BY <1>2 DEF Present, Synced
<1>4. OrderInv
  BY <1>2, <1>3 DEF OrderInv, StoreInOrder, RequestInOrder, StampSynced
<1>5. AgreeInv
  BY <1>2, <1>3 DEF AgreeInv, StoreOfHere, RequestAgrees, CallOfHere, Converged, StampSynced, Owes
<1> QED
  BY <1>1, <1>4, <1>5 DEF AgreeTyped

LEMMA AgreeNext ==
  ASSUME Undisturbed, AgreeTyped, [Next]_vars
  PROVE  AgreeTyped' /\ [\A d \in Docs : served'[d] >= served[d]]_vars
<1>1. Typed /\ Typed' /\ Alone /\ Alone' /\ OrderInv /\ AgreeInv
  BY NextTyped, AloneNext DEF AgreeTyped
<1>2. CASE UNCHANGED vars
  <2>1. UNCHANGED <<callVars, raced, clock, server, served, store, made, req>>
    BY <1>2 DEF vars, callVars, localVars, serverVars, drainVars
  <2>2. Carrying
    BY <1>1, <2>1, CarriesSame DEF Carrying
  <2> QED
    BY <1>1, <1>2, <2>1, <2>2, NothingMoves, QuietAgrees DEF AgreeTyped
<1>3. CASE Writes
  <2>1. \A d \in Docs : served'[d] >= served[d]
    BY <1>1, <1>3, OrderNumbers DEF Writes, serverVars
  <2> QED
    BY <1>1, <1>3, <2>1, WritesAgree DEF AgreeTyped
<1>4. CASE Drains
  BY <1>1, <1>4, DrainsAgree DEF AgreeTyped
<1> QED
  BY <1>1, <1>2, <1>3, <1>4, AloneActs

\* The server takes the writes of a document in the order they were made,
\* through edits during flight, lost replies, retries and reloads, while one tab
\* drains and the queue alone writes (one sendOne a document, drain.ts).
THEOREM QueueKeepsOrder == Undisturbed => (Spec => PerDocumentOrder)
<1> SUFFICES ASSUME Undisturbed PROVE Spec => PerDocumentOrder
  OBVIOUS
<1>1. Init => AgreeTyped
  BY AgreeInit
<1>2. AgreeTyped /\ [Next]_vars => AgreeTyped' /\ [\A d \in Docs : served'[d] >= served[d]]_vars
  BY AgreeNext
<1> QED
  BY <1>1, <1>2, PTL DEF Spec, PerDocumentOrder

\* Device and server agree on a document that the queue has let go of, if no
\* edit of it was given up or fell into a window, and the server upserts.
THEOREM DevicesConverge == Undisturbed /\ Upsert = TRUE => (Spec => []Converged)
<1> SUFFICES ASSUME Undisturbed, Upsert = TRUE PROVE Spec => []Converged
  OBVIOUS
<1>1. Init => AgreeTyped
  BY AgreeInit
<1>2. AgreeTyped /\ [Next]_vars => AgreeTyped'
  BY AgreeNext
<1>3. AgreeTyped => Converged
  BY DEF AgreeTyped, AgreeInv
<1> QED
  BY <1>1, <1>2, <1>3, PTL DEF Spec
=============================================================================
