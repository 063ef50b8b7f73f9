-------------------------- MODULE WriteQueueProofs --------------------------
(***************************************************************************)
(* What the write path keeps for any number of documents, callers, tabs    *)
(* and edits.                                                              *)
(***************************************************************************)
EXTENDS WriteQueue, FiniteSetTheorems, TLAPS

(***************************************************************************)
(* Types of the pure functions and of the store's operations.              *)
(***************************************************************************)
LEMMA DocsSize == IsFiniteSet(Docs) /\ Cardinality(Docs) \in Nat
BY DocsAssumption, FS_CardinalityType

LEMMA EditForType == ASSUME NEW n \in Nat, NEW op PROVE EditFor(n, op) \in Edit
BY DEF EditFor, Edit

LEMMA StampSyncedType ==
  ASSUME NEW val \in Content PROVE StampSynced(val) \in Document
BY DEF StampSynced, Document

LEMMA StampPendingType ==
  ASSUME NEW op \in Ops \cup {NoOp}, NEW rev \in Nat, NEW val \in Content,
         NEW routed \in BOOLEAN
  PROVE  StampPending(op, rev, val, routed) \in Document
BY DEF StampPending, Document

LEMMA CoalesceType ==
  ASSUME NEW pending \in Ops \cup {NoOp}, NEW next \in Ops
  PROVE  Coalesce(pending, next) \in Ops \cup {NoOp, Cancel}
BY DEF Coalesce, Ops, NoOp, Cancel

LEMMA PendingOpType ==
  ASSUME NEW doc \in Document PROVE PendingOp(doc) \in Ops \cup {NoOp}
BY DEF PendingOp, Document

LEMMA TouchType ==
  ASSUME LocalTypeOK, NEW d \in Docs, Touch(d) PROVE rank' \in [Docs -> Nat]
BY DocsSize DEF LocalTypeOK, Touch

LEMMA InsertType ==
  ASSUME LocalTypeOK, NEW d \in Docs, NEW doc \in Document, InsertOne(d, doc), clock' \in Nat
  PROVE  LocalTypeOK'
BY TouchType DEF LocalTypeOK, InsertOne

LEMMA UpdateType ==
  ASSUME LocalTypeOK, NEW d \in Docs, NEW doc, Present(d) => doc \in Document,
         UpdateOne(d, doc), clock' \in Nat
  PROVE  LocalTypeOK'
BY TouchType DEF LocalTypeOK, UpdateOne

LEMMA DeleteType ==
  ASSUME LocalTypeOK, NEW d \in Docs, DeleteOne(d), clock' \in Nat
  PROVE  LocalTypeOK'
BY DEF LocalTypeOK, DeleteOne

LEMMA PresentType ==
  ASSUME LocalTypeOK, NEW d \in Docs, Present(d) PROVE store[d] \in Document
BY DEF LocalTypeOK, Present

LEMMA CanonicalType ==
  ASSUME LocalTypeOK, NEW d \in Docs, Present(d), NEW seen \in Document, NEW val \in Content
  PROVE  Canonical(d, seen, val) \in Document
BY PresentType, StampSyncedType DEF Canonical, StampSynced, Document

LEMMA ApplyType ==
  ASSUME LocalTypeOK, NEW d \in Docs, NEW seen \in Document \cup {None},
         NEW val \in Content, ApplyCanonical(d, seen, val), clock' \in Nat
  PROVE  LocalTypeOK'
<1>1. CASE seen # None
  BY <1>1, CanonicalType, UpdateType DEF ApplyCanonical
<1>2. CASE seen = None /\ Present(d)
  BY <1>2 DEF ApplyCanonical, LocalTypeOK
<1>3. CASE seen = None /\ ~ Present(d)
  BY <1>3, StampSyncedType, InsertType DEF ApplyCanonical
<1> QED BY <1>1, <1>2, <1>3

(***************************************************************************)
(* Types of the backend's operations.                                      *)
(***************************************************************************)
LEMMA HandleType ==
  ASSUME NEW row \in {None} \cup Content, NEW op, NEW val \in Content
  PROVE  /\ Handle(row, op, val).row \in {None} \cup Content
         /\ Handle(row, op, val).body \in {None} \cup Content
         /\ Handle(row, op, val).outcome \in Outcomes
BY BackendAssumption DEF Handle, Reply, Outcomes

LEMMA ServeType ==
  ASSUME BackendTypeOK, NEW d \in Docs, NEW op, NEW rev \in Nat, NEW val \in Content,
         Serve(d, op, rev, val), stray' \in [Docs -> SUBSET Message]
  PROVE  BackendTypeOK'
<1>1. Handle(server[d], op, val).row \in {None} \cup Content
  BY HandleType DEF BackendTypeOK
<1>2. Carried(op, val) \in Content
  BY DEF Carried, Content
<1> QED
  BY <1>1, <1>2 DEF BackendTypeOK, Serve, Content

(***************************************************************************)
(* Every component's steps keep the types.                                 *)
(***************************************************************************)
LEMMA LocalWriteTypes ==
  ASSUME LocalTypeOK, WritesTypeOK, LocalWriteStep
  PROVE  LocalTypeOK' /\ WritesTypeOK'
<1> USE WritesAssumption
<1>1. ASSUME NEW d \in Docs, NEW routed \in Routes, Insert(d, routed)
      PROVE  LocalTypeOK' /\ WritesTypeOK'
  <2> DEFINE edit == EditFor(clock + 1, "insert")
  <2>1. clock \in Nat /\ clock' = clock + 1 /\ clock' \in Nat
    BY <1>1 DEF Insert, LocalTypeOK
  <2>2. edit \in Edit
    BY <2>1, EditForType
  <2>3. StampPending("insert", clock + 1, {edit}, routed) \in Document
    BY <2>1, <2>2, StampPendingType DEF Content, Ops
  <2>4. LocalTypeOK'
    BY <1>1, <2>1, <2>3, InsertType DEF Insert
  <2> QED
    BY <1>1, <2>2, <2>4 DEF Insert, WritesTypeOK, Content
<1>2. ASSUME NEW w \in Callers, NEW d \in Docs, NEW kind \in {"update", "delete"},
             NEW routed \in Routes, FindExisting(w, d, kind, routed)
      PROVE  LocalTypeOK' /\ WritesTypeOK'
  <2>1. store[d] \in Document
    BY <1>2, PresentType DEF FindExisting
  <2>2. Coalesce(PendingOp(store[d]), kind) \in Ops \cup {NoOp, Cancel}
    BY <2>1, PendingOpType, CoalesceType DEF Ops
  <2> QED
    BY <1>2, <2>1, <2>2 DEF FindExisting, LocalTypeOK, WritesTypeOK, localVars, Call
<1>3. ASSUME NEW w \in Callers, NEW d \in Docs, NEW kind \in {"retry", "discard"},
             Decide(w, d, kind)
      PROVE  LocalTypeOK' /\ WritesTypeOK'
  <2>1. store[d] \in Document
    BY <1>3, PresentType DEF Decide
  <2> QED
    BY <1>3, <2>1 DEF Decide, LocalTypeOK, WritesTypeOK, localVars, Call
<1>4. ASSUME NEW w \in Callers, CommitWrite(w) PROVE LocalTypeOK' /\ WritesTypeOK'
  <2> DEFINE d    == call[w].doc
             edit == EditFor(clock + 1, call[w].kind)
             doc  == StampPending(call[w].next, clock + 1, store[d].val \cup {edit},
                                  call[w].routed)
  <2>1. call[w] \in Call /\ call[w].next # Cancel
    BY <1>4 DEF CommitWrite, Committable, WritesTypeOK
  <2>2. clock \in Nat /\ clock' = clock + 1 /\ clock' \in Nat
    BY <1>4 DEF CommitWrite, LocalTypeOK
  <2>3. edit \in Edit
    BY <2>2, EditForType
  <2>4. d \in Docs /\ call[w].next \in Ops \cup {NoOp} /\ call[w].routed \in BOOLEAN
    BY <2>1 DEF Call
  <2>5. ASSUME Present(d) PROVE doc \in Document
    <3>1. store[d].val \cup {edit} \in Content
      BY <2>3, <2>4, <2>5, PresentType DEF Document, Content
    <3> QED BY <2>2, <2>4, <3>1, StampPendingType
  <2>6. LocalTypeOK'
    BY <1>4, <2>2, <2>4, <2>5, UpdateType DEF CommitWrite
  <2>7. made' \in [Docs -> Content]
    BY <1>4, <2>3, <2>4 DEF CommitWrite, WritesTypeOK, Content
  <2> QED
    BY <1>4, <2>6, <2>7 DEF CommitWrite, Finish, WritesTypeOK
<1>5. ASSUME NEW w \in Callers, CancelInsert(w) PROVE LocalTypeOK' /\ WritesTypeOK'
  <2>1. call[w] \in Call
    BY <1>5 DEF CancelInsert, WritesTypeOK
  <2>2. call[w].doc \in Docs /\ call[w].seen.val \in Content
    BY <2>1 DEF Call, Document
  <2>3. LocalTypeOK'
    BY <1>5, <2>2, DeleteType DEF CancelInsert, LocalTypeOK
  <2> QED
    BY <1>5, <2>2, <2>3 DEF CancelInsert, Finish, WritesTypeOK, Content
<1>6. ASSUME NEW w \in Callers, Retry(w) PROVE LocalTypeOK' /\ WritesTypeOK'
  <2> DEFINE d == call[w].doc
  <2>1. d \in Docs
    BY <1>6 DEF Retry, WritesTypeOK, Call
  <2>2. Present(d) => [store[d] EXCEPT !.sync = "pending", !.due = TRUE] \in Document
    BY <2>1, PresentType DEF Document
  <2>3. LocalTypeOK'
    BY <1>6, <2>1, <2>2, UpdateType DEF Retry, LocalTypeOK
  <2> QED
    BY <1>6, <2>3 DEF Retry, Finish, WritesTypeOK
<1>7. ASSUME NEW w \in Callers, FindDiscarded(w) PROVE LocalTypeOK' /\ WritesTypeOK'
  <2> DEFINE d == call[w].doc
  <2>1. call[w] \in Call /\ d \in Docs
    BY <1>7 DEF FindDiscarded, WritesTypeOK, Call
  <2>2. CASE Present(d)
    <3>1. store[d] \in Document
      BY <2>1, <2>2, PresentType
    <3>2. [call[w] EXCEPT !.kind = "drop", !.seen = store[d],
                          !.next = IF store[d].op = "insert" THEN Cancel ELSE NoOp] \in Call
      BY <2>1, <3>1 DEF Call
    <3> QED
      BY <1>7, <2>2, <3>2 DEF FindDiscarded, LocalTypeOK, WritesTypeOK, localVars
  <2>3. CASE ~ Present(d)
    BY <1>7, <2>3 DEF FindDiscarded, Finish, LocalTypeOK, WritesTypeOK, localVars
  <2> QED BY <2>2, <2>3
<1>8. ASSUME NEW w \in Callers, Discard(w) PROVE LocalTypeOK' /\ WritesTypeOK'
  <2> DEFINE d == call[w].doc
  <2>1. call[w] \in Call
    BY <1>8 DEF Discard, WritesTypeOK
  <2>2. d \in Docs /\ call[w].seen.val \in Content
    BY <2>1 DEF Call, Document
  <2>3. Present(d) =>
          [store[d] EXCEPT !.sync = "synced", !.op = NoOp, !.due = TRUE] \in Document
    BY <2>2, PresentType DEF Document
  <2>4. LocalTypeOK'
    <3>1. clock' \in Nat
      BY <1>8 DEF Discard, LocalTypeOK
    <3>2. CASE call[w].next = Cancel
      BY <1>8, <2>2, <3>1, <3>2, DeleteType DEF Discard
    <3>3. CASE call[w].next # Cancel
      BY <1>8, <2>2, <2>3, <3>1, <3>3, UpdateType DEF Discard
    <3> QED BY <3>2, <3>3
  <2> QED
    BY <1>8, <2>2, <2>4 DEF Discard, Finish, WritesTypeOK, Content
<1>9. ASSUME NEW w \in Callers, CallerGone(w) PROVE LocalTypeOK' /\ WritesTypeOK'
  BY <1>9 DEF CallerGone, Finish, LocalTypeOK, WritesTypeOK, localVars
<1> QED
  BY <1>1, <1>2, <1>3, <1>4, <1>5, <1>6, <1>7, <1>8, <1>9 DEF LocalWriteStep

LEMMA BodyOfType ==
  ASSUME BackendTypeOK, NEW d \in Docs, NEW op, NEW edit \in Edit
  PROVE  BodyOf(d, op, edit) \in Content
BY DEF BackendTypeOK, BodyOf, Content

LEMMA FallbackType ==
  ASSUME LocalTypeOK, NEW d \in Docs, NEW op, NEW edit \in Edit
  PROVE  Fallback(d, op, edit) \in Content
BY PresentType DEF Fallback, Content, Document

DirectFound ==
  \A w \in Callers : direct[w] # None /\ direct[w].pc \in {"merged", "found"} =>
    direct[w].body \in Content

LEMMA DirectTypes ==
  ASSUME LocalTypeOK, BackendTypeOK, WritesTypeOK, DirectTypeOK, DirectFound, DirectStep
  PROVE  LocalTypeOK' /\ BackendTypeOK' /\ WritesTypeOK' /\ DirectTypeOK' /\ DirectFound'
<1> DEFINE Goal == LocalTypeOK /\ BackendTypeOK /\ WritesTypeOK /\ DirectTypeOK /\ DirectFound
<1>7. ASSUME NEW w \in Callers, NEW d \in Docs, NEW op \in Ops, NEW n \in Nat,
             NEW refused \in BOOLEAN, SendThenStore(w, d, op, n, refused), clock' \in Nat
      PROVE  Goal'
  <2> DEFINE edit  == EditFor(n, op)
             body  == BodyOf(d, op, edit)
             reply == IF refused THEN Reply(server[d], "terminal", None)
                                 ELSE Handle(server[d], op, body)
             new(answer) == [pc |-> "replied", op |-> op, doc |-> d, edit |-> edit,
                             body |-> answer, seen |-> None]
  <2>2. edit \in Edit /\ edit.n = n
    BY EditForType DEF EditFor
  <2>3. body \in Content
    BY <2>2, BodyOfType
  <2>4. reply.body \in {None} \cup Content
    <3>1. server[d] \in {None} \cup Content
      BY DEF BackendTypeOK
    <3> QED BY <2>3, <3>1, HandleType DEF Reply
  <2>5. \A answer \in {reply.body, None} : new(answer) \in Direct
    BY <2>2, <2>4 DEF Direct
  <2>6. direct' \in [Callers -> Direct \cup {None}] /\ DirectFound'
    <3>1. \/ \E answer \in {reply.body, None} : direct' = [direct EXCEPT ![w] = new(answer)]
          \/ Return(w)
      BY <1>7 DEF SendThenStore
    <3> QED BY <2>5, <3>1 DEF DirectTypeOK, DirectFound, Return
  <2>7. BackendTypeOK'
    <3>1. UNCHANGED stray
      BY <1>7 DEF SendThenStore
    <3>2. CASE refused
      BY <1>7, <3>1, <3>2 DEF SendThenStore, BackendTypeOK
    <3>3. CASE ~ refused
      <4>1. Serve(d, op, edit.n, body)
        BY <1>7, <3>3 DEF SendThenStore
      <4> QED BY <2>2, <2>3, <3>1, <4>1, ServeType DEF BackendTypeOK
    <3> QED BY <3>2, <3>3
  <2>8. LocalTypeOK'
    BY <1>7 DEF SendThenStore, LocalTypeOK
  <2>9. WritesTypeOK'
    BY <1>7 DEF SendThenStore, WritesTypeOK, Content
  <2> QED BY <2>6, <2>7, <2>8, <2>9 DEF DirectTypeOK
<1>1. ASSUME NEW w \in Callers, NEW d \in Docs, NEW op \in Ops, NEW refused \in BOOLEAN,
             DirectAnswered(w, d, op, refused)
      PROVE  Goal'
  <2>1. clock + 1 \in Nat /\ clock' \in Nat /\ SendThenStore(w, d, op, clock + 1, refused)
    BY <1>1 DEF DirectAnswered, LocalTypeOK
  <2> QED BY <1>7, <2>1
<1>8. ASSUME NEW w \in Callers, NEW refused \in BOOLEAN, DirectRetried(w, refused)
      PROVE  Goal'
  <2>1. direct[w] \in Direct
    BY <1>8 DEF DirectRetried, DirectTypeOK
  <2>2. /\ direct[w].doc \in Docs /\ direct[w].op \in Ops /\ direct[w].edit.n \in Nat
        /\ clock' \in Nat
        /\ SendThenStore(w, direct[w].doc, direct[w].op, direct[w].edit.n, refused)
    BY <1>8, <2>1 DEF DirectRetried, Direct, Edit, LocalTypeOK
  <2> QED BY <1>7, <2>2
<1>2. ASSUME NEW w \in Callers, DirectLost(w) PROVE Goal'
  BY <1>2 DEF DirectLost, Return, DirectFound, LocalTypeOK, BackendTypeOK, WritesTypeOK,
              DirectTypeOK, localVars, serverVars, callVars
<1>3. ASSUME NEW w \in Callers, DirectDelete(w) PROVE Goal'
  <2>1. direct[w].doc \in Docs
    BY <1>3 DEF DirectDelete, DirectTypeOK, Direct
  <2>2. LocalTypeOK'
    BY <1>3, <2>1, DeleteType DEF DirectDelete, LocalTypeOK
  <2> QED
    BY <1>3, <2>2 DEF DirectDelete, Return, DirectFound, BackendTypeOK, WritesTypeOK,
                      DirectTypeOK, serverVars, callVars
<1>4. ASSUME NEW w \in Callers, DirectMerge(w) PROVE Goal'
  <2> DEFINE c    == direct[w]
             body == IF c.body = None THEN Fallback(c.doc, c.op, c.edit) ELSE c.body
             new  == [c EXCEPT !.pc = "merged", !.body = body]
  <2>1. c \in Direct
    BY <1>4 DEF DirectMerge, DirectTypeOK
  <2>2. c.doc \in Docs /\ c.edit \in Edit /\ c.body \in {None} \cup Content
    BY <2>1 DEF Direct
  <2>3. body \in Content
    BY <2>2, FallbackType
  <2>4. new \in Direct /\ new.body \in Content
    BY <2>1, <2>3 DEF Direct
  <2>5. direct' = [direct EXCEPT ![w] = new]
    BY <1>4, <2>1 DEF DirectMerge, Direct
  <2>6. DirectTypeOK' /\ DirectFound'
    BY <2>4, <2>5 DEF DirectTypeOK, DirectFound
  <2> QED
    BY <1>4, <2>6 DEF DirectMerge, LocalTypeOK, BackendTypeOK, WritesTypeOK,
                      localVars, serverVars, callVars
<1>5. ASSUME NEW w \in Callers, DirectFind(w) PROVE Goal'
  <2> DEFINE c   == direct[w]
             new == [c EXCEPT !.pc = "found", !.seen = store[c.doc]]
  <2>1. c \in Direct /\ c.body \in Content
    BY <1>5 DEF DirectFind, DirectTypeOK, DirectFound
  <2>2. store[c.doc] \in Document \cup {None}
    BY <2>1 DEF Direct, LocalTypeOK
  <2>3. new \in Direct /\ new.body \in Content
    BY <2>1, <2>2 DEF Direct
  <2>4. direct' = [direct EXCEPT ![w] = new]
    BY <1>5 DEF DirectFind
  <2>5. DirectTypeOK' /\ DirectFound'
    BY <2>3, <2>4 DEF DirectTypeOK, DirectFound
  <2> QED
    BY <1>5, <2>5 DEF DirectFind, LocalTypeOK, BackendTypeOK, WritesTypeOK,
                      localVars, serverVars, callVars
<1>6. ASSUME NEW w \in Callers, DirectStore(w) PROVE Goal'
  <2>1. direct[w] \in Direct /\ direct[w].body \in Content
    BY <1>6 DEF DirectStore, DirectTypeOK, DirectFound
  <2>2. LocalTypeOK'
    BY <1>6, <2>1, ApplyType DEF DirectStore, Direct, LocalTypeOK
  <2> QED
    BY <1>6, <2>2 DEF DirectStore, Return, DirectFound, BackendTypeOK, WritesTypeOK,
                      DirectTypeOK, serverVars, callVars
<1> QED
  BY <1>1, <1>2, <1>3, <1>4, <1>5, <1>6, <1>8 DEF DirectStep

DrainRead ==
  \A t \in Tabs, d \in Docs : InState(t, d, "checked") => req[t][d].seen \in Document

LEMMA RequestType ==
  ASSUME DrainTypeOK, NEW t \in Tabs, NEW d \in Docs, req[t][d] # None
  PROVE  req[t][d] \in Request
BY DEF DrainTypeOK

\* Replacing one request by one of its kind, or by none.
LEMMA ReplaceType ==
  ASSUME DrainTypeOK, DrainRead, NEW t \in Tabs, NEW d \in Docs, NEW r \in Request \cup {None},
         r # None /\ r.pc = "checked" => r.seen \in Document,
         req' = [req EXCEPT ![t][d] = r], UNCHANGED <<primary, cycle>>
  PROVE  DrainTypeOK' /\ DrainRead'
BY DEF DrainTypeOK, DrainRead, InState

LEMMA CloseType ==
  ASSUME DrainTypeOK, DrainRead, NEW t \in Tabs, NEW d \in Docs, Close(t, d),
         UNCHANGED <<primary, cycle>>
  PROVE  DrainTypeOK' /\ DrainRead'
BY ReplaceType DEF Close

LEMMA AnswerType ==
  ASSUME DrainTypeOK, DrainRead, NEW t \in Tabs, NEW d \in Docs, req[t][d] # None,
         NEW outcome \in Outcomes, NEW body \in {None} \cup Content,
         Answer(t, d, outcome, body), UNCHANGED <<primary, cycle>>
  PROVE  DrainTypeOK' /\ DrainRead'
<1> DEFINE r == [req[t][d] EXCEPT !.pc = "replied", !.outcome = outcome, !.body = body]
<1>0. req[t][d] \in Request
  BY RequestType
<1>1. r \in Request
  BY <1>0 DEF Request
<1>2. r.pc = "replied"
  BY <1>0 DEF Request
<1>3. req' = [req EXCEPT ![t][d] = r]
  BY DEF Answer, DrainTypeOK
<1> QED BY <1>1, <1>2, <1>3, ReplaceType

LEMMA AbandonType ==
  ASSUME BackendTypeOK, DrainTypeOK, NEW t \in Tabs, NEW S \in SUBSET InNetwork(t),
         Abandon(t, S), UNCHANGED <<server, accepted, served>>
  PROVE  BackendTypeOK'
<1>1. ASSUME NEW d \in S
      PROVE  [op |-> req[t][d].op, rev |-> req[t][d].rev, val |-> req[t][d].val] \in Message
  BY RequestType DEF InNetwork, InState, Request, Message
<1> QED BY <1>1 DEF Abandon, BackendTypeOK

LEMMA DeferType ==
  ASSUME LocalTypeOK, NEW d \in Docs, Defer(d), clock' \in Nat PROVE LocalTypeOK'
<1>1. Present(d) => [store[d] EXCEPT !.due = FALSE] \in Document
  BY PresentType DEF Document
<1> QED BY <1>1, UpdateType DEF Defer

LEMMA DrainTypes ==
  ASSUME LocalTypeOK, BackendTypeOK, DrainTypeOK, DrainRead, DrainStep
  PROVE  LocalTypeOK' /\ BackendTypeOK' /\ DrainTypeOK' /\ DrainRead'
<1> DEFINE Goal == LocalTypeOK /\ BackendTypeOK /\ DrainTypeOK /\ DrainRead
<1>1. ASSUME NEW t \in Tabs, Begin(t) PROVE Goal'
  BY <1>1 DEF Begin, LocalTypeOK, BackendTypeOK, DrainTypeOK, DrainRead, InState,
              localVars, serverVars
<1>2. ASSUME NEW t \in Tabs, Select(t) PROVE Goal'
  <2>1. ASSUME NEW d \in Sendable
        PROVE  d \in Docs /\ SendOf(store[d]) \in Request /\ SendOf(store[d]).pc = "sent"
    <3>1. d \in Docs /\ Present(d)
      BY DEF Sendable, Picked, Due
    <3> QED BY <3>1, PresentType DEF SendOf, Request, Document
  <2> QED
    BY <1>2, <2>1 DEF Select, LocalTypeOK, BackendTypeOK, DrainTypeOK, DrainRead, InState,
                      localVars, serverVars
<1>3. ASSUME NEW t \in Tabs, End(t) PROVE Goal'
  BY <1>3 DEF End, LocalTypeOK, BackendTypeOK, DrainTypeOK, DrainRead, InState,
              localVars, serverVars
<1>4. ASSUME NEW t \in Tabs, Reload(t) PROVE Goal'
  <2>1. BackendTypeOK'
    BY <1>4, AbandonType DEF Reload
  <2> QED
    BY <1>4, <2>1 DEF Reload, NoRequests, LocalTypeOK, DrainTypeOK, DrainRead, InState,
                      localVars
<1>5. ASSUME NEW t \in Tabs, OwnershipMoves(t) PROVE Goal'
  BY <1>5 DEF OwnershipMoves, LocalTypeOK, BackendTypeOK, DrainTypeOK, DrainRead, InState,
              localVars, serverVars
<1>6. ASSUME NEW t \in Tabs, NEW d \in Docs, Received(t, d) PROVE Goal'
  <2> DEFINE reply == Handle(server[d], req[t][d].op, req[t][d].val)
  <2>1. req[t][d] \in Request /\ req[t][d] # None
    BY <1>6, RequestType DEF Received, InState
  <2>2. req[t][d].rev \in Nat /\ req[t][d].val \in Content
    BY <2>1 DEF Request
  <2>3. reply.outcome \in Outcomes /\ reply.body \in {None} \cup Content
    <3>1. server[d] \in {None} \cup Content
      BY DEF BackendTypeOK
    <3> QED BY <2>2, <3>1, HandleType
  <2>4. BackendTypeOK'
    <3>1. stray' \in [Docs -> SUBSET Message]
      BY <1>6 DEF Received, BackendTypeOK
    <3> QED BY <1>6, <2>2, <3>1, ServeType DEF Received
  <2>5. PICK body \in {reply.body, None} : Answer(t, d, reply.outcome, body)
    BY <1>6 DEF Received
  <2>6. DrainTypeOK' /\ DrainRead'
    <3>1. UNCHANGED <<primary, cycle>>
      BY <1>6 DEF Received
    <3> QED BY <2>1, <2>3, <2>5, <3>1, AnswerType
  <2> QED
    BY <1>6, <2>4, <2>6 DEF Received, LocalTypeOK, localVars
<1>7. ASSUME NEW t \in Tabs, NEW d \in Docs, NEW outcome \in {"retry", "terminal"},
             Refused(t, d, outcome)
      PROVE  Goal'
  <2>1. DrainTypeOK' /\ DrainRead'
    BY <1>7, AnswerType DEF Refused, InState, Outcomes
  <2> QED
    BY <1>7, <2>1 DEF Refused, LocalTypeOK, BackendTypeOK, localVars, serverVars
<1>8. ASSUME NEW t \in Tabs, NEW d \in Docs, TransportFailure(t, d) PROVE Goal'
  <2>1. LocalTypeOK'
    BY <1>8, DeferType DEF TransportFailure, LocalTypeOK
  <2>2. BackendTypeOK'
    BY <1>8, AbandonType DEF TransportFailure
  <2>3. DrainTypeOK' /\ DrainRead'
    BY <1>8, CloseType DEF TransportFailure
  <2> QED BY <2>1, <2>2, <2>3
<1>9. ASSUME NEW t \in Tabs, NEW d \in Docs, Check(t, d) PROVE Goal'
  <2>1. DrainTypeOK' /\ DrainRead'
    <3>1. CASE Superseded(t, d)
      BY <1>9, <3>1, CloseType DEF Check
    <3>2. CASE ~ Superseded(t, d)
      <4> DEFINE r == [req[t][d] EXCEPT !.pc = "checked", !.seen = store[d]]
      <4>1. store[d] \in Document
        BY <3>2, PresentType DEF Superseded
      <4>2. r \in Request /\ r.seen \in Document
        BY <1>9, <4>1, RequestType DEF Check, InState, Request
      <4>3. req' = [req EXCEPT ![t][d] = r] /\ UNCHANGED <<primary, cycle>>
        BY <1>9, <3>2 DEF Check, DrainTypeOK
      <4> QED BY <4>2, <4>3, ReplaceType
    <3> QED BY <3>1, <3>2
  <2> QED
    BY <1>9, <2>1 DEF Check, LocalTypeOK, BackendTypeOK, localVars, serverVars
<1>10. ASSUME NEW t \in Tabs, NEW d \in Docs, Settle(t, d) PROVE Goal'
  <2> DEFINE r == req[t][d]
  <2>1. r \in Request /\ r.seen \in Document
    BY <1>10, RequestType DEF Settle, InState, DrainRead
  <2>2. clock' \in Nat
    BY <1>10 DEF Settle, LocalTypeOK
  <2>3. LocalTypeOK'
    <3>1. CASE Settled(t, d)
      <4> DEFINE val == IF r.body = None THEN r.seen.val ELSE r.body
      <4>1. CASE r.op = "delete"
        BY <2>2, <3>1, <4>1, DeleteType DEF Settled
      <4>2. CASE r.op # "delete"
        <5>1. val \in Content
          BY <2>1 DEF Request, Document
        <5>2. ApplyCanonical(d, r.seen, val)
          BY <3>1, <4>2 DEF Settled
        <5> QED BY <2>1, <2>2, <5>1, <5>2, ApplyType
      <4> QED BY <4>1, <4>2
    <3>2. CASE Failed(t, d)
      <4>1. Present(d) => [store[d] EXCEPT !.sync = "failed"] \in Document
        BY PresentType DEF Document
      <4> QED BY <2>2, <3>2, <4>1, UpdateType DEF Failed
    <3>3. CASE Deferred(t, d)
      BY <2>2, <3>3, DeferType DEF Deferred
    <3> QED BY <1>10, <3>1, <3>2, <3>3 DEF Settle
  <2>4. DrainTypeOK' /\ DrainRead'
    BY <1>10, CloseType DEF Settle
  <2> QED
    BY <1>10, <2>3, <2>4 DEF Settle, BackendTypeOK, serverVars
<1>11. ASSUME NEW d \in Docs, BackoffElapses(d) PROVE Goal'
  <2>1. [store[d] EXCEPT !.due = TRUE] \in Document
    BY <1>11, PresentType DEF BackoffElapses, Document
  <2> QED
    BY <1>11, <2>1 DEF BackoffElapses, LocalTypeOK, BackendTypeOK, DrainTypeOK, DrainRead,
                       InState, serverVars, drainVars
<1> QED
  BY <1>1, <1>2, <1>3, <1>4, <1>5, <1>6, <1>7, <1>8, <1>9, <1>10, <1>11 DEF DrainStep

FetchRead ==
  fetch # None =>
    /\ \A d \in fetch.todo : fetch.seen[d] \in Document /\ fetch.rows[d] \in Content
    /\ \A d \in fetch.fresh : fetch.rows[d] \in Content

LEMMA HydrationTypes ==
  ASSUME LocalTypeOK, BackendTypeOK, HydrationTypeOK, FetchRead, HydrationStep
  PROVE  LocalTypeOK' /\ BackendTypeOK' /\ HydrationTypeOK' /\ FetchRead'
<1> DEFINE Goal == LocalTypeOK /\ BackendTypeOK /\ HydrationTypeOK /\ FetchRead
<1>1. CASE FetchAnswered
  BY <1>1 DEF FetchAnswered, LocalTypeOK, BackendTypeOK, HydrationTypeOK, FetchRead, Rows,
              localVars, serverVars
<1>2. ASSUME NEW rows \in responses, HydrateRead(rows) PROVE Goal'
  <2> DEFINE Named == {d \in Docs : rows[d] # None}
             Idle  == {d \in Named : Refreshable(d)}
             new   == [rows |-> rows, todo |-> Idle,
                       seen |-> [d \in Docs |-> IF d \in Idle THEN store[d] ELSE None],
                       fresh |-> {d \in Named : ~ Present(d)}]
  <2>1. rows \in Rows
    BY DEF HydrationTypeOK
  <2>2. ASSUME NEW d \in Idle PROVE store[d] \in Document
    BY <2>2, PresentType DEF Refreshable
  <2>3. ASSUME NEW d \in Named PROVE rows[d] \in Content
    BY <2>1, <2>3 DEF Rows
  <2>4. Idle \subseteq Docs /\ {d \in Named : ~ Present(d)} \subseteq Docs
    OBVIOUS
  <2>5. [d \in Docs |-> IF d \in Idle THEN store[d] ELSE None] \in [Docs -> Document \cup {None}]
    BY <2>2
  <2>6. new \in Fetch
    BY <2>1, <2>4, <2>5 DEF Fetch
  <2>7. /\ new.todo = Idle /\ new.rows = rows
        /\ new.seen = [d \in Docs |-> IF d \in Idle THEN store[d] ELSE None]
        /\ new.fresh = {d \in Named : ~ Present(d)}
    OBVIOUS
  <2>8. fetch' = new
    BY <1>2 DEF HydrateRead
  <2> QED
    BY <1>2, <2>2, <2>3, <2>4, <2>6, <2>7, <2>8
    DEF HydrateRead, LocalTypeOK, BackendTypeOK, HydrationTypeOK, FetchRead,
        localVars, serverVars
<1>3. CASE HydrateFresh
  <2>1. ASSUME NEW d \in fetch.fresh PROVE StampSynced(fetch.rows[d]) \in Document
    BY <1>3, <2>1, StampSyncedType DEF HydrateFresh, FetchRead
  <2> QED
    BY <1>3, <2>1 DEF HydrateFresh, LocalTypeOK, BackendTypeOK, HydrationTypeOK, FetchRead,
                      serverVars
<1>4. CASE FetchDropped
  BY <1>4 DEF FetchDropped, LocalTypeOK, BackendTypeOK, HydrationTypeOK, FetchRead,
              localVars, serverVars
<1>5. ASSUME NEW d \in Docs, HydrateDoc(d) PROVE Goal'
  <2>1. fetch \in Fetch /\ fetch # None
    BY <1>5 DEF HydrateDoc, HydrationTypeOK
  <2>2. fetch.seen[d] \in Document /\ fetch.rows[d] \in Content
    BY <1>5 DEF HydrateDoc, FetchRead
  <2>3. LocalTypeOK'
    BY <1>5, <2>2, ApplyType DEF HydrateDoc, LocalTypeOK
  <2>4. fetch' = [fetch EXCEPT !.todo = @ \ {d}] /\ responses' = responses
    BY <1>5 DEF HydrateDoc
  <2>5. HydrationTypeOK' /\ FetchRead'
    BY <2>1, <2>4 DEF HydrationTypeOK, FetchRead, Fetch
  <2> QED
    BY <1>5, <2>3, <2>5 DEF HydrateDoc, BackendTypeOK, serverVars
<1> QED
  BY <1>1, <1>2, <1>3, <1>4, <1>5 DEF HydrationStep

LEMMA StrayTypes ==
  ASSUME LocalTypeOK, BackendTypeOK, NEW d \in Docs, StrayArrives(d)
  PROVE  LocalTypeOK' /\ BackendTypeOK'
<1>1. PICK m \in stray[d] : /\ Serve(d, m.op, m.rev, m.val)
                            /\ stray' = [stray EXCEPT ![d] = @ \ {m}]
                            /\ UNCHANGED localVars
  BY DEF StrayArrives
<1>2. m \in Message
  BY DEF BackendTypeOK
<1>3. m.rev \in Nat /\ m.val \in Content
  BY <1>2 DEF Message
<1>4. stray' \in [Docs -> SUBSET Message]
  BY <1>1 DEF BackendTypeOK
<1> QED
  BY <1>1, <1>3, <1>4, ServeType DEF LocalTypeOK, localVars

(***************************************************************************)
(* The types alone are not inductive: what an actor acts on is what it has *)
(* read, and that is a document.                                           *)
(***************************************************************************)
ReadsAreThere == DrainRead /\ DirectFound /\ FetchRead

Typed == TypeOK /\ ReadsAreThere

LEMMA InitTyped == Init => Typed
<1> SUFFICES ASSUME Init PROVE Typed
  OBVIOUS
<1>1. LocalTypeOK
  BY DocsSize, StampSyncedType DEF Init, LocalInit, LocalTypeOK, Synced, Content
<1>2. BackendTypeOK
  BY DEF Init, BackendInit, BackendTypeOK, Content
<1>3. WritesTypeOK /\ DirectTypeOK /\ DirectFound
  BY DEF Init, WritesInit, WritesTypeOK, DirectInit, DirectTypeOK, DirectFound, Content
<1>4. DrainTypeOK /\ DrainRead
  BY DEF Init, DrainInit, DrainTypeOK, DrainRead, NoRequests, InState
<1>5. HydrationTypeOK /\ FetchRead
  BY DEF Init, HydrationInit, HydrationTypeOK, FetchRead
<1> QED
  BY <1>1, <1>2, <1>3, <1>4, <1>5 DEF Typed, TypeOK, ReadsAreThere, Init, Content

LEMMA RacedType ==
  ASSUME raced \in Content, made' \in [Docs -> Content], RecordRaces PROVE raced' \in Content
BY DEF RecordRaces, NewEdits, Content

LEMMA NextTyped == Typed /\ [Next]_vars => Typed'
<1> SUFFICES ASSUME Typed, [Next]_vars PROVE Typed'
  OBVIOUS
<1> USE DEF Typed, TypeOK, ReadsAreThere
<1>1. CASE Writes
  <2>1. LocalTypeOK' /\ WritesTypeOK'
    BY <1>1, LocalWriteTypes DEF Writes
  <2>2. raced' \in Content
    BY <1>1, <2>1, RacedType DEF Writes, WritesTypeOK
  <2> QED
    BY <1>1, <2>1, <2>2 DEF Writes, BackendTypeOK, DirectTypeOK, DirectFound, DrainTypeOK,
                            DrainRead, InState, HydrationTypeOK, FetchRead, serverVars, drainVars
<1>2. CASE Directs
  <2>1. LocalTypeOK' /\ BackendTypeOK' /\ WritesTypeOK' /\ DirectTypeOK' /\ DirectFound'
    BY <1>2, DirectTypes DEF Directs
  <2>2. raced' \in Content
    BY <1>2, <2>1, RacedType DEF Directs, WritesTypeOK
  <2> QED
    BY <1>2, <2>1, <2>2 DEF Directs, DrainTypeOK, DrainRead, InState, HydrationTypeOK,
                            FetchRead, drainVars
<1>3. CASE Drains
  <2>1. LocalTypeOK' /\ BackendTypeOK' /\ DrainTypeOK' /\ DrainRead'
    BY <1>3, DrainTypes DEF Drains
  <2>2. WritesTypeOK'
    BY <1>3 DEF Drains, WritesTypeOK, callVars
  <2>3. raced' \in Content
    BY <1>3, <2>2, RacedType DEF Drains, WritesTypeOK
  <2> QED
    BY <1>3, <2>1, <2>2, <2>3 DEF Drains, DirectTypeOK, DirectFound, HydrationTypeOK, FetchRead
<1>4. CASE Strays
  <2>1. LocalTypeOK' /\ BackendTypeOK'
    BY <1>4, StrayTypes DEF Strays
  <2>2. WritesTypeOK'
    BY <1>4 DEF Strays, WritesTypeOK, callVars
  <2>3. raced' \in Content
    BY <1>4, <2>2, RacedType DEF Strays, WritesTypeOK
  <2> QED
    BY <1>4, <2>1, <2>2, <2>3 DEF Strays, DirectTypeOK, DirectFound, DrainTypeOK, DrainRead,
                                  InState, HydrationTypeOK, FetchRead, drainVars
<1>5. CASE Hydrates
  <2>1. LocalTypeOK' /\ BackendTypeOK' /\ HydrationTypeOK' /\ FetchRead'
    BY <1>5, HydrationTypes DEF Hydrates
  <2>2. WritesTypeOK'
    BY <1>5 DEF Hydrates, WritesTypeOK, callVars
  <2>3. raced' \in Content
    BY <1>5, <2>2, RacedType DEF Hydrates, WritesTypeOK
  <2> QED
    BY <1>5, <2>1, <2>2, <2>3 DEF Hydrates, DirectTypeOK, DirectFound, DrainTypeOK, DrainRead,
                                  InState, drainVars
<1>6. CASE UNCHANGED vars
  BY <1>6 DEF vars, localVars, serverVars, callVars, drainVars, LocalTypeOK, BackendTypeOK,
              WritesTypeOK, DirectTypeOK, DirectFound, DrainTypeOK, DrainRead, InState,
              HydrationTypeOK, FetchRead
<1> QED
  BY <1>1, <1>2, <1>3, <1>4, <1>5, <1>6 DEF Next

\* Every variable of the write path keeps its type, and no actor acts on a
\* document it has not read.
THEOREM WriteQueueTypes == Spec => [](TypeOK /\ ReadsAreThere)
BY InitTyped, NextTyped, PTL DEF Spec, Typed

(***************************************************************************)
(* What a document shows.  Content travels: it is sent, stored by the      *)
(* server, answered, fetched, read and written back.  Wherever it is on    *)
(* its way, it was written here or the server has taken it.                *)
(***************************************************************************)

\* A server that refuses an insert of a row it has is taken to have done it,
\* and an immediate insert then shows what neither side holds.
Confirming == Upsert = TRUE \/ "immediate" \notin Operations

Known(d) == made[d] \cup accepted

\* Content, or none.
Told(d, val) == val # None => val \subseteq Known(d)

ServerTold == \A d \in Docs : Told(d, server[d])

StraysTold == \A d \in Docs : \A m \in stray[d] : m.val \subseteq Known(d)

RequestTold(t, d) ==
  req[t][d] # None =>
    /\ req[t][d].val \subseteq Known(d) /\ Told(d, req[t][d].body)
    /\ req[t][d].pc = "checked" => req[t][d].seen.val \subseteq Known(d)

RequestsTold == \A t \in Tabs, d \in Docs : RequestTold(t, d)

DirectTold(w) ==
  direct[w] # None =>
    /\ direct[w].pc = "replied" => Told(direct[w].doc, direct[w].body)
    /\ direct[w].pc # "replied" => direct[w].body \subseteq Known(direct[w].doc)
    /\ direct[w].op # "delete" => direct[w].edit \in Known(direct[w].doc)

DirectsTold == \A w \in Callers : DirectTold(w)

FetchTold ==
  /\ \A rows \in responses : \A d \in Docs : Told(d, rows[d])
  /\ fetch # None =>
       /\ \A d \in Docs : Told(d, fetch.rows[d])
       /\ \A d \in fetch.todo \cup fetch.fresh : fetch.rows[d] # None

AccountInv ==
  /\ ShownIsAccountedFor /\ ServerTold /\ StraysTold /\ RequestsTold
  /\ DirectsTold /\ FetchTold

\* What is known stays known.
Learns == accepted \subseteq accepted' /\ \A d \in Docs : made[d] \subseteq made'[d]

LEMMA KnownStays == ASSUME Learns, NEW d \in Docs PROVE Known(d) \subseteq Known(d)'
BY DEF Learns, Known

LEMMA ServerStays == Learns /\ ServerTold /\ UNCHANGED server => ServerTold'
BY KnownStays DEF ServerTold, Told

LEMMA StraysStay ==
  ASSUME Learns, StraysTold, \A d \in Docs : stray'[d] \subseteq stray[d] PROVE StraysTold'
BY KnownStays DEF StraysTold

LEMMA RequestStays ==
  ASSUME Learns, RequestsTold, NEW t \in Tabs, NEW d \in Docs, req'[t][d] \in {req[t][d], None}
  PROVE  RequestTold(t, d)'
BY KnownStays DEF RequestsTold, RequestTold, Told

LEMMA RequestsStay == Learns /\ RequestsTold /\ UNCHANGED req => RequestsTold'
BY RequestStays DEF RequestsTold

LEMMA DirectStays ==
  ASSUME DirectTypeOK, Learns, DirectsTold, NEW w \in Callers, direct'[w] \in {direct[w], None}
  PROVE  DirectTold(w)'
<1> SUFFICES ASSUME direct'[w] # None PROVE DirectTold(w)'
  BY DEF DirectTold
<1>1. direct'[w] = direct[w] /\ direct[w].doc \in Docs
  BY DEF DirectTypeOK, Direct
<1>2. Known(direct[w].doc) \subseteq Known(direct[w].doc)'
  BY <1>1, KnownStays DEF Known
<1> QED BY <1>1, <1>2 DEF DirectsTold, DirectTold, Told, Known

LEMMA FetchStays ==
  ASSUME Learns, FetchTold, responses' \subseteq responses, fetch' = fetch \/ fetch' = None
  PROVE  FetchTold'
BY KnownStays DEF FetchTold, Told

\* The store: only d is written, and what is written is known.
LEMMA StoreTold ==
  ASSUME LocalTypeOK, Learns, ShownIsAccountedFor, NEW d \in Docs,
         \A c \in Docs \ {d} : store'[c] = store[c],
         store'[d] \notin {store[d], None} => store'[d].val \subseteq Known(d)'
  PROVE  ShownIsAccountedFor'
<1> SUFFICES ASSUME NEW c \in Docs, Present(c)' PROVE store'[c].val \subseteq Known(c)'
  BY DEF ShownIsAccountedFor, Known
<1>1. CASE store'[c] = store[c]
  BY <1>1, KnownStays DEF ShownIsAccountedFor, Known, Present
<1>2. CASE store'[c] # store[c]
  BY <1>2 DEF Present
<1> QED BY <1>1, <1>2

LEMMA StoreStays == Learns /\ ShownIsAccountedFor /\ UNCHANGED store => ShownIsAccountedFor'
BY KnownStays DEF ShownIsAccountedFor, Known, Present

LEMMA UpdateTold ==
  ASSUME LocalTypeOK, Learns, ShownIsAccountedFor, NEW d \in Docs, NEW doc, UpdateOne(d, doc),
         Present(d) => doc.val \subseteq Known(d)'
  PROVE  ShownIsAccountedFor'
<1>1. CASE Present(d)
  BY <1>1, StoreTold DEF UpdateOne, LocalTypeOK
<1>2. CASE ~ Present(d)
  BY <1>2, StoreStays DEF UpdateOne
<1> QED BY <1>1, <1>2

LEMMA DeleteTold ==
  ASSUME LocalTypeOK, Learns, ShownIsAccountedFor, NEW d \in Docs, DeleteOne(d)
  PROVE  ShownIsAccountedFor'
BY StoreTold DEF DeleteOne, LocalTypeOK

LEMMA ApplyTold ==
  ASSUME LocalTypeOK, Learns, ShownIsAccountedFor, NEW d \in Docs, NEW seen, NEW val,
         ApplyCanonical(d, seen, val), val \subseteq Known(d)'
  PROVE  ShownIsAccountedFor'
<1>1. CASE seen # None
  <2>1. Canonical(d, seen, val).val = val
    BY DEF Canonical, StampSynced
  <2> QED BY <1>1, <2>1, UpdateTold DEF ApplyCanonical
<1>2. CASE seen = None /\ Present(d)
  BY <1>2, StoreStays DEF ApplyCanonical
<1>3. CASE seen = None /\ ~ Present(d)
  BY <1>3, StoreTold DEF ApplyCanonical, InsertOne, LocalTypeOK, StampSynced
<1> QED BY <1>1, <1>2, <1>3

\* A change of some field of the envelope.
LEMMA StampTold ==
  ASSUME LocalTypeOK, Learns, ShownIsAccountedFor, NEW d \in Docs, NEW doc, UpdateOne(d, doc),
         Present(d) => doc.val = store[d].val
  PROVE  ShownIsAccountedFor'
BY UpdateTold, KnownStays DEF ShownIsAccountedFor, Known

(***************************************************************************)
(* Local writes, the drain, strays, responses, immediate writes.           *)
(***************************************************************************)
LEMMA WritesTold == Typed /\ AccountInv /\ Writes => AccountInv'
<1> SUFFICES ASSUME Typed, AccountInv, Writes PROVE AccountInv'
  OBVIOUS
<1>0. /\ LocalWriteStep /\ UNCHANGED <<serverVars, direct, drainVars, responses, fetch>>
      /\ LocalTypeOK /\ WritesTypeOK /\ DirectTypeOK
  BY DEF Writes, Typed, TypeOK
<1>1. made' = made => Learns
  BY <1>0 DEF Learns, serverVars
<1>2. Learns => ServerTold' /\ StraysTold' /\ RequestsTold' /\ DirectsTold' /\ FetchTold'
  BY <1>0, ServerStays, StraysStay, RequestsStay, DirectStays, FetchStays
  DEF AccountInv, serverVars, drainVars, DirectsTold
<1>3. ASSUME NEW d \in Docs, NEW routed \in Routes, Insert(d, routed)
      PROVE  Learns /\ ShownIsAccountedFor'
  <2> DEFINE edit == EditFor(clock + 1, "insert")
             doc  == StampPending("insert", clock + 1, {edit}, routed)
  <2>1. store' = [store EXCEPT ![d] = doc] /\ made' = [made EXCEPT ![d] = @ \cup {edit}]
    BY <1>3 DEF Insert, InsertOne
  <2>2. Learns /\ edit \in Known(d)'
    BY <1>0, <2>1 DEF Learns, WritesTypeOK, serverVars, Known
  <2>3. doc.val = {edit}
    BY DEF StampPending
  <2> HIDE DEF doc, edit
  <2> QED
    BY <1>0, <2>1, <2>2, <2>3, StoreTold DEF LocalTypeOK, AccountInv
<1>4. ASSUME NEW w \in Callers, CommitWrite(w) PROVE Learns /\ ShownIsAccountedFor'
  <2>0. PICK d \in Docs : d = call[w].doc
    BY <1>0, <1>4 DEF CommitWrite, Committable, WritesTypeOK, Call
  <2> DEFINE edit == EditFor(clock + 1, call[w].kind)
             doc  == StampPending(call[w].next, clock + 1, store[d].val \cup {edit},
                                  call[w].routed)
  <2>1. /\ UpdateOne(d, doc)
        /\ made' = IF Present(d) THEN [made EXCEPT ![d] = @ \cup {edit}] ELSE made
    BY <1>4, <2>0 DEF CommitWrite
  <2>2. doc.val = store[d].val \cup {edit}
    BY DEF StampPending
  <2> HIDE DEF doc, edit
  <2>3. Learns
    BY <1>0, <2>1 DEF Learns, WritesTypeOK, serverVars
  <2>4. Present(d) => edit \in Known(d)'
    BY <1>0, <2>1 DEF WritesTypeOK, Known
  <2>5. Present(d) => store[d].val \subseteq Known(d)'
    BY <2>3, KnownStays DEF AccountInv, ShownIsAccountedFor, Known
  <2> QED
    BY <1>0, <2>1, <2>2, <2>3, <2>4, <2>5, UpdateTold DEF AccountInv
<1>5. ASSUME NEW w \in Callers, CancelInsert(w) \/ Retry(w) \/ Discard(w)
      PROVE  made' = made /\ ShownIsAccountedFor'
  <2>0. PICK d \in Docs : d = call[w].doc
    BY <1>0, <1>5 DEF CancelInsert, Retry, Discard, WritesTypeOK, Call
  <2>1. made' = made
    BY <1>5 DEF CancelInsert, Retry, Discard
  <2>2. CASE DeleteOne(d)
    BY <1>0, <1>1, <2>1, <2>2, DeleteTold DEF AccountInv
  <2>3. ASSUME NEW doc, UpdateOne(d, doc), Present(d) => doc.val = store[d].val
        PROVE  ShownIsAccountedFor'
    BY <1>0, <1>1, <2>1, <2>3, StampTold DEF AccountInv
  <2>4. Present(d) => /\ [store[d] EXCEPT !.sync = "pending", !.due = TRUE].val = store[d].val
                      /\ [store[d] EXCEPT !.sync = "synced", !.op = NoOp, !.due = TRUE].val
                           = store[d].val
    BY <1>0, PresentType DEF Document
  <2>5. ShownIsAccountedFor'
    BY <1>5, <2>0, <2>2, <2>3, <2>4 DEF CancelInsert, Retry, Discard
  <2> QED BY <2>1, <2>5
<1>6. ASSUME UNCHANGED <<localVars, made>> PROVE Learns /\ ShownIsAccountedFor'
  BY <1>1, <1>6, StoreStays DEF AccountInv, localVars
<1>7. Learns /\ ShownIsAccountedFor'
  BY <1>0, <1>1, <1>3, <1>4, <1>5, <1>6 DEF LocalWriteStep, FindExisting, Decide, FindDiscarded, CallerGone
<1> QED BY <1>2, <1>7 DEF AccountInv
\* A server that takes a write has the content it was sent.
LEMMA ServeTold ==
  ASSUME BackendTypeOK, Learns, ServerTold, NEW d \in Docs, NEW op, NEW rev, NEW val,
         Serve(d, op, rev, val), val \subseteq Known(d)'
  PROVE  /\ ServerTold'
         /\ Handle(server[d], op, val).body \in {None, val}
<1> DEFINE reply == Handle(server[d], op, val)
<1>1. reply.row \in {server[d], val, None} /\ reply.body \in {val, None}
  BY DEF Handle, Reply
<1>3. CASE server' = server
  BY <1>1, <1>3, ServerStays
<1>4. CASE server' = [server EXCEPT ![d] = reply.row]
  <2> SUFFICES ASSUME NEW c \in Docs, server'[c] # None PROVE server'[c] \subseteq Known(c)'
    BY <1>1 DEF ServerTold, Told, Known
  <2>1. CASE c = d /\ reply.row = val
    BY <1>4, <2>1 DEF BackendTypeOK
  <2>2. CASE server'[c] = server[c]
    BY <2>2, KnownStays DEF ServerTold, Told, Known
  <2> HIDE DEF reply
  <2> QED BY <1>1, <1>4, <2>1, <2>2 DEF BackendTypeOK
<1> QED BY <1>3, <1>4 DEF Serve

LEMMA ServeLearns ==
  ASSUME NEW d, NEW op, NEW rev, NEW val, Serve(d, op, rev, val), made' = made PROVE Learns
BY DEF Serve, Learns

\* A stray request carries what was sent.
LEMMA AbandonTold ==
  ASSUME BackendTypeOK, DrainTypeOK, Learns, StraysTold, RequestsTold, NEW t \in Tabs,
         NEW S \in SUBSET InNetwork(t), Abandon(t, S)
  PROVE  StraysTold'
<1> SUFFICES ASSUME NEW d \in Docs, NEW m \in stray'[d] PROVE m.val \subseteq Known(d)'
  BY DEF StraysTold
<1> DEFINE new == [op |-> req[t][d].op, rev |-> req[t][d].rev, val |-> req[t][d].val]
<1>1. m \in stray[d] \/ (d \in S /\ m = new)
  BY DEF Abandon
<1>2. Known(d) \subseteq Known(d)'
  BY KnownStays
<1>3. CASE m \in stray[d]
  BY <1>2, <1>3 DEF StraysTold
<1>4. CASE d \in S /\ m = new
  BY <1>2, <1>4 DEF InNetwork, InState, RequestsTold, RequestTold
<1> QED BY <1>1, <1>3, <1>4

LEMMA AnswerTold ==
  ASSUME DrainTypeOK, Learns, RequestsTold, NEW t \in Tabs, NEW d \in Docs, req[t][d] # None,
         NEW outcome, NEW body, Answer(t, d, outcome, body), Told(d, body)'
  PROVE  RequestsTold'
<1> DEFINE r == [req[t][d] EXCEPT !.pc = "replied", !.outcome = outcome, !.body = body]
<1>1. req[t][d] \in Request
  BY RequestType
<1>2. req' = [req EXCEPT ![t][d] = r]
  BY DEF Answer, DrainTypeOK
<1>3. r.pc = "replied" /\ r.val = req[t][d].val /\ r.body = body
  BY <1>1 DEF Request
<1> HIDE DEF r
<1>4. /\ \A u \in Tabs, c \in Docs : <<u, c>> # <<t, d>> => req'[u][c] = req[u][c]
      /\ req'[t][d] = r
  BY <1>2 DEF DrainTypeOK
<1>5. RequestTold(t, d)'
  <2>1. req[t][d].val \subseteq Known(d)'
    BY KnownStays DEF RequestsTold, RequestTold
  <2> QED BY <1>3, <1>4, <2>1 DEF RequestTold
<1>6. \A u \in Tabs, c \in Docs : <<u, c>> # <<t, d>> => RequestTold(u, c)'
  BY <1>4, RequestStays
<1> QED BY <1>5, <1>6 DEF RequestsTold

LEMMA CloseTold ==
  ASSUME DrainTypeOK, Learns, RequestsTold, NEW t \in Tabs, NEW d \in Docs, Close(t, d)
  PROVE  RequestsTold'
<1>1. \A u \in Tabs, c \in Docs : req'[u][c] \in {req[u][c], None}
  BY DEF Close, DrainTypeOK
<1> QED BY <1>1, RequestStays DEF RequestsTold

LEMMA DrainsTold == Typed /\ AccountInv /\ Drains => AccountInv'
<1> SUFFICES ASSUME Typed, AccountInv, Drains PROVE AccountInv'
  OBVIOUS
<1>0. /\ DrainStep /\ UNCHANGED <<callVars, direct, responses, fetch>>
      /\ LocalTypeOK /\ BackendTypeOK /\ DrainTypeOK /\ DirectTypeOK
  BY DEF Drains, Typed, TypeOK
<1>1. accepted \subseteq accepted' => Learns
  BY <1>0 DEF Learns, callVars
<1>2. Learns => DirectsTold' /\ FetchTold'
  BY <1>0, DirectStays, FetchStays DEF AccountInv, DirectsTold
<1> DEFINE Goal == Learns /\ ShownIsAccountedFor' /\ ServerTold' /\ StraysTold' /\ RequestsTold'
<1>3. ASSUME UNCHANGED <<store, server, stray, accepted, req>> PROVE Goal
  BY <1>1, <1>3, StoreStays, ServerStays, StraysStay, RequestsStay DEF AccountInv
<1>4. ASSUME NEW t \in Tabs, Begin(t) \/ End(t) \/ OwnershipMoves(t) PROVE Goal
  BY <1>3, <1>4 DEF Begin, End, OwnershipMoves, localVars, serverVars
<1>5. ASSUME NEW t \in Tabs, Select(t) PROVE Goal
  <2>1. UNCHANGED <<localVars, serverVars>> /\ Learns
    BY <1>1, <1>5 DEF Select, serverVars
  <2>2. ASSUME NEW u \in Tabs, NEW d \in Docs, req'[u][d] # None PROVE RequestTold(u, d)'
    <3>1. CASE u # t
      BY <1>0, <1>5, <2>1, <3>1, RequestStays DEF Select, DrainTypeOK, AccountInv
    <3>2. CASE u = t
      <4>1. d \in Sendable /\ req'[t][d] = SendOf(store[d])
        BY <1>0, <1>5, <2>2, <3>2 DEF Select, DrainTypeOK
      <4>2. store[d].val \subseteq Known(d)
        BY <4>1 DEF AccountInv, ShownIsAccountedFor, Known, Sendable, Picked, Due
      <4>3. store[d].val \subseteq Known(d)'
        BY <2>1, <4>2, KnownStays
      <4> QED BY <3>2, <4>1, <4>3 DEF RequestTold, Told, SendOf
    <3> QED BY <3>1, <3>2
  <2>3. RequestsTold'
    BY <2>2 DEF RequestsTold, RequestTold
  <2> QED
    BY <2>1, <2>3, StoreStays, ServerStays, StraysStay DEF AccountInv, localVars, serverVars
<1>6. ASSUME NEW t \in Tabs, NEW d \in Docs, Received(t, d) PROVE Goal
  <2> DEFINE reply == Handle(server[d], req[t][d].op, req[t][d].val)
  <2>1. /\ req[t][d] # None /\ Serve(d, req[t][d].op, req[t][d].rev, req[t][d].val)
        /\ UNCHANGED <<localVars, stray>> /\ made' = made
    BY <1>0, <1>6 DEF Received, InState, callVars
  <2>2. PICK body \in {reply.body, None} : Answer(t, d, reply.outcome, body)
    BY <1>6 DEF Received
  <2>3. Learns
    BY <2>1, ServeLearns
  <2>4. req[t][d].val \subseteq Known(d)'
    BY <2>1, <2>3, KnownStays DEF AccountInv, RequestsTold, RequestTold
  <2>5. ServerTold' /\ reply.body \in {None, req[t][d].val}
    BY <1>0, <2>1, <2>3, <2>4, ServeTold DEF AccountInv
  <2>6. Told(d, body)'
    BY <2>2, <2>4, <2>5 DEF Told, Known
  <2>7. RequestsTold'
    BY <1>0, <2>1, <2>2, <2>3, <2>6, AnswerTold DEF AccountInv
  <2> QED
    BY <2>1, <2>3, <2>5, <2>7, StoreStays, StraysStay DEF AccountInv, localVars
<1>7. ASSUME NEW t \in Tabs, NEW d \in Docs, NEW outcome \in {"retry", "terminal"},
             Refused(t, d, outcome)
      PROVE  Goal
  <2>1. /\ req[t][d] # None /\ UNCHANGED <<localVars, serverVars>>
        /\ Answer(t, d, outcome, None)
    BY <1>7 DEF Refused, InState
  <2>2. Learns
    BY <1>1, <2>1 DEF serverVars
  <2>3. RequestsTold'
    BY <1>0, <2>1, <2>2, AnswerTold DEF AccountInv, Told
  <2> QED
    BY <2>1, <2>2, <2>3, StoreStays, ServerStays, StraysStay DEF AccountInv, localVars, serverVars
<1>8. ASSUME NEW d \in Docs, Defer(d), Learns PROVE ShownIsAccountedFor'
  <2>1. Present(d) => [store[d] EXCEPT !.due = FALSE].val = store[d].val
    BY <1>0, PresentType DEF Document
  <2> QED BY <1>0, <1>8, <2>1, StampTold DEF Defer, AccountInv
<1>9. ASSUME NEW t \in Tabs, NEW d \in Docs, TransportFailure(t, d) PROVE Goal
  <2>1. /\ \E S \in SUBSET InNetwork(t) : Abandon(t, S)
        /\ Defer(d) /\ Close(t, d) /\ UNCHANGED <<server, accepted>>
    BY <1>9 DEF TransportFailure
  <2>2. Learns
    BY <1>1, <2>1
  <2> QED
    BY <1>0, <1>8, <2>1, <2>2, AbandonTold, CloseTold, ServerStays DEF AccountInv
<1>10. ASSUME NEW t \in Tabs, NEW d \in Docs, Check(t, d) PROVE Goal
  <2>1. /\ req[t][d] # None /\ UNCHANGED <<localVars, serverVars>>
    BY <1>10 DEF Check, InState
  <2>2. Learns
    BY <1>1, <2>1 DEF serverVars
  <2>3. RequestsTold'
    <3>1. CASE Superseded(t, d)
      BY <1>0, <1>10, <2>2, <3>1, CloseTold DEF Check, AccountInv
    <3>2. CASE ~ Superseded(t, d)
      <4> DEFINE r == [req[t][d] EXCEPT !.pc = "checked", !.seen = store[d]]
      <4>1. req[t][d] \in Request
        BY <1>0, <2>1, RequestType
      <4>2. r.val = req[t][d].val /\ r.body = req[t][d].body /\ r.seen = store[d]
        BY <4>1 DEF Request
      <4>3. req' = [req EXCEPT ![t][d] = r]
        BY <1>0, <1>10, <3>2 DEF Check, DrainTypeOK
      <4>4. store[d].val \subseteq Known(d)
        BY <3>2 DEF Superseded, AccountInv, ShownIsAccountedFor, Known
      <4> HIDE DEF r
      <4>5. /\ \A u \in Tabs, c \in Docs : <<u, c>> # <<t, d>> => req'[u][c] = req[u][c]
            /\ req'[t][d] = r
        BY <1>0, <4>3 DEF DrainTypeOK
      <4>6. Known(d) \subseteq Known(d)'
        BY <2>2, KnownStays
      <4>7. RequestTold(t, d)'
        BY <2>1, <4>2, <4>4, <4>5, <4>6 DEF AccountInv, RequestsTold, RequestTold, Told
      <4>8. \A u \in Tabs, c \in Docs : <<u, c>> # <<t, d>> => RequestTold(u, c)'
        BY <2>2, <4>5, RequestStays DEF AccountInv
      <4> QED BY <4>7, <4>8 DEF RequestsTold
    <3> QED BY <3>1, <3>2
  <2> QED
    BY <2>1, <2>2, <2>3, StoreStays, ServerStays, StraysStay DEF AccountInv, localVars, serverVars
<1>11. ASSUME NEW t \in Tabs, NEW d \in Docs, Settle(t, d) PROVE Goal
  <2> DEFINE r   == req[t][d]
             val == IF r.body = None THEN r.seen.val ELSE r.body
  <2>1. /\ r # None /\ r.pc = "checked" /\ Close(t, d) /\ UNCHANGED <<serverVars, clock>>
        /\ Settled(t, d) \/ Failed(t, d) \/ Deferred(t, d)
    BY <1>11 DEF Settle, InState
  <2>2. Learns
    BY <1>1, <2>1 DEF serverVars
  <2>3. val \subseteq Known(d)'
    <3>1. val \subseteq Known(d)
      BY <2>1 DEF AccountInv, RequestsTold, RequestTold, Told
    <3> QED BY <2>2, <3>1, KnownStays
  <2>4. ShownIsAccountedFor'
    <3>1. CASE Settled(t, d)
      <4>1. CASE DeleteOne(d)
        BY <1>0, <2>2, <4>1, DeleteTold DEF AccountInv
      <4>2. CASE ApplyCanonical(d, r.seen, val)
        <5> HIDE DEF r, val
        <5> QED BY <1>0, <2>2, <2>3, <4>2, ApplyTold DEF AccountInv
      <4> QED BY <3>1, <4>1, <4>2 DEF Settled
    <3>2. CASE Failed(t, d)
      <4>1. Present(d) => [store[d] EXCEPT !.sync = "failed"].val = store[d].val
        BY <1>0, PresentType DEF Document
      <4> QED BY <1>0, <2>2, <3>2, <4>1, StampTold DEF Failed, AccountInv
    <3>3. CASE Deferred(t, d)
      BY <1>8, <2>2, <3>3 DEF Deferred
    <3> QED BY <2>1, <3>1, <3>2, <3>3
  <2> QED
    BY <1>0, <2>1, <2>2, <2>4, CloseTold, ServerStays, StraysStay DEF AccountInv, serverVars
<1>12. ASSUME NEW t \in Tabs, Reload(t) PROVE Goal
  <2>1. /\ UNCHANGED <<localVars, server, accepted>>
        /\ \E S \in SUBSET InNetwork(t) : Abandon(t, S)
    BY <1>12 DEF Reload
  <2>2. Learns
    BY <1>1, <2>1
  <2>3. \A u \in Tabs, d \in Docs : req'[u][d] \in {req[u][d], None}
    BY <1>0, <1>12 DEF Reload, NoRequests, DrainTypeOK
  <2>4. RequestsTold'
    BY <2>2, <2>3, RequestStays DEF RequestsTold, AccountInv
  <2>5. StraysTold'
    BY <1>0, <2>1, <2>2, AbandonTold DEF AccountInv
  <2> QED
    BY <2>1, <2>2, <2>4, <2>5, StoreStays, ServerStays DEF AccountInv, localVars
<1>13. ASSUME NEW d \in Docs, BackoffElapses(d) PROVE Goal
  <2>1. UNCHANGED <<serverVars, drainVars>> /\ Learns
    BY <1>1, <1>13 DEF BackoffElapses, serverVars
  <2>2. ShownIsAccountedFor'
    <3>1. store[d] \in Document /\ store' = [store EXCEPT ![d].due = TRUE]
      BY <1>0, <1>13, PresentType DEF BackoffElapses
    <3>2. store'[d].val = store[d].val /\ \A c \in Docs \ {d} : store'[c] = store[c]
      BY <1>0, <3>1 DEF LocalTypeOK, Document
    <3>3. store[d].val \subseteq Known(d)'
      BY <1>13, <2>1, KnownStays DEF BackoffElapses, AccountInv, ShownIsAccountedFor, Known
    <3> QED BY <1>0, <2>1, <3>2, <3>3, StoreTold DEF AccountInv
  <2> QED
    BY <2>1, <2>2, ServerStays, StraysStay, RequestsStay DEF AccountInv, serverVars, drainVars
<1>14. Goal
  <2> HIDE DEF Goal
  <2> QED
    BY <1>0, <1>4, <1>5, <1>6, <1>7, <1>9, <1>10, <1>11, <1>12, <1>13 DEF DrainStep
<1> QED BY <1>2, <1>14 DEF AccountInv
LEMMA StraysArriveTold == Typed /\ AccountInv /\ Strays => AccountInv'
<1> SUFFICES ASSUME Typed, AccountInv, Strays PROVE AccountInv'
  OBVIOUS
<1>0. /\ BackendTypeOK /\ DirectTypeOK /\ UNCHANGED <<callVars, direct, drainVars, responses, fetch>>
  BY DEF Strays, Typed, TypeOK
<1>a. PICK d \in Docs : StrayArrives(d)
  BY DEF Strays
<1>1. PICK m \in stray[d] :
        /\ Serve(d, m.op, m.rev, m.val)
        /\ stray' = [stray EXCEPT ![d] = @ \ {m}] /\ UNCHANGED localVars
  BY <1>a DEF StrayArrives
<1>2. Learns
  BY <1>0, <1>1, ServeLearns DEF callVars
<1>3. m.val \subseteq Known(d)'
  BY <1>2, KnownStays DEF AccountInv, StraysTold
<1>4. ServerTold'
  BY <1>0, <1>1, <1>2, <1>3, ServeTold DEF AccountInv
<1>5. StraysTold'
  BY <1>0, <1>1, <1>2, StraysStay DEF AccountInv, BackendTypeOK
<1> QED
  BY <1>0, <1>1, <1>2, <1>4, <1>5, StoreStays, RequestsStay, DirectStays, FetchStays
  DEF AccountInv, DirectsTold, localVars, drainVars

LEMMA HydratesTold == Typed /\ AccountInv /\ Hydrates => AccountInv'
<1> SUFFICES ASSUME Typed, AccountInv, Hydrates PROVE AccountInv'
  OBVIOUS
<1>0. /\ LocalTypeOK /\ HydrationTypeOK /\ DirectTypeOK /\ FetchRead
      /\ HydrationStep /\ UNCHANGED <<callVars, direct, drainVars, serverVars>>
  BY DEF Hydrates, Typed, TypeOK, ReadsAreThere, HydrationStep, FetchAnswered, HydrateRead,
         HydrateDoc, HydrateFresh, FetchDropped
<1>1. Learns
  BY <1>0 DEF Learns, callVars, serverVars
<1>2. ServerTold' /\ StraysTold' /\ RequestsTold' /\ DirectsTold'
  BY <1>0, <1>1, ServerStays, StraysStay, RequestsStay, DirectStays
  DEF AccountInv, DirectsTold, serverVars, drainVars
<1>3. CASE FetchAnswered
  <2>1. /\ UNCHANGED <<store, server>>
        /\ responses' = responses \cup {server} /\ fetch' = fetch
    BY <1>3 DEF FetchAnswered, localVars, serverVars
  <2>2. FetchTold'
    BY <1>1, <1>2, <2>1, KnownStays DEF AccountInv, FetchTold, ServerTold, Told
  <2> QED BY <1>1, <1>2, <2>1, <2>2, StoreStays DEF AccountInv
<1>4. ASSUME NEW rows \in responses, HydrateRead(rows) PROVE AccountInv'
  <2>1. /\ UNCHANGED store /\ fetch'.rows = rows /\ responses' \subseteq responses
        /\ fetch'.todo \cup fetch'.fresh \subseteq {d \in Docs : rows[d] # None}
    BY <1>4 DEF HydrateRead, localVars
  <2>2. FetchTold'
    BY <1>1, <2>1, KnownStays DEF AccountInv, FetchTold, Told
  <2> QED BY <1>1, <1>2, <2>1, <2>2, StoreStays DEF AccountInv
<1>5. CASE HydrateFresh
  <2>1. ASSUME NEW c \in Docs, Present(c)' PROVE store'[c].val \subseteq Known(c)'
    <3>1. CASE store'[c] = store[c]
      BY <1>1, <2>1, <3>1, KnownStays DEF AccountInv, ShownIsAccountedFor, Known, Present
    <3>2. CASE c \in fetch.fresh /\ store'[c] = StampSynced(fetch.rows[c])
      <4>1. fetch.rows[c] \in Content /\ store'[c].val = fetch.rows[c]
        BY <1>0, <1>5, <3>2 DEF HydrateFresh, FetchRead, StampSynced
      <4>2. fetch.rows[c] # None => fetch.rows[c] \subseteq Known(c)
        BY <1>5 DEF HydrateFresh, AccountInv, FetchTold, Told
      <4>3. fetch.rows[c] # None
        BY <1>5, <3>2 DEF HydrateFresh, AccountInv, FetchTold
      <4> QED BY <1>1, <4>1, <4>2, <4>3, KnownStays
    <3> QED BY <1>5, <3>1, <3>2 DEF HydrateFresh
  <2>2. ShownIsAccountedFor'
    BY <2>1 DEF ShownIsAccountedFor, Known
  <2>3. FetchTold'
    BY <1>1, <1>5, FetchStays DEF HydrateFresh, AccountInv
  <2> QED BY <1>2, <2>2, <2>3 DEF AccountInv
<1>6. CASE FetchDropped
  BY <1>1, <1>2, <1>6, StoreStays, FetchStays DEF FetchDropped, AccountInv, localVars
<1>7. ASSUME NEW d \in Docs, HydrateDoc(d) PROVE AccountInv'
  <2>1. /\ fetch # None /\ d \in fetch.todo /\ ApplyCanonical(d, fetch.seen[d], fetch.rows[d])
        /\ fetch'.rows = fetch.rows /\ fetch'.todo = fetch.todo \ {d} /\ fetch'.fresh = fetch.fresh
        /\ responses' = responses
    BY <1>0, <1>7 DEF HydrateDoc, HydrationTypeOK, Fetch
  <2>2. fetch.rows[d] \subseteq Known(d)'
    BY <1>1, <2>1, KnownStays DEF AccountInv, FetchTold, Told
  <2>3. ShownIsAccountedFor'
    BY <1>0, <1>1, <2>1, <2>2, ApplyTold DEF AccountInv
  <2>4. FetchTold'
    BY <1>1, <2>1, KnownStays DEF AccountInv, FetchTold, Told
  <2> QED BY <1>2, <2>3, <2>4 DEF AccountInv
<1> QED BY <1>0, <1>3, <1>4, <1>5, <1>6, <1>7 DEF HydrationStep
\* One immediate write takes a step; the others wait.
LEMMA DirectsTake ==
  ASSUME DirectTypeOK, Learns, DirectsTold, NEW w \in Callers,
         \A v \in Callers \ {w} : direct'[v] = direct[v], DirectTold(w)'
  PROVE  DirectsTold'
BY DirectStays DEF DirectsTold

LEMMA DirectsKnown == Confirming /\ Typed /\ AccountInv /\ Directs => AccountInv'
<1> SUFFICES ASSUME Confirming, Typed, AccountInv, Directs PROVE AccountInv'
  OBVIOUS
<1>0. /\ LocalTypeOK /\ BackendTypeOK /\ WritesTypeOK /\ DirectTypeOK /\ DirectFound
      /\ DirectStep /\ UNCHANGED <<drainVars, responses, fetch>>
  BY DEF Directs, Typed, TypeOK, ReadsAreThere
<1>1. Learns /\ UNCHANGED stray => StraysTold' /\ RequestsTold' /\ FetchTold'
  BY <1>0, StraysStay, RequestsStay, FetchStays DEF AccountInv, drainVars
<1>2. UNCHANGED <<serverVars, callVars>> => Learns /\ UNCHANGED stray /\ ServerTold'
  BY ServerStays DEF AccountInv, Learns, serverVars, callVars
<1>9. ASSUME NEW w \in Callers, NEW d \in Docs, NEW op \in Ops, NEW n \in Nat,
             NEW refused \in BOOLEAN, SendThenStore(w, d, op, n, refused)
      PROVE  AccountInv'
  <2> DEFINE edit  == EditFor(n, op)
             body  == BodyOf(d, op, edit)
             reply == IF refused THEN Reply(server[d], "terminal", None)
                                 ELSE Handle(server[d], op, body)
             new(answer) == [pc |-> "replied", op |-> op, doc |-> d, edit |-> edit,
                             body |-> answer, seen |-> None]
  <2>1. /\ UNCHANGED <<store, stray, made>> /\ "immediate" \in Operations
        /\ IF refused THEN UNCHANGED <<server, accepted, served>>
                      ELSE Serve(d, op, edit.n, body)
        /\ IF Agreed(reply.outcome)
           THEN \E answer \in {reply.body, None} : direct' = [direct EXCEPT ![w] = new(answer)]
           ELSE Return(w)
    BY <1>9 DEF SendThenStore
  <2>2. Upsert = TRUE
    BY <2>1 DEF Confirming
  <2>3. Learns
    BY <2>1, ServeLearns DEF Learns
  <2>4. CASE refused
    <3>1. Return(w)
      BY <2>1, <2>4 DEF Agreed, Reply
    <3>2. \A v \in Callers : direct'[v] \in {direct[v], None}
      BY <1>0, <3>1 DEF Return, DirectTypeOK
    <3> QED
      BY <1>0, <1>1, <2>1, <2>3, <2>4, <3>2, StoreStays, ServerStays, DirectStays
      DEF AccountInv, DirectsTold
  <2>5. CASE ~ refused
    <3>1. Serve(d, op, edit.n, body) /\ reply = Handle(server[d], op, body)
      BY <2>1, <2>5
    <3>2. Carried(op, body) \subseteq accepted'
      <4>1. Handle(server[d], op, body).outcome = "ok"
        BY <2>2 DEF Handle, Reply, Ops
      <4> QED BY <3>1, <4>1 DEF Serve
    <3>3. edit \in body /\ (edit.kind = "delete" <=> op = "delete")
      BY DEF BodyOf, EditFor
    <3>4. edit \in Known(d)'
      BY <3>2, <3>3 DEF Carried, Known
    <3>5. body \subseteq Known(d)'
      <4>1. server[d] # None => server[d] \subseteq Known(d)'
        BY <2>3, KnownStays DEF AccountInv, ServerTold, Told
      <4> QED BY <3>4, <4>1 DEF BodyOf
    <3>6. ServerTold' /\ reply.body \in {None, body}
      <4> HIDE DEF body, edit
      <4> QED BY <1>0, <2>3, <3>1, <3>5, ServeTold DEF AccountInv
    <3>7. ASSUME NEW answer \in {reply.body, None}, direct' = [direct EXCEPT ![w] = new(answer)]
          PROVE  DirectsTold'
      <4>1. answer \in {None, body}
        BY <3>6
      <4>2. direct'[w] = new(answer) /\ \A v \in Callers \ {w} : direct'[v] = direct[v]
        BY <1>0, <3>7 DEF DirectTypeOK
      <4>3. DirectTold(w)'
        <5>1. /\ direct'[w].pc = "replied" /\ direct'[w].doc = d
              /\ direct'[w].edit = edit /\ direct'[w].body = answer
          BY <4>2
        <5> HIDE DEF body, edit, new
        <5> QED BY <3>4, <3>5, <4>1, <5>1 DEF DirectTold, Told, Known
      <4> QED BY <1>0, <2>3, <4>2, <4>3, DirectsTake DEF AccountInv
    <3>8. ASSUME Return(w) PROVE DirectsTold'
      <4>1. \A v \in Callers : direct'[v] \in {direct[v], None}
        BY <1>0, <3>8 DEF Return, DirectTypeOK
      <4> QED BY <1>0, <2>3, <4>1, DirectStays DEF AccountInv, DirectsTold
    <3>9. DirectsTold'
      <4> HIDE DEF new, reply
      <4> QED BY <2>1, <3>7, <3>8
    <3> QED
      BY <1>1, <2>1, <2>3, <3>6, <3>9, StoreStays DEF AccountInv
  <2> QED BY <2>4, <2>5
<1>3. ASSUME NEW w \in Callers, NEW d \in Docs, NEW op \in Ops, NEW refused \in BOOLEAN,
             DirectAnswered(w, d, op, refused)
      PROVE  AccountInv'
  <2>1. clock + 1 \in Nat /\ SendThenStore(w, d, op, clock + 1, refused)
    BY <1>0, <1>3 DEF DirectAnswered, LocalTypeOK
  <2> QED BY <1>9, <2>1
<1>10. ASSUME NEW w \in Callers, NEW refused \in BOOLEAN, DirectRetried(w, refused)
       PROVE  AccountInv'
  <2>1. direct[w] \in Direct
    BY <1>0, <1>10 DEF DirectRetried, DirectTypeOK
  <2>2. /\ direct[w].doc \in Docs /\ direct[w].op \in Ops /\ direct[w].edit.n \in Nat
        /\ SendThenStore(w, direct[w].doc, direct[w].op, direct[w].edit.n, refused)
    BY <1>10, <2>1 DEF DirectRetried, Direct, Edit
  <2> QED BY <1>9, <2>2
<1>4. ASSUME NEW w \in Callers, Return(w), UNCHANGED <<serverVars, callVars>>, ShownIsAccountedFor'
      PROVE  AccountInv'
  <2>1. \A v \in Callers : direct'[v] \in {direct[v], None}
    BY <1>0, <1>4 DEF Return, DirectTypeOK
  <2> QED
    BY <1>0, <1>1, <1>2, <1>4, <2>1, DirectStays DEF AccountInv, DirectsTold
<1>5. ASSUME NEW w \in Callers, DirectLost(w) PROVE AccountInv'
  BY <1>2, <1>4, <1>5, StoreStays DEF DirectLost, AccountInv, localVars
<1>6. ASSUME NEW w \in Callers, DirectDelete(w) PROVE AccountInv'
  <2>1. direct[w].doc \in Docs
    BY <1>0, <1>6 DEF DirectDelete, DirectTypeOK, Direct
  <2> QED
    BY <1>0, <1>2, <1>4, <1>6, <2>1, DeleteTold DEF DirectDelete, AccountInv
<1>7. ASSUME NEW w \in Callers, DirectStore(w) PROVE AccountInv'
  <2>1. /\ direct[w] # None /\ direct[w].pc = "found" /\ direct[w].doc \in Docs
        /\ ApplyCanonical(direct[w].doc, direct[w].seen, direct[w].body)
        /\ UNCHANGED <<serverVars, callVars>> /\ Return(w)
    BY <1>0, <1>7 DEF DirectStore, DirectTypeOK, Direct
  <2>2. PICK d \in Docs : d = direct[w].doc
    BY <2>1
  <2>3. Learns
    BY <1>2, <2>1
  <2>4. direct[w].body \subseteq Known(d)
    BY <2>1, <2>2 DEF AccountInv, DirectsTold, DirectTold
  <2>5. direct[w].body \subseteq Known(d)'
    BY <2>3, <2>4, KnownStays
  <2>6. ShownIsAccountedFor'
    BY <1>0, <2>1, <2>2, <2>3, <2>5, ApplyTold DEF AccountInv
  <2> QED BY <1>4, <2>1, <2>6
<1>8. ASSUME NEW w \in Callers, DirectMerge(w) \/ DirectFind(w) PROVE AccountInv'
  <2> DEFINE c == direct[w]
  <2>1. /\ c \in Direct /\ c # None
        /\ UNCHANGED <<localVars, serverVars, callVars>>
    BY <1>0, <1>8 DEF DirectMerge, DirectFind, DirectTypeOK
  <2>2. PICK d \in Docs : d = c.doc
    BY <2>1 DEF Direct
  <2>3. Learns
    BY <1>2, <2>1
  <2>4. PICK r : direct' = [direct EXCEPT ![w] = r] /\
                 ( \/ /\ DirectMerge(w)
                      /\ r = [c EXCEPT !.pc = "merged",
                                       !.body = IF c.body = None THEN Fallback(c.doc, c.op, c.edit)
                                                                 ELSE c.body]
                   \/ /\ DirectFind(w) /\ r = [c EXCEPT !.pc = "found", !.seen = store[c.doc]])
    <3>1. CASE DirectMerge(w)
      <4>1. direct' = [direct EXCEPT ![w] =
                         [c EXCEPT !.pc = "merged",
                                   !.body = IF c.body = None THEN Fallback(c.doc, c.op, c.edit)
                                                             ELSE c.body]]
        BY <2>1, <3>1 DEF DirectMerge, Direct
      <4> QED BY <3>1, <4>1
    <3>2. CASE DirectFind(w)
      BY <3>2 DEF DirectFind
    <3> QED BY <1>8, <3>1, <3>2
  <2>5. direct'[w] = r /\ \A v \in Callers \ {w} : direct'[v] = direct[v]
    BY <1>0, <2>4 DEF DirectTypeOK
  <2>6. DirectTold(w)
    BY DEF AccountInv, DirectsTold
  <2>7. Known(d) \subseteq Known(d)'
    BY <2>3, KnownStays
  <2>8. DirectTold(w)'
    <3>1. CASE DirectMerge(w)
      <4>1. c.pc = "replied" /\ c.op # "delete"
        BY <3>1 DEF DirectMerge
      <4>2. /\ r.pc = "merged" /\ r.doc = d /\ r.edit = c.edit
            /\ r.body = IF c.body = None THEN Fallback(d, c.op, c.edit) ELSE c.body
        BY <2>1, <2>2, <2>4, <3>1, <4>1 DEF Direct, DirectFind
      <4>3. c.edit \in Known(d) /\ Told(d, c.body)
        BY <2>1, <2>2, <2>6, <4>1 DEF DirectTold
      <4>4. Fallback(d, c.op, c.edit) \subseteq Known(d)
        BY <4>3 DEF Fallback, AccountInv, ShownIsAccountedFor, Known
      <4>5. r.body \subseteq Known(d)'
        BY <2>7, <4>2, <4>3, <4>4 DEF Told
      <4> QED BY <2>5, <2>7, <4>2, <4>3, <4>5 DEF DirectTold, Known
    <3>2. CASE DirectFind(w)
      <4>1. c.pc = "merged"
        BY <3>2 DEF DirectFind
      <4>2. /\ r.pc = "found" /\ r.doc = d /\ r.edit = c.edit /\ r.body = c.body /\ r.op = c.op
        BY <2>1, <2>2, <2>4, <3>2, <4>1 DEF Direct, DirectMerge
      <4> QED BY <2>1, <2>2, <2>5, <2>6, <2>7, <4>1, <4>2 DEF DirectTold, Known
    <3> QED BY <1>8, <3>1, <3>2
  <2>9. DirectsTold'
    BY <1>0, <2>3, <2>5, <2>8, DirectsTake DEF AccountInv
  <2> QED
    BY <1>1, <1>2, <2>1, <2>3, <2>9, StoreStays DEF AccountInv, localVars
<1> QED BY <1>0, <1>3, <1>5, <1>6, <1>7, <1>8, <1>10 DEF DirectStep

LEMMA InitTold == Init => AccountInv
BY DEF Init, LocalInit, Synced, StampSynced, BackendInit, WritesInit, DirectInit, DrainInit,
       HydrationInit, NoRequests, AccountInv, ShownIsAccountedFor, Present, ServerTold, Told,
       StraysTold, RequestsTold, RequestTold, DirectsTold, DirectTold, FetchTold

LEMMA NextTold == Confirming /\ Typed /\ AccountInv /\ [Next]_vars => AccountInv'
<1> SUFFICES ASSUME Confirming, Typed, AccountInv, [Next]_vars PROVE AccountInv'
  OBVIOUS
<1>1. CASE UNCHANGED vars
  <2>1. Learns
    BY <1>1 DEF Learns, vars, serverVars, callVars
  <2> QED
    BY <1>1, <2>1, StoreStays, ServerStays, StraysStay, RequestsStay, DirectStays, FetchStays
    DEF AccountInv, DirectsTold, Typed, TypeOK, vars, localVars, serverVars, drainVars
<1> QED
  BY <1>1, WritesTold, DirectsKnown, DrainsTold, StraysArriveTold, HydratesTold DEF Next

\* Whichever way of writing brought it there and however it failed, a document
\* shows only what was written on this device or what the server has taken.
THEOREM NothingIsMadeUp == Confirming => (Spec => []ShownIsAccountedFor)
<1> SUFFICES ASSUME Confirming PROVE Spec => []ShownIsAccountedFor
  OBVIOUS
<1>1. Init => Typed /\ AccountInv
  BY InitTyped, InitTold
<1>2. (Typed /\ AccountInv) /\ [Next]_vars => (Typed /\ AccountInv)'
  BY NextTyped, NextTold
<1>3. AccountInv => ShownIsAccountedFor
  BY DEF AccountInv
<1> QED BY <1>1, <1>2, <1>3, PTL DEF Spec
=============================================================================
