---------------------------- MODULE DirectWrites ----------------------------
(***************************************************************************)
(* Immediate mutations (sendThenStore): the server first, then the local   *)
(* document, which is replaced by what the server answered.                *)
(***************************************************************************)
EXTENDS LocalWrites, Backend

VARIABLE direct     \* the immediate write of each caller, or None

Direct ==
  [ pc : {"replied", "merged", "found"}, op : Ops, doc : Docs, edit : Edit,
    body : {None} \cup Content, seen : Document \cup {None} ]

DirectTypeOK == direct \in [Callers -> Direct \cup {None}]

DirectInit == direct = [w \in Callers |-> None]

Return(w) == direct' = [direct EXCEPT ![w] = None]

\* An insert's body is the document, an update's the changed fields only:
\* the server merges those into its row.
BodyOf(d, op, edit) ==
  IF op = "update" /\ server[d] # None THEN server[d] \cup {edit} ELSE {edit}

\* Fault: the outcome is not looked at.
AgreedUnchecked(outcome) == outcome \in Outcomes

\* Any other outcome is an error thrown at the caller, and stores nothing.
Agreed(outcome) == outcome \in {"ok", "applied"}

\* The request is sent and answered, or refused whatever it asks for.
\* Deleting gives up what was queued till then.
SendThenStore(w, d, op, n, refused) ==
  LET edit  == EditFor(n, op)
      body  == BodyOf(d, op, edit)
      reply == IF refused THEN Reply(server[d], "terminal", None)
                          ELSE Handle(server[d], op, body)
  IN  /\ "immediate" \in Operations
      /\ IF refused THEN UNCHANGED <<server, accepted, served>>
                    ELSE Serve(d, op, edit.n, body)
      /\ IF Agreed(reply.outcome)
         THEN /\ \E answer \in {reply.body, None} :
                   direct' = [direct EXCEPT ![w] =
                     [pc |-> "replied", op |-> op, doc |-> d, edit |-> edit,
                      body |-> answer, seen |-> None]]
              /\ abandoned' = IF op = "delete" THEN abandoned \cup made[d] ELSE abandoned
         ELSE Return(w) /\ UNCHANGED abandoned
      /\ UNCHANGED <<store, rank, stray, call, made>>

DirectAnswered(w, d, op, refused) ==
  /\ direct[w] = None
  /\ clock < MaxEdits
  /\ clock' = clock + 1
  /\ SendThenStore(w, d, op, clock + 1, refused)

\* The reply is lost, or the store fails, and the policy sends the same
\* request again, which the server may have done before.
DirectRetried(w, refused) ==
  LET c == direct[w]
  IN  /\ c # None
      /\ SendThenStore(w, c.doc, c.op, c.edit.n, refused)
      /\ UNCHANGED clock

\* No attempt is left, or the page is gone: the caller never hears of it,
\* though the server did it.
DirectLost(w) ==
  /\ direct[w] # None
  /\ Return(w)
  /\ UNCHANGED <<localVars, serverVars, callVars>>

DirectDelete(w) ==
  /\ direct[w] # None /\ direct[w].op = "delete"
  /\ DeleteOne(direct[w].doc)
  /\ Return(w)
  /\ UNCHANGED <<clock, serverVars, callVars>>

\* A reply without a document is made up for from what was sent; an update
\* reads the document for the rest of it ...
Fallback(d, op, edit) ==
  IF op = "update" /\ Present(d) THEN store[d].val \cup {edit} ELSE {edit}

DirectMerge(w) ==
  LET c == direct[w]
  IN  /\ c # None /\ c.pc = "replied" /\ c.op # "delete"
      /\ direct' = [direct EXCEPT ![w] =
           [c EXCEPT !.pc = "merged",
                     !.body = IF @ = None THEN Fallback(c.doc, c.op, c.edit) ELSE @]]
      /\ UNCHANGED <<localVars, serverVars, callVars>>

\* ... writeConfirmed reads the document again ...
DirectFind(w) ==
  LET c == direct[w]
  IN  /\ c # None /\ c.pc = "merged"
      /\ direct' = [direct EXCEPT ![w] = [c EXCEPT !.pc = "found", !.seen = store[c.doc]]]
      /\ UNCHANGED <<localVars, serverVars, callVars>>

\* ... and replaces it, whatever it owes the server.
DirectStore(w) ==
  LET c == direct[w]
  IN  /\ c # None /\ c.pc = "found"
      /\ ApplyCanonical(c.doc, c.seen, c.body)
      /\ Return(w)
      /\ UNCHANGED <<clock, serverVars, callVars>>

DirectStep ==
  \/ \E w \in Callers, d \in Docs, op \in Ops, refused \in BOOLEAN :
       DirectAnswered(w, d, op, refused)
  \/ \E w \in Callers :
       \/ \E refused \in BOOLEAN : DirectRetried(w, refused)
       \/ DirectLost(w) \/ DirectDelete(w)
       \/ DirectMerge(w) \/ DirectFind(w) \/ DirectStore(w)

\* An immediate write that has read d and not yet replaced it.
DirectOpen(d) ==
  \E w \in Callers : direct[w] # None /\ direct[w].doc = d /\ direct[w].pc = "found"

=============================================================================
