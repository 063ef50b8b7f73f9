------------------------------ MODULE Backend -------------------------------
(***************************************************************************)
(* The application's backend, an external service, as the write path       *)
(* relies on it: rows under client-made ids, writes addressed by id, one   *)
(* of four outcomes per write.                                             *)
(***************************************************************************)
EXTENDS LocalStore

CONSTANTS
  Upsert,     \* TRUE: a write stores its body whether or not the row exists
  MaxStrays   \* requests per document the client gave up on but may arrive

ASSUME BackendAssumption == Upsert \in BOOLEAN /\ MaxStrays \in Nat

VARIABLES
  server,     \* the row stored under each id, or None
  stray,      \* requests still in the network that nobody waits for
  accepted,   \* history: every edit the server has ever taken
  served      \* history: the revision of the write it took last, per document

serverVars == <<server, stray, accepted, served>>

Outcomes == {"ok", "applied", "retry", "terminal"}
Message  == [op : Ops \cup {NoOp}, rev : Nat, val : Content]

BackendTypeOK ==
  /\ server \in [Docs -> {None} \cup Content]
  /\ stray \in [Docs -> SUBSET Message]
  /\ accepted \in Content
  /\ served \in [Docs -> Nat]

BackendInit ==
  /\ server \in [Docs -> {None, {}}]
  /\ stray = [d \in Docs |-> {}]
  /\ accepted = {}
  /\ served = [d \in Docs |-> 0]

Reply(row, outcome, body) == [row |-> row, outcome |-> outcome, body |-> body]

(***************************************************************************)
(* What the server does with a write.  A strict server refuses a POST of a *)
(* row it has (409), and a PUT or a DELETE of a row it has not (404); an   *)
(* upserting one does not care.  Both are idempotent: a repeated write     *)
(* leaves one row, with the content of the first or of the last body.      *)
(***************************************************************************)
Handle(row, op, val) ==
  CASE op = "insert" /\ (Upsert \/ row = None) -> Reply(val, "ok", val)
    [] op = "insert" /\ ~(Upsert \/ row = None) -> Reply(row, "applied", None)
    [] op = "update" /\ (Upsert \/ row # None) -> Reply(val, "ok", val)
    [] op = "delete" /\ (Upsert \/ row # None) -> Reply(None, "ok", None)
    [] OTHER -> Reply(row, "terminal", None)

\* The edits a write settles: an upload says nothing of a delete.
Carried(op, val) == {e \in val : e.kind = "delete" => op = "delete"}

Serve(d, op, rev, val) ==
  LET reply == Handle(server[d], op, val)
  IN  IF reply.outcome = "ok"
      THEN /\ server' = [server EXCEPT ![d] = reply.row]
           /\ accepted' = accepted \cup Carried(op, val)
           /\ served' = [served EXCEPT ![d] = rev]
      ELSE UNCHANGED <<server, accepted, served>>

\* A request whose client is gone reaches the server all the same.
StrayArrives(d) ==
  \E m \in stray[d] :
    /\ Serve(d, m.op, m.rev, m.val)
    /\ stray' = [stray EXCEPT ![d] = @ \ {m}]
    /\ UNCHANGED localVars

=============================================================================
