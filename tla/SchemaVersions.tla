--------------------------- MODULE SchemaVersions ---------------------------
(***************************************************************************)
(* Documents of one collection opened by builds of an application that     *)
(* speak different shapes of it (applySchema).  A document carries the     *)
(* version of the shape it was written in; a build upcasts an older one    *)
(* when it reads it and, with persistMigrations, writes the result back    *)
(* afterwards, over whatever the other builds did in between.              *)
(*                                                                         *)
(* A shape is one field, named by its version, 0 for the shape of builds   *)
(* without a syncSchema, and what it holds is the edit it comes from, which*)
(* names the shape it was made in.  A migration computes its field from    *)
(* the one the document's version names and leaves out every other.        *)
(***************************************************************************)
EXTENDS Naturals

CONSTANTS
  None,        \* no document, no field, nothing read
  Docs,        \* documents
  Builds,      \* open collections: Target[b] is the version b speaks
  Target,
  Retired,     \* retiredFields of each build
  Reads,       \* reads whose write-back is outstanding
  Newest,      \* the highest version
  MaxEdits,    \* bound on inserts and updates
  MaxClock     \* bound on the milliseconds that pass

Versions == 0 .. Newest
Edit == [ shape : Versions, n : 1 .. MaxEdits ]

ASSUME SchemaAssumption ==
  /\ Newest \in Nat /\ MaxEdits \in Nat /\ MaxClock \in Nat
  /\ None \notin Nat /\ None \notin Edit
  /\ Target \in [Builds -> Versions]
  /\ Retired \in [Builds -> SUBSET Versions]
  /\ \A b \in Builds : \A f \in Retired[b] : f < Target[b]

VARIABLES
  stored,   \* the documents in the engine
  reads,    \* persistAll: what a read saw, and whose it is
  clock,    \* now_ms
  edits,    \* inserts and updates so far
  last      \* history: when each document was last committed or deleted, and
            \* whether the change before that fell in the same millisecond

vars == <<stored, reads, clock, edits, last>>

\* v 0 is a document without _v; at is its _changed_at.
Document ==
  [ v : Versions, at : 0 .. MaxClock, fields : [Versions -> Edit \cup {None}] ]

TypeOK ==
  /\ stored \in [Docs -> Document \cup {None}]
  /\ reads \in [Reads -> [ build : Builds, doc : Docs, seen : Document ] \cup {None}]
  /\ clock \in 0 .. MaxClock
  /\ edits \in 0 .. MaxEdits
  /\ last \in [Docs -> [ at : 0 .. MaxClock \cup {None}, shared : BOOLEAN ]]

Init ==
  /\ stored = [d \in Docs |-> None]
  /\ reads = [r \in Reads |-> None]
  /\ clock = 0
  /\ edits = 0
  /\ last = [d \in Docs |-> [at |-> None, shared |-> FALSE]]

Present(d) == stored[d] # None

(***************************************************************************)
(* The engine.  A commit replaces a document and stamps _changed_at.       *)
(***************************************************************************)
Changed(d) == last' = [last EXCEPT ![d] = [at |-> clock, shared |-> last[d].at = clock]]

Commit(d, v, fields) ==
  /\ stored' = [stored EXCEPT ![d] = [v |-> v, at |-> clock, fields |-> fields]]
  /\ Changed(d)

Edited == edits < MaxEdits /\ edits' = edits + 1

NewEdit(b) == [ shape |-> Target[b], n |-> edits + 1 ]

\* Fault: a new document is left without a version.
StampMissing(b) == 0

\* stamp: a document is inserted as current.
Stamp(b) == Target[b]

(***************************************************************************)
(* insert of a document, which names its _id and is gone or was never here *)
(***************************************************************************)
Insert(b, d) ==
  /\ ~ Present(d) /\ Edited
  /\ Commit(d, Stamp(b), [f \in Versions |-> IF f = Target[b] THEN NewEdit(b) ELSE None])
  /\ UNCHANGED <<reads, clock>>

\* Fault: documents of every version are updated.
WritableAny(b, d) == Present(d)

\* writableFilter: a build leaves the documents of newer shapes alone, one
\* without a syncSchema knows of no versions.
Writable(b, d) == Present(d) /\ (Target[b] > 0 => stored[d].v <= Target[b])

\* updateOne, updateMany: a $set in the build's own shape.  _v stays.
Update(b, d) ==
  /\ Writable(b, d) /\ Edited
  /\ Commit(d, stored[d].v, [stored[d].fields EXCEPT ![Target[b]] = NewEdit(b)])
  /\ UNCHANGED <<reads, clock>>

\* deleteOne, deleteMany
Delete(b, d) ==
  /\ Writable(b, d)
  /\ stored' = [stored EXCEPT ![d] = None]
  /\ Changed(d)
  /\ UNCHANGED <<reads, clock, edits>>

(***************************************************************************)
(* normalizeRead.  A document below the build's version is upcast, and one *)
(* above it is shown as a projection that is never written back.           *)
(***************************************************************************)
Upcasts(b, doc) == doc.v < Target[b]

\* What the migration's field of build b becomes.
Migrated(b, doc) == doc.fields[doc.v]

\* find, findOne, and the callback of subscribe.  A read that has nothing to
\* write back leaves nothing behind.
Read(r, b, d) ==
  /\ reads[r] = None
  /\ Present(d) /\ Upcasts(b, stored[d])
  /\ reads' = [reads EXCEPT ![r] = [build |-> b, doc |-> d, seen |-> stored[d]]]
  /\ UNCHANGED <<stored, clock, edits, last>>

\* Fault: every field the migration leaves out is removed.
RemovedUnknown(b, seen) == Versions \ {Target[b]}

\* preserveFields, diffUpdate: what the migration leaves out is kept, but for
\* the fields the build has retired, where the document read carried them.
Removed(b, seen) == { f \in Retired[b] : seen.fields[f] # None }

\* Fault: the migrated fields take the place of the whole document.
DiffReplaces(b, seen, fields) == [f \in {Target[b]} |-> Migrated(b, seen)]

\* $set of what differs from the document as it was read, and $unset
DiffUpdate(b, seen, fields) ==
  [f \in Versions |->
     IF f = Target[b] /\ Migrated(b, seen) # seen.fields[f] THEN Migrated(b, seen)
     ELSE IF f \in Removed(b, seen) THEN None
     ELSE fields[f]]

\* Fault: the version is not compared.
GuardsWithoutVersion(seen, doc) == doc.at = seen.at

\* Fault: the change time is not compared.
GuardsWithoutTime(seen, doc) == doc.v = seen.v

\* The guards of persistAll's filter
Guards(seen, doc) == doc.v = seen.v /\ doc.at = seen.at

WriteBack(r) ==
  /\ reads[r] # None
  /\ LET b == reads[r].build
         d == reads[r].doc
         seen == reads[r].seen
     IN IF Present(d) /\ Guards(seen, stored[d])
        THEN Commit(d, Target[b], DiffUpdate(b, seen, stored[d].fields))
        ELSE UNCHANGED <<stored, last>>
  /\ reads' = [reads EXCEPT ![r] = None]
  /\ UNCHANGED <<clock, edits>>

\* The write-back fails, or its tab is closed: the next read tries again.
WriteBackFails(r) ==
  /\ reads[r] # None
  /\ reads' = [reads EXCEPT ![r] = None]
  /\ UNCHANGED <<stored, clock, edits, last>>

TimePasses ==
  /\ clock < MaxClock
  /\ clock' = clock + 1
  /\ UNCHANGED <<stored, reads, edits, last>>

Next ==
  \/ \E b \in Builds, d \in Docs : Insert(b, d) \/ Update(b, d) \/ Delete(b, d)
  \/ \E r \in Reads, b \in Builds, d \in Docs : Read(r, b, d)
  \/ \E r \in Reads : WriteBack(r) \/ WriteBackFails(r)
  \/ TimePasses

Spec == Init /\ [][Next]_vars

(***************************************************************************)
(* Properties.                                                             *)
(***************************************************************************)
Stays(d) == Present(d) /\ stored'[d] # None

\* A document holds the shape its version names, whatever builds wrote,
\* retired and wrote back, so the next migration has something to start from.
Readable == \A d \in Docs : Present(d) => stored[d].fields[stored[d].v] # None

\* A document never goes back to an older shape: of two builds that upcast
\* the same document at once, the older one does not undo the newer one.
VersionsGrow == [][\A d \in Docs : Stays(d) => stored'[d].v >= stored[d].v]_vars

\* An upcast carries over the last edit of the document, not the one that was
\* there when it was read, as long as no two changes share a millisecond:
\* _changed_at tells apart only what lies a millisecond apart.
EditsCarried ==
  [][\A d \in Docs :
       Stays(d) /\ stored'[d].v # stored[d].v /\ ~ last[d].shared
       => stored'[d].fields[stored'[d].v] = stored[d].fields[stored[d].v]]_vars

\* A field goes away only by a migration to a newer shape than its own: an old
\* build does not delete, for every peer, fields it has never heard of.
NewerFieldsKept ==
  [][\A d \in Docs, f \in Versions :
       Stays(d) /\ stored[d].fields[f] # None /\ stored'[d].fields[f] = None
       => stored'[d].v > f]_vars

\* A document of a newer shape is not edited in an older one, but by builds
\* that know of no versions.
NewerUntouched ==
  [][\A d \in Docs, f \in Versions \ {0} :
       Stays(d) /\ stored'[d].fields[f] # stored[d].fields[f]
                /\ stored'[d].fields[f] # None
       => stored[d].v <= f]_vars

=============================================================================
