------------------------ MODULE SchemaVersionsProofs ------------------------
(***************************************************************************)
(* What builds of different versions do to each other's documents, for any *)
(* number of builds, versions, documents, reads under way and retired      *)
(* fields.                                                                 *)
(***************************************************************************)
EXTENDS SchemaVersions, TLAPS

\* A document is in the shape its version names, and what it holds of newer
\* shapes was put there by their builds: so an upcast always has something to
\* carry over, and it always differs from what the build's field held.
Shaped(doc) ==
  /\ doc.fields[doc.v] # None
  /\ doc.fields[doc.v].shape <= doc.v
  /\ \A f \in Versions :
       f > doc.v /\ doc.fields[f] # None => doc.fields[f].shape = f

ShapeInv ==
  /\ \A d \in Docs : Present(d) => Shaped(stored[d])
  /\ \A r \in Reads : reads[r] # None =>
       Shaped(reads[r].seen) /\ reads[r].seen.v < Target[reads[r].build]

\* A document that still has the change time a read saw is the one it saw,
\* unless two changes fell in that millisecond.
SeenInv ==
  /\ \A d \in Docs :
       Present(d) => last[d].at \in Nat /\ stored[d].at = last[d].at
  /\ \A d \in Docs : last[d].at \in Nat => last[d].at <= clock
  /\ \A r \in Reads : reads[r] # None =>
       LET d == reads[r].doc
           seen == reads[r].seen
       IN /\ last[d].at \in Nat /\ seen.at <= last[d].at
          /\ Present(d) /\ last[d].at = seen.at /\ ~ last[d].shared
             => stored[d] = seen

SchemaInv == TypeOK /\ ShapeInv /\ SeenInv

LEMMA Numbers ==
  /\ Newest \in Nat /\ MaxClock \in Nat /\ MaxEdits \in Nat
  /\ Versions \subseteq Nat /\ 0 .. MaxClock \subseteq Nat
  /\ None \notin Nat /\ None \notin Edit
  /\ \A b \in Builds : Target[b] \in Versions
  /\ \A b \in Builds : \A f \in Retired[b] : f \in Versions /\ f < Target[b]
BY SchemaAssumption DEF Versions

-----------------------------------------------------------------------------

LEMMA InitHolds == Init => SchemaInv
BY SchemaAssumption DEF Init, SchemaInv, TypeOK, ShapeInv, SeenInv, Present

LEMMA CommitTypes ==
  ASSUME TypeOK, NEW d \in Docs, NEW v \in Versions,
         NEW fields \in [Versions -> Edit \cup {None}], Commit(d, v, fields)
  PROVE  /\ stored' \in [Docs -> Document \cup {None}]
         /\ last' \in [Docs -> [ at : 0 .. MaxClock \cup {None}, shared : BOOLEAN ]]
<1>1. [v |-> v, at |-> clock, fields |-> fields] \in Document
  BY DEF Document, TypeOK
<1>2. [at |-> clock, shared |-> last[d].at = clock]
        \in [ at : 0 .. MaxClock \cup {None}, shared : BOOLEAN ]
  BY DEF TypeOK
<1> QED
  BY <1>1, <1>2 DEF TypeOK, Commit, Changed

LEMMA EditTypes ==
  ASSUME TypeOK, Edited, NEW b \in Builds
  PROVE  NewEdit(b) \in Edit /\ edits' \in 0 .. MaxEdits
BY Numbers DEF TypeOK, Edited, NewEdit, Edit

\* What a write-back leaves of the fields of a document
LEMMA DiffTypes ==
  ASSUME NEW b \in Builds, NEW seen \in Document,
         NEW fields \in [Versions -> Edit \cup {None}]
  PROVE  DiffUpdate(b, seen, fields) \in [Versions -> Edit \cup {None}]
<1>1. Migrated(b, seen) \in Edit \cup {None}
  BY DEF Migrated, Document
<1> QED
  BY <1>1 DEF DiffUpdate

LEMMA InsertTypes ==
  ASSUME TypeOK, NEW b \in Builds, NEW d \in Docs, Insert(b, d) PROVE TypeOK'
<1> DEFINE new == [f \in Versions |-> IF f = Target[b] THEN NewEdit(b) ELSE None]
<1>1. new \in [Versions -> Edit \cup {None}]
  BY EditTypes DEF Insert
<1>2. Stamp(b) \in Versions
  BY Numbers DEF Stamp
<1>3. Commit(d, Stamp(b), new)
  BY DEF Insert
<1>4. UNCHANGED <<reads, clock>> /\ edits' \in 0 .. MaxEdits
  BY EditTypes DEF Insert
<1> QED
  BY <1>1, <1>2, <1>3, <1>4, CommitTypes DEF TypeOK

LEMMA UpdateTypes ==
  ASSUME TypeOK, NEW b \in Builds, NEW d \in Docs, Update(b, d) PROVE TypeOK'
<1> DEFINE new == [stored[d].fields EXCEPT ![Target[b]] = NewEdit(b)]
<1>1. stored[d] \in Document
  BY DEF Update, Writable, Present, TypeOK
<1>2. new \in [Versions -> Edit \cup {None}] /\ stored[d].v \in Versions
  BY <1>1, EditTypes DEF Update, Document
<1>3. Commit(d, stored[d].v, new)
  BY DEF Update
<1>4. UNCHANGED <<reads, clock>> /\ edits' \in 0 .. MaxEdits
  BY EditTypes DEF Update
<1> QED
  BY <1>2, <1>3, <1>4, CommitTypes DEF TypeOK

LEMMA WriteBackTypes ==
  ASSUME TypeOK, NEW r \in Reads, WriteBack(r) PROVE TypeOK'
<1> DEFINE b == reads[r].build
           d == reads[r].doc
           seen == reads[r].seen
<1>1. b \in Builds /\ d \in Docs /\ seen \in Document
  BY DEF WriteBack, TypeOK
<1>2. UNCHANGED <<clock, edits>>
      /\ reads' \in [Reads -> [ build : Builds, doc : Docs, seen : Document ] \cup {None}]
  BY DEF WriteBack, TypeOK
<1>3. CASE Present(d) /\ Guards(seen, stored[d])
  <2> DEFINE new == DiffUpdate(b, seen, stored[d].fields)
  <2>1. stored[d] \in Document
    BY <1>1, <1>3 DEF Present, TypeOK
  <2>2. new \in [Versions -> Edit \cup {None}]
    BY <1>1, <2>1, DiffTypes DEF Document
  <2>3. Target[b] \in Versions /\ Commit(d, Target[b], new)
    BY <1>1, <1>3, Numbers DEF WriteBack
  <2> QED
    BY <1>1, <1>2, <2>2, <2>3, CommitTypes DEF TypeOK
<1>4. CASE ~ (Present(d) /\ Guards(seen, stored[d]))
  BY <1>2, <1>4 DEF WriteBack, TypeOK
<1> QED
  BY <1>3, <1>4

LEMMA NextTypes == TypeOK /\ [Next]_vars => TypeOK'
<1> SUFFICES ASSUME TypeOK, [Next]_vars PROVE TypeOK'
  OBVIOUS
<1>1. ASSUME NEW b \in Builds, NEW d \in Docs, Delete(b, d) PROVE TypeOK'
  BY <1>1 DEF Delete, TypeOK, Changed
<1>2. ASSUME NEW r \in Reads, NEW b \in Builds, NEW d \in Docs, Read(r, b, d)
      PROVE  TypeOK'
  BY <1>2 DEF Read, TypeOK, Present
<1>3. ASSUME NEW r \in Reads, WriteBackFails(r) PROVE TypeOK'
  BY <1>3 DEF WriteBackFails, TypeOK
<1>4. CASE TimePasses
  BY <1>4, Numbers DEF TimePasses, TypeOK
<1>5. CASE UNCHANGED vars
  BY <1>5 DEF vars, TypeOK
<1> QED
  BY <1>1, <1>2, <1>3, <1>4, <1>5, InsertTypes, UpdateTypes, WriteBackTypes DEF Next

-----------------------------------------------------------------------------

\* An edit is in its own shape, in whatever field of that shape it is put.
LEMMA InsertShapes ==
  ASSUME TypeOK, ShapeInv, NEW b \in Builds, NEW d \in Docs, Insert(b, d)
  PROVE  ShapeInv'
<1>1. NewEdit(b) # None /\ NewEdit(b).shape = Target[b]
  BY EditTypes, Numbers DEF Insert, NewEdit
<1>2. Shaped(stored'[d])
  <2>1. /\ stored'[d].v = Target[b] /\ Target[b] \in Versions
        /\ stored'[d].fields = [f \in Versions |-> IF f = Target[b] THEN NewEdit(b) ELSE None]
    BY Numbers DEF Insert, Commit, Stamp, TypeOK
  <2>2. /\ stored'[d].fields[Target[b]] = NewEdit(b)
        /\ \A f \in Versions : f # Target[b] => stored'[d].fields[f] = None
    BY <2>1
  <2>3. /\ Target[b] \in Nat
        /\ \A f \in Versions : f > Target[b] => f # Target[b]
    <3>1. Target[b] \in Nat /\ \A f \in Versions : f \in Nat
      BY <2>1, Numbers
    <3>2. ASSUME NEW f \in Versions, f > Target[b] PROVE f # Target[b]
      BY <3>1, <3>2
    <3> QED
      BY <3>1, <3>2
  <2> QED
    BY <1>1, <2>1, <2>2, <2>3 DEF Shaped
<1>3. \A x \in Docs : x # d => stored'[x] = stored[x]
  BY DEF Insert, Commit, TypeOK
<1> QED
  BY <1>2, <1>3 DEF ShapeInv, Present, Shaped, Insert

LEMMA UpdateShapes ==
  ASSUME TypeOK, ShapeInv, NEW b \in Builds, NEW d \in Docs, Update(b, d)
  PROVE  ShapeInv'
<1>1. NewEdit(b) # None /\ NewEdit(b).shape = Target[b]
  BY EditTypes, Numbers DEF Update, NewEdit
<1>2. stored[d] \in Document /\ Shaped(stored[d])
  BY DEF Update, Writable, Present, TypeOK, ShapeInv
<1>3. Shaped(stored'[d])
  <2>1. /\ stored'[d].v = stored[d].v
        /\ stored'[d].fields = [stored[d].fields EXCEPT ![Target[b]] = NewEdit(b)]
    BY DEF Update, Commit, TypeOK
  <2>2. stored[d].v \in Versions /\ stored[d].fields \in [Versions -> Edit \cup {None}]
    BY <1>2 DEF Document
  <2>3. \A f \in Versions : stored'[d].fields[f] =
          IF f = Target[b] THEN NewEdit(b) ELSE stored[d].fields[f]
    BY <2>1, <2>2
  <2>4. /\ \A f \in Versions : f \in Nat
        /\ Target[b] \in Versions /\ Target[b] \in Nat /\ stored[d].v \in Nat
    BY <2>2, Numbers
  <2>5. /\ stored'[d].fields[stored[d].v] # None
        /\ stored'[d].fields[stored[d].v].shape <= stored[d].v
    BY <1>1, <1>2, <2>2, <2>3, <2>4 DEF Shaped
  <2>6. \A f \in Versions : f > stored[d].v /\ stored'[d].fields[f] # None
                            => stored'[d].fields[f].shape = f
    BY <1>1, <1>2, <2>3 DEF Shaped
  <2> QED
    BY <2>1, <2>5, <2>6 DEF Shaped
<1>4. \A x \in Docs : x # d => stored'[x] = stored[x]
  BY DEF Update, Commit, TypeOK
<1> QED
  BY <1>3, <1>4 DEF ShapeInv, Present, Shaped, Update

\* The field a write-back fills: the edit carried over never equals what the
\* field held, so it is always set.
LEMMA Carried ==
  ASSUME TypeOK, ShapeInv, NEW r \in Reads, reads[r] # None
  PROVE  LET b == reads[r].build
             seen == reads[r].seen
         IN /\ Migrated(b, seen) \in Edit /\ Migrated(b, seen).shape < Target[b]
            /\ Migrated(b, seen) # seen.fields[Target[b]]
            /\ \A fields : DiffUpdate(b, seen, fields)[Target[b]] = Migrated(b, seen)
<1> DEFINE b == reads[r].build
           seen == reads[r].seen
<1>1. b \in Builds /\ seen \in Document /\ Shaped(seen) /\ seen.v < Target[b]
  BY DEF TypeOK, ShapeInv
<1>2. Migrated(b, seen) = seen.fields[seen.v] /\ seen.v \in Versions
  BY <1>1 DEF Migrated, Document
<1>3. Migrated(b, seen) \in Edit
  BY <1>1, <1>2 DEF Document, Shaped
<1> HIDE DEF b, seen
<1>7. Target[b] \in Versions /\ Target[b] \in Nat /\ seen.v \in Nat
  BY <1>1, <1>2, Numbers
<1>8. Migrated(b, seen).shape <= seen.v /\ Migrated(b, seen).shape \in Nat
  BY <1>1, <1>2, <1>3, Numbers DEF Shaped, Edit
<1>4. Migrated(b, seen).shape < Target[b] /\ Target[b] \in Versions
  BY <1>1, <1>7, <1>8
<1>9. seen.fields[Target[b]] = None \/ seen.fields[Target[b]].shape = Target[b]
  BY <1>1, <1>7 DEF Shaped
<1>5. Migrated(b, seen) # seen.fields[Target[b]]
  <2>1. Migrated(b, seen).shape # Target[b]
    BY <1>4, <1>7, <1>8
  <2> QED
    BY <1>3, <1>9, <2>1, Numbers
<1>6. \A fields : DiffUpdate(b, seen, fields)[Target[b]] = Migrated(b, seen)
  BY <1>4, <1>5 DEF DiffUpdate
<1> QED
  BY <1>3, <1>4, <1>5, <1>6 DEF b, seen

\* What the build has neither in its shape nor in its past stays.
LEMMA DiffKeeps ==
  ASSUME NEW b \in Builds, NEW seen, NEW fields, NEW f \in Versions \ {Target[b]},
         f \notin Retired[b]
  PROVE  DiffUpdate(b, seen, fields)[f] = fields[f]
BY DEF DiffUpdate, Removed

LEMMA WriteBackShapes ==
  ASSUME TypeOK, ShapeInv, NEW r \in Reads, WriteBack(r)
  PROVE  ShapeInv'
<1> DEFINE b == reads[r].build
           d == reads[r].doc
           seen == reads[r].seen
           new == DiffUpdate(b, seen, stored[d].fields)
<1>1. reads[r] # None /\ b \in Builds /\ d \in Docs /\ seen \in Document
  BY DEF WriteBack, TypeOK
<1>2. \A q \in Reads : reads'[q] = reads[q] \/ reads'[q] = None
  BY DEF WriteBack, TypeOK
<1>3. CASE Present(d) /\ Guards(seen, stored[d])
  <2>1. stored[d] \in Document /\ Shaped(stored[d]) /\ stored[d].v < Target[b]
    BY <1>1, <1>3 DEF Present, TypeOK, ShapeInv, Guards
  <2>2. stored'[d].v = Target[b] /\ stored'[d].fields = new
    BY <1>1, <1>3 DEF WriteBack, Commit, TypeOK
  <2>3. /\ Migrated(b, seen) \in Edit /\ Migrated(b, seen).shape < Target[b]
        /\ new[Target[b]] = Migrated(b, seen)
    BY <1>1, Carried
  <2>4. \A f \in Versions : f > Target[b] => new[f] = stored[d].fields[f]
    <3> HIDE DEF b, seen
    <3> SUFFICES ASSUME NEW f \in Versions, f > Target[b] PROVE new[f] = stored[d].fields[f]
      OBVIOUS
    <3>1. f \in Nat /\ Target[b] \in Nat /\ f # Target[b] /\ f \notin Retired[b]
      BY <1>1, Numbers
    <3> QED
      BY <1>1, <3>1, DiffKeeps
  <2>7. Target[b] \in Nat /\ stored[d].v \in Nat
    BY <1>1, <2>1, Numbers DEF Document
  <2> HIDE DEF new
  <2>5. Shaped(stored'[d])
    <3>1. new[Target[b]] # None /\ new[Target[b]].shape <= Target[b]
      <4>1. Migrated(b, seen) # None /\ Migrated(b, seen).shape \in Nat
        BY <2>3, Numbers DEF Edit
      <4> QED
        BY <2>3, <2>7, <4>1
    <3>2. ASSUME NEW f \in Versions, f > Target[b], new[f] # None PROVE new[f].shape = f
      <4>1. f > stored[d].v
        BY <2>1, <2>7, <3>2, Numbers
      <4>2. stored[d].fields[f] # None
        BY <2>4, <3>2
      <4> QED
        BY <2>1, <2>4, <3>2, <4>1, <4>2 DEF Shaped
    <3> QED
      BY <2>2, <3>1, <3>2 DEF Shaped
  <2>6. \A x \in Docs : x # d => stored'[x] = stored[x]
    BY <1>1, <1>3 DEF WriteBack, Commit, TypeOK
  <2> QED
    BY <1>2, <2>5, <2>6 DEF ShapeInv, Present, Shaped
<1>4. CASE ~ (Present(d) /\ Guards(seen, stored[d]))
  BY <1>2, <1>4 DEF WriteBack, ShapeInv, Present, Shaped
<1> QED
  BY <1>3, <1>4

LEMMA NextShapes == TypeOK /\ ShapeInv /\ [Next]_vars => ShapeInv'
<1> SUFFICES ASSUME TypeOK, ShapeInv, [Next]_vars PROVE ShapeInv'
  OBVIOUS
<1>1. ASSUME NEW b \in Builds, NEW d \in Docs, Delete(b, d) PROVE ShapeInv'
  BY <1>1 DEF Delete, TypeOK, ShapeInv, Present, Shaped
<1>2. ASSUME NEW r \in Reads, NEW b \in Builds, NEW d \in Docs, Read(r, b, d)
      PROVE  ShapeInv'
  <2>1. Shaped(stored[d]) /\ stored[d].v < Target[b]
    BY <1>2 DEF Read, ShapeInv, Upcasts
  <2>2. \A q \in Reads : reads'[q] = IF q = r
          THEN [build |-> b, doc |-> d, seen |-> stored[d]] ELSE reads[q]
    BY <1>2 DEF Read, TypeOK
  <2> QED
    BY <1>2, <2>1, <2>2 DEF Read, ShapeInv, Present, Shaped
<1>3. ASSUME NEW r \in Reads, WriteBackFails(r) PROVE ShapeInv'
  BY <1>3 DEF WriteBackFails, TypeOK, ShapeInv, Present, Shaped
<1>4. CASE TimePasses
  BY <1>4 DEF TimePasses, ShapeInv, Present, Shaped
<1>5. CASE UNCHANGED vars
  BY <1>5 DEF vars, ShapeInv, Present, Shaped
<1> QED
  BY <1>1, <1>2, <1>3, <1>4, <1>5, InsertShapes, UpdateShapes, WriteBackShapes DEF Next

-----------------------------------------------------------------------------

\* A change falls in the present millisecond: a read whose time it takes up
\* finds that another change had been there before.
LEMMA ChangeSeen ==
  ASSUME TypeOK, SeenInv, NEW d \in Docs, Changed(d), UNCHANGED clock,
         \A x \in Docs : x # d => stored'[x] = stored[x],
         stored'[d] # None => stored'[d].at = clock,
         \A r \in Reads : reads'[r] = reads[r] \/ reads'[r] = None
  PROVE  SeenInv'
<1>1. /\ last'[d].at = clock /\ last'[d].shared = (last[d].at = clock)
      /\ \A x \in Docs : x # d => last'[x] = last[x]
      /\ clock \in Nat
  BY Numbers DEF Changed, TypeOK
<1>2. \A x \in Docs : stored'[x] # None =>
        last'[x].at \in Nat /\ stored'[x].at = last'[x].at
  BY <1>1 DEF SeenInv, Present
<1>3. \A x \in Docs : last'[x].at \in Nat => last'[x].at <= clock'
  BY <1>1 DEF SeenInv
<1>4. ASSUME NEW r \in Reads, reads'[r] # None
      PROVE  LET x == reads'[r].doc
                 seen == reads'[r].seen
             IN /\ last'[x].at \in Nat /\ seen.at <= last'[x].at
                /\ stored'[x] # None /\ last'[x].at = seen.at /\ ~ last'[x].shared
                   => stored'[x] = seen
  <2>1. reads'[r] = reads[r] /\ reads[r] # None
    BY <1>4
  <2>2. reads[r].doc \in Docs /\ reads[r].seen.at \in Nat
    BY <2>1, Numbers DEF TypeOK, Document
  <2>3. CASE reads[r].doc = d
    <3>1. /\ last[d].at \in Nat /\ reads[r].seen.at <= last[d].at
          /\ last[d].at <= clock
      BY <2>1, <2>2, <2>3 DEF SeenInv
    <3>2. last'[d].at = clock /\ reads[r].seen.at <= clock
      BY <1>1, <2>2, <3>1
    <3>3. reads[r].seen.at = clock => last'[d].shared
      <4>1. reads[r].seen.at = clock => last[d].at = clock
        BY <1>1, <2>2, <3>1
      <4> QED
        BY <1>1, <4>1, Zenon
    <3> QED
      BY <1>1, <2>1, <2>3, <3>2, <3>3
  <2>4. CASE reads[r].doc # d
    BY <1>1, <2>1, <2>2, <2>4 DEF SeenInv, Present
  <2> QED
    BY <2>3, <2>4
<1> QED
  BY <1>2, <1>3, <1>4 DEF SeenInv, Present

LEMMA CommitSeen ==
  ASSUME TypeOK, SeenInv, NEW d \in Docs, NEW v, NEW fields, Commit(d, v, fields),
         UNCHANGED clock, \A r \in Reads : reads'[r] = reads[r] \/ reads'[r] = None
  PROVE  SeenInv'
<1>1. /\ \A x \in Docs : x # d => stored'[x] = stored[x]
      /\ stored'[d] = [v |-> v, at |-> clock, fields |-> fields]
      /\ Changed(d)
  BY DEF Commit, TypeOK
<1> QED
  BY <1>1, ChangeSeen

LEMMA WriteBackSeen ==
  ASSUME TypeOK, SeenInv, NEW r \in Reads, WriteBack(r)
  PROVE  SeenInv'
<1> DEFINE b == reads[r].build
           d == reads[r].doc
           seen == reads[r].seen
<1>1. d \in Docs /\ UNCHANGED clock
      /\ \A q \in Reads : reads'[q] = reads[q] \/ reads'[q] = None
  BY DEF WriteBack, TypeOK
<1>2. CASE Present(d) /\ Guards(seen, stored[d])
  <2>1. Commit(d, Target[b], DiffUpdate(b, seen, stored[d].fields))
    BY <1>2 DEF WriteBack
  <2> QED
    BY <1>1, <2>1, CommitSeen
<1>3. CASE ~ (Present(d) /\ Guards(seen, stored[d]))
  BY <1>1, <1>3 DEF WriteBack, SeenInv, Present
<1> QED
  BY <1>2, <1>3

LEMMA NextSeen == TypeOK /\ SeenInv /\ [Next]_vars => SeenInv'
<1> SUFFICES ASSUME TypeOK, SeenInv, [Next]_vars PROVE SeenInv'
  OBVIOUS
<1>1. ASSUME NEW b \in Builds, NEW d \in Docs, Insert(b, d) PROVE SeenInv'
  BY <1>1, CommitSeen DEF Insert
<1>2. ASSUME NEW b \in Builds, NEW d \in Docs, Update(b, d) PROVE SeenInv'
  BY <1>2, CommitSeen DEF Update
<1>3. ASSUME NEW b \in Builds, NEW d \in Docs, Delete(b, d) PROVE SeenInv'
  <2>1. /\ \A x \in Docs : x # d => stored'[x] = stored[x]
        /\ stored'[d] = None /\ Changed(d) /\ UNCHANGED <<reads, clock>>
    BY <1>3 DEF Delete, TypeOK
  <2> QED
    BY <2>1, ChangeSeen
<1>4. ASSUME NEW r \in Reads, NEW b \in Builds, NEW d \in Docs, Read(r, b, d)
      PROVE  SeenInv'
  <2>1. \A q \in Reads : reads'[q] = IF q = r
          THEN [build |-> b, doc |-> d, seen |-> stored[d]] ELSE reads[q]
    BY <1>4 DEF Read, TypeOK
  <2>2. last[d].at \in Nat /\ stored[d].at = last[d].at
    BY <1>4 DEF Read, SeenInv, Present
  <2> QED
    BY <1>4, <2>1, <2>2 DEF Read, SeenInv, Present
<1>5. ASSUME NEW r \in Reads, WriteBackFails(r) PROVE SeenInv'
  BY <1>5 DEF WriteBackFails, TypeOK, SeenInv, Present
<1>6. CASE TimePasses
  BY <1>6, Numbers DEF TimePasses, TypeOK, SeenInv, Present
<1>7. CASE UNCHANGED vars
  BY <1>7 DEF vars, SeenInv, Present
<1> QED
  BY <1>1, <1>2, <1>3, <1>4, <1>5, <1>6, <1>7, WriteBackSeen DEF Next

LEMMA SchemaInvariant == Spec => []SchemaInv
<1>1. SchemaInv /\ [Next]_vars => SchemaInv'
  BY NextTypes, NextShapes, NextSeen DEF SchemaInv
<1> QED
  BY <1>1, InitHolds, PTL DEF Spec

-----------------------------------------------------------------------------

\* What a build does to a document that was there and stays
EditOf(b, d) ==
  /\ Writable(b, d) /\ NewEdit(b) \in Edit
  /\ stored'[d].v = stored[d].v
  /\ stored'[d].fields = [stored[d].fields EXCEPT ![Target[b]] = NewEdit(b)]

UpcastOf(r, d) ==
  LET b == reads[r].build
      seen == reads[r].seen
  IN /\ reads[r] # None /\ reads[r].doc = d /\ Guards(seen, stored[d])
     /\ stored'[d].v = Target[b]
     /\ stored'[d].fields = DiffUpdate(b, seen, stored[d].fields)

LEMMA StepsOf ==
  ASSUME TypeOK, [Next]_vars, NEW d \in Docs, Stays(d), stored'[d] # stored[d]
  PROVE  (\E b \in Builds : EditOf(b, d)) \/ (\E r \in Reads : UpcastOf(r, d))
<1>1. ASSUME NEW b \in Builds, NEW x \in Docs, Insert(b, x) PROVE FALSE
  BY <1>1 DEF Insert, Commit, TypeOK, Stays, Present
<1>2. ASSUME NEW b \in Builds, NEW x \in Docs, Update(b, x) PROVE EditOf(b, d)
  <2>1. x = d
    BY <1>2 DEF Update, Commit, TypeOK
  <2> QED
    BY <1>2, <2>1, EditTypes DEF Update, Commit, TypeOK, EditOf
<1>3. ASSUME NEW b \in Builds, NEW x \in Docs, Delete(b, x) PROVE FALSE
  BY <1>3 DEF Delete, TypeOK, Stays
<1>4. ASSUME NEW r \in Reads, WriteBack(r) PROVE UpcastOf(r, d)
  <2>1. reads[r] # None /\ reads[r].doc \in Docs
    BY <1>4 DEF WriteBack, TypeOK
  <2>2. reads[r].doc = d /\ Present(d) /\ Guards(reads[r].seen, stored[d])
    BY <1>4, <2>1 DEF WriteBack, Commit, TypeOK
  <2> QED
    BY <1>4, <2>1, <2>2 DEF WriteBack, Commit, TypeOK, UpcastOf
<1>5. ASSUME UNCHANGED stored PROVE FALSE
  BY <1>5
<1> QED
  BY <1>1, <1>2, <1>3, <1>4, <1>5
  DEF Next, vars, Read, WriteBackFails, TimePasses

\* The collection keeps its types, whatever builds open it.
THEOREM SchemaTypes == Spec => []TypeOK
BY SchemaInvariant, PTL DEF SchemaInv

\* Every document can be read in the shape its version names.
THEOREM AlwaysReadable == Spec => []Readable
<1>1. SchemaInv => Readable
  BY DEF SchemaInv, ShapeInv, Shaped, Readable
<1> QED
  BY <1>1, SchemaInvariant, PTL

\* The versions of a step by an upcast: strictly up.
LEMMA UpcastFacts ==
  ASSUME SchemaInv, NEW d \in Docs, Present(d), NEW r \in Reads, UpcastOf(r, d)
  PROVE  LET b == reads[r].build
             seen == reads[r].seen
         IN /\ b \in Builds /\ seen \in Document /\ stored[d] \in Document
            /\ Target[b] \in Versions /\ stored[d].v \in Versions
            /\ stored[d].v < Target[b] /\ seen.v = stored[d].v
            /\ Migrated(b, seen) \in Edit
            /\ stored'[d].v = Target[b]
            /\ stored'[d].fields[Target[b]] = Migrated(b, seen)
<1> DEFINE b == reads[r].build
           seen == reads[r].seen
<1>1. /\ b \in Builds /\ seen \in Document /\ stored[d] \in Document
      /\ Target[b] \in Versions
  BY Numbers DEF SchemaInv, UpcastOf, TypeOK, Present
<1>2. stored[d].v < Target[b] /\ seen.v = stored[d].v /\ stored[d].v \in Versions
  BY <1>1 DEF SchemaInv, ShapeInv, UpcastOf, Guards, Document
<1>3. /\ Migrated(b, seen) \in Edit
      /\ DiffUpdate(b, seen, stored[d].fields)[Target[b]] = Migrated(b, seen)
  BY Carried DEF SchemaInv, UpcastOf
<1> QED
  BY <1>1, <1>2, <1>3 DEF UpcastOf

\* A document never goes back to an older shape.
THEOREM VersionsOnlyGrow == Spec => VersionsGrow
<1>1. ASSUME SchemaInv, [Next]_vars, NEW d \in Docs, Stays(d)
      PROVE  stored'[d].v >= stored[d].v
  <2>1. Present(d) /\ stored[d].v \in Nat
    BY <1>1, Numbers DEF SchemaInv, TypeOK, Stays, Present, Document
  <2>2. CASE stored'[d] = stored[d]
    BY <2>1, <2>2
  <2>3. ASSUME NEW b \in Builds, EditOf(b, d) PROVE stored'[d].v >= stored[d].v
    BY <2>1, <2>3 DEF EditOf
  <2>4. ASSUME NEW r \in Reads, UpcastOf(r, d) PROVE stored'[d].v >= stored[d].v
    <3>1. stored'[d].v \in Nat /\ stored[d].v < stored'[d].v
      BY <1>1, <2>1, <2>4, UpcastFacts, Numbers
    <3> QED
      BY <2>1, <3>1
  <2> QED
    BY <1>1, <2>2, <2>3, <2>4, StepsOf DEF SchemaInv
<1>2. SchemaInv /\ [Next]_vars =>
        [\A d \in Docs : Stays(d) => stored'[d].v >= stored[d].v]_vars
  BY <1>1
<1> QED
  BY <1>2, SchemaInvariant, PTL DEF VersionsGrow, Spec

\* An upcast carries over the document's last edit, but for changes that share
\* a millisecond.
THEOREM UpcastsCarryTheLastEdit == Spec => EditsCarried
<1>1. ASSUME SchemaInv, [Next]_vars, NEW d \in Docs, Stays(d),
             stored'[d].v # stored[d].v, ~ last[d].shared
      PROVE  stored'[d].fields[stored'[d].v] = stored[d].fields[stored[d].v]
  <2>1. Present(d)
    BY <1>1 DEF Stays
  <2>2. PICK r \in Reads : UpcastOf(r, d)
    BY <1>1, StepsOf DEF SchemaInv, EditOf
  <2>3. stored[d] = reads[r].seen
    BY <1>1, <2>1, <2>2 DEF SchemaInv, SeenInv, UpcastOf, Guards
  <2>4. stored'[d].fields[stored'[d].v] = Migrated(reads[r].build, reads[r].seen)
    BY <1>1, <2>1, <2>2, UpcastFacts
  <2> QED
    BY <2>3, <2>4 DEF Migrated
<1>2. SchemaInv /\ [Next]_vars =>
        [\A d \in Docs :
           Stays(d) /\ stored'[d].v # stored[d].v /\ ~ last[d].shared
           => stored'[d].fields[stored'[d].v] = stored[d].fields[stored[d].v]]_vars
  BY <1>1
<1> QED
  BY <1>2, SchemaInvariant, PTL DEF EditsCarried, Spec

\* A field only goes away by a migration to a newer shape than its own.
THEOREM NewerFieldsStay == Spec => NewerFieldsKept
<1>1. ASSUME SchemaInv, [Next]_vars, NEW d \in Docs, NEW f \in Versions, Stays(d),
             stored[d].fields[f] # None, stored'[d].fields[f] = None
      PROVE  stored'[d].v > f
  <2>1. Present(d) /\ stored[d] \in Document
    BY <1>1 DEF SchemaInv, TypeOK, Stays, Present
  <2>2. ASSUME NEW b \in Builds, EditOf(b, d) PROVE FALSE
    <3>1. NewEdit(b) # None
      BY <2>2, Numbers DEF EditOf
    <3> QED
      BY <1>1, <2>1, <2>2, <3>1 DEF EditOf, Document
  <2>3. ASSUME NEW r \in Reads, UpcastOf(r, d) PROVE stored'[d].v > f
    <3> DEFINE b == reads[r].build
    <3>1. /\ b \in Builds /\ stored'[d].v = Target[b]
          /\ stored'[d].fields[Target[b]] \in Edit
      BY <1>1, <2>1, <2>3, UpcastFacts
    <3>2. f # Target[b]
      BY <1>1, <3>1, Numbers
    <3>3. f \in Retired[b]
      BY <1>1, <2>3, <3>1, <3>2, DiffKeeps DEF UpcastOf
    <3> QED
      BY <3>1, <3>3, Numbers
  <2> QED
    BY <1>1, <2>2, <2>3, StepsOf DEF SchemaInv
<1>2. SchemaInv /\ [Next]_vars =>
        [\A d \in Docs, f \in Versions :
           Stays(d) /\ stored[d].fields[f] # None /\ stored'[d].fields[f] = None
           => stored'[d].v > f]_vars
  BY <1>1
<1> QED
  BY <1>2, SchemaInvariant, PTL DEF NewerFieldsKept, Spec

\* No build that knows of versions edits a document newer than itself.
THEOREM NewerDocumentsUntouched == Spec => NewerUntouched
<1>1. ASSUME SchemaInv, [Next]_vars, NEW d \in Docs, NEW f \in Versions \ {0}, Stays(d),
             stored'[d].fields[f] # stored[d].fields[f], stored'[d].fields[f] # None
      PROVE  stored[d].v <= f
  <2>1. Present(d) /\ stored[d] \in Document
    BY <1>1 DEF SchemaInv, TypeOK, Stays, Present
  <2>2. ASSUME NEW b \in Builds, EditOf(b, d) PROVE stored[d].v <= f
    <3>1. f = Target[b]
      BY <1>1, <2>1, <2>2 DEF EditOf, Document
    <3> QED
      BY <2>2, <3>1, Numbers DEF EditOf, Writable
  <2>3. ASSUME NEW r \in Reads, UpcastOf(r, d) PROVE stored[d].v <= f
    <3> DEFINE b == reads[r].build
    <3>1. stored[d].v < Target[b] /\ Target[b] \in Nat /\ stored[d].v \in Nat
      BY <1>1, <2>1, <2>3, UpcastFacts, Numbers
    <3>2. f = Target[b]
      BY <1>1, <2>3 DEF UpcastOf, DiffUpdate
    <3> QED
      BY <3>1, <3>2
  <2> QED
    BY <1>1, <2>2, <2>3, StepsOf DEF SchemaInv
<1>2. SchemaInv /\ [Next]_vars =>
        [\A d \in Docs, f \in Versions \ {0} :
           Stays(d) /\ stored'[d].fields[f] # stored[d].fields[f]
                    /\ stored'[d].fields[f] # None
           => stored[d].v <= f]_vars
  BY <1>1
<1> QED
  BY <1>2, SchemaInvariant, PTL DEF NewerUntouched, Spec

=============================================================================
