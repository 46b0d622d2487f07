-------------------------- MODULE Moderation_proofs --------------------------
(***************************************************************************)
(* Proofs about the listings, for any number of operators, names, records  *)
(* and handlers that wait; and about the probe cycle that keeps their      *)
(* status, for any nodes, lists and workers.                               *)
(***************************************************************************)
EXTENDS Moderation, Probe, FiniteSetTheorems, TLAPS

(***************************************************************************)
(* The invariant. What the types say, whatever overlaps:                   *)
(***************************************************************************)
\* A handler that keeps an object.
Holds(j) == job[j] # Free /\ job[j].kind \in {"approving", "pairing", "editing"}

TInv == /\ TypeOK
        /\ \A j \in Jobs : Holds(j) => heap[job[j].obj] # Free

(***************************************************************************)
(* and what holds as long as no two operations on one id or name overlap.  *)
(***************************************************************************)
\* Handlers that wait at the same time work on different ids and names.
Apart == \A j, k \in Jobs, a, b \in Waiting :
    job[j] = a /\ job[k] = b /\ j # k => Touches(a) \cap Touches(b) = {}

\* What a waiting handler has looked at is still so.
Current(b) ==
    /\ b.kind \in {"probing", "resolving"} =>
         /\ Matching(b.name) = b.ids
         /\ \A i \in b.ids : At(i).owner = b.who
    /\ b.kind = "resolving" => b.id \in IF b.ids = {} THEN {b.name} ELSE b.ids
    /\ b.kind \in {"approving", "pairing", "editing"} => slot[heap[b.obj].id] = b.obj
    /\ b.kind = "editing" => Matching(b.name) \subseteq {heap[b.obj].id}
    /\ b.kind = "importing" => ~Stored(b.id)

Unique == \A n \in Names : \A h, i \in Matching(n) :
            ~At(h).imported /\ ~At(i).imported => h = i

Approved == \A i \in Ids :
    Stored(i) /\ At(i).status = "approved" => <<i, At(i).owner>> \in vouched

AllCurrent == \A j \in Jobs, b \in Waiting : job[j] = b => Current(b)

Orderly == Apart /\ AllCurrent /\ Unique /\ Approved
MInv    == TInv /\ (~overlapped => Orderly)

(***************************************************************************)
(* Shapes.                                                                 *)
(***************************************************************************)
LEMMA Shapes ==
    ASSUME TInv
    PROVE  /\ \A i \in Ids : Stored(i) =>
                /\ slot[i] \in Objects /\ At(i) \in Record /\ At(i).id = i
                /\ At(i).owner \in Operators /\ At(i).name \in Names
           /\ \A j \in Jobs : Holds(j) =>
                /\ job[j].obj \in Objects /\ heap[job[j].obj] \in Record
                /\ heap[job[j].obj].id \in Ids
           /\ \A j \in Jobs : job[j] # Free => job[j] \in Waiting
  <1>1. ASSUME NEW i \in Ids, Stored(i)
        PROVE  /\ slot[i] \in Objects /\ At(i) \in Record /\ At(i).id = i
               /\ At(i).owner \in Operators /\ At(i).name \in Names
    <2>1. slot[i] \in Objects /\ At(i) \in Record /\ At(i).id = i
      BY <1>1 DEF TInv, TypeOK, Stored, At
    <2> QED BY <2>1 DEF Record
  <1>2. \A j \in Jobs : job[j] # Free => job[j] \in Waiting
    BY DEF TInv, TypeOK, Job
  <1>3. ASSUME NEW j \in Jobs, Holds(j)
        PROVE  /\ job[j].obj \in Objects /\ heap[job[j].obj] \in Record
               /\ heap[job[j].obj].id \in Ids
    <2>1. job[j].obj \in Objects
      BY <1>2, <1>3 DEF Holds, Waiting
    <2>2. heap[job[j].obj] \in Record
      BY <1>3, <2>1 DEF TInv, TypeOK
    <2> QED BY <2>1, <2>2 DEF Record
  <1> QED BY <1>1, <1>2, <1>3

LEMMA KeptIsReferenced == Referenced = KeptBy(slot, job)
  BY DEF Referenced, Held, KeptBy, Stored

LEMMA ReferencedObjects ==
    /\ \A i \in Ids : Stored(i) => slot[i] \in Referenced
    /\ \A j \in Jobs : Holds(j) => job[j].obj \in Referenced
  BY DEF Referenced, Held, Holds

LEMMA KeptAfter ==
    /\ \A i \in Ids : Stored(i)' => slot'[i] \in KeptBy(slot', job')
    /\ \A j \in Jobs : Holds(j)' => job'[j].obj \in KeptBy(slot', job')
  BY DEF KeptBy, Stored, Holds

LEMMA Collected ==
    ASSUME NEW h \in [Objects -> Record \cup {Free}], NEW K
    PROVE  /\ Collect(h, K) \in [Objects -> Record \cup {Free}]
           /\ \A o \in Objects : o \in K => Collect(h, K)[o] = h[o]
  BY DEF Collect

(***************************************************************************)
(* There is a fresh object for a handler that holds none.                  *)
(***************************************************************************)
LEMMA FreshThere ==
    ASSUME TInv, NEW j \in Jobs, ~Holds(j)
    PROVE  Fresh \in Objects /\ Fresh \notin Referenced
  <1> DEFINE I == {i \in Ids : Stored(i)}
             J == {k \in Jobs : Holds(k)}
             f == [i \in I |-> slot[i]]
             g == [k \in J |-> job[k].obj]
             A == {f[i] : i \in I}
             B == {g[k] : k \in J}
  <1>1. Referenced = A \cup B
    BY DEF Referenced, Held, Holds
  <1>2. /\ IsFiniteSet(I) /\ Cardinality(I) <= Cardinality(Ids)
        /\ Cardinality(I) \in Nat /\ Cardinality(Ids) \in Nat
    BY ObjectsAssumption, FS_Subset, FS_CardinalityType
  <1>3. /\ IsFiniteSet(J) /\ Cardinality(J) < Cardinality(Jobs)
        /\ Cardinality(J) \in Nat /\ Cardinality(Jobs) \in Nat
    <2>1. J \subseteq Jobs /\ J # Jobs /\ IsFiniteSet(Jobs)
      BY ObjectsAssumption
    <2>2. IsFiniteSet(J) /\ Cardinality(J) <= Cardinality(Jobs)
      BY <2>1, FS_Subset
    <2>3. Cardinality(J) # Cardinality(Jobs)
      BY <2>1, FS_Subset
    <2>4. Cardinality(J) \in Nat /\ Cardinality(Jobs) \in Nat
      BY <2>1, <2>2, FS_CardinalityType
    <2> HIDE DEF J
    <2> QED BY <2>2, <2>3, <2>4
  <1>4. IsFiniteSet(A) /\ Cardinality(A) <= Cardinality(I) /\ Cardinality(A) \in Nat
    <2>1. f \in Surjection(I, A)
      BY DEF Surjection
    <2>2. IsFiniteSet(A) /\ Cardinality(A) <= Cardinality(I)
      BY <1>2, <2>1, FS_Surjection
    <2> QED BY <2>2, FS_CardinalityType
  <1>5. IsFiniteSet(B) /\ Cardinality(B) <= Cardinality(J) /\ Cardinality(B) \in Nat
    <2>1. g \in Surjection(J, B)
      BY DEF Surjection
    <2>2. IsFiniteSet(B) /\ Cardinality(B) <= Cardinality(J)
      BY <1>3, <2>1, FS_Surjection
    <2> QED BY <2>2, FS_CardinalityType
  <1>6. A \cup B \subseteq Objects
    BY Shapes
  <1> HIDE DEF A, B, I, J
  <1>7. IsFiniteSet(A \cup B) /\ Cardinality(A \cup B) <= Cardinality(A) + Cardinality(B)
    <2>1. /\ IsFiniteSet(A \cup B) /\ IsFiniteSet(A \cap B)
          /\ Cardinality(A \cup B) = Cardinality(A) + Cardinality(B) - Cardinality(A \cap B)
      BY <1>4, <1>5, FS_Union, FS_Intersection
    <2>2. Cardinality(A \cap B) \in Nat
      BY <2>1, FS_CardinalityType
    <2> QED BY <1>4, <1>5, <2>1, <2>2
  <1>8. A \cup B # Objects
    <2> SUFFICES ASSUME A \cup B = Objects PROVE FALSE
      OBVIOUS
    <2>1. Cardinality(Ids) + Cardinality(Jobs) <= Cardinality(A \cup B)
      BY <1>7, ObjectsAssumption
    <2>2. Cardinality(A \cup B) \in Nat
      BY <1>7, FS_CardinalityType
    <2> QED BY <1>2, <1>3, <1>4, <1>5, <1>7, <2>1, <2>2
  <1>9. \E o \in Objects : o \notin Referenced
    BY <1>1, <1>6, <1>8
  <1> QED BY <1>9 DEF Fresh

(***************************************************************************)
(* What the steps do to the records and the objects.                       *)
(***************************************************************************)
\* The record under an id stays as it is.
Same(i) == slot'[i] = slot[i] /\ (Stored(i) => At(i)' = At(i))
Only(i) == \A h \in Ids \ {i} : Same(h)

\* An object that a handler keeps stays the object of one id.
IdsStay == \A k \in Jobs : Holds(k) /\ job'[k] = job[k]
             => heap'[job[k].obj].id = heap[job[k].obj].id

LEMMA PutStep ==
    ASSUME TInv, NEW o \in Objects, NEW r \in Record, NEW j \in Jobs, Put(o, r, j),
           o \in Referenced => heap[o] # Free /\ heap[o].id = r.id,
           UNCHANGED <<vouched, overlapped>>
    PROVE  /\ TInv' /\ IdsStay /\ r.id \in Ids /\ Only(r.id)
           /\ slot'[r.id] = o /\ Stored(r.id)' /\ At(r.id)' = r
           /\ job' = [job EXCEPT ![j] = Free]
  <1> DEFINE H == [heap EXCEPT ![o] = r]
             K == KeptBy(slot', job')
  <1>1. /\ slot' = [slot EXCEPT ![r.id] = o] /\ job' = [job EXCEPT ![j] = Free]
        /\ heap' = Collect(H, K)
    BY DEF Put
  <1>2. /\ r.id \in Ids /\ slot \in [Ids -> Objects \cup {NoRec}]
        /\ heap \in [Objects -> Record \cup {Free}] /\ job \in [Jobs -> Job]
    BY DEF Record, TInv, TypeOK
  <1>3. /\ slot' \in [Ids -> Objects \cup {NoRec}] /\ slot'[r.id] = o
        /\ \A h \in Ids \ {r.id} : slot'[h] = slot[h]
    BY <1>1, <1>2
  <1>4. /\ job' \in [Jobs -> Job] /\ job'[j] = Free
        /\ \A k \in Jobs \ {j} : job'[k] = job[k]
    BY <1>1, <1>2 DEF Job
  <1>5. /\ H \in [Objects -> Record \cup {Free}] /\ H[o] = r
        /\ \A p \in Objects \ {o} : H[p] = heap[p]
    BY <1>2
  <1> HIDE DEF H, K
  <1>6. /\ heap' \in [Objects -> Record \cup {Free}]
        /\ \A p \in Objects : p \in K => heap'[p] = H[p]
    BY <1>1, <1>5, Collected
  <1>7. Stored(r.id)' /\ At(r.id)' = r
    <2>1. Stored(r.id)'
      BY <1>3, ObjectsAssumption DEF Stored
    <2>2. slot'[r.id] \in K
      BY <1>2, <2>1, KeptAfter DEF K
    <2> QED BY <1>3, <1>5, <1>6, <2>1, <2>2 DEF At
  <1>8. Only(r.id)
    <2> SUFFICES ASSUME NEW h \in Ids \ {r.id} PROVE Same(h)
      BY DEF Only
    <2>1. slot'[h] = slot[h]
      BY <1>3
    <2>2. ASSUME Stored(h) PROVE At(h)' = At(h)
      <3>1. slot[h] \in Objects /\ At(h).id = h /\ slot[h] \in Referenced
        BY <2>2, Shapes, ReferencedObjects
      <3>2. slot[h] # o
        BY <3>1 DEF At
      <3>3. slot'[h] \in K
        BY <2>1, <2>2, KeptAfter DEF K, Stored
      <3> QED BY <1>5, <1>6, <2>1, <3>1, <3>2, <3>3 DEF At
    <2> QED BY <2>1, <2>2 DEF Same
  <1>9. \A k \in Jobs : Holds(k)' =>
          /\ k # j /\ Holds(k) /\ job'[k] = job[k] /\ job[k].obj \in K
    BY <1>4, KeptAfter DEF Holds, K
  <1>10. \A k \in Jobs : Holds(k) /\ job[k].obj \in K =>
           /\ heap'[job[k].obj] # Free
           /\ heap'[job[k].obj].id = heap[job[k].obj].id
    <2> SUFFICES ASSUME NEW k \in Jobs, Holds(k), job[k].obj \in K
                 PROVE  /\ heap'[job[k].obj] # Free
                        /\ heap'[job[k].obj].id = heap[job[k].obj].id
      OBVIOUS
    <2>1. /\ job[k].obj \in Objects /\ job[k].obj \in Referenced
          /\ heap[job[k].obj] \in Record
      BY Shapes, ReferencedObjects
    <2>2. heap'[job[k].obj] = H[job[k].obj]
      BY <1>6, <2>1
    <2> QED BY <1>5, <2>1, <2>2, ObjectsAssumption
  <1>11. IdsStay
    <2> SUFFICES ASSUME NEW k \in Jobs, Holds(k), job'[k] = job[k]
                 PROVE  job[k].obj \in K
      BY <1>10 DEF IdsStay
    <2>1. Holds(k)'
      BY DEF Holds
    <2> QED BY <1>9, <2>1
  <1>12. \A i \in Ids : Stored(i)' => At(i)' # Free /\ At(i)'.id = i
    <2> SUFFICES ASSUME NEW i \in Ids, Stored(i)' PROVE At(i)' # Free /\ At(i)'.id = i
      OBVIOUS
    <2>1. CASE i = r.id
      BY <1>7, <2>1, ObjectsAssumption
    <2>2. CASE i # r.id
      <3>1. Stored(i) /\ At(i)' = At(i)
        BY <1>8, <2>2 DEF Only, Same, Stored
      <3> QED BY <3>1 DEF TInv, TypeOK
    <2> QED BY <2>1, <2>2
  <1>13. TypeOK'
    BY <1>3, <1>4, <1>6, <1>12 DEF TInv, TypeOK
  <1>14. TInv'
    BY <1>9, <1>10, <1>13 DEF TInv
  <1> QED BY <1>1, <1>2, <1>3, <1>7, <1>8, <1>11, <1>14

\* A handler begins, or goes on, without changing a record.
LEMMA WaitStep ==
    ASSUME TInv, slot' = slot, heap' = heap, vouched' = vouched, overlapped' \in BOOLEAN,
           NEW j \in Jobs, NEW b \in Waiting, job' = [job EXCEPT ![j] = b],
           b.kind \in {"approving", "pairing", "editing"} => heap[b.obj] # Free
    PROVE  TInv' /\ IdsStay /\ \A i \in Ids : Same(i)
  <1>1. \A i \in Ids : (Stored(i)' <=> Stored(i)) /\ At(i)' = At(i)
    BY DEF Stored, At
  <1>2. TypeOK'
    BY <1>1 DEF TInv, TypeOK, Job
  <1>3. \A k \in Jobs : Holds(k)' => heap'[job'[k].obj] # Free
    BY DEF TInv, TypeOK, Holds
  <1> QED BY <1>1, <1>2, <1>3 DEF TInv, IdsStay, Same

LEMMA StatusStep ==
    ASSUME TInv, NEW i \in Ids, Stored(i), NEW s \in {"pending", "approved", "rejected"},
           SetStatus(i, s), slot' = slot, vouched' \subseteq Ids \X Operators,
           overlapped' \in BOOLEAN,
           \/ job' = job
           \/ \E j \in Jobs : job' = [job EXCEPT ![j] = [kind |-> "approving", obj |-> slot[i]]]
    PROVE  /\ TInv' /\ IdsStay /\ Only(i)
           /\ slot'[i] = slot[i] /\ At(i)' = [At(i) EXCEPT !.status = s]
  <1>1. /\ slot[i] \in Objects /\ At(i) \in Record /\ At(i).id = i
        /\ heap \in [Objects -> Record \cup {Free}]
    BY Shapes DEF TInv, TypeOK
  <1>2. heap' = [heap EXCEPT ![slot[i]] = [At(i) EXCEPT !.status = s]]
    BY DEF SetStatus, At
  <1>3. [At(i) EXCEPT !.status = s] \in Record /\ [At(i) EXCEPT !.status = s].id = i
    BY <1>1 DEF Record
  <1>4. /\ heap' \in [Objects -> Record \cup {Free}] /\ At(i)' = [At(i) EXCEPT !.status = s]
        /\ \A o \in Objects \ {slot[i]} : heap'[o] = heap[o]
    BY <1>1, <1>2, <1>3 DEF At
  <1>5. Only(i)
    BY <1>1, <1>4, Shapes DEF Only, Same, At
  <1>6. \A h \in Ids : Stored(h)' => At(h)' # Free /\ At(h)'.id = h
    <2> SUFFICES ASSUME NEW h \in Ids, Stored(h)' PROVE At(h)' # Free /\ At(h)'.id = h
      OBVIOUS
    <2>1. CASE h = i
      BY <1>3, <1>4, <2>1, ObjectsAssumption
    <2>2. CASE h # i
      <3>1. Stored(h) /\ At(h)' = At(h)
        BY <1>5, <2>2 DEF Only, Same, Stored
      <3> QED BY <3>1 DEF TInv, TypeOK
    <2> QED BY <2>1, <2>2
  <1>7. [kind |-> "approving", obj |-> slot[i]] \in Job
    BY <1>1 DEF Job, Waiting
  <1>8. job' \in [Jobs -> Job]
    BY <1>7 DEF TInv, TypeOK
  <1>9. TypeOK'
    BY <1>4, <1>6, <1>8 DEF TInv, TypeOK
  <1>10. \A o \in Objects : heap[o] \in Record =>
           heap'[o] \in Record /\ heap'[o].id = heap[o].id
    BY <1>1, <1>3, <1>4 DEF At
  <1>11. \A k \in Jobs : Holds(k)' => heap'[job'[k].obj] # Free
    <2> SUFFICES ASSUME NEW k \in Jobs, Holds(k)' PROVE heap'[job'[k].obj] \in Record
      BY ObjectsAssumption
    <2>1. CASE job'[k] = job[k]
      BY <1>10, <2>1, Shapes DEF Holds
    <2>2. CASE job'[k] # job[k]
      <3>1. job'[k] = [kind |-> "approving", obj |-> slot[i]]
        BY <2>2 DEF TInv, TypeOK
      <3> QED BY <1>1, <1>10, <3>1 DEF At
    <2> QED BY <2>1, <2>2
  <1>12. IdsStay
    BY <1>10, Shapes DEF IdsStay
  <1> QED BY <1>4, <1>5, <1>9, <1>11, <1>12 DEF TInv

\* Records are deleted, handlers are over, and what nobody refers to is gone.
LEMMA CleanStep ==
    ASSUME TInv, slot' \in [Ids -> Objects \cup {NoRec}], job' \in [Jobs -> Job],
           \A i \in Ids : slot'[i] \in {slot[i], NoRec},
           \A k \in Jobs : job'[k] \in {job[k], Free},
           heap' = Collect(heap, KeptBy(slot', job')),
           vouched' \subseteq Ids \X Operators, overlapped' \in BOOLEAN
    PROVE  TInv' /\ IdsStay /\ \A i \in Ids : slot'[i] = slot[i] => Same(i)
  <1>1. /\ heap' \in [Objects -> Record \cup {Free}]
        /\ \A o \in Objects : o \in KeptBy(slot', job') => heap'[o] = heap[o]
    BY Collected DEF TInv, TypeOK
  <1>2. \A i \in Ids : Stored(i)' => Stored(i) /\ slot'[i] = slot[i] /\ At(i)' = At(i)
    <2> SUFFICES ASSUME NEW i \in Ids, Stored(i)'
                 PROVE  Stored(i) /\ slot'[i] = slot[i] /\ At(i)' = At(i)
      OBVIOUS
    <2>1. Stored(i) /\ slot'[i] = slot[i]
      BY DEF Stored
    <2>2. slot[i] \in Objects /\ slot[i] \in KeptBy(slot', job')
      BY <2>1, Shapes, KeptAfter
    <2> QED BY <1>1, <2>1, <2>2 DEF At
  <1>3. \A k \in Jobs : Holds(k)' => Holds(k) /\ job'[k] = job[k]
                                     /\ heap'[job[k].obj] = heap[job[k].obj]
    <2> SUFFICES ASSUME NEW k \in Jobs, Holds(k)'
                 PROVE  Holds(k) /\ job'[k] = job[k]
                        /\ heap'[job[k].obj] = heap[job[k].obj]
      OBVIOUS
    <2>1. Holds(k) /\ job'[k] = job[k]
      BY DEF Holds
    <2>2. job[k].obj \in Objects /\ job[k].obj \in KeptBy(slot', job')
      BY <2>1, Shapes, KeptAfter
    <2> QED BY <1>1, <2>1, <2>2
  <1>4. TypeOK'
    BY <1>1, <1>2 DEF TInv, TypeOK
  <1>5. TInv'
    BY <1>3, <1>4 DEF TInv
  <1>6. IdsStay
    BY <1>3 DEF IdsStay, Holds
  <1>7. \A i \in Ids : slot'[i] = slot[i] => Same(i)
    BY <1>2 DEF Same, Stored
  <1> QED BY <1>5, <1>6, <1>7

(***************************************************************************)
(* What a waiting handler has looked at, and touches.                      *)
(***************************************************************************)
Looking(b)  == b.kind \in {"probing", "resolving"}
Keeping(b)  == b.kind \in {"approving", "pairing", "editing"}

LEMMA WaitingKinds ==
    ASSUME NEW b \in Waiting
    PROVE  /\ b # Free
           /\ Looking(b) => b.who \in Operators /\ b.name \in Ids /\ b.ids \subseteq Ids
           /\ b.kind = "resolving" => b.id \in Ids
           /\ Keeping(b) => b.obj \in Objects
           /\ b.kind = "editing" => b.name \in Names
           /\ b.kind = "importing" => b.id \in Ids /\ b.name \in Names /\ b.who \in Operators
           /\ b.kind \in {"probing", "resolving", "approving", "pairing", "editing", "importing"}
  <1>1. b # Free
    BY ObjectsAssumption
  <1> QED BY <1>1 DEF Waiting, Looking, Keeping

LEMMA TouchesOf ==
    ASSUME NEW b \in Waiting
    PROVE  /\ Looking(b) => Touches(b) = {b.name} \cup b.ids
           /\ b.kind = "editing" => Touches(b) = {heap[b.obj].id, b.name}
           /\ b.kind = "importing" => Touches(b) = {b.id, b.name}
           /\ b.kind \in {"approving", "pairing"} => Touches(b) = {heap[b.obj].id}
  <1>1. Looking(b) => Touches(b) = {b.name} \cup b.ids
    BY DEF Looking, Touches
  <1>2. b.kind = "editing" => Touches(b) = {heap[b.obj].id, b.name}
    BY DEF Touches
  <1>3. b.kind = "importing" => Touches(b) = {b.id, b.name}
    BY DEF Touches
  <1>4. b.kind \in {"approving", "pairing"} => Touches(b) = {heap[b.obj].id}
    BY DEF Touches
  <1> QED BY <1>1, <1>2, <1>3, <1>4

LEMMA TouchesOfNext ==
    ASSUME NEW b \in Waiting
    PROVE  /\ Looking(b) => Touches(b)' = {b.name} \cup b.ids
           /\ b.kind = "editing" => Touches(b)' = {heap'[b.obj].id, b.name}
           /\ b.kind = "importing" => Touches(b)' = {b.id, b.name}
           /\ b.kind \in {"approving", "pairing"} => Touches(b)' = {heap'[b.obj].id}
  <1>1. Looking(b) => Touches(b)' = {b.name} \cup b.ids
    BY DEF Looking, Touches
  <1>2. b.kind = "editing" => Touches(b)' = {heap'[b.obj].id, b.name}
    BY DEF Touches
  <1>3. b.kind = "importing" => Touches(b)' = {b.id, b.name}
    BY DEF Touches
  <1>4. b.kind \in {"approving", "pairing"} => Touches(b)' = {heap'[b.obj].id}
    BY DEF Touches
  <1> QED BY <1>1, <1>2, <1>3, <1>4

\* Only the status of the record under an id changes.
Judged(i) == /\ slot'[i] = slot[i] /\ Stored(i)
             /\ At(i)'.name = At(i).name /\ At(i)'.owner = At(i).owner
             /\ At(i)'.imported = At(i).imported

\* A step that changes nothing of what the handler b works on.
Undisturbed(b) == \A i \in Ids :
    \/ Same(i) \/ Judged(i)
    \/ i \notin Touches(b) /\ (Stored(i)' => At(i)'.name \notin Touches(b))

LEMMA CurrentStays ==
    ASSUME TInv, IdsStay, NEW j \in Jobs, NEW b \in Waiting, job[j] = b, job'[j] = b,
           Current(b), Undisturbed(b)
    PROVE  Current(b)' /\ Touches(b)' = Touches(b)
  <1>1. Keeping(b) => /\ heap[b.obj].id \in Ids /\ heap'[b.obj].id = heap[b.obj].id
                      /\ b.obj \in Objects
    <2>1. Keeping(b) => Holds(j)
      BY WaitingKinds DEF Keeping, Holds
    <2> QED BY <2>1, Shapes DEF IdsStay
  <1>2. Touches(b)' = Touches(b)
    <2>1. CASE Looking(b)
      BY <2>1, TouchesOf, TouchesOfNext
    <2>2. CASE b.kind = "editing"
      BY <1>1, <2>2, TouchesOf, TouchesOfNext DEF Keeping
    <2>3. CASE b.kind = "importing"
      BY <2>3, TouchesOf, TouchesOfNext
    <2>4. CASE b.kind \in {"approving", "pairing"}
      BY <1>1, <2>4, TouchesOf, TouchesOfNext DEF Keeping
    <2> QED BY <2>1, <2>2, <2>3, <2>4, WaitingKinds DEF Looking
  <1>3. \A i \in Ids : Same(i) \/ Judged(i) =>
          /\ slot'[i] = slot[i] /\ (Stored(i)' <=> Stored(i))
          /\ Stored(i) => At(i)'.name = At(i).name /\ At(i)'.owner = At(i).owner
    BY DEF Same, Judged, Stored
  <1>4. ASSUME Looking(b)
        PROVE  Matching(b.name)' = b.ids /\ \A i \in b.ids : At(i)'.owner = b.who
    <2>1. Touches(b) = {b.name} \cup b.ids /\ b.ids \subseteq Ids
      BY <1>4, TouchesOf, WaitingKinds
    <2>2. Matching(b.name) = b.ids /\ \A i \in b.ids : At(i).owner = b.who
      BY <1>4 DEF Current, Looking
    <2>3. \A i \in Ids : i \in Matching(b.name)' <=> i \in Matching(b.name)
      <3> SUFFICES ASSUME NEW i \in Ids
                   PROVE  i \in Matching(b.name)' <=> i \in Matching(b.name)
        OBVIOUS
      <3>1. CASE Same(i) \/ Judged(i)
        BY <1>3, <3>1 DEF Matching
      <3>2. CASE i \notin Touches(b) /\ (Stored(i)' => At(i)'.name \notin Touches(b))
        <4>1. i \notin Matching(b.name) /\ i # b.name
          BY <2>1, <2>2, <3>2
        <4>2. Stored(i)' => At(i)'.name # b.name
          BY <2>1, <3>2
        <4> QED BY <4>1, <4>2 DEF Matching
      <3> QED BY <3>1, <3>2 DEF Undisturbed
    <2>4. Matching(b.name)' \subseteq Ids /\ Matching(b.name) \subseteq Ids
      BY DEF Matching
    <2>5. \A i \in b.ids : Same(i) \/ Judged(i)
      BY <2>1 DEF Undisturbed
    <2>6. \A i \in b.ids : Stored(i)
      BY <2>2 DEF Matching
    <2> QED BY ZenonT(40), <1>3, <2>1, <2>2, <2>3, <2>4, <2>5, <2>6
  <1>5. Keeping(b) => slot'[heap'[b.obj].id] = b.obj
    <2> SUFFICES ASSUME Keeping(b) PROVE slot'[heap[b.obj].id] = b.obj
      BY <1>1
    <2>1. slot[heap[b.obj].id] = b.obj
      BY DEF Current, Keeping
    <2>2. heap[b.obj].id \in Touches(b)
      BY TouchesOf DEF Keeping
    <2>3. Same(heap[b.obj].id) \/ Judged(heap[b.obj].id)
      BY <1>1, <2>2 DEF Undisturbed
    <2> QED BY <1>1, <1>3, <2>1, <2>3
  <1>6. b.kind = "editing" => Matching(b.name)' \subseteq {heap'[b.obj].id}
    <2> SUFFICES ASSUME b.kind = "editing", NEW i \in Ids, i \in Matching(b.name)',
                        i # heap[b.obj].id
                 PROVE  FALSE
      BY <1>1 DEF Matching, Keeping
    <2>1. b.name \in Touches(b)
      BY TouchesOf
    <2>2. i \notin Matching(b.name)
      BY DEF Current
    <2>3. Stored(i)' /\ (At(i)'.name = b.name \/ i = b.name)
      BY DEF Matching
    <2>4. Same(i) \/ Judged(i)
      BY <2>1, <2>3 DEF Undisturbed
    <2> QED BY <1>3, <2>2, <2>3, <2>4 DEF Matching
  <1>7. b.kind = "importing" => ~Stored(b.id)'
    <2> SUFFICES ASSUME b.kind = "importing" PROVE ~Stored(b.id)'
      OBVIOUS
    <2>1. b.id \in Ids /\ b.id \in Touches(b) /\ ~Stored(b.id)
      BY TouchesOf, WaitingKinds DEF Current
    <2>2. Same(b.id) \/ Judged(b.id)
      BY <2>1 DEF Undisturbed
    <2> QED BY <1>3, <2>1, <2>2
  <1>8. Current(b)'
    <2>1. b.kind = "resolving" => b.id \in IF b.ids = {} THEN {b.name} ELSE b.ids
      BY DEF Current
    <2> QED BY <1>4, <1>5, <1>6, <1>7, <2>1 DEF Current, Looking, Keeping
  <1> QED BY <1>2, <1>8

\* A handler that begins is on time, and keeps out of the way of the others.
Newly(j, b) == /\ Current(b)'
               /\ \A k \in Jobs \ {j}, a \in Waiting : job[k] = a =>
                    Touches(b)' \cap Touches(a) = {}

LEMMA JobsStep ==
    ASSUME TInv, IdsStay, Apart, AllCurrent,
           \A k \in Jobs, a \in Waiting : job[k] = a /\ job'[k] = a => Undisturbed(a),
           NEW j \in Jobs, NEW b \in Waiting,
           \A k \in Jobs : job'[k] = Free \/ job'[k] = job[k] \/ (k = j /\ job'[k] = b),
           job'[j] = b => Newly(j, b)
    PROVE  Apart' /\ AllCurrent'
  <1>1. \A k \in Jobs, a \in Waiting : job[k] = a /\ job'[k] = a =>
          Current(a)' /\ Touches(a)' = Touches(a)
    BY CurrentStays DEF AllCurrent
  <1>2. \A k \in Jobs, a \in Waiting : job'[k] = a =>
          job[k] = a \/ (k = j /\ a = b)
    BY WaitingKinds
  <1>3. AllCurrent'
    <2> SUFFICES ASSUME NEW k \in Jobs, NEW a \in Waiting, job'[k] = a
                 PROVE  Current(a)'
      BY DEF AllCurrent
    <2>1. CASE job[k] = a
      BY <1>1, <2>1
    <2>2. CASE k = j /\ a = b
      BY <2>2 DEF Newly
    <2> QED BY <1>2, <2>1, <2>2
  <1>4. Apart'
    <2> SUFFICES ASSUME NEW k \in Jobs, NEW l \in Jobs, NEW a \in Waiting, NEW c \in Waiting,
                        job'[k] = a, job'[l] = c, k # l
                 PROVE  Touches(a)' \cap Touches(c)' = {}
      BY DEF Apart
    <2>1. CASE job[k] = a /\ job[l] = c
      BY <1>1, <2>1 DEF Apart
    <2>2. CASE k = j /\ a = b /\ job[l] = c
      BY <1>1, <2>2 DEF Newly
    <2>3. CASE l = j /\ c = b /\ job[k] = a
      BY <1>1, <2>3 DEF Newly
    <2> QED BY <1>2, <2>1, <2>2, <2>3
  <1> QED BY <1>3, <1>4

\* No handler begins.
LEMMA JobsEnd ==
    ASSUME TInv, IdsStay, Apart, AllCurrent,
           \A k \in Jobs, a \in Waiting : job[k] = a /\ job'[k] = a => Undisturbed(a),
           \A k \in Jobs : job'[k] \in {job[k], Free}
    PROVE  Apart' /\ AllCurrent'
  <1>1. \A k \in Jobs, a \in Waiting : job[k] = a /\ job'[k] = a =>
          Current(a)' /\ Touches(a)' = Touches(a)
    BY CurrentStays DEF AllCurrent
  <1>2. \A k \in Jobs, a \in Waiting : job'[k] = a => job[k] = a
    BY WaitingKinds
  <1> QED BY <1>1, <1>2 DEF Apart, AllCurrent

(***************************************************************************)
(* Steps, by what they do.                                                 *)
(***************************************************************************)
Isolated == \A i \in Ids :
    slot'[i] # slot[i] /\ slot'[i] # NoRec
    => /\ slot'[i] \notin Referenced
       /\ Stored(i) => heap'[slot'[i]].owner = At(i).owner

Done == TInv' /\ (~overlapped' => Orderly' /\ Isolated)

LEMMA Begun ==
    ASSUME TInv, NEW T, Begin(T)
    PROVE  /\ overlapped' \in BOOLEAN
           /\ ~overlapped' => /\ ~overlapped
                              /\ \A k \in Jobs, a \in Waiting : job[k] = a => Touches(a) \cap T = {}
  <1>1. overlapped \in BOOLEAN
    BY DEF TInv, TypeOK
  <1>2. overlapped' \in BOOLEAN
    BY <1>1 DEF Begin
  <1>3. ~overlapped' => ~overlapped
    BY <1>1 DEF Begin
  <1>4. ~overlapped' => ~ \E k \in Jobs : job[k] # Free /\ Touches(job[k]) \cap T # {}
    BY <1>1 DEF Begin
  <1>5. \A k \in Jobs, a \in Waiting : job[k] = a => job[k] # Free
    BY WaitingKinds
  <1> QED BY <1>2, <1>3, <1>4, <1>5

\* Without a change of names the records stay apart; and approved ones approved.
LEMMA RecordsStay ==
    ASSUME Unique,
           \A i \in Ids : Same(i) \/ Judged(i) \/ ~Stored(i)'
    PROVE  Unique'
  <1>1. \A i \in Ids : Stored(i)' => /\ Stored(i) /\ At(i)'.name = At(i).name
                                     /\ At(i)'.imported = At(i).imported
    BY DEF Same, Judged, Stored
  <1>2. \A n \in Names, i \in Ids : i \in Matching(n)' =>
          i \in Matching(n) /\ At(i)'.imported = At(i).imported
    BY <1>1 DEF Matching
  <1>3. \A n \in Names : Matching(n)' \subseteq Ids
    BY DEF Matching
  <1> QED BY <1>2, <1>3 DEF Unique

LEMMA QuietNew ==
    ASSUME slot' = slot, heap' = heap, NEW b \in Waiting
    PROVE  Touches(b)' = Touches(b) /\ (Current(b)' <=> Current(b))
  <1>1. Touches(b)' = Touches(b)
    <2>1. CASE Looking(b)
      BY <2>1, TouchesOf, TouchesOfNext
    <2>2. CASE b.kind = "editing"
      BY <2>2, TouchesOf, TouchesOfNext
    <2>3. CASE b.kind = "importing"
      BY <2>3, TouchesOf, TouchesOfNext
    <2>4. CASE b.kind \in {"approving", "pairing"}
      BY <2>4, TouchesOf, TouchesOfNext
    <2> QED BY <2>1, <2>2, <2>3, <2>4, WaitingKinds DEF Looking
  <1>2. /\ \A i : Stored(i)' <=> Stored(i)
        /\ \A i : At(i)' = At(i)
    BY DEF Stored, At
  <1>3. Matching(b.name)' = Matching(b.name)
    BY <1>2 DEF Matching
  <1>4. Current(b)' <=> Current(b)
    BY <1>2, <1>3 DEF Current
  <1> QED BY <1>1, <1>4

LEMMA WaitDone ==
    ASSUME MInv, slot' = slot, heap' = heap, vouched' = vouched, overlapped' \in BOOLEAN,
           NEW j \in Jobs, NEW b \in Waiting, job' = [job EXCEPT ![j] = b],
           Keeping(b) => heap[b.obj] # Free,
           ~overlapped' =>
             /\ ~overlapped /\ Current(b)
             /\ \A k \in Jobs \ {j}, a \in Waiting : job[k] = a => Touches(b) \cap Touches(a) = {}
    PROVE  Done
  <1>1. TInv' /\ IdsStay /\ \A i \in Ids : Same(i)
    BY WaitStep DEF MInv, Keeping
  <1> SUFFICES ASSUME ~overlapped' PROVE Orderly' /\ Isolated
    BY <1>1 DEF Done
  <1>2. Orderly
    BY DEF MInv
  <1>3. Newly(j, b)
    BY QuietNew DEF Newly
  <1>4. \A a : Undisturbed(a)
    BY <1>1 DEF Undisturbed
  <1>5. \A k \in Jobs : job'[k] = job[k] \/ (k = j /\ job'[k] = b)
    BY DEF MInv, TInv, TypeOK
  <1>6. Apart' /\ AllCurrent'
    BY <1>1, <1>2, <1>3, <1>4, <1>5, JobsStep DEF MInv, Orderly
  <1>7. Unique'
    BY <1>1, <1>2, RecordsStay DEF Orderly
  <1>8. Approved'
    BY <1>1, <1>2 DEF Orderly, Approved, Same, Stored
  <1>9. Isolated
    BY DEF Isolated
  <1> QED BY <1>6, <1>7, <1>8, <1>9 DEF Orderly

LEMMA PutDone ==
    ASSUME MInv, NEW o \in Objects, NEW r \in Record, NEW j \in Jobs, NEW b \in Waiting,
           job[j] = b, Put(o, r, j), UNCHANGED <<vouched, overlapped>>,
           o \in Referenced => heap[o] # Free /\ heap[o].id = r.id,
           ~overlapped =>
             /\ \/ r.id \in Touches(b) /\ r.name \in Touches(b)
                \/ slot[r.id] = o /\ At(r.id) = r
             /\ r.imported \/ \A n \in {r.id, r.name} : \A h \in Matching(n) \ {r.id} : At(h).imported
             /\ r.status = "approved" => <<r.id, r.owner>> \in vouched
             /\ \/ o \notin Referenced /\ (Stored(r.id) => At(r.id).owner = r.owner)
                \/ slot[r.id] = o
    PROVE  Done
  <1>1. /\ TInv' /\ IdsStay /\ r.id \in Ids /\ Only(r.id)
        /\ slot'[r.id] = o /\ Stored(r.id)' /\ At(r.id)' = r
        /\ job' = [job EXCEPT ![j] = Free]
    BY PutStep DEF MInv
  <1> SUFFICES ASSUME ~overlapped' PROVE Orderly' /\ Isolated
    BY <1>1 DEF Done
  <1>2. ~overlapped /\ Orderly
    BY DEF MInv
  <1>3. job'[j] = Free /\ \A k \in Jobs : job'[k] \in {job[k], Free}
    BY <1>1 DEF MInv, TInv, TypeOK
  <1>4. \A k \in Jobs, a \in Waiting : job[k] = a /\ job'[k] = a => Undisturbed(a)
    <2> SUFFICES ASSUME NEW k \in Jobs, NEW a \in Waiting, job[k] = a, job'[k] = a,
                        NEW i \in Ids
                 PROVE  \/ Same(i)
                        \/ i \notin Touches(a) /\ (Stored(i)' => At(i)'.name \notin Touches(a))
      BY DEF Undisturbed
    <2>1. Touches(a) \cap Touches(b) = {}
      BY <1>2, <1>3, WaitingKinds DEF Orderly, Apart
    <2>2. CASE i = r.id /\ r.id \in Touches(b) /\ r.name \in Touches(b)
      BY <1>1, <2>1, <2>2
    <2>3. CASE i = r.id /\ slot[r.id] = o /\ At(r.id) = r
      BY <1>1, <2>3 DEF Same
    <2>4. CASE i # r.id
      BY <1>1, <2>4 DEF Only
    <2> QED BY <1>2, <2>2, <2>3, <2>4
  <1>5. Apart' /\ AllCurrent'
    BY <1>1, <1>2, <1>3, <1>4, JobsEnd DEF MInv, Orderly
  <1>6. \A h \in Ids \ {r.id} : Stored(h)' => Stored(h) /\ At(h)' = At(h)
    BY <1>1 DEF Only, Same, Stored
  <1>7. Unique'
    <2> SUFFICES ASSUME NEW n \in Names, NEW h \in Ids, NEW i \in Ids,
                        h \in Matching(n)', i \in Matching(n)',
                        ~At(h)'.imported, ~At(i)'.imported
                 PROVE  h = i
      BY DEF Unique, Matching
    <2>1. CASE h # r.id /\ i # r.id
      <3>1. h \in Matching(n) /\ i \in Matching(n) /\ ~At(h).imported /\ ~At(i).imported
        BY <1>6, <2>1 DEF Matching
      <3> QED BY <1>2, <3>1 DEF Orderly, Unique
    <2>2. \A g \in Ids \ {r.id} : g \in Matching(n)' /\ r.id \in Matching(n)' /\ ~r.imported =>
            At(g)'.imported
      <3> SUFFICES ASSUME NEW g \in Ids \ {r.id}, g \in Matching(n)', r.id \in Matching(n)',
                          ~r.imported
                   PROVE  At(g)'.imported
        OBVIOUS
      <3>1. n \in {r.id, r.name}
        BY <1>1 DEF Matching
      <3>2. g \in Matching(n) /\ At(g)' = At(g)
        BY <1>6 DEF Matching
      <3> QED BY <1>2, <3>1, <3>2
    <2> QED BY <1>1, <2>1, <2>2
  <1>8. Approved'
    <2> SUFFICES ASSUME NEW i \in Ids, Stored(i)', At(i)'.status = "approved"
                 PROVE  <<i, At(i)'.owner>> \in vouched
      BY DEF Approved
    <2>1. CASE i = r.id
      BY <1>1, <1>2, <2>1
    <2>2. CASE i # r.id
      BY <1>2, <1>6, <2>2 DEF Orderly, Approved
    <2> QED BY <2>1, <2>2
  <1>9. Isolated
    <2> SUFFICES ASSUME NEW i \in Ids, slot'[i] # slot[i]
                 PROVE  /\ slot'[i] \notin Referenced
                        /\ Stored(i) => heap'[slot'[i]].owner = At(i).owner
      BY DEF Isolated
    <2>1. i = r.id
      BY <1>1 DEF Only, Same
    <2> QED BY <1>1, <1>2, <2>1 DEF At
  <1> QED BY <1>5, <1>7, <1>8, <1>9 DEF Orderly

LEMMA JudgeDone ==
    ASSUME MInv, NEW i \in Ids, Stored(i), NEW s \in {"pending", "approved", "rejected"},
           SetStatus(i, s), slot' = slot, Begin({i}), vouched' \subseteq Ids \X Operators,
           \/ job' = job
           \/ \E j \in Jobs : job' = [job EXCEPT ![j] = [kind |-> "approving", obj |-> slot[i]]],
           s = "approved" => <<i, At(i).owner>> \in vouched',
           \A v \in vouched : v[1] # i => v \in vouched'
    PROVE  Done
  <1>1. /\ overlapped' \in BOOLEAN
        /\ ~overlapped' => /\ ~overlapped
                           /\ \A k \in Jobs, a \in Waiting : job[k] = a => Touches(a) \cap {i} = {}
    BY Begun DEF MInv
  <1>2. /\ TInv' /\ IdsStay /\ Only(i)
        /\ slot'[i] = slot[i] /\ At(i)' = [At(i) EXCEPT !.status = s]
    BY <1>1, StatusStep DEF MInv
  <1> SUFFICES ASSUME ~overlapped' PROVE Orderly' /\ Isolated
    BY <1>2 DEF Done
  <1>3. ~overlapped /\ Orderly
    BY <1>1 DEF MInv
  <1>4. /\ slot[i] \in Objects /\ At(i) \in Record /\ At(i).id = i
        /\ At(i).owner \in Operators
    BY Shapes DEF MInv
  <1>5. Judged(i) /\ At(i)'.status = s /\ At(i)'.id = i
    BY <1>2, <1>4 DEF Judged, Record
  <1>6. \A h \in Ids : Same(h) \/ Judged(h)
    BY <1>2, <1>5 DEF Only
  <1>7. \A a : Undisturbed(a)
    BY <1>6 DEF Undisturbed
  <1>8. Apart' /\ AllCurrent'
    <2>1. CASE job' = job
      BY <1>2, <1>3, <1>7, <2>1, JobsEnd DEF MInv, Orderly
    <2>2. ASSUME NEW j \in Jobs,
                 job' = [job EXCEPT ![j] = [kind |-> "approving", obj |-> slot[i]]]
          PROVE  Apart' /\ AllCurrent'
      <3>1. PICK b \in Waiting : b = [kind |-> "approving", obj |-> slot[i]]
        BY <1>4 DEF Waiting
      <3>2. \A k \in Jobs : job'[k] = job[k] \/ (k = j /\ job'[k] = b)
        BY <2>2, <3>1 DEF MInv, TInv, TypeOK
      <3>3. heap'[b.obj].id = i
        BY <1>2, <1>5, <3>1 DEF At
      <3>4. Touches(b)' = {i}
        BY <3>1, <3>3, TouchesOfNext
      <3>5. Current(b)'
        BY <1>2, <3>1, <3>3 DEF Current
      <3>6. Newly(j, b)
        BY <1>1, <3>4, <3>5 DEF Newly
      <3> QED BY <1>2, <1>3, <1>7, <3>2, <3>6, JobsStep DEF MInv, Orderly
    <2> QED BY <2>1, <2>2
  <1>9. Unique'
    BY <1>3, <1>6, RecordsStay DEF Orderly
  <1>10. Approved'
    <2> SUFFICES ASSUME NEW h \in Ids, Stored(h)', At(h)'.status = "approved"
                 PROVE  <<h, At(h)'.owner>> \in vouched'
      BY DEF Approved
    <2>1. CASE h = i
      BY <1>5, <2>1 DEF Judged
    <2>2. CASE h # i
      <3>1. Stored(h) /\ At(h)' = At(h)
        BY <1>2, <2>2 DEF Only, Same, Stored
      <3>2. <<h, At(h).owner>> \in vouched
        BY <1>3, <3>1 DEF Orderly, Approved
      <3> QED BY <2>2, <3>1, <3>2
    <2> QED BY <2>1, <2>2
  <1>11. Isolated
    BY DEF Isolated
  <1> QED BY <1>8, <1>9, <1>10, <1>11 DEF Orderly

LEMMA CleanDone ==
    ASSUME MInv, slot' \in [Ids -> Objects \cup {NoRec}], job' \in [Jobs -> Job],
           \A i \in Ids : slot'[i] \in {slot[i], NoRec},
           \A k \in Jobs : job'[k] \in {job[k], Free},
           heap' = Collect(heap, KeptBy(slot', job')),
           vouched' \subseteq Ids \X Operators, overlapped' \in BOOLEAN,
           ~overlapped' =>
             /\ ~overlapped
             /\ \A i \in Ids : slot'[i] # slot[i] =>
                  \A k \in Jobs, a \in Waiting : job[k] = a => i \notin Touches(a)
             /\ \A i \in Ids, who \in Operators :
                  Stored(i)' /\ <<i, who>> \in vouched => <<i, who>> \in vouched'
    PROVE  Done
  <1>1. TInv' /\ IdsStay /\ \A i \in Ids : slot'[i] = slot[i] => Same(i)
    BY CleanStep DEF MInv
  <1> SUFFICES ASSUME ~overlapped' PROVE Orderly' /\ Isolated
    BY <1>1 DEF Done
  <1>2. Orderly
    BY DEF MInv
  <1>3. \A i \in Ids : Same(i) \/ (slot'[i] # slot[i] /\ ~Stored(i)')
    BY <1>1 DEF Stored
  <1>4. \A k \in Jobs, a \in Waiting : job[k] = a => Undisturbed(a)
    BY <1>3 DEF Undisturbed
  <1>5. Apart' /\ AllCurrent'
    BY <1>1, <1>2, <1>4, JobsEnd DEF MInv, Orderly
  <1>6. Unique'
    BY <1>2, <1>3, RecordsStay DEF Orderly
  <1>7. Approved'
    <2> SUFFICES ASSUME NEW h \in Ids, Stored(h)', At(h)'.status = "approved"
                 PROVE  <<h, At(h)'.owner>> \in vouched'
      BY DEF Approved
    <2>1. Stored(h) /\ At(h)' = At(h)
      BY <1>3 DEF Same, Stored
    <2>2. At(h).owner \in Operators
      BY <2>1, Shapes DEF MInv
    <2> QED BY <1>2, <2>1, <2>2 DEF Orderly, Approved
  <1>8. Isolated
    BY DEF Isolated
  <1> QED BY <1>5, <1>6, <1>7, <1>8 DEF Orderly

(***************************************************************************)
(* The actions.                                                            *)
(***************************************************************************)
LEMMA OwnedMatching ==
    ASSUME NEW n, NEW who, ~NameConflict(n, who)
    PROVE  Owned(n, who) = Matching(n) /\ \A i \in Matching(n) : At(i).owner = who
  BY DEF NameConflict, Owned, Matching

LEMMA DoneSubmit ==
    ASSUME MInv, NEW j \in Jobs, NEW who \in Operators, NEW n \in Ids, Submit(j, who, n)
    PROVE  Done
  <1>1. PICK b \in Waiting : b = [kind |-> "probing", who |-> who, name |-> n,
                                  ids |-> Matching(n)]
    <2>1. Matching(n) \subseteq Ids
      BY DEF Matching
    <2> QED BY <2>1 DEF Waiting
  <1>2. slot' = slot /\ heap' = heap /\ vouched' = vouched /\ job' = [job EXCEPT ![j] = b]
    BY <1>1 DEF Submit, Start
  <1>3. Touches(b) = {n} \cup Matching(n) /\ ~Keeping(b)
    BY <1>1, TouchesOf DEF Looking, Keeping
  <1>4. Current(b)
    BY <1>1, OwnedMatching DEF Submit, Current
  <1>5. /\ overlapped' \in BOOLEAN
        /\ ~overlapped' => /\ ~overlapped
                           /\ \A k \in Jobs, a \in Waiting : job[k] = a =>
                                Touches(a) \cap Touches(b) = {}
    BY <1>3, Begun DEF MInv, Submit
  <1> QED BY <1>2, <1>3, <1>4, <1>5, WaitDone

LEMMA DoneProbed ==
    ASSUME MInv, NEW j \in Jobs, Probed(j)
    PROVE  Done
  <1>1. job[j] # Free /\ job[j].kind = "probing"
    BY DEF Probed
  <1>2. PICK c \in Waiting : c = job[j]
    BY <1>1, Shapes DEF MInv
  <1>3. c.kind = "probing" /\ c.who \in Operators /\ c.name \in Ids /\ c.ids \subseteq Ids
    BY <1>1, <1>2, WaitingKinds DEF Looking
  <1>4. PICK id \in IF Owned(c.name, c.who) = {} THEN {c.name} ELSE Owned(c.name, c.who) :
          job' = [job EXCEPT ![j] = [kind |-> "resolving", who |-> c.who, name |-> c.name,
                                     ids |-> c.ids, id |-> id]]
    BY <1>2 DEF Probed
  <1>5. id \in Ids
    BY <1>3, <1>4 DEF Owned, Matching
  <1>6. PICK b \in Waiting : b = [kind |-> "resolving", who |-> c.who, name |-> c.name,
                                  ids |-> c.ids, id |-> id]
    BY <1>3, <1>5 DEF Waiting
  <1>7. slot' = slot /\ heap' = heap /\ vouched' = vouched /\ overlapped' = overlapped
    BY DEF Probed
  <1>8. Touches(b) = Touches(c) /\ ~Keeping(b)
    BY <1>3, <1>6, TouchesOf DEF Looking, Keeping
  <1>9. ~overlapped => Current(b)
    <2> SUFFICES ASSUME ~overlapped PROVE Current(b)
      OBVIOUS
    <2>1. Matching(c.name) = c.ids /\ \A i \in c.ids : At(i).owner = c.who
      BY <1>2, <1>3 DEF MInv, Orderly, AllCurrent, Current
    <2>2. Owned(c.name, c.who) = c.ids
      BY <2>1 DEF Owned
    <2> QED BY <1>4, <1>6, <2>1, <2>2 DEF Current
  <1>10. ~overlapped => \A k \in Jobs \ {j}, a \in Waiting : job[k] = a =>
           Touches(b) \cap Touches(a) = {}
    BY <1>2, <1>8 DEF MInv, Orderly, Apart
  <1>11. overlapped \in BOOLEAN
    BY DEF MInv, TInv, TypeOK
  <1> QED BY <1>4, <1>6, <1>7, <1>8, <1>9, <1>10, <1>11, WaitDone

LEMMA DoneSubmitted ==
    ASSUME MInv, NEW j \in Jobs, Submitted(j)
    PROVE  Done
  <1>1. PICK b \in Waiting : b = job[j]
    BY Shapes DEF MInv, Submitted
  <1>2. /\ b.kind = "resolving" /\ b.who \in Operators /\ b.name \in Ids /\ b.ids \subseteq Ids
        /\ b.id \in Ids
    BY <1>1, WaitingKinds DEF Looking, Submitted
  <1> DEFINE r == [id |-> b.id, owner |-> b.who, name |-> b.name, status |-> "pending",
                   imported |-> Stored(b.id) /\ At(b.id).imported]
  <1>3. Fresh \in Objects /\ Fresh \notin Referenced
    BY <1>1, <1>2, FreshThere DEF MInv, Holds
  <1>4. Put(Fresh, r, j) /\ UNCHANGED <<vouched, overlapped>>
    BY <1>1 DEF Submitted
  <1>5. r.imported \in BOOLEAN
    <2>1. CASE Stored(b.id)
      <3>1. At(b.id) \in Record
        BY <1>2, <2>1, Shapes DEF MInv
      <3>2. At(b.id).imported \in BOOLEAN
        BY <3>1 DEF Record
      <3> QED BY <3>2
    <2>2. CASE ~Stored(b.id)
      BY <2>2
    <2> QED BY <2>1, <2>2
  <1>6. /\ r \in Record /\ r.id = b.id /\ r.name = b.name /\ r.owner = b.who
        /\ r.status = "pending"
    BY <1>2, <1>5, IdsAssumption DEF Record
  <1>7. r.imported <=> Stored(b.id) /\ At(b.id).imported
    OBVIOUS
  <1> HIDE DEF r
  <1>8. ASSUME ~overlapped
        PROVE  /\ r.id \in Touches(b) /\ r.name \in Touches(b)
               /\ r.imported \/ \A n \in {r.id, r.name} :
                    \A h \in Matching(n) \ {r.id} : At(h).imported
               /\ Stored(r.id) => At(r.id).owner = r.owner
    <2>1. /\ Matching(b.name) = b.ids /\ (\A i \in b.ids : At(i).owner = b.who)
          /\ b.id \in IF b.ids = {} THEN {b.name} ELSE b.ids
          /\ Unique
      BY <1>1, <1>2, <1>8 DEF MInv, Orderly, AllCurrent, Current
    <2>2. Touches(b) = {b.name} \cup b.ids
      BY <1>2, TouchesOf DEF Looking
    <2>3. Stored(b.id) => b.id \in Matching(b.name) /\ b.id \in Matching(b.id)
      BY <1>2, <2>1 DEF Matching
    <2>4. ~Stored(b.id) => b.id = b.name /\ Matching(b.name) = {}
      BY <1>2, <2>1 DEF Matching
    <2>5. ASSUME ~r.imported, NEW n \in {r.id, r.name}, NEW h \in Matching(n) \ {r.id},
                 ~At(h).imported
          PROVE  FALSE
      <3>1. CASE Stored(b.id)
        BY <1>2, <1>6, <1>7, <2>1, <2>3, <2>5, <3>1, IdsAssumption DEF Unique
      <3>2. CASE ~Stored(b.id)
        BY <1>6, <2>4, <2>5, <3>2
      <3> QED BY <3>1, <3>2
    <2> QED BY <1>5, <1>6, <2>1, <2>2, <2>3, <2>5
  <1> QED BY <1>1, <1>3, <1>4, <1>6, <1>8, PutDone

LEMMA DoneEdit ==
    ASSUME MInv, NEW j \in Jobs, NEW i \in Ids, NEW n \in Names, Edit(j, i, n)
    PROVE  Done
  <1>1. Stored(i) /\ slot[i] \in Objects /\ heap[slot[i]].id = i /\ heap[slot[i]] # Free
    BY Shapes, ObjectsAssumption DEF MInv, Edit, At
  <1>2. PICK b \in Waiting : b = [kind |-> "editing", obj |-> slot[i], name |-> n]
    BY <1>1 DEF Waiting
  <1>3. slot' = slot /\ heap' = heap /\ vouched' = vouched /\ job' = [job EXCEPT ![j] = b]
    BY <1>2 DEF Edit, Start
  <1>4. Touches(b) = {i, n}
    BY <1>1, <1>2, TouchesOf
  <1>5. Current(b)
    BY <1>1, <1>2 DEF Edit, TakenByOther, Current
  <1>6. /\ overlapped' \in BOOLEAN
        /\ ~overlapped' => /\ ~overlapped
                           /\ \A k \in Jobs, a \in Waiting : job[k] = a =>
                                Touches(a) \cap Touches(b) = {}
    BY <1>4, Begun DEF MInv, Edit
  <1>7. heap[b.obj] # Free
    BY <1>1, <1>2
  <1> QED BY <1>3, <1>5, <1>6, <1>7, WaitDone

LEMMA DonePairing ==
    ASSUME MInv, NEW j \in Jobs, NEW i \in Ids, Pairing(j, i)
    PROVE  Done
  <1>1. Stored(i) /\ slot[i] \in Objects /\ heap[slot[i]].id = i /\ heap[slot[i]] # Free
    BY Shapes, ObjectsAssumption DEF MInv, Pairing, At
  <1>2. PICK b \in Waiting : b = [kind |-> "pairing", obj |-> slot[i]]
    BY <1>1 DEF Waiting
  <1>3. slot' = slot /\ heap' = heap /\ vouched' = vouched /\ job' = [job EXCEPT ![j] = b]
    BY <1>2 DEF Pairing, Start
  <1>4. Touches(b) = {i}
    BY <1>1, <1>2, TouchesOf
  <1>5. Current(b)
    BY <1>1, <1>2 DEF Current
  <1>6. /\ overlapped' \in BOOLEAN
        /\ ~overlapped' => /\ ~overlapped
                           /\ \A k \in Jobs, a \in Waiting : job[k] = a =>
                                Touches(a) \cap Touches(b) = {}
    BY <1>4, Begun DEF MInv, Pairing
  <1>7. heap[b.obj] # Free
    BY <1>1, <1>2
  <1> QED BY <1>3, <1>5, <1>6, <1>7, WaitDone

LEMMA DoneImport ==
    ASSUME MInv, NEW j \in Jobs, NEW i \in Ids, NEW n \in Names, NEW who \in Operators,
           Import(j, i, n, who)
    PROVE  Done
  <1>1. PICK b \in Waiting : b = [kind |-> "importing", id |-> i, name |-> n, who |-> who]
    BY DEF Waiting
  <1>2. slot' = slot /\ heap' = heap /\ vouched' = vouched /\ job' = [job EXCEPT ![j] = b]
    BY <1>1 DEF Import, Start
  <1>3. Touches(b) = {i, n} /\ ~Keeping(b)
    BY <1>1, TouchesOf DEF Keeping
  <1>4. Current(b)
    BY <1>1 DEF Import, Current
  <1>5. /\ overlapped' \in BOOLEAN
        /\ ~overlapped' => /\ ~overlapped
                           /\ \A k \in Jobs, a \in Waiting : job[k] = a =>
                                Touches(a) \cap Touches(b) = {}
    BY <1>3, Begun DEF MInv, Import
  <1> QED BY <1>2, <1>3, <1>4, <1>5, WaitDone

\* What a handler that keeps an object knows of it.
LEMMA Kept ==
    ASSUME MInv, NEW j \in Jobs, NEW b \in Waiting, job[j] = b, Keeping(b)
    PROVE  /\ b.obj \in Objects /\ heap[b.obj] \in Record /\ heap[b.obj] # Free
           /\ heap[b.obj].id \in Ids /\ heap[b.obj].id \in Touches(b)
           /\ ~overlapped =>
                /\ slot[heap[b.obj].id] = b.obj
                /\ Stored(heap[b.obj].id) /\ At(heap[b.obj].id) = heap[b.obj]
  <1>1. Holds(j)
    BY WaitingKinds DEF Holds, Keeping
  <1>2. /\ b.obj \in Objects /\ heap[b.obj] \in Record /\ heap[b.obj] # Free
        /\ heap[b.obj].id \in Ids
    BY <1>1, Shapes, ObjectsAssumption DEF MInv
  <1>3. heap[b.obj].id \in Touches(b)
    BY TouchesOf DEF Keeping
  <1>4. ~overlapped => slot[heap[b.obj].id] = b.obj
    BY DEF MInv, Orderly, AllCurrent, Current, Keeping
  <1>5. ~overlapped => Stored(heap[b.obj].id) /\ At(heap[b.obj].id) = heap[b.obj]
    BY <1>2, <1>4, ObjectsAssumption DEF Stored, At
  <1> QED BY <1>2, <1>3, <1>4, <1>5

LEMMA DoneEdited ==
    ASSUME MInv, NEW j \in Jobs, Edited(j)
    PROVE  Done
  <1>1. PICK b \in Waiting : b = job[j]
    BY Shapes DEF MInv, Edited
  <1>2. b.kind = "editing" /\ b.name \in Names /\ Keeping(b)
    BY <1>1, WaitingKinds DEF Keeping, Edited
  <1> DEFINE o == b.obj
             r == [heap[o] EXCEPT !.name = b.name]
  <1>3. Put(o, r, j) /\ UNCHANGED <<vouched, overlapped>>
    BY <1>1 DEF Edited
  <1>4. /\ o \in Objects /\ heap[o] \in Record /\ heap[o] # Free
        /\ heap[o].id \in Touches(b)
        /\ ~overlapped =>
             /\ slot[heap[o].id] = o
             /\ Stored(heap[o].id) /\ At(heap[o].id) = heap[o]
    BY <1>1, <1>2, Kept
  <1>5. /\ r \in Record /\ r.id = heap[o].id /\ r.name = b.name /\ r.owner = heap[o].owner
        /\ r.status = heap[o].status /\ r.imported = heap[o].imported
    BY <1>2, <1>4 DEF Record
  <1>6. r.id \in Ids
    BY <1>5 DEF Record
  <1> HIDE DEF r
  <1>7. ASSUME ~overlapped
        PROVE  /\ r.name \in Touches(b)
               /\ r.imported \/ \A n \in {r.id, r.name} :
                    \A h \in Matching(n) \ {r.id} : At(h).imported
               /\ r.status = "approved" => <<r.id, r.owner>> \in vouched
    <2>1. Matching(b.name) \subseteq {heap[o].id} /\ Unique /\ Approved
      BY <1>1, <1>2, <1>7 DEF MInv, Orderly, AllCurrent, Current
    <2>2. r.name \in Touches(b)
      BY <1>2, <1>5, TouchesOf
    <2>3. r.id \in Matching(r.id)
      BY <1>4, <1>5, <1>6, <1>7 DEF Matching
    <2>4. ~r.imported => \A h \in Matching(r.id) \ {r.id} : At(h).imported
      BY <1>4, <1>5, <1>6, <1>7, <2>1, <2>3, IdsAssumption DEF Unique
    <2>5. r.imported \in BOOLEAN
      BY <1>5 DEF Record
    <2>6. r.status = "approved" => <<r.id, r.owner>> \in vouched
      BY <1>4, <1>5, <1>6, <1>7, <2>1 DEF Approved
    <2> QED BY <1>5, <2>1, <2>2, <2>4, <2>5, <2>6
  <1> QED BY <1>1, <1>3, <1>4, <1>5, <1>7, PutDone

LEMMA DonePutBack ==
    ASSUME MInv, NEW j \in Jobs, PutBack(j)
    PROVE  Done
  <1>1. PICK b \in Waiting : b = job[j]
    BY Shapes DEF MInv, PutBack
  <1>2. Keeping(b)
    BY <1>1 DEF Keeping, PutBack
  <1> DEFINE o == b.obj
  <1>3. Put(o, heap[o], j) /\ UNCHANGED <<vouched, overlapped>>
    BY <1>1 DEF PutBack
  <1>4. /\ o \in Objects /\ heap[o] \in Record /\ heap[o] # Free
        /\ heap[o].id \in Touches(b) /\ heap[o].id \in Ids
        /\ ~overlapped =>
             /\ slot[heap[o].id] = o
             /\ Stored(heap[o].id) /\ At(heap[o].id) = heap[o]
    BY <1>1, <1>2, Kept
  <1>5. ASSUME ~overlapped
        PROVE  \/ heap[o].imported
               \/ \A n \in {heap[o].id, heap[o].name} :
                    \A h \in Matching(n) \ {heap[o].id} : At(h).imported
    <2>1. /\ heap[o].id \in Matching(heap[o].id) /\ heap[o].id \in Matching(heap[o].name)
          /\ heap[o].name \in Names
      BY <1>4, <1>5 DEF Matching, Record
    <2> QED BY <1>4, <1>5, <2>1, IdsAssumption DEF MInv, Orderly, Unique
  <1>6. ASSUME ~overlapped, heap[o].status = "approved"
        PROVE  <<heap[o].id, heap[o].owner>> \in vouched
    BY <1>4, <1>6 DEF MInv, Orderly, Approved
  <1> QED BY <1>1, <1>3, <1>4, <1>5, <1>6, PutDone

LEMMA DoneImported ==
    ASSUME MInv, NEW j \in Jobs, Imported(j)
    PROVE  Done
  <1>1. PICK b \in Waiting : b = job[j]
    BY Shapes DEF MInv, Imported
  <1>2. b.kind = "importing" /\ b.id \in Ids /\ b.name \in Names /\ b.who \in Operators
    BY <1>1, WaitingKinds DEF Imported
  <1> DEFINE r == [id |-> b.id, owner |-> b.who, name |-> b.name, status |-> "pending",
                   imported |-> TRUE]
  <1>3. Fresh \in Objects /\ Fresh \notin Referenced
    BY <1>1, <1>2, FreshThere DEF MInv, Holds
  <1>4. Put(Fresh, r, j) /\ UNCHANGED <<vouched, overlapped>>
    BY <1>1 DEF Imported
  <1>5. /\ r \in Record /\ r.id = b.id /\ r.name = b.name /\ r.status = "pending"
        /\ r.imported = TRUE
    BY <1>2 DEF Record
  <1> HIDE DEF r
  <1>6. r.id \in Touches(b) /\ r.name \in Touches(b)
    BY <1>2, <1>5, TouchesOf
  <1>7. ~overlapped => ~Stored(r.id)
    BY <1>1, <1>2, <1>5 DEF MInv, Orderly, AllCurrent, Current
  <1> QED BY <1>1, <1>3, <1>4, <1>5, <1>6, <1>7, PutDone

LEMMA DoneJudge ==
    ASSUME MInv, NEW i \in Ids,
           \/ ApproveAtOnce(i) \/ Reject(i) \/ (\E j \in Jobs : ApproveSlowly(j, i))
    PROVE  Done
  <1>1. Stored(i) /\ slot' = slot /\ Begin({i})
    BY DEF ApproveAtOnce, ApproveSlowly, Approve, Reject
  <1>2. At(i).owner \in Operators /\ vouched \subseteq Ids \X Operators
    BY <1>1, Shapes DEF MInv, TInv, TypeOK
  <1>3. \/ job' = job
        \/ \E j \in Jobs : job' = [job EXCEPT ![j] = [kind |-> "approving", obj |-> slot[i]]]
    BY DEF ApproveAtOnce, ApproveSlowly, Reject, Start
  <1>4. CASE ApproveAtOnce(i) \/ \E j \in Jobs : ApproveSlowly(j, i)
    <2>1. SetStatus(i, "approved") /\ vouched' = vouched \cup {<<i, At(i).owner>>}
      BY <1>4 DEF ApproveAtOnce, ApproveSlowly, Approve
    <2>2. /\ vouched' \subseteq Ids \X Operators /\ <<i, At(i).owner>> \in vouched'
          /\ \A v \in vouched : v \in vouched'
      BY <1>2, <2>1
    <2> QED BY <1>1, <1>3, <2>1, <2>2, JudgeDone
  <1>5. CASE Reject(i)
    <2>1. SetStatus(i, "rejected") /\ vouched' = vouched \ {<<i, At(i).owner>>}
      BY <1>5 DEF Reject
    <2>2. /\ vouched' \subseteq Ids \X Operators
          /\ \A v \in vouched : v[1] # i => v \in vouched'
      BY <1>2, <2>1
    <2> QED BY <1>1, <1>3, <2>1, <2>2, JudgeDone
  <1> QED BY <1>4, <1>5

LEMMA DoneDelete ==
    ASSUME MInv, NEW i \in Ids, Delete(i)
    PROVE  Done
  <1>1. /\ slot \in [Ids -> Objects \cup {NoRec}] /\ job \in [Jobs -> Job]
        /\ vouched \subseteq Ids \X Operators
    BY DEF MInv, TInv, TypeOK
  <1>2. /\ slot' = [slot EXCEPT ![i] = NoRec] /\ job' = job
        /\ heap' = Collect(heap, KeptBy(slot', job'))
        /\ vouched' = {v \in vouched : v[1] # i} /\ Begin({i})
    BY DEF Delete
  <1>3. /\ slot' \in [Ids -> Objects \cup {NoRec}] /\ job' \in [Jobs -> Job]
        /\ vouched' \subseteq Ids \X Operators /\ slot'[i] = NoRec
        /\ \A h \in Ids : h # i => slot'[h] = slot[h]
    BY <1>1, <1>2
  <1>4. /\ overlapped' \in BOOLEAN
        /\ ~overlapped' => /\ ~overlapped
                           /\ \A k \in Jobs, a \in Waiting : job[k] = a => Touches(a) \cap {i} = {}
    BY <1>2, Begun DEF MInv
  <1>5. \A h \in Ids, who \in Operators :
          Stored(h)' /\ <<h, who>> \in vouched => <<h, who>> \in vouched'
    BY <1>2, <1>3 DEF Stored
  <1>6. /\ \A h \in Ids : slot'[h] \in {slot[h], NoRec}
        /\ \A k \in Jobs : job'[k] \in {job[k], Free}
    BY <1>2, <1>3
  <1>7. ~overlapped' => \A h \in Ids : slot'[h] # slot[h] =>
          \A k \in Jobs, a \in Waiting : job[k] = a => h \notin Touches(a)
    BY <1>3, <1>4
  <1> QED BY <1>2, <1>3, <1>4, <1>5, <1>6, <1>7, CleanDone

LEMMA DoneEnd ==
    ASSUME MInv, Restart \/ \E j \in Jobs : Refuse(j)
    PROVE  Done
  <1>1. /\ slot \in [Ids -> Objects \cup {NoRec}] /\ job \in [Jobs -> Job]
        /\ vouched \subseteq Ids \X Operators /\ overlapped \in BOOLEAN
    BY DEF MInv, TInv, TypeOK
  <1>2. /\ slot' = slot /\ vouched' = vouched /\ overlapped' = overlapped
        /\ heap' = Collect(heap, KeptBy(slot, job'))
    BY DEF Restart, Refuse
  <1>3. job' \in [Jobs -> Job] /\ \A k \in Jobs : job'[k] \in {job[k], Free}
    BY <1>1 DEF Restart, Refuse, Job
  <1> QED BY <1>1, <1>2, <1>3, CleanDone

LEMMA StepDone ==
    ASSUME MInv, Next
    PROVE  Done
  <1>1. ASSUME NEW j \in Jobs,
               \/ Probed(j) \/ Submitted(j) \/ Edited(j) \/ PutBack(j) \/ Imported(j)
               \/ Refuse(j)
        PROVE  Done
    BY <1>1, DoneProbed, DoneSubmitted, DoneEdited, DonePutBack, DoneImported, DoneEnd
  <1>2. ASSUME NEW j \in Jobs, NEW i \in Ids, ApproveSlowly(j, i) \/ Pairing(j, i)
        PROVE  Done
    BY <1>2, DoneJudge, DonePairing
  <1>3. ASSUME NEW j \in Jobs, NEW i \in Ids, NEW n \in Names, Edit(j, i, n)
        PROVE  Done
    BY <1>3, DoneEdit
  <1>4. ASSUME NEW j \in Jobs, NEW i \in Ids, NEW who \in Operators,
               Submit(j, who, i) \/ \E n \in Names : Import(j, i, n, who)
        PROVE  Done
    BY <1>4, DoneSubmit, DoneImport
  <1>5. ASSUME NEW i \in Ids, ApproveAtOnce(i) \/ Reject(i) \/ Delete(i)
        PROVE  Done
    BY <1>5, DoneJudge, DoneDelete
  <1>6. CASE Restart
    BY <1>6, DoneEnd
  <1> QED BY <1>1, <1>2, <1>3, <1>4, <1>5, <1>6 DEF Next

LEMMA InitMInv == Init => MInv
  <1> SUFFICES ASSUME Init PROVE MInv
    OBVIOUS
  <1>1. \A i \in Ids : ~Stored(i)
    BY DEF Init, Stored
  <1>2. \A j \in Jobs : job[j] = Free
    BY DEF Init
  <1>3. TypeOK
    BY <1>1 DEF Init, TypeOK, Job
  <1>4. TInv
    BY <1>2, <1>3 DEF TInv, Holds
  <1>5. Apart /\ AllCurrent
    BY <1>2, WaitingKinds DEF Apart, AllCurrent
  <1>6. Unique /\ Approved
    BY <1>1 DEF Unique, Approved, Matching
  <1> QED BY <1>4, <1>5, <1>6 DEF MInv, Orderly

LEMMA StutterMInv == MInv /\ UNCHANGED vars => MInv'
  <1> SUFFICES ASSUME MInv, UNCHANGED vars PROVE MInv'
    OBVIOUS
  <1>1. /\ slot' = slot /\ heap' = heap /\ job' = job /\ vouched' = vouched
        /\ overlapped' = overlapped
    BY DEF vars
  <1>2. (\A i : Stored(i)' <=> Stored(i)) /\ \A i : At(i)' = At(i)
    BY <1>1 DEF Stored, At
  <1>3. TInv'
    BY <1>1, <1>2 DEF MInv, TInv, TypeOK, Holds
  <1>4. Orderly => Orderly'
    <2>1. \A b \in Waiting : Touches(b)' = Touches(b) /\ (Current(b)' <=> Current(b))
      BY <1>1, QuietNew
    <2>2. (Apart => Apart') /\ (AllCurrent => AllCurrent')
      BY <1>1, <2>1 DEF Apart, AllCurrent
    <2>3. (Unique => Unique') /\ (Approved => Approved')
      BY <1>1, <1>2 DEF Unique, Approved, Matching
    <2> QED BY <2>2, <2>3 DEF Orderly
  <1> QED BY <1>1, <1>3, <1>4 DEF MInv

\* The invariant of the submissions, edits, decisions and deletions of
\* app.post and its helpers, whatever overlaps.
THEOREM ModerationInvariant == Spec => []MInv
  <1>1. MInv /\ [Next]_vars => MInv'
    BY StepDone, StutterMInv DEF Done, MInv
  <1> QED BY <1>1, InitMInv, PTL DEF Spec

(***************************************************************************)
(* Whatever overlaps, a stored submission is an object that exists and     *)
(* bears the id it is stored under, and each handler that waits keeps what *)
(* its kind needs.                                                         *)
(***************************************************************************)
THEOREM ListingTypes == Spec => []TypeOK
  <1>1. MInv => TypeOK
    BY DEF MInv, TInv
  <1> QED BY <1>1, ModerationInvariant, PTL

(***************************************************************************)
(* nameConflict and slugTakenByOther add up: a slug finds at most one of   *)
(* the records submitted here, across renames, deletions and resubmissions *)
(* of any number of operators, as long as no two operations on one name    *)
(* overlap.                                                                *)
(***************************************************************************)
THEOREM NamesAreUnique == Spec => []NamesUnique
  <1>1. MInv => NamesUnique
    <2> SUFFICES ASSUME Unique, NEW n \in Names
                 PROVE  Cardinality({i \in Matching(n) : ~At(i).imported}) <= 1
      BY DEF MInv, Orderly, NamesUnique
    <2> DEFINE S == {i \in Matching(n) : ~At(i).imported}
    <2>1. CASE S = {}
      BY <2>1, FS_EmptySet
    <2>2. ASSUME NEW i \in S
          PROVE  Cardinality(S) <= 1
      <3>1. S = {i}
        BY DEF Unique
      <3> QED BY <3>1, FS_Singleton
    <2> QED BY <2>1, <2>2
  <1> QED BY <1>1, ModerationInvariant, PTL

(***************************************************************************)
(* A listing is public only if the last word an admin said of this         *)
(* operator's record was POST /api/admin/approve: nothing the handlers do  *)
(* brings an approval back.                                                *)
(***************************************************************************)
THEOREM ApprovalsAreLastWords == Spec => []LastWordCounts
  <1>1. MInv => LastWordCounts
    BY DEF MInv, Orderly, Approved, LastWordCounts
  <1> QED BY <1>1, ModerationInvariant, PTL

(***************************************************************************)
(* Handlers that wait at the same time interfere only through an id or a   *)
(* name both work on: what putSubmission stores in a new place is a new    *)
(* object of the same operator, never an older or a deleted record.        *)
(***************************************************************************)
THEOREM HandlersAreIsolated == Spec => IsolatedWrites
  <1>1. MInv /\ [Next]_vars =>
          [~overlapped' => \A i \in Ids :
             slot'[i] # slot[i] /\ slot'[i] # NoRec
             => /\ slot'[i] \notin Referenced
                /\ Stored(i) => heap'[slot'[i]].owner = At(i).owner]_vars
    BY StepDone DEF Done, Isolated
  <1> QED BY <1>1, ModerationInvariant, PTL DEF Spec, IsolatedWrites

-----------------------------------------------------------------------------
(***************************************************************************)
(* The probes: any nodes, lists, workers, cycles, days and kills.          *)
(***************************************************************************)
Queued == UNION {{s[i] : i \in DOMAIN s} : s \in Queues}

\* Which pool is at work, or has just been.
PoolTyped ==
    /\ results \in [DOMAIN items -> Result \cup {None}]
    /\ work \in [Workers -> {Idle} \cup Task]
    /\ next \in 1..(Len(items) + 1)
    /\ phase \in {"rest", "public", "history", "daily", "turn", "pending", "leaving"}
    /\ phase = "rest" => items = <<>>
    /\ phase \in {"public", "history", "daily", "turn"} => items \in Lists
    /\ phase \in {"pending", "leaving"} => items \in Queues
    /\ phase \in {"rest", "history", "daily", "turn"} => Busy = {}
    /\ phase \in {"history", "daily", "turn"} => next = Len(items) + 1

\* A node that was taken is with one worker, or has its result.
PoolShared ==
    /\ \A w \in Busy : work[w].idx < next /\ results[work[w].idx] = None
    /\ \A w, u \in Busy : work[w].idx = work[u].idx => w = u
    /\ \A i \in DOMAIN items :
         i < next /\ results[i] = None => \E w \in Busy : work[w].idx = i
    /\ \A i \in DOMAIN items : i >= next => results[i] = None

\* What a worker, and a result, have of a node was said by it.
TaskEarned(t, n, told) ==
    /\ t.step = "plain" <=> n \notin Keyed
    /\ <<"up", None>> \in told <=> t.step = "services"
    /\ t.height # None => <<"height", t.height>> \in told
    /\ t.version # None => <<"version", t.version>> \in told

ResultEarned(r, n, told) ==
    /\ ~r.up => <<"up", None>> \notin told
    /\ r.up /\ n \in Keyed => <<"up", None>> \in told
    /\ r.height # None => <<"height", r.height>> \in told
    /\ r.version # None => <<"version", r.version>> \in told
    /\ r.indexer # None => <<"indexer", r.indexer>> \in told

Earned ==
    /\ \A w \in Busy : TaskEarned(work[w], Node(w), said[Node(w)])
    /\ \A i \in DOMAIN items :
         results[i] # None => ResultEarned(results[i], items[i], said[items[i]])
    /\ \A i \in DOMAIN items : i >= next => said[items[i]] = {}
    /\ phase \in {"public", "history", "daily", "turn"} => \A n \in Queued : said[n] = {}

\* All this, with what the nodes have said as a function of them.
SaidOfEach == said = [n \in Nodes |-> said[n]]

ProbeInv == PoolTyped /\ PoolShared /\ Earned /\ SaidOfEach

-----------------------------------------------------------------------------
LEMMA NotIdle ==
    ASSUME NEW t \in Task
    PROVE  t # Idle
BY DEF Task, Idle

LEMMA NotAResult ==
    ASSUME NEW r \in Result
    PROVE  r # None
BY ProbeAssumption

\* A list has an entry of a node once, and an index for every node in it.
LEMMA ListsAndQueues ==
    ASSUME NEW s \in Lists \cup Queues
    PROVE  /\ s \in Seq(Nodes) /\ Len(s) \in Nat /\ DOMAIN s = 1..Len(s)
           /\ \A i \in DOMAIN s : s[i] \in Nodes
           /\ \A i, j \in DOMAIN s : s[i] = s[j] => i = j
<1>1. s \in Seq(Nodes)
  BY ProbeAssumption
<1>2. Len(s) \in Nat /\ DOMAIN s = 1..Len(s) /\ \A i \in 1..Len(s) : s[i] \in Nodes
  BY <1>1
<1>3. \A i, j \in DOMAIN s : s[i] = s[j] => i = j
  BY ProbeAssumption
<1> QED BY <1>1, <1>2, <1>3

LEMMA EmptyPool == Len(<<>>) = 0 /\ DOMAIN <<>> = {} /\ DOMAIN <<>> = 1..0
  OBVIOUS

\* The items of a pool.
LEMMA ItemsOnce ==
    ASSUME PoolTyped
    PROVE  /\ Len(items) \in Nat /\ DOMAIN items = 1..Len(items)
           /\ \A i \in DOMAIN items : items[i] \in Nodes
           /\ \A i, j \in DOMAIN items : items[i] = items[j] => i = j
<1>1. CASE items = <<>>
  BY <1>1, EmptyPool
<1>2. CASE items \in Lists \cup Queues
  BY <1>2, ListsAndQueues
<1>3. items = <<>> \/ items \in Lists \cup Queues
  BY DEF PoolTyped
<1> QED BY <1>1, <1>2, <1>3

LEMMA NodeOf ==
    ASSUME PoolTyped, NEW i \in DOMAIN items
    PROVE  Of(items[i]) = i /\ items[i] \in Nodes /\ items[i] \in InPool
BY ItemsOnce DEF Of, InPool

LEMMA OfNode ==
    ASSUME PoolTyped, NEW n \in InPool
    PROVE  Of(n) \in DOMAIN items /\ items[Of(n)] = n
<1>1. PICK i \in DOMAIN items : items[i] = n
  BY DEF InPool
<1> QED BY <1>1, NodeOf

\* A listed node is not a queued one.
LEMMA ListedOnce ==
    ASSUME NEW s \in Lists, NEW i \in DOMAIN s
    PROVE  s[i] \notin Queued
BY ProbeAssumption DEF Queued

\* A worker at work has a task, on an item that was taken.
LEMMA AtWork ==
    ASSUME PoolTyped, PoolShared, NEW w \in Busy
    PROVE  /\ w \in Workers /\ work[w] \in Task /\ work[w] # Idle
           /\ work[w].idx \in DOMAIN items /\ work[w].idx < next
           /\ results[work[w].idx] = None
           /\ Node(w) = items[work[w].idx] /\ Node(w) \in Nodes
           /\ phase \in {"public", "pending", "leaving"}
<1>1. w \in Workers /\ work[w] # Idle /\ work[w] \in Task
  BY DEF Busy, PoolTyped
<1>2. work[w].idx \in Nat \ {0}
  BY <1>1 DEF Task
<1>3. work[w].idx < next /\ results[work[w].idx] = None
  BY DEF PoolShared
<1>4. next \in 1..(Len(items) + 1) /\ Len(items) \in Nat /\ DOMAIN items = 1..Len(items)
  BY ItemsOnce DEF PoolTyped
<1>5. work[w].idx \in DOMAIN items
  BY <1>2, <1>3, <1>4
<1>6. items[work[w].idx] \in Nodes
  BY <1>5, ItemsOnce
<1>7. phase \in {"public", "pending", "leaving"}
  BY DEF PoolTyped
<1> QED BY <1>1, <1>3, <1>5, <1>6, <1>7 DEF Node

\* Only this node has said something.
SpokeAlone(n) == SaidOfEach' /\ \A m \in Nodes : m # n => said'[m] = said[m]

LEMMA SaysOnly ==
    ASSUME SaidOfEach, NEW n \in Nodes, NEW F, Says(n, F)
    PROVE  SpokeAlone(n) /\ said'[n] = said[n] \cup F
<1>1. said' = [m \in Nodes |-> IF m = n THEN said[n] \cup F ELSE said[m]]
  BY DEF SaidOfEach, Says
<1>2. \A m \in Nodes : said'[m] = IF m = n THEN said[n] \cup F ELSE said[m]
  BY <1>1
<1>3. said' = [m \in Nodes |-> said'[m]]
  BY <1>1
<1> QED BY <1>2, <1>3 DEF SpokeAlone, SaidOfEach

LEMMA SilenceOnly ==
    ASSUME SaidOfEach, said' = said, NEW n
    PROVE  SpokeAlone(n) /\ said'[n] = said[n]
BY DEF SpokeAlone, SaidOfEach
-----------------------------------------------------------------------------
\* A worker is done with its item.
LEMMA FinishShared ==
    ASSUME PoolTyped, PoolShared, NEW w \in Busy, NEW r \in Result, Finish(w, r)
    PROVE  PoolTyped' /\ PoolShared'
<1>1. /\ w \in Workers /\ work[w] # Idle /\ work[w].idx \in DOMAIN items
      /\ phase \in {"public", "pending", "leaving"}
  BY AtWork
<1>2. /\ results' = [results EXCEPT ![work[w].idx] = r] /\ work' = [work EXCEPT ![w] = Idle]
      /\ phase' = phase /\ items' = items /\ next' = next
  BY DEF Finish
<1>3. results \in [DOMAIN items -> Result \cup {None}] /\ work \in [Workers -> {Idle} \cup Task]
  BY DEF PoolTyped
<1>4. results' \in [DOMAIN items' -> Result \cup {None}]
  BY <1>2, <1>3
<1>5. work' \in [Workers -> {Idle} \cup Task]
  BY <1>2, <1>3
<1>6. PoolTyped'
  BY <1>1, <1>2, <1>4, <1>5 DEF PoolTyped
<1>7. Busy' = Busy \ {w} /\ \A u \in Busy' : work'[u] = work[u]
  BY <1>1, <1>2, <1>3 DEF Busy
<1>8. \A u \in Busy' : work[u].idx # work[w].idx
  BY <1>7 DEF PoolShared
<1>9. \A i \in DOMAIN items : i # work[w].idx => results'[i] = results[i]
  BY <1>2, <1>3
<1>10. results'[work[w].idx] = r /\ r # None
  <2>1. results'[work[w].idx] = r
    BY <1>1, <1>2, <1>3
  <2>2. r # None
    BY NotAResult
  <2> QED BY <2>1, <2>2
<1>11. \A u \in Busy' : work'[u].idx < next' /\ results'[work'[u].idx] = None
  <2> SUFFICES ASSUME NEW u \in Busy' PROVE work'[u].idx < next' /\ results'[work'[u].idx] = None
    OBVIOUS
  <2>1. u \in Busy /\ work'[u] = work[u] /\ work[u].idx # work[w].idx
    BY <1>7, <1>8
  <2>2. work[u].idx \in DOMAIN items /\ work[u].idx < next /\ results[work[u].idx] = None
    BY <2>1, AtWork
  <2> QED BY <2>1, <2>2, <1>9, <1>2
<1>12. \A u, v \in Busy' : work'[u].idx = work'[v].idx => u = v
  BY <1>7 DEF PoolShared
<1>13. \A i \in DOMAIN items' :
         i < next' /\ results'[i] = None => \E u \in Busy' : work'[u].idx = i
  <2> SUFFICES ASSUME NEW i \in DOMAIN items, i < next, results'[i] = None
               PROVE \E u \in Busy' : work'[u].idx = i
    BY <1>2
  <2>1. i # work[w].idx
    BY <1>10
  <2>2. results[i] = None
    BY <2>1, <1>9
  <2>3. PICK u \in Busy : work[u].idx = i
    BY <2>2 DEF PoolShared
  <2> QED BY <2>1, <2>3, <1>7
<1>14. \A i \in DOMAIN items' : i >= next' => results'[i] = None
  <2> SUFFICES ASSUME NEW i \in DOMAIN items, i >= next PROVE results'[i] = None
    BY <1>2
  <2>1. work[w].idx < next /\ work[w].idx \in Nat /\ next \in Nat /\ i \in Nat
    BY AtWork, ItemsOnce DEF PoolTyped
  <2>2. i # work[w].idx
    BY <2>1
  <2> QED BY <2>2, <1>9 DEF PoolShared
<1> QED BY <1>6, <1>11, <1>12, <1>13, <1>14 DEF PoolShared

\* A worker goes on with its item.
Going(w, t) == work' = [work EXCEPT ![w] = t] /\ UNCHANGED <<phase, items, next, results>>

LEMMA GoingShared ==
    ASSUME PoolTyped, PoolShared, NEW w \in Busy, NEW t \in Task, t.idx = work[w].idx, Going(w, t)
    PROVE  PoolTyped' /\ PoolShared'
<1>1. /\ w \in Workers /\ work[w] # Idle
      /\ phase \in {"public", "pending", "leaving"}
  BY AtWork
<1>2. /\ work' = [work EXCEPT ![w] = t] /\ results' = results
      /\ phase' = phase /\ items' = items /\ next' = next
  BY DEF Going
<1>3. work \in [Workers -> {Idle} \cup Task]
  BY DEF PoolTyped
<1>4. work' \in [Workers -> {Idle} \cup Task]
  BY <1>2, <1>3
<1>5. PoolTyped'
  BY <1>1, <1>2, <1>4 DEF PoolTyped
<1>6. t # Idle
  BY NotIdle
<1>7. Busy' = Busy /\ \A u \in Busy : work'[u].idx = work[u].idx
  BY <1>1, <1>2, <1>3, <1>6 DEF Busy
<1> QED BY <1>2, <1>5, <1>7 DEF PoolShared
-----------------------------------------------------------------------------
\* The items other than the one a worker speaks of.
LEMMA Elsewhere ==
    ASSUME PoolTyped, PoolShared, NEW w \in Busy
    PROVE  /\ \A i \in DOMAIN items : i # work[w].idx => items[i] \in Nodes /\ items[i] # Node(w)
           /\ phase = "public" => Node(w) \notin Queued
<1>1. work[w].idx \in DOMAIN items /\ Node(w) = items[work[w].idx]
  BY AtWork
<1>2. phase = "public" => items \in Lists
  BY DEF PoolTyped
<1> QED BY <1>1, <1>2, ItemsOnce, ListedOnce

LEMMA QueuedNodes == Queued \subseteq Nodes
BY ListsAndQueues DEF Queued

\* What was not taken has said nothing still, nor has what is queued.
LEMMA QuietStays ==
    ASSUME PoolTyped, PoolShared, Earned, NEW w \in Busy, SpokeAlone(Node(w)),
           UNCHANGED <<phase, items, next>>
    PROVE  /\ \A i \in DOMAIN items' : i >= next' => said'[items'[i]] = {}
           /\ phase' \in {"public", "history", "daily", "turn"} => \A n \in Queued : said'[n] = {}
<1>1. /\ work[w].idx < next /\ work[w].idx \in DOMAIN items
      /\ phase \in {"public", "pending", "leaving"}
  BY AtWork
<1>2. \A m \in Nodes : m # Node(w) => said'[m] = said[m]
  BY DEF SpokeAlone
<1>3. ASSUME NEW i \in DOMAIN items, i >= next
      PROVE  said'[items[i]] = {}
  <2>1. i # work[w].idx
    <3>1. i \in Nat /\ next \in Nat /\ work[w].idx \in Nat
      BY <1>1, ItemsOnce DEF PoolTyped
    <3> QED BY <3>1, <1>1, <1>3
  <2>2. said[items[i]] = {}
    BY <1>3 DEF Earned
  <2> QED BY <2>1, <2>2, <1>2, Elsewhere
<1>4. ASSUME phase = "public", NEW n \in Queued
      PROVE  said'[n] = {}
  <2>1. said[n] = {} /\ n # Node(w) /\ n \in Nodes
    BY <1>4, Elsewhere, QueuedNodes DEF Earned
  <2> QED BY <2>1, <1>2
<1> QED BY <1>1, <1>3, <1>4

\* The tasks of the other workers stay earned.
LEMMA OthersEarned ==
    ASSUME PoolTyped, PoolShared, Earned, NEW w \in Busy, SpokeAlone(Node(w)), items' = items,
           NEW u \in Busy, u # w, work'[u] = work[u]
    PROVE  TaskEarned(work'[u], items'[work'[u].idx], said'[items'[work'[u].idx]])
<1>1. work[u].idx # work[w].idx
  BY DEF PoolShared
<1>2. work[u].idx \in DOMAIN items /\ Node(u) = items[work[u].idx]
  BY AtWork
<1>3. TaskEarned(work[u], Node(u), said[Node(u)])
  BY DEF Earned
<1>4. Node(u) \in Nodes /\ Node(u) # Node(w)
  BY <1>1, <1>2, Elsewhere
<1>5. said'[Node(u)] = said[Node(u)]
  BY <1>4 DEF SpokeAlone
<1> QED BY <1>2, <1>3, <1>5

LEMMA FinishKept ==
    ASSUME ProbeInv, NEW w \in Busy, NEW r \in Result, Finish(w, r),
           SpokeAlone(Node(w)), ResultEarned(r, Node(w), said'[Node(w)])
    PROVE  ProbeInv'
<1>1. PoolTyped /\ PoolShared /\ Earned /\ SaidOfEach
  BY DEF ProbeInv
<1>2. PoolTyped' /\ PoolShared' /\ SaidOfEach'
  BY <1>1, FinishShared DEF SpokeAlone
<1>3. /\ results' = [results EXCEPT ![work[w].idx] = r] /\ work' = [work EXCEPT ![w] = Idle]
      /\ phase' = phase /\ items' = items /\ next' = next
  BY DEF Finish
<1>4. results \in [DOMAIN items -> Result \cup {None}] /\ work \in [Workers -> {Idle} \cup Task]
  BY <1>1 DEF PoolTyped
<1>5. w \in Workers /\ work[w].idx \in DOMAIN items /\ Node(w) = items[work[w].idx]
  BY <1>1, AtWork
<1>6. Busy' = Busy \ {w} /\ \A u \in Busy' : work'[u] = work[u]
  BY <1>3, <1>4, <1>5 DEF Busy
<1>7. \A u \in Busy' : TaskEarned(work'[u], items'[work'[u].idx], said'[items'[work'[u].idx]])
  BY <1>1, <1>3, <1>6, OthersEarned
<1>8. ASSUME NEW i \in DOMAIN items, results'[i] # None
      PROVE  ResultEarned(results'[i], items[i], said'[items[i]])
  <2>1. CASE i = work[w].idx
    <3>1. results'[i] = r
      BY <2>1, <1>3, <1>4
    <3> QED BY <3>1, <2>1, <1>5
  <2>2. CASE i # work[w].idx
    <3>1. results'[i] = results[i]
      BY <2>2, <1>3, <1>4
    <3>2. ResultEarned(results[i], items[i], said[items[i]])
      BY <3>1, <1>8, <1>1 DEF Earned
    <3>3. said'[items[i]] = said[items[i]]
      BY <2>2, <1>1, Elsewhere DEF SpokeAlone
    <3> QED BY <3>1, <3>2, <3>3
  <2> QED BY <2>1, <2>2
<1>9. /\ \A i \in DOMAIN items' : i >= next' => said'[items'[i]] = {}
      /\ phase' \in {"public", "history", "daily", "turn"} => \A n \in Queued : said'[n] = {}
  BY <1>1, <1>3, QuietStays
<1>10. Earned'
  BY <1>3, <1>7, <1>8, <1>9 DEF Earned, Node
<1> QED BY <1>2, <1>10 DEF ProbeInv

LEMMA GoingKept ==
    ASSUME ProbeInv, NEW w \in Busy, NEW t \in Task, t.idx = work[w].idx, Going(w, t),
           SpokeAlone(Node(w)), TaskEarned(t, Node(w), said'[Node(w)])
    PROVE  ProbeInv'
<1>1. PoolTyped /\ PoolShared /\ Earned /\ SaidOfEach
  BY DEF ProbeInv
<1>2. PoolTyped' /\ PoolShared' /\ SaidOfEach'
  BY <1>1, GoingShared DEF SpokeAlone
<1>3. /\ work' = [work EXCEPT ![w] = t] /\ results' = results
      /\ phase' = phase /\ items' = items /\ next' = next
  BY DEF Going
<1>4. work \in [Workers -> {Idle} \cup Task]
  BY <1>1 DEF PoolTyped
<1>5. /\ w \in Workers /\ work[w].idx \in DOMAIN items /\ Node(w) = items[work[w].idx]
      /\ results[work[w].idx] = None
  BY <1>1, AtWork
<1>6. work'[w] = t /\ \A u \in Workers : u # w => work'[u] = work[u]
  BY <1>3, <1>4, <1>5
<1>7. Busy' = Busy
  BY <1>5, <1>6, NotIdle DEF Busy
<1>8. ASSUME NEW u \in Busy
      PROVE  TaskEarned(work'[u], items'[work'[u].idx], said'[items'[work'[u].idx]])
  <2>1. CASE u = w
    BY <2>1, <1>3, <1>5, <1>6
  <2>2. CASE u # w
    <3>1. work'[u] = work[u]
      BY <2>2, <1>6 DEF Busy
    <3> QED BY <3>1, <2>2, <1>1, <1>3, OthersEarned
  <2> QED BY <2>1, <2>2
<1>9. ASSUME NEW i \in DOMAIN items, results[i] # None
      PROVE  ResultEarned(results[i], items[i], said'[items[i]])
  <2>1. i # work[w].idx
    BY <1>5, <1>9
  <2>2. ResultEarned(results[i], items[i], said[items[i]])
    BY <1>9, <1>1 DEF Earned
  <2>3. said'[items[i]] = said[items[i]]
    BY <2>1, <1>1, Elsewhere DEF SpokeAlone
  <2> QED BY <2>2, <2>3
<1>10. /\ \A i \in DOMAIN items' : i >= next' => said'[items'[i]] = {}
       /\ phase' \in {"public", "history", "daily", "turn"} => \A n \in Queued : said'[n] = {}
  BY <1>1, <1>3, QuietStays
<1>11. Earned'
  BY <1>3, <1>7, <1>8, <1>9, <1>10 DEF Earned, Node
<1> QED BY <1>2, <1>11 DEF ProbeInv
-----------------------------------------------------------------------------
LEMMA OutcomeTyped ==
    ASSUME NEW up \in BOOLEAN, NEW h \in Heights \cup {None},
           NEW v \in Versions \cup {None}, NEW x \in Indexers \cup {None}
    PROVE  /\ Outcome(up, h, v, x) \in Result
           /\ Outcome(up, h, v, x).up = up /\ Outcome(up, h, v, x).height = h
           /\ Outcome(up, h, v, x).version = v /\ Outcome(up, h, v, x).indexer = x
BY DEF Outcome, Result

LEMMA UpOrDown ==
    ASSUME NEW h \in Heights \cup {None}, NEW v \in Versions \cup {None}, NEW x \in Indexers \cup {None}
    PROVE  /\ Outcome(TRUE, h, v, x) \in Result /\ Outcome(TRUE, h, v, x).up
           /\ Outcome(TRUE, h, v, x).height = h
           /\ Outcome(TRUE, h, v, x).version = v /\ Outcome(TRUE, h, v, x).indexer = x
           /\ Down(v) \in Result /\ ~Down(v).up /\ Down(v).height = None
           /\ Down(v).version = v /\ Down(v).indexer = None
BY DEF Outcome, Result, Down

LEMMA GreetingTyped ==
    ASSUME NEW i \in Nat \ {0}, NEW s \in Steps, NEW h \in Heights \cup {None},
           NEW v \in Versions \cup {None}
    PROVE  /\ Greeting(i, s, h, v) \in Task
           /\ Greeting(i, s, h, v).idx = i /\ Greeting(i, s, h, v).step = s
           /\ Greeting(i, s, h, v).height = h /\ Greeting(i, s, h, v).version = v
BY DEF Greeting, Task, Heard

\* A task at another stage, or with more heard, is about the same.
LEMMA TaskMoves ==
    ASSUME NEW t \in Task, NEW a \in {"greet", "reply", "read"}, NEW h \in Heard
    PROVE  /\ [t EXCEPT !.at = a] \in Task /\ [t EXCEPT !.heard = h] \in Task
           /\ \A n, told :
                TaskEarned(t, n, told) => /\ TaskEarned([t EXCEPT !.at = a], n, told)
                                          /\ TaskEarned([t EXCEPT !.heard = h], n, told)
           /\ [t EXCEPT !.at = a].idx = t.idx /\ [t EXCEPT !.heard = h].idx = t.idx
<1>1. /\ [t EXCEPT !.at = a] \in Task /\ [t EXCEPT !.heard = h] \in Task
  BY DEF Task
<1>2. /\ [t EXCEPT !.at = a].idx = t.idx /\ [t EXCEPT !.heard = h].idx = t.idx
      /\ [t EXCEPT !.at = a].step = t.step /\ [t EXCEPT !.heard = h].step = t.step
      /\ [t EXCEPT !.at = a].height = t.height /\ [t EXCEPT !.heard = h].height = t.height
      /\ [t EXCEPT !.at = a].version = t.version /\ [t EXCEPT !.heard = h].version = t.version
  BY DEF Task
<1> QED BY <1>1, <1>2 DEF TaskEarned

LEMMA TaskFields ==
    ASSUME NEW t \in Task
    PROVE  /\ t.at \in {"greet", "reply", "read"} /\ t.idx \in Nat \ {0} /\ t.step \in Steps
           /\ t.heard \in Heard /\ t.height \in Heights \cup {None}
           /\ t.version \in Versions \cup {None}
           /\ VersionsIn(t) \subseteq Versions \cup {None}
           /\ IndexersIn(t) \subseteq Indexers \cup {None}
BY DEF Task, VersionsIn, IndexersIn

\* What the steps of a worker start from.
LEMMA WorkerTask ==
    ASSUME ProbeInv, NEW w \in Busy
    PROVE  /\ SaidOfEach /\ w \in Workers /\ Node(w) \in Nodes /\ work[w] \in Task
           /\ TaskEarned(work[w], Node(w), said[Node(w)])
           /\ work \in [Workers -> {Idle} \cup Task]
BY AtWork DEF ProbeInv, Earned, PoolTyped

LEMMA GreetedKept ==
    ASSUME ProbeInv, NEW w \in Busy, Greeted(w)
    PROVE  ProbeInv'
<1>1. work' = [work EXCEPT ![w] = [work[w] EXCEPT !.at = "reply"]]
      /\ UNCHANGED <<phase, items, next, results, said>>
  BY DEF Greeted
<1>2. SpokeAlone(Node(w)) /\ said'[Node(w)] = said[Node(w)]
  BY <1>1, WorkerTask, SilenceOnly
<1> DEFINE t == [work[w] EXCEPT !.at = "reply"]
<1>3. t \in Task /\ t.idx = work[w].idx /\ TaskEarned(t, Node(w), said'[Node(w)])
  BY <1>2, WorkerTask, TaskMoves DEF Heard
<1>4. Going(w, t)
  BY <1>1 DEF Going
<1> HIDE DEF t
<1> QED BY <1>2, <1>3, <1>4, GoingKept

LEMMA ConnectedKept ==
    ASSUME ProbeInv, NEW w \in Busy, Connected(w)
    PROVE  ProbeInv'
<1>1. CASE Node(w) \in Tls /\ work[w].step = "plain"
  <2>1. Finish(w, Outcome(TRUE, None, None, None)) /\ Says(Node(w), {<<"up", None>>})
    BY <1>1 DEF Connected
  <2>2. SpokeAlone(Node(w)) /\ said'[Node(w)] = said[Node(w)] \cup {<<"up", None>>}
    BY <2>1, WorkerTask, SaysOnly
  <2> DEFINE r == Outcome(TRUE, None, None, None)
  <2>3. r \in Result /\ r.up /\ r.height = None /\ r.version = None /\ r.indexer = None
    BY DEF Outcome, Result
  <2> HIDE DEF r
  <2>4. ResultEarned(r, Node(w), said'[Node(w)])
    BY <2>2, <2>3 DEF ResultEarned
  <2> QED BY <2>1, <2>2, <2>3, <2>4, FinishKept DEF r
<1>2. CASE ~(Node(w) \in Tls /\ work[w].step = "plain")
  <2>1. work' = [work EXCEPT ![w] = [work[w] EXCEPT !.at = "read"]]
        /\ UNCHANGED <<phase, items, next, results, said>>
    BY <1>2 DEF Connected
  <2>2. SpokeAlone(Node(w)) /\ said'[Node(w)] = said[Node(w)]
    BY <2>1, WorkerTask, SilenceOnly
  <2> DEFINE t == [work[w] EXCEPT !.at = "read"]
  <2>3. t \in Task /\ t.idx = work[w].idx /\ TaskEarned(t, Node(w), said'[Node(w)])
    BY <2>2, WorkerTask, TaskMoves DEF Heard
  <2>4. Going(w, t)
    BY <2>1 DEF Going
  <2> HIDE DEF t
  <2> QED BY <2>2, <2>3, <2>4, GoingKept
<1> QED BY <1>1, <1>2

\* A probe that failed, of a node that gave no tip.
LEMMA DownKept ==
    ASSUME ProbeInv, NEW w \in Busy, NEW v \in Versions \cup {None}, NEW F,
           Finish(w, Down(v)), SpokeAlone(Node(w)), said'[Node(w)] = said[Node(w)] \cup F,
           <<"up", None>> \notin said[Node(w)] \cup F,
           v # None => <<"version", v>> \in said[Node(w)] \cup F
    PROVE  ProbeInv'
<1>1. Down(v) \in Result /\ ~Down(v).up /\ Down(v).height = None /\ Down(v).version = v
      /\ Down(v).indexer = None
  BY UpOrDown
<1>2. ResultEarned(Down(v), Node(w), said'[Node(w)])
  BY <1>1 DEF ResultEarned
<1> QED BY <1>1, <1>2, FinishKept

LEMMA LostKept ==
    ASSUME ProbeInv, NEW w \in Busy, Lost(w)
    PROVE  ProbeInv'
<1> DEFINE t == work[w]
           h == said[Node(w)]
<1>1. SaidOfEach /\ Node(w) \in Nodes /\ t \in Task /\ TaskEarned(t, Node(w), h)
  BY WorkerTask
<1>2. t.step \in Steps /\ t.height \in Heights \cup {None} /\ t.version \in Versions \cup {None}
      /\ VersionsIn(t) \subseteq Versions \cup {None}
  BY <1>1, TaskFields
<1>3. CASE t.step = "plain"
  <2>1. PICK v \in VersionsIn(t) :
          /\ Finish(w, Outcome(t.at = "read" /\ t.heard # "nothing", None, v, None))
          /\ Says(Node(w), {<<"version", v>>})
    BY <1>3 DEF Lost
  <2>2. SpokeAlone(Node(w)) /\ said'[Node(w)] = h \cup {<<"version", v>>}
    BY <2>1, <1>1, SaysOnly
  <2> DEFINE up == t.at = "read" /\ t.heard # "nothing"
             r  == Outcome(up, None, v, None)
  <2>3. r \in Result /\ r.up = up /\ r.height = None /\ r.version = v /\ r.indexer = None
    <3>1. up \in BOOLEAN /\ v \in Versions \cup {None}
      BY <1>2
    <3> HIDE DEF up
    <3> QED BY <3>1, OutcomeTyped
  <2>4. <<"up", None>> \notin h \cup {<<"version", v>>} /\ Node(w) \notin Keyed
    BY <1>1, <1>3 DEF TaskEarned
  <2>5. ResultEarned(r, Node(w), said'[Node(w)])
    <3> HIDE DEF r
    <3> QED BY <2>2, <2>3, <2>4 DEF ResultEarned
  <2>6. Finish(w, r)
    BY <2>1
  <2> HIDE DEF r
  <2> QED BY <2>2, <2>3, <2>5, <2>6, FinishKept
<1>4. CASE t.step \in {"login", "wallet"}
  <2>1. Finish(w, Down(t.version)) /\ said' = said
    BY <1>4 DEF Lost
  <2>2. SpokeAlone(Node(w)) /\ said'[Node(w)] = h \cup {}
    BY <2>1, <1>1, SilenceOnly
  <2>3. <<"up", None>> \notin h \cup {} /\ (t.version # None => <<"version", t.version>> \in h \cup {})
    BY <1>1, <1>4 DEF TaskEarned
  <2> QED BY <2>1, <2>2, <2>3, <1>2, DownKept
<1>5. CASE t.step = "services"
  <2> DEFINE r == Outcome(TRUE, t.height, t.version, None)
  <2>1. Finish(w, r) /\ said' = said
    BY <1>5 DEF Lost
  <2>2. SpokeAlone(Node(w)) /\ said'[Node(w)] = h
    BY <2>1, <1>1, SilenceOnly
  <2>3. r \in Result /\ r.up /\ r.height = t.height /\ r.version = t.version /\ r.indexer = None
    BY <1>2 DEF Outcome, Result
  <2>4. ResultEarned(r, Node(w), h)
    <3> HIDE DEF r
    <3> QED BY <2>3, <1>1, <1>5 DEF ResultEarned, TaskEarned
  <2> HIDE DEF r
  <2> QED BY <2>1, <2>2, <2>3, <2>4, FinishKept
<1> QED BY <1>2, <1>3, <1>4, <1>5 DEF Steps
LEMMA DataKept ==
    ASSUME ProbeInv, NEW w \in Busy, NEW h \in Heard, Data(w, h)
    PROVE  ProbeInv'
<1> DEFINE t == work[w]
<1>1. SaidOfEach /\ Node(w) \in Nodes /\ t \in Task /\ TaskEarned(t, Node(w), said[Node(w)])
  BY WorkerTask
<1>2. CASE t.step = "plain" /\ h # "noise"
  <2>1. PICK v \in Versions \cup {None} :
          /\ Finish(w, Outcome(TRUE, None, v, None))
          /\ Says(Node(w), {<<"up", None>>, <<"version", v>>})
    BY <1>2 DEF Data
  <2>2. SpokeAlone(Node(w)) /\ said'[Node(w)] = said[Node(w)] \cup {<<"up", None>>, <<"version", v>>}
    BY <2>1, <1>1, SaysOnly
  <2> DEFINE r == Outcome(TRUE, None, v, None)
  <2>3. r \in Result /\ r.up /\ r.height = None /\ r.version = v /\ r.indexer = None
    BY DEF Outcome, Result
  <2>4. Finish(w, r)
    BY <2>1
  <2> HIDE DEF r
  <2>5. ResultEarned(r, Node(w), said'[Node(w)])
    BY <2>2, <2>3 DEF ResultEarned
  <2> QED BY <2>2, <2>3, <2>4, <2>5, FinishKept
<1>3. CASE ~(t.step = "plain" /\ h # "noise")
  <2> DEFINE s == [t EXCEPT !.heard = h]
  <2>1. work' = [work EXCEPT ![w] = s] /\ UNCHANGED <<phase, items, next, results, said>>
    BY <1>3 DEF Data
  <2>2. SpokeAlone(Node(w)) /\ said'[Node(w)] = said[Node(w)]
    BY <2>1, <1>1, SilenceOnly
  <2>3. s \in Task /\ s.idx = work[w].idx /\ TaskEarned(s, Node(w), said'[Node(w)])
    BY <2>2, <1>1, TaskMoves
  <2>4. Going(w, s)
    BY <2>1 DEF Going
  <2> HIDE DEF s
  <2> QED BY <2>2, <2>3, <2>4, GoingKept
<1> QED BY <1>2, <1>3

LEMMA FloodedKept ==
    ASSUME ProbeInv, NEW w \in Busy, Flooded(w)
    PROVE  ProbeInv'
<1>1. CASE work[w].step = "plain"
  <2>1. PICK v \in VersionsIn(work[w]) : Finish(w, Down(v)) /\ Says(Node(w), {<<"version", v>>})
    BY <1>1 DEF Flooded
  <2>2. SpokeAlone(Node(w)) /\ said'[Node(w)] = said[Node(w)] \cup {<<"version", v>>}
    BY <2>1, WorkerTask, SaysOnly
  <2>3. <<"up", None>> \notin said[Node(w)] \cup {<<"version", v>>}
    BY <1>1, WorkerTask DEF TaskEarned
  <2>4. v \in Versions \cup {None}
    BY WorkerTask, TaskFields
  <2> QED BY <2>1, <2>2, <2>3, <2>4, DownKept
<1>2. CASE work[w].step # "plain"
  BY <1>2, LostKept DEF Flooded
<1> QED BY <1>1, <1>2

\* The next request of a conversation.
LEMMA RequestKept ==
    ASSUME ProbeInv, NEW w \in Busy, NEW s \in Steps, NEW h \in Heights \cup {None},
           NEW v \in Versions \cup {None}, Request(w, s, h, v), SpokeAlone(Node(w)),
           LET told == said'[Node(w)] IN
             /\ s = "plain" <=> Node(w) \notin Keyed
             /\ <<"up", None>> \in told <=> s = "services"
             /\ h # None => <<"height", h>> \in told
             /\ v # None => <<"version", v>> \in told
    PROVE  ProbeInv'
<1> DEFINE t == Greeting(work[w].idx, s, h, v)
<1>1. work[w].idx \in Nat \ {0} /\ w \in Workers /\ work \in [Workers -> {Idle} \cup Task]
  BY WorkerTask, TaskFields
<1>2. t \in Task /\ t.idx = work[w].idx /\ t.step = s /\ t.height = h /\ t.version = v
  BY <1>1, GreetingTyped
<1>3. Going(w, t)
  BY <1>1 DEF Request, Going
<1> HIDE DEF t
<1>4. TaskEarned(t, Node(w), said'[Node(w)])
  BY <1>2 DEF TaskEarned
<1> QED BY <1>2, <1>3, <1>4, GoingKept

LEMMA ClosedKept ==
    ASSUME ProbeInv, NEW w \in Busy, Closed(w)
    PROVE  ProbeInv'
<1> DEFINE t == work[w]
           h == said[Node(w)]
           ok == t.heard = "good"
<1>1. SaidOfEach /\ Node(w) \in Nodes /\ t \in Task /\ TaskEarned(t, Node(w), h)
  BY WorkerTask
<1>2. PICK v \in VersionsIn(t), tip \in Heights, x \in IndexersIn(t) :
        LET version == IF t.version = None THEN v ELSE t.version IN
         /\ CASE t.step = "login"    -> AnswerLogin(w, ok, version)
              [] t.step = "wallet"   -> AnswerWallet(w, ok, version, tip)
              [] t.step = "services" -> AnswerServices(w, ok, version, x)
         /\ Says(Node(w), {<<"version", v>>}
              \cup (IF ok /\ t.step = "wallet" THEN {<<"up", None>>, <<"height", tip>>} ELSE {})
              \cup (IF ok /\ t.step = "services" THEN {<<"indexer", x>>} ELSE {}))
  BY DEF Closed
<1> DEFINE u == IF t.version = None THEN v ELSE t.version
           F == {<<"version", v>>}
              \cup (IF ok /\ t.step = "wallet" THEN {<<"up", None>>, <<"height", tip>>} ELSE {})
              \cup (IF ok /\ t.step = "services" THEN {<<"indexer", x>>} ELSE {})
<1>3. t.step \in {"login", "wallet", "services"}
  BY <1>1, TaskFields DEF Closed, Steps
<1>4. Says(Node(w), F)
  BY <1>2
<1>5. SpokeAlone(Node(w)) /\ said'[Node(w)] = h \cup F
  <2> HIDE DEF F
  <2> QED BY <1>1, <1>4, SaysOnly
<1>6. /\ t.height \in Heights \cup {None} /\ t.version \in Versions \cup {None}
      /\ v \in Versions \cup {None} /\ x \in Indexers \cup {None} /\ u \in Versions \cup {None}
      /\ t.step \in Steps
  BY <1>1, TaskFields
<1>7. u # None => <<"version", u>> \in h \cup F
  BY <1>1 DEF TaskEarned
<1>8. Node(w) \in Keyed
  BY <1>1, <1>3 DEF TaskEarned
<1>9. <<"up", None>> \in h \cup F <=> t.step = "services" \/ (ok /\ t.step = "wallet")
  BY <1>1, <1>3 DEF TaskEarned
<1>10. CASE t.step = "login"
  <2>1. AnswerLogin(w, ok, u)
    BY <1>2, <1>10
  <2>2. <<"up", None>> \notin h \cup F
    BY <1>9, <1>10
  <2> HIDE DEF F, u
  <2>3. CASE ok
    <3>1. Request(w, "wallet", None, u)
      BY <2>1, <2>3 DEF AnswerLogin
    <3> QED BY <3>1, <2>2, <1>5, <1>6, <1>7, <1>8, RequestKept DEF Steps
  <2>4. CASE ~ok
    <3>1. Finish(w, Down(u))
      BY <2>1, <2>4 DEF AnswerLogin
    <3> QED BY <3>1, <2>2, <1>5, <1>6, <1>7, DownKept
  <2> QED BY <2>3, <2>4
<1>11. CASE t.step = "wallet"
  <2>1. AnswerWallet(w, ok, u, tip)
    BY <1>2, <1>11
  <2>2. <<"up", None>> \in h \cup F <=> ok
    BY <1>9, <1>11
  <2>3. ok => <<"height", tip>> \in h \cup F
    BY <1>11
  <2> HIDE DEF F, u
  <2>4. CASE ok
    <3>1. Request(w, "services", tip, u)
      BY <2>1, <2>4 DEF AnswerWallet
    <3> QED BY <3>1, <2>2, <2>3, <2>4, <1>5, <1>6, <1>7, <1>8, RequestKept DEF Steps
  <2>5. CASE ~ok
    <3>1. Finish(w, Down(u))
      BY <2>1, <2>5 DEF AnswerWallet
    <3> QED BY <3>1, <2>2, <2>5, <1>5, <1>6, <1>7, DownKept
  <2> QED BY <2>4, <2>5
<1>12. CASE t.step = "services"
  <2> DEFINE r == Outcome(TRUE, t.height, u, x)
  <2>1. Finish(w, r)
    BY <1>2, <1>12 DEF AnswerServices
  <2>2. <<"up", None>> \in h \cup F
    BY <1>9, <1>12
  <2>3. x # None => <<"indexer", x>> \in h \cup F
    BY <1>12 DEF IndexersIn
  <2>4. t.height # None => <<"height", t.height>> \in h \cup F
    BY <1>1 DEF TaskEarned
  <2>5. r \in Result /\ r.up /\ r.height = t.height /\ r.version = u /\ r.indexer = x
    <3> HIDE DEF u
    <3> QED BY <1>6 DEF Outcome, Result
  <2> HIDE DEF F, u, r
  <2>6. ResultEarned(r, Node(w), said'[Node(w)])
    BY <2>2, <2>3, <2>4, <2>5, <1>5, <1>7 DEF ResultEarned
  <2> QED BY <2>1, <2>5, <2>6, <1>5, FinishKept
<1> QED BY <1>3, <1>10, <1>11, <1>12
-----------------------------------------------------------------------------
\* No pool, which is how a cycle ends.
LEMMA RestKept ==
    ASSUME SaidOfEach, phase' = "rest", NoPool, said' = said
    PROVE  ProbeInv'
<1>1. /\ items' = <<>> /\ next' = 1 /\ work' = [w \in Workers |-> Idle]
      /\ results' = [i \in DOMAIN items' |-> None]
  BY DEF NoPool, PoolOver
<1>2. Busy' = {}
  BY <1>1 DEF Busy
<1>3. results' \in [DOMAIN items' -> Result \cup {None}]
  BY <1>1
<1>4. work' \in [Workers -> {Idle} \cup Task]
  BY <1>1
<1>5. next' \in 1..(Len(items') + 1)
  BY <1>1, EmptyPool
<1>6. PoolTyped'
  BY <1>1, <1>2, <1>3, <1>4, <1>5 DEF PoolTyped
<1>7. DOMAIN items' = {}
  BY <1>1, EmptyPool
<1>8. PoolShared' /\ Earned' /\ SaidOfEach'
  BY <1>2, <1>7 DEF PoolShared, Earned, SaidOfEach
<1> QED BY <1>6, <1>8 DEF ProbeInv

\* A new pool, which nobody has taken from.
LEMMA PoolBegins ==
    ASSUME PoolTyped, Busy = {}, NEW s \in Lists \cup Queues, PoolOver(s), work' = work,
           phase' = "public" => s \in Lists, phase' = "pending" => s \in Queues,
           phase' \in {"public", "pending"}, SaidOfEach',
           \A i \in DOMAIN s : said'[s[i]] = {},
           phase' = "public" => \A n \in Queued : said'[n] = {}
    PROVE  ProbeInv'
<1>1. items' = s /\ next' = 1 /\ results' = [i \in DOMAIN s |-> None]
  BY DEF PoolOver
<1>2. Busy' = {}
  BY DEF Busy
<1>3. results' \in [DOMAIN items' -> Result \cup {None}]
  BY <1>1
<1>4. next' \in 1..(Len(items') + 1)
  BY <1>1, ListsAndQueues
<1>5. work' \in [Workers -> {Idle} \cup Task]
  BY DEF PoolTyped
<1>6. PoolTyped'
  BY <1>1, <1>2, <1>3, <1>4, <1>5 DEF PoolTyped
<1>7. \A i \in DOMAIN items' : results'[i] = None
  BY <1>1
<1>8. \A i \in DOMAIN items' : ~(i < next')
  BY <1>1, ListsAndQueues
<1>9. PoolShared'
  BY <1>2, <1>7, <1>8 DEF PoolShared
<1>10. Earned'
  BY <1>1, <1>2, <1>7 DEF Earned
<1> QED BY <1>6, <1>9, <1>10 DEF ProbeInv

LEMMA BeginKept ==
    ASSUME ProbeInv, NEW s \in Lists, BeginCycle(s)
    PROVE  ProbeInv'
<1>1. /\ phase = "rest" /\ phase' = "public" /\ PoolOver(s) /\ work' = work
      /\ said' = [n \in Nodes |-> {}]
  BY DEF BeginCycle
<1>2. PoolTyped /\ Busy = {}
  BY <1>1 DEF ProbeInv, PoolTyped
<1>3. \A n \in Nodes : said'[n] = {}
  BY <1>1
<1>4. SaidOfEach'
  BY <1>1 DEF SaidOfEach
<1>5. \A i \in DOMAIN s : said'[s[i]] = {}
  BY <1>3, ListsAndQueues
<1>6. \A n \in Queued : said'[n] = {}
  BY <1>3, QueuedNodes
<1> QED BY <1>1, <1>2, <1>4, <1>5, <1>6, PoolBegins

LEMMA TurnKept ==
    ASSUME ProbeInv, NEW q \in Queues, TurnToPending(q)
    PROVE  ProbeInv'
<1>1. phase = "turn" /\ phase' = "pending" /\ PoolOver(q) /\ work' = work /\ said' = said
  BY DEF TurnToPending
<1>2. PoolTyped /\ Busy = {} /\ SaidOfEach /\ \A n \in Queued : said[n] = {}
  BY <1>1 DEF ProbeInv, PoolTyped, Earned
<1>3. SaidOfEach'
  BY <1>1, <1>2 DEF SaidOfEach
<1>4. \A i \in DOMAIN q : said'[q[i]] = {}
  BY <1>1, <1>2 DEF Queued
<1> QED BY <1>1, <1>2, <1>3, <1>4, PoolBegins

\* The phase moves on, and the pool stays as it is.
LEMMA PhaseKept ==
    ASSUME ProbeInv, UNCHANGED <<items, Pool, said>>,
           \/ phase = "public" /\ phase' = "history" /\ Gathered
           \/ phase = "history" /\ phase' = "daily"
           \/ phase = "daily" /\ phase' = "turn"
           \/ phase = "pending" /\ phase' = "leaving"
           \/ phase' = phase
    PROVE  ProbeInv'
<1>1. items' = items /\ next' = next /\ work' = work /\ results' = results /\ said' = said
  BY DEF Pool
<1>2. PoolTyped /\ PoolShared /\ Earned /\ SaidOfEach
  BY DEF ProbeInv
<1>3. Busy' = Busy
  BY <1>1 DEF Busy
<1>4. next \in 1..(Len(items) + 1) /\ Len(items) \in Nat
  BY <1>2, ItemsOnce DEF PoolTyped
<1>5. Gathered => Busy = {} /\ next = Len(items) + 1
  BY <1>4 DEF Gathered
<1>6. PoolTyped'
  BY <1>1, <1>2, <1>3, <1>5 DEF PoolTyped
<1>7. PoolShared' /\ SaidOfEach'
  BY <1>1, <1>2, <1>3 DEF PoolShared, SaidOfEach
<1>8. Earned'
  BY <1>1, <1>2, <1>3 DEF Earned, Node
<1> QED BY <1>6, <1>7, <1>8 DEF ProbeInv

LEMMA TakeKept ==
    ASSUME ProbeInv, NEW w \in Workers, Take(w)
    PROVE  ProbeInv'
<1>1. PoolTyped /\ PoolShared /\ Earned /\ SaidOfEach
  BY DEF ProbeInv
<1>2. work[w] = Idle /\ phase \in {"public", "pending"} /\ said' = said
  BY DEF Take
<1>3. next \in DOMAIN items /\ next \in Nat \ {0} /\ Len(items) \in Nat /\ DOMAIN items = 1..Len(items)
  BY <1>1, ItemsOnce DEF Take, PoolTyped
<1>4. CASE items[next] \in Broken /\ phase = "public"
  BY <1>1, <1>2, <1>4, RestKept DEF Take
<1>5. CASE items[next] \in Broken /\ phase # "public"
  BY <1>2, <1>5, PhaseKept DEF Take
<1>6. CASE items[next] \notin Broken
  <2> DEFINE step == IF items[next] \in Keyed THEN "login" ELSE "plain"
             t == Greeting(next, step, None, None)
  <2>1. /\ work' = [work EXCEPT ![w] = t] /\ next' = next + 1
        /\ phase' = phase /\ items' = items /\ results' = results
    BY <1>6 DEF Take
  <2>2. t \in Task /\ t.idx = next /\ t.step = step /\ t.height = None /\ t.version = None
    <3>1. step \in Steps
      BY DEF Steps
    <3> HIDE DEF step
    <3> QED BY <3>1, <1>3, GreetingTyped
  <2>3. TaskEarned(t, items[next], said[items[next]])
    <3>1. said[items[next]] = {}
      BY <1>1, <1>3 DEF Earned
    <3>2. step = "plain" <=> items[next] \notin Keyed
      OBVIOUS
    <3>3. step # "services"
      OBVIOUS
    <3> HIDE DEF step, t
    <3> QED BY <2>2, <3>1, <3>2, <3>3 DEF TaskEarned
  <2> HIDE DEF t
  <2>4. work \in [Workers -> {Idle} \cup Task]
    BY <1>1 DEF PoolTyped
  <2>5. work'[w] = t /\ \A u \in Workers : u # w => work'[u] = work[u]
    BY <2>1, <2>4
  <2>6. work' \in [Workers -> {Idle} \cup Task]
    BY <2>1, <2>2, <2>4
  <2>7. Busy' = Busy \cup {w} /\ w \notin Busy
    BY <2>2, <2>5, <1>2, NotIdle DEF Busy
  <2>8. next' \in 1..(Len(items') + 1)
    BY <2>1, <1>3
  <2>9. PoolTyped'
    BY <2>1, <2>6, <2>8, <1>1, <1>2 DEF PoolTyped
  <2>10. \A u \in Busy : /\ work'[u] = work[u] /\ work[u].idx \in DOMAIN items
                         /\ work[u].idx < next /\ results[work[u].idx] = None
                         /\ TaskEarned(work[u], items[work[u].idx], said[items[work[u].idx]])
    BY <1>1, <2>5, <2>7, AtWork DEF Earned
  <2>11. results[next] = None
    BY <1>1, <1>3 DEF PoolShared
  <2>12. \A u \in Busy' : work'[u].idx < next' /\ results'[work'[u].idx] = None
    <3>1. next < next + 1 /\ \A k \in DOMAIN items : k < next => k < next + 1
      BY <1>3
    <3>2. w \in Busy' => work'[w].idx < next' /\ results'[work'[w].idx] = None
      BY <3>1, <2>1, <2>2, <2>5, <2>11
    <3>3. \A u \in Busy : work'[u].idx < next' /\ results'[work'[u].idx] = None
      BY <3>1, <2>1, <2>10
    <3> QED BY <3>2, <3>3, <2>7
  <2>13. \A u \in Busy : work'[u].idx # next
    BY <1>3, <2>10
  <2>14. \A u, v \in Busy' : work'[u].idx = work'[v].idx => u = v
    <3>1. \A u, v \in Busy : work'[u].idx = work'[v].idx => u = v
      BY <1>1, <2>10 DEF PoolShared
    <3> QED BY <3>1, <2>2, <2>5, <2>7, <2>13
  <2>15. \A i \in DOMAIN items' : i < next' /\ results'[i] = None => \E u \in Busy' : work'[u].idx = i
    <3> SUFFICES ASSUME NEW i \in DOMAIN items, i < next + 1, results[i] = None
                 PROVE \E u \in Busy' : work'[u].idx = i
      BY <2>1
    <3>1. CASE i = next
      BY <3>1, <2>2, <2>5, <2>7
    <3>2. CASE i # next
      <4>1. i < next
        BY <3>2, <1>3
      <4> QED BY <4>1, <1>1, <2>7, <2>10 DEF PoolShared
    <3> QED BY <3>1, <3>2
  <2>16. \A i \in DOMAIN items' : i >= next' => i >= next
    BY <2>1, <1>3
  <2>17. PoolShared'
    <3>1. \A i \in DOMAIN items' : i >= next' => results'[i] = None
      BY <2>1, <2>16, <1>1 DEF PoolShared
    <3> QED BY <3>1, <2>12, <2>14, <2>15 DEF PoolShared
  <2>18. \A u \in Busy' : TaskEarned(work'[u], items'[work'[u].idx], said'[items'[work'[u].idx]])
    <3>1. TaskEarned(work'[w], items'[work'[w].idx], said'[items'[work'[w].idx]])
      BY <2>1, <2>2, <2>3, <2>5, <1>2
    <3>2. \A u \in Busy : TaskEarned(work'[u], items'[work'[u].idx], said'[items'[work'[u].idx]])
      BY <2>1, <2>10, <1>2
    <3> QED BY <3>1, <3>2, <2>7
  <2>19. Earned'
    <3>1. \A i \in DOMAIN items' : i >= next' => said'[items'[i]] = {}
      BY <2>1, <2>16, <1>1, <1>2 DEF Earned
    <3>2. \A i \in DOMAIN items' : results'[i] # None => ResultEarned(results'[i], items'[i], said'[items'[i]])
      BY <2>1, <1>1, <1>2 DEF Earned
    <3>3. phase' \in {"public", "history", "daily", "turn"} => \A n \in Queued : said'[n] = {}
      BY <2>1, <1>1, <1>2 DEF Earned
    <3> QED BY <3>1, <3>2, <3>3, <2>18 DEF Earned, Node
  <2>20. SaidOfEach'
    BY <1>1, <1>2 DEF SaidOfEach
  <2> QED BY <2>9, <2>17, <2>19, <2>20 DEF ProbeInv
<1> QED BY <1>4, <1>5, <1>6
-----------------------------------------------------------------------------
\* What a worker leaves alone.
Aside == <<today, Files, day, cycles, crashes>>

LEMMA LostFrame ==
    ASSUME ProbeInv, NEW w \in Busy, Lost(w)
    PROVE  UNCHANGED Aside
<1>1. work[w].step \in Steps
  BY WorkerTask, TaskFields
<1>2. \A r : Finish(w, r) => UNCHANGED Aside
  BY DEF Finish, Aside
<1>3. CASE work[w].step = "plain"
  <2>1. \E v, r : Finish(w, r)
    BY <1>3 DEF Lost
  <2> QED BY <2>1, <1>2
<1>4. CASE work[w].step \in {"login", "wallet"}
  <2>1. Finish(w, Down(work[w].version))
    BY <1>4 DEF Lost
  <2> QED BY <2>1, <1>2
<1>5. CASE work[w].step = "services"
  <2>1. \E r : Finish(w, r)
    BY <1>5 DEF Lost
  <2> QED BY <2>1, <1>2
<1> QED BY <1>1, <1>3, <1>4, <1>5 DEF Steps

LEMMA ClosedFrame ==
    ASSUME ProbeInv, NEW w \in Busy, Closed(w)
    PROVE  UNCHANGED Aside
<1>1. work[w].step \in Steps
  BY WorkerTask, TaskFields
<1>2. \A r : Finish(w, r) => UNCHANGED Aside
  BY DEF Finish, Aside
<1>3. \A s, h, v : Request(w, s, h, v) => UNCHANGED Aside
  BY DEF Request, Aside
<1>4. \A ok, v, tip, x : /\ AnswerLogin(w, ok, v) => UNCHANGED Aside
                         /\ AnswerWallet(w, ok, v, tip) => UNCHANGED Aside
                         /\ AnswerServices(w, ok, v, x) => UNCHANGED Aside
  BY <1>2, <1>3 DEF AnswerLogin, AnswerWallet, AnswerServices
<1>5. work[w].step \in {"login", "wallet", "services"}
  BY <1>1 DEF Closed, Steps
<1>6. \E ok, v, tip, x : AnswerLogin(w, ok, v) \/ AnswerWallet(w, ok, v, tip) \/ AnswerServices(w, ok, v, x)
  BY <1>5 DEF Closed
<1> QED BY <1>4, <1>6

LEMMA WorkerFrame ==
    ASSUME ProbeInv, NEW w \in Workers,
           \/ Take(w) \/ Greeted(w) \/ Connected(w) \/ Cut(w)
           \/ Timeout(w) \/ Flooded(w) \/ Closed(w)
           \/ \E h \in Heard : Data(w, h)
    PROVE  UNCHANGED Aside
<1>1. CASE Take(w) \/ Greeted(w)
  BY <1>1 DEF Take, Greeted, Aside
<1>2. CASE Cut(w) \/ Timeout(w)
  <2>1. w \in Busy /\ Lost(w)
    BY <1>2 DEF Cut, Timeout, Busy
  <2> QED BY <2>1, LostFrame
<1>3. CASE Connected(w) \/ Flooded(w) \/ Closed(w) \/ \E h \in Heard : Data(w, h)
  <2>1. work[w].at \in {"reply", "read"}
    BY <1>3 DEF Connected, Flooded, Closed, Data
  <2>2. w \in Busy
    BY <2>1 DEF Busy, Idle
  <2>3. \A r : Finish(w, r) => UNCHANGED Aside
    BY DEF Finish, Aside
  <2>4. CASE Connected(w)
    BY <2>3, <2>4 DEF Connected, Aside
  <2>5. CASE \E h \in Heard : Data(w, h)
    BY <2>3, <2>5 DEF Data, Aside
  <2>6. CASE Flooded(w)
    BY <2>2, <2>3, <2>6, LostFrame DEF Flooded
  <2> QED BY <1>3, <2>2, <2>4, <2>5, <2>6, ClosedFrame
<1> QED BY <1>1, <1>2, <1>3

-----------------------------------------------------------------------------
\* What a worker does, it does at work, or it takes an item.
LEMMA WorkerKept ==
    ASSUME ProbeInv, NEW w \in Workers,
           \/ Take(w) \/ Greeted(w) \/ Connected(w) \/ Cut(w)
           \/ Timeout(w) \/ Flooded(w) \/ Closed(w)
           \/ \E h \in Heard : Data(w, h)
    PROVE  ProbeInv'
<1>1. CASE Take(w)
  BY <1>1, TakeKept
<1>2. CASE Cut(w) \/ Timeout(w)
  <2>1. w \in Busy /\ Lost(w)
    BY <1>2 DEF Cut, Timeout, Busy
  <2> QED BY <2>1, LostKept
<1>3. CASE ~Take(w) /\ ~Cut(w) /\ ~Timeout(w)
  <2>1. work[w].at \in {"greet", "reply", "read"}
    BY <1>3 DEF Greeted, Connected, Flooded, Closed, Data
  <2>2. w \in Busy
    BY <2>1 DEF Busy, Idle
  <2> QED BY <1>3, <2>2, GreetedKept, ConnectedKept, FloodedKept, ClosedKept, DataKept
<1> QED BY <1>1, <1>2, <1>3

LEMMA ProbeStarts == ProbeInit => ProbeInv
<1> SUFFICES ASSUME ProbeInit PROVE ProbeInv
  OBVIOUS
<1>1. /\ phase = "rest" /\ items = <<>> /\ next = 1 /\ work = [w \in Workers |-> Idle]
      /\ results = <<>> /\ said = [n \in Nodes |-> {}]
  BY DEF ProbeInit
<1>2. Busy = {}
  BY <1>1 DEF Busy
<1>3. results \in [DOMAIN items -> Result \cup {None}]
  BY <1>1, EmptyPool
<1>4. work \in [Workers -> {Idle} \cup Task]
  BY <1>1
<1>5. next \in 1..(Len(items) + 1)
  BY <1>1, EmptyPool
<1>6. PoolTyped
  BY <1>1, <1>2, <1>3, <1>4, <1>5 DEF PoolTyped
<1>7. DOMAIN items = {}
  BY <1>1, EmptyPool
<1>8. SaidOfEach
  BY <1>1 DEF SaidOfEach
<1> QED BY <1>1, <1>2, <1>6, <1>7, <1>8 DEF ProbeInv, PoolShared, Earned

LEMMA ProbeStep == ProbeInv /\ [ProbeNext]_probe => ProbeInv'
<1> SUFFICES ASSUME ProbeInv, [ProbeNext]_probe PROVE ProbeInv'
  OBVIOUS
<1>1. SaidOfEach
  BY DEF ProbeInv
<1>2. CASE \E list \in Lists : BeginCycle(list)
  BY <1>2, BeginKept
<1>3. CASE \E queue \in Queues : TurnToPending(queue)
  BY <1>3, TurnKept
<1>4. CASE \E w \in Workers :
             \/ Take(w) \/ Greeted(w) \/ Connected(w) \/ Cut(w)
             \/ Timeout(w) \/ Flooded(w) \/ Closed(w)
             \/ \E h \in Heard : Data(w, h)
  BY <1>4, WorkerKept
<1>5. CASE Fault \/ WritePending \/ Leave \/ Crash
  BY <1>1, <1>5, RestKept DEF Fault, WritePending, Leave, Crash
<1>6. CASE WriteList \/ WriteHistory \/ WriteDaily
  BY <1>6, PhaseKept DEF WriteList, WriteHistory, WriteDaily
<1>7. CASE Midnight
  BY <1>7, PhaseKept DEF Midnight
<1>8. CASE UNCHANGED probe
  BY <1>8, PhaseKept DEF probe, Pool
<1> QED BY <1>2, <1>3, <1>4, <1>5, <1>6, <1>7, <1>8 DEF ProbeNext, Recording

LEMMA ProbeInvHolds == ProbeSpec => []ProbeInv
BY ProbeStarts, ProbeStep, PTL DEF ProbeSpec

\* A pool that is through has a result for every node in it.
LEMMA AllFound ==
    ASSUME ProbeInv, Busy = {}, next = Len(items) + 1, NEW n \in InPool
    PROVE  /\ n \in Nodes /\ results[Of(n)] \in Result
           /\ ResultEarned(results[Of(n)], n, said[n])
<1>1. PoolTyped /\ PoolShared /\ Earned
  BY DEF ProbeInv
<1>2. Of(n) \in DOMAIN items /\ items[Of(n)] = n
  BY <1>1, OfNode
<1>3. Of(n) < next /\ n \in Nodes
  BY <1>1, <1>2, ItemsOnce
<1>4. results[Of(n)] # None
  BY <1>1, <1>2, <1>3 DEF PoolShared
<1>5. results[Of(n)] \in Result
  BY <1>1, <1>2, <1>4 DEF PoolTyped
<1> QED BY <1>1, <1>2, <1>3, <1>4, <1>5 DEF Earned

LEMMA IsGathered ==
    ASSUME ProbeInv, Gathered
    PROVE  Busy = {} /\ next = Len(items) + 1
BY ItemsOnce DEF ProbeInv, PoolTyped, Gathered

\* What may change on the card of a node.
CardEarned(n, old, new, told) ==
    /\ old # new /\ new.status = "active" /\ n \in Keyed => <<"up", None>> \in told
    /\ old.height  # new.height  => <<"height", new.height>> \in told
    /\ old.version # new.version => <<"version", new.version>> \in told /\ new.version # None
    /\ old.indexer # new.indexer => <<"indexer", new.indexer>> \in told /\ new.indexer # None

LEMMA NewCardEarned ==
    ASSUME NEW n, NEW c, NEW r \in Result, NEW told, ResultEarned(r, n, told)
    PROVE  CardEarned(n, c, NewCard(c, r), told)
<1> DEFINE new == NewCard(c, r)
<1>1. /\ new.status = IF r.up THEN "active" ELSE "inactive"
      /\ new.height = IF r.height # None THEN r.height ELSE c.height
      /\ new.version = IF r.version # None THEN r.version ELSE c.version
      /\ new.indexer = IF r.indexer # None THEN r.indexer ELSE c.indexer
  BY DEF NewCard
<1> HIDE DEF new
<1>2. /\ new.status = "active" => r.up
      /\ new.height # c.height => r.height # None /\ new.height = r.height
      /\ new.version # c.version => r.version # None /\ new.version = r.version
      /\ new.indexer # c.indexer => r.indexer # None /\ new.indexer = r.indexer
  BY <1>1
<1> QED BY <1>2 DEF CardEarned, ResultEarned, new

LEMMA SameCardEarned ==
    ASSUME NEW n, NEW c, NEW told
    PROVE  CardEarned(n, c, c, told)
BY DEF CardEarned

LEMMA CardsStep ==
    ASSUME ProbeInv, [ProbeNext]_probe, cards' # cards
    PROVE  \A n \in Nodes : CardEarned(n, cards[n], cards'[n], said[n])
<1>1. WriteList \/ WritePending
  <2>1. UNCHANGED cards => FALSE
    OBVIOUS
  <2>2. ASSUME NEW w \in Workers,
               \/ Take(w) \/ Greeted(w) \/ Connected(w) \/ Cut(w)
               \/ Timeout(w) \/ Flooded(w) \/ Closed(w)
               \/ \E h \in Heard : Data(w, h)
        PROVE  UNCHANGED cards
    BY <2>2, WorkerFrame DEF Aside, Files
  <2> QED BY <2>1, <2>2 DEF ProbeNext, BeginCycle, TurnToPending, Recording, Fault, WriteHistory,
                 WriteDaily, Leave, Crash, Midnight, probe, Files
<1>2. Gathered
  BY <1>1 DEF WriteList, WritePending
<1>3. cards' = [n \in Nodes |-> IF n \in InPool THEN NewCard(cards[n], results[Of(n)]) ELSE cards[n]]
  BY <1>1 DEF WriteList, WritePending
<1> SUFFICES ASSUME NEW n \in Nodes PROVE CardEarned(n, cards[n], cards'[n], said[n])
  OBVIOUS
<1>4. CASE n \in InPool
  <2>1. cards'[n] = NewCard(cards[n], results[Of(n)])
    BY <1>3, <1>4
  <2> QED BY <2>1, <1>2, <1>4, AllFound, IsGathered, NewCardEarned
<1>5. CASE n \notin InPool
  <2>1. cards'[n] = cards[n]
    BY <1>3, <1>5
  <2> QED BY <2>1, SameCardEarned
<1> QED BY <1>4, <1>5

\* As a step of the specification.
LEMMA CardsTold ==
    ASSUME ProbeInv, [ProbeNext]_probe
    PROVE  [\A n \in Nodes : CardEarned(n, cards[n], cards'[n], said[n])]_cards
BY CardsStep

(***************************************************************************)
(* What a cycle publishes of a node was earned by it in this cycle, and no *)
(* node that gave its tip is put down: whatever the nodes, the workers, the*)
(* order in which they take the items and the way each connection ends.    *)
(***************************************************************************)
THEOREM WhatIsPublishedWasEarned == ProbeSpec => ProbesHonest
<1>1. ProbeInv => TipMeansUp
  BY DEF ProbeInv, Earned, PoolTyped, TipMeansUp, ResultEarned
<1>2. ProbeInv /\ [ProbeNext]_probe =>
        [\A n \in Nodes : LET old == cards[n]  new == cards'[n] IN
         /\ old # new /\ new.status = "active" /\ n \in Keyed => <<"up", None>> \in said[n]
         /\ old.height  # new.height  => <<"height", new.height>> \in said[n]
         /\ old.version # new.version => <<"version", new.version>> \in said[n] /\ new.version # None
         /\ old.indexer # new.indexer => <<"indexer", new.indexer>> \in said[n] /\ new.indexer # None
        ]_cards
  BY CardsTold DEF CardEarned
<1> QED BY <1>1, <1>2, ProbeInvHolds, PTL DEF ProbeSpec, ProbesHonest, CardsEarned
-----------------------------------------------------------------------------
(***************************************************************************)
(* The files: what the types say of them, and how the rollup and the       *)
(* rolling checks go together.                                             *)
(***************************************************************************)
FilesTyped ==
    /\ cards \in [Nodes -> Card]
    /\ checks \in [Nodes -> Seq(Check)] /\ \A n \in Nodes : Len(checks[n]) <= Window
    /\ daily \in [Nodes -> Seq(DayRec)] /\ \A n \in Nodes : Len(daily[n]) <= Retention
    /\ today \in 0..MaxDays /\ day \in 0..MaxDays
    /\ cycles \in 0..MaxCycles /\ crashes \in 0..MaxCrashes

\* How many checks there are of a day, and of those how many found the node up.
Many(s, d)   == Cardinality({j \in DOMAIN s : s[j].d = d})
ManyUp(s, d) == Cardinality({j \in DOMAIN s : s[j].d = d /\ s[j].up})

\* A check that the rollup has not counted yet.
Due(n, d)   == IF phase = "daily" /\ n \in InPool /\ d = today THEN 1 ELSE 0
DueUp(n, d) == IF phase = "daily" /\ n \in InPool /\ d = today /\ results[Of(n)].up THEN 1 ELSE 0

Within(x, m) == x \in (m - crashes)..m

Tally(n, d, total, up) == /\ Within(total, Many(checks[n], d) - Due(n, d))
                          /\ Within(up, ManyUp(checks[n], d) - DueUp(n, d))

\* The rollup counts what the history has, but for what was due at a kill: in its
\* records, and in those that are still to come.
Counted(n) ==
    /\ \A i \in DOMAIN daily[n] : Tally(n, daily[n][i].d, daily[n][i].total, daily[n][i].up)
    /\ \A d \in Nat : (\A i \in DOMAIN daily[n] : daily[n][i].d < d) => Tally(n, d, 0, 0)

Rising(s) == \A i, j \in DOMAIN s : i < j => s[i].d < s[j].d

Dated(n) ==
    /\ Rising(daily[n])
    /\ \A i \in DOMAIN daily[n] :
         daily[n][i].d <= day /\ (phase \in {"public", "history", "daily"} => daily[n][i].d <= today)

\* What the cycle has still to write of a node.
Ahead(n) == IF phase \in {"public", "history"} \/ (phase # "rest" /\ n \in Queued) THEN 1 ELSE 0

RollInv ==
    /\ today <= day
    /\ \A n \in Nodes : Len(checks[n]) + Ahead(n) <= cycles
    /\ \A n \in Queued : daily[n] = <<>>
    /\ \A n \in Nodes \ Queued : Dated(n) /\ (cycles <= Window => Counted(n))

LEMMA FilesFacts ==
    ASSUME FilesTyped
    PROVE  /\ today \in Nat /\ day \in Nat /\ cycles \in Nat /\ crashes \in Nat
           /\ \A n \in Nodes : checks[n] \in Seq(Check) /\ daily[n] \in Seq(DayRec)
BY ProbeAssumption DEF FilesTyped

\* The last records of a sequence.
LEMMA LastOf ==
    ASSUME NEW S, NEW s \in Seq(S), NEW m \in Nat \ {0}
    PROVE  /\ Last(s, m) \in Seq(S) /\ Len(Last(s, m)) <= m
           /\ Len(s) <= m => Last(s, m) = s
           /\ \E k \in Nat : /\ Len(Last(s, m)) = Len(s) - k
                             /\ Len(s) > 0 => k < Len(s)
                             /\ \A i \in 1..(Len(s) - k) : Last(s, m)[i] = s[i + k]
<1>1. Len(s) \in Nat
  OBVIOUS
<1>2. CASE Len(s) > m
  <2> DEFINE k == Len(s) - m
  <2>1. k \in Nat /\ k + 1 \in 1..Len(s) /\ k < Len(s) /\ Len(s) - k = m
    BY <1>1, <1>2
  <2>2. Last(s, m) = SubSeq(s, k + 1, Len(s))
    BY <1>2 DEF Last
  <2> HIDE DEF k
  <2>3. \A i \in (k + 1)..Len(s) : s[i] \in S
    BY <2>1
  <2>4. SubSeq(s, k + 1, Len(s)) \in Seq(S)
    BY <2>1, <2>3
  <2>5. Len(SubSeq(s, k + 1, Len(s))) = Len(s) - k
    BY <1>1, <2>1
  <2>6. \A i \in 1..(Len(s) - k) : SubSeq(s, k + 1, Len(s))[i] = s[i + k]
    BY <1>1, <2>1
  <2> QED BY SMTT(30), <2>1, <2>2, <2>4, <2>5, <2>6, <1>2
<1>3. CASE ~(Len(s) > m)
  <2>1. Last(s, m) = SubSeq(s, 1, Len(s))
    BY <1>3 DEF Last
  <2>2. SubSeq(s, 1, Len(s)) = s
    BY <1>1
  <2>3. Last(s, m) = s
    BY <2>1, <2>2
  <2>4. 0 \in Nat /\ Len(s) - 0 = Len(s) /\ \A i \in 1..(Len(s) - 0) : s[i] = s[i + 0]
    BY <1>1
  <2>5. \E k \in Nat : /\ Len(s) = Len(s) - k
                       /\ Len(s) > 0 => k < Len(s)
                       /\ \A i \in 1..(Len(s) - k) : s[i] = s[i + k]
    BY <2>4
  <2>6. Len(s) <= m
    BY <1>1, <1>3
  <2> QED BY <2>3, <2>5, <2>6
<1> QED BY <1>2, <1>3

\* Counting.
LEMMA Counts ==
    ASSUME NEW s \in Seq(Check), NEW d
    PROVE  /\ IsFiniteSet({j \in DOMAIN s : s[j].d = d}) /\ Many(s, d) \in Nat
           /\ IsFiniteSet({j \in DOMAIN s : s[j].d = d /\ s[j].up}) /\ ManyUp(s, d) \in Nat
<1>1. IsFiniteSet(1..Len(s))
  <2>1. Len(s) \in Int
    OBVIOUS
  <2> QED BY <2>1, FS_Interval
<1>2. /\ {j \in DOMAIN s : s[j].d = d} \in SUBSET (1..Len(s))
      /\ {j \in DOMAIN s : s[j].d = d /\ s[j].up} \in SUBSET (1..Len(s))
  OBVIOUS
<1>3. IsFiniteSet({j \in DOMAIN s : s[j].d = d}) /\ IsFiniteSet({j \in DOMAIN s : s[j].d = d /\ s[j].up})
  BY <1>1, <1>2, FS_Subset
<1> QED BY <1>3, FS_CardinalityType DEF Many, ManyUp

LEMMA CountMore ==
    ASSUME NEW s \in Seq(Check), NEW c \in Check, NEW d
    PROVE  /\ Many(Append(s, c), d) = Many(s, d) + (IF c.d = d THEN 1 ELSE 0)
           /\ ManyUp(Append(s, c), d) = ManyUp(s, d) + (IF c.d = d /\ c.up THEN 1 ELSE 0)
<1> DEFINE S == {j \in DOMAIN s : s[j].d = d}
           U == {j \in DOMAIN s : s[j].d = d /\ s[j].up}
           t == Append(s, c)
           e == Len(s) + 1
<1>1. Len(s) \in Nat /\ DOMAIN s = 1..Len(s) /\ e \notin DOMAIN s
  OBVIOUS
<1>2. DOMAIN t = DOMAIN s \cup {e} /\ t[e] = c /\ \A j \in DOMAIN s : t[j] = s[j]
  BY <1>1
<1>3. e \notin S /\ e \notin U
  BY <1>1
<1> HIDE DEF t, e
<1>4. {j \in DOMAIN t : t[j].d = d} = IF c.d = d THEN S \cup {e} ELSE S
  BY <1>2
<1>5. {j \in DOMAIN t : t[j].d = d /\ t[j].up} = IF c.d = d /\ c.up THEN U \cup {e} ELSE U
  BY <1>2
<1>6. IsFiniteSet(S) /\ IsFiniteSet(U) /\ Cardinality(S) \in Nat /\ Cardinality(U) \in Nat
  BY Counts DEF Many, ManyUp
<1> HIDE DEF S, U
<1>7. Cardinality(S \cup {e}) = Cardinality(S) + 1 /\ Cardinality(U \cup {e}) = Cardinality(U) + 1
  BY <1>3, <1>6, FS_AddElement
<1>8. Many(t, d) = Cardinality(S) + (IF c.d = d THEN 1 ELSE 0)
  <2>1. Many(t, d) = Cardinality(IF c.d = d THEN S \cup {e} ELSE S)
    BY <1>4 DEF Many
  <2> QED BY <2>1, <1>6, <1>7
<1>9. ManyUp(t, d) = Cardinality(U) + (IF c.d = d /\ c.up THEN 1 ELSE 0)
  <2>1. ManyUp(t, d) = Cardinality(IF c.d = d /\ c.up THEN U \cup {e} ELSE U)
    BY <1>5 DEF ManyUp
  <2> QED BY <2>1, <1>6, <1>7
<1> QED BY <1>8, <1>9 DEF Many, ManyUp, S, U, t
-----------------------------------------------------------------------------
LEMMA DueFacts ==
    ASSUME NEW n, NEW d
    PROVE  /\ Due(n, d) \in {0, 1} /\ DueUp(n, d) \in {0, 1}
           /\ phase # "daily" => Due(n, d) = 0 /\ DueUp(n, d) = 0
BY DEF Due, DueUp

LEMMA AheadFacts ==
    ASSUME NEW n
    PROVE  Ahead(n) \in {0, 1}
BY DEF Ahead

LEMMA SeqLen == ASSUME NEW S, NEW s \in Seq(S) PROVE Len(s) \in Nat /\ DOMAIN s = 1..Len(s)
OBVIOUS

LEMMA DayFields ==
    ASSUME FilesTyped, NEW n \in Nodes, NEW i \in DOMAIN daily[n]
    PROVE  /\ daily[n][i] \in DayRec
           /\ daily[n][i].d \in Nat /\ daily[n][i].total \in Nat /\ daily[n][i].up \in Nat
<1>1. daily[n] \in Seq(DayRec)
  BY FilesFacts
<1>2. daily[n][i] \in DayRec
  BY <1>1
<1> QED BY <1>2 DEF DayRec

\* The checks and the rollup of a node stay, and so does what is due.
LEMMA CountedSame ==
    ASSUME NEW n, Counted(n), checks'[n] = checks[n], daily'[n] = daily[n], crashes' = crashes,
           \A d : Due(n, d)' = Due(n, d) /\ DueUp(n, d)' = DueUp(n, d)
    PROVE  Counted(n)'
<1>1. \A d, total, up : Tally(n, d, total, up)' <=> Tally(n, d, total, up)
  BY DEF Tally, Within
<1> QED BY <1>1 DEF Counted

\* A step that records nothing.
LEMMA RollQuiet ==
    ASSUME FilesTyped, RollInv, UNCHANGED <<checks, daily, crashes, cycles, today>>,
           day' \in Nat, day <= day',
           phase = "daily" <=> phase' = "daily",
           phase = "daily" => UNCHANGED <<items, results>>,
           phase' \in {"public", "history"} => phase \in {"public", "history"},
           phase' # "rest" => phase # "rest"
    PROVE  RollInv'
<1>1. today \in Nat /\ day \in Nat /\ cycles \in Nat
  BY FilesFacts
<1>2. today' <= day'
  BY <1>1 DEF RollInv
<1>3. ASSUME NEW n \in Nodes PROVE Len(checks'[n]) + Ahead(n)' <= cycles'
  <2>1. Ahead(n)' \in {0, 1} /\ Ahead(n) \in {0, 1} /\ Ahead(n)' <= Ahead(n)
    BY DEF Ahead
  <2>2. Len(checks[n]) + Ahead(n) <= cycles /\ Len(checks[n]) \in Nat
    BY FilesFacts, SeqLen DEF RollInv
  <2> QED BY <1>1, <2>1, <2>2
<1>4. ASSUME NEW n \in Nodes \ Queued PROVE Dated(n)'
  <2>1. Dated(n) /\ daily[n] \in Seq(DayRec)
    BY FilesFacts DEF RollInv
  <2>2. \A i \in DOMAIN daily[n] : daily[n][i].d \in Nat
    BY DayFields
  <2>3. \A i \in DOMAIN daily[n] : daily[n][i].d <= day'
    BY <1>1, <2>1, <2>2 DEF Dated
  <2> QED BY <2>1, <2>3 DEF Dated
<1>5. ASSUME NEW n \in Nodes \ Queued, cycles' <= Window PROVE Counted(n)'
  <2>1. Counted(n)
    BY <1>5 DEF RollInv
  <2>2. \A d : Due(n, d)' = Due(n, d) /\ DueUp(n, d)' = DueUp(n, d)
    BY DEF Due, DueUp, InPool, Of
  <2> QED BY <2>1, <2>2, CountedSame
<1> QED BY <1>2, <1>3, <1>4, <1>5 DEF RollInv

LEMMA RollBegins ==
    ASSUME FilesTyped, RollInv, NEW s \in Lists, BeginCycle(s)
    PROVE  RollInv'
<1>1. /\ phase = "rest" /\ phase' = "public" /\ cycles' = cycles + 1 /\ today' = day /\ day' = day
      /\ checks' = checks /\ daily' = daily /\ crashes' = crashes
  BY DEF BeginCycle, Files
<1>2. today \in Nat /\ day \in Nat /\ cycles \in Nat
  BY FilesFacts
<1>3. ASSUME NEW n \in Nodes PROVE Len(checks'[n]) + Ahead(n)' <= cycles'
  <2>1. Ahead(n)' \in {0, 1} /\ Ahead(n) = 0
    BY <1>1 DEF Ahead
  <2>2. Len(checks[n]) + Ahead(n) <= cycles /\ Len(checks[n]) \in Nat
    BY FilesFacts, SeqLen DEF RollInv
  <2> QED BY <1>1, <1>2, <2>1, <2>2
<1>4. ASSUME NEW n \in Nodes \ Queued PROVE Dated(n)'
  BY <1>1 DEF RollInv, Dated
<1>5. ASSUME NEW n \in Nodes \ Queued, cycles' <= Window PROVE Counted(n)'
  <2>1. cycles <= Window
    BY <1>1, <1>2, <1>5, ProbeAssumption
  <2>2. Counted(n)
    BY <2>1 DEF RollInv
  <2>3. \A d : Due(n, d)' = Due(n, d) /\ DueUp(n, d)' = DueUp(n, d)
    BY <1>1 DEF Due, DueUp
  <2> QED BY <1>1, <2>2, <2>3, CountedSame
<1>6. today' <= day'
  BY <1>1, <1>2
<1> QED BY <1>1, <1>3, <1>4, <1>5, <1>6 DEF RollInv

\* A kill: what was due is not counted any more.
LEMMA RollKilled ==
    ASSUME FilesTyped, RollInv, Crash
    PROVE  RollInv'
<1>1. /\ phase' = "rest" /\ crashes' = crashes + 1
      /\ UNCHANGED <<checks, daily, cycles, today, day>>
  BY DEF Crash, Files
<1>2. today \in Nat /\ day \in Nat /\ cycles \in Nat /\ crashes \in Nat
  BY FilesFacts
<1>3. ASSUME NEW n \in Nodes PROVE Len(checks'[n]) + Ahead(n)' <= cycles'
  <2>1. Ahead(n)' = 0 /\ Ahead(n) \in {0, 1}
    BY <1>1 DEF Ahead
  <2>2. Len(checks[n]) + Ahead(n) <= cycles /\ Len(checks[n]) \in Nat
    BY FilesFacts, SeqLen DEF RollInv
  <2> QED BY <1>1, <1>2, <2>1, <2>2
<1>4. ASSUME NEW n \in Nodes \ Queued PROVE Dated(n)'
  BY <1>1 DEF RollInv, Dated
<1>5. ASSUME NEW n \in Nodes \ Queued, cycles' <= Window PROVE Counted(n)'
  <2>1. Counted(n)
    BY <1>1, <1>5 DEF RollInv
  <2>2. ASSUME NEW d, NEW x \in Int, NEW y \in Int, Tally(n, d, x, y)
        PROVE  Tally(n, d, x, y)'
    <3>1. Due(n, d) \in {0, 1} /\ DueUp(n, d) \in {0, 1} /\ Due(n, d)' = 0 /\ DueUp(n, d)' = 0
      BY <1>1 DEF Due, DueUp
    <3>2. Many(checks[n], d) \in Nat /\ ManyUp(checks[n], d) \in Nat
      BY FilesFacts, Counts
    <3>3. /\ x \in (Many(checks[n], d) - Due(n, d) - crashes)..(Many(checks[n], d) - Due(n, d))
          /\ y \in (ManyUp(checks[n], d) - DueUp(n, d) - crashes)..(ManyUp(checks[n], d) - DueUp(n, d))
      BY <2>2 DEF Tally, Within
    <3>4. /\ x \in (Many(checks[n], d) - 0 - (crashes + 1))..(Many(checks[n], d) - 0)
          /\ y \in (ManyUp(checks[n], d) - 0 - (crashes + 1))..(ManyUp(checks[n], d) - 0)
      <4> DEFINE a == Many(checks[n], d)
                 b == ManyUp(checks[n], d)
                 p == Due(n, d)
                 q == DueUp(n, d)
      <4>1. a \in Nat /\ b \in Nat /\ p \in {0, 1} /\ q \in {0, 1}
            /\ x \in (a - p - crashes)..(a - p) /\ y \in (b - q - crashes)..(b - q)
        BY <3>1, <3>2, <3>3
      <4> HIDE DEF a, b, p, q
      <4>2. x \in (a - 0 - (crashes + 1))..(a - 0) /\ y \in (b - 0 - (crashes + 1))..(b - 0)
        BY <1>2, <4>1
      <4> QED BY <4>2 DEF a, b
    <3> QED BY <1>1, <3>1, <3>4 DEF Tally, Within
  <2>3. \A i \in DOMAIN daily[n] : daily[n][i].total \in Int /\ daily[n][i].up \in Int
    BY DayFields
  <2>4. 0 \in Int
    OBVIOUS
  <2> QED BY <1>1, <2>1, <2>2, <2>3, <2>4 DEF Counted
<1>6. today' <= day'
  BY <1>1 DEF RollInv
<1> QED BY <1>1, <1>3, <1>4, <1>5, <1>6 DEF RollInv
-----------------------------------------------------------------------------
\* The check of a node that the cycle adds.
LEMMA CheckAdded ==
    ASSUME FilesTyped, NEW n \in Nodes, results[Of(n)] \in Result,
           NEW c, c = [d |-> today, up |-> results[Of(n)].up]
    PROVE  /\ c \in Check /\ c.d = today /\ (c.up <=> results[Of(n)].up)
           /\ Append(checks[n], c) \in Seq(Check)
           /\ NewChecks(n) \in Seq(Check) /\ Len(NewChecks(n)) <= Window
           /\ Len(NewChecks(n)) <= Len(checks[n]) + 1
           /\ Len(checks[n]) + 1 <= Window => NewChecks(n) = Append(checks[n], c)
<1>1. c \in Check /\ c.d = today /\ (c.up <=> results[Of(n)].up)
  BY FilesFacts DEF Check, Result
<1>2. checks[n] \in Seq(Check) /\ Len(checks[n]) \in Nat
  BY FilesFacts, SeqLen
<1>3. Append(checks[n], c) \in Seq(Check) /\ Len(Append(checks[n], c)) = Len(checks[n]) + 1
  BY <1>1, <1>2
<1>4. NewChecks(n) = Last(Append(checks[n], c), Window) /\ Window \in Nat \ {0}
  BY ProbeAssumption DEF NewChecks
<1>5. /\ NewChecks(n) \in Seq(Check) /\ Len(NewChecks(n)) <= Window
      /\ Len(Append(checks[n], c)) <= Window => NewChecks(n) = Append(checks[n], c)
      /\ \E k \in Nat : Len(NewChecks(n)) = Len(Append(checks[n], c)) - k
  <2> DEFINE a == Append(checks[n], c)
  <2>1. a \in Seq(Check) /\ NewChecks(n) = Last(a, Window) /\ Window \in Nat \ {0}
    BY <1>3, <1>4
  <2> HIDE DEF a
  <2>2. /\ Last(a, Window) \in Seq(Check) /\ Len(Last(a, Window)) <= Window
        /\ Len(a) <= Window => Last(a, Window) = a
        /\ \E k \in Nat : Len(Last(a, Window)) = Len(a) - k
    BY <2>1, LastOf
  <2> QED BY <2>1, <2>2 DEF a
<1>6. Len(NewChecks(n)) <= Len(checks[n]) + 1
  BY <1>2, <1>3, <1>5
<1> QED BY <1>1, <1>3, <1>5, <1>6

LEMMA HistoryCounted ==
    ASSUME ProbeInv, FilesTyped, RollInv, WriteHistory
    PROVE  RollInv'
<1>1. /\ phase = "history" /\ phase' = "daily"
      /\ checks' = [n \in Nodes |-> IF n \in InPool THEN NewChecks(n) ELSE checks[n]]
      /\ UNCHANGED <<items, results, daily, day, today, cycles, crashes>>
  BY DEF WriteHistory, Pool
<1>2. today \in Nat /\ day \in Nat /\ cycles \in Nat /\ crashes \in Nat /\ Window \in Nat
  BY FilesFacts, ProbeAssumption
<1>3. PoolTyped /\ Busy = {} /\ next = Len(items) + 1 /\ items \in Lists
  BY <1>1 DEF ProbeInv, PoolTyped
<1>4. InPool' = InPool /\ \A n \in InPool : n \notin Queued
  BY <1>1, <1>3, ListedOnce DEF InPool
<1>5. \A n \in InPool : n \in Nodes /\ results[Of(n)] \in Result
  BY <1>3, AllFound
<1>6. \A n \in Nodes : /\ Len(checks[n]) \in Nat /\ Len(checks[n]) + 1 <= cycles
                       /\ Ahead(n)' \in {0, 1} /\ (n \notin Queued => Ahead(n)' = 0)
  BY <1>1, FilesFacts, SeqLen DEF RollInv, Ahead
<1>7. ASSUME NEW n \in Nodes PROVE Len(checks'[n]) + Ahead(n)' <= cycles'
  <2>1. CASE n \in InPool
    <3>1. checks'[n] = NewChecks(n) /\ Ahead(n)' = 0
      BY <1>1, <1>4, <1>6, <2>1
    <3>2. Len(NewChecks(n)) <= Len(checks[n]) + 1 /\ Len(NewChecks(n)) \in Nat
      BY <1>5, <2>1, CheckAdded, SeqLen
    <3> QED BY <3>1, <3>2, <1>1, <1>2, <1>6
  <2>2. CASE n \notin InPool
    <3>1. checks'[n] = checks[n]
      BY <1>1, <2>2
    <3> QED BY <3>1, <1>1, <1>2, <1>6
  <2> QED BY <2>1, <2>2
<1>8. ASSUME NEW n \in Nodes \ Queued PROVE Dated(n)'
  BY <1>1 DEF RollInv, Dated
<1>9. ASSUME NEW n \in Nodes \ Queued, cycles' <= Window PROVE Counted(n)'
  <2>1. Counted(n) /\ Len(checks[n]) + 1 <= Window
    BY <1>1, <1>2, <1>6, <1>9 DEF RollInv
  <2>2. CASE n \notin InPool
    <3>1. checks'[n] = checks[n]
      BY <1>1, <2>2
    <3>2. \A d : Due(n, d)' = Due(n, d) /\ DueUp(n, d)' = DueUp(n, d)
      BY <1>1, <1>4, <2>2 DEF Due, DueUp
    <3> QED BY <1>1, <2>1, <3>1, <3>2, CountedSame
  <2>3. CASE n \in InPool
    <3> DEFINE c == [d |-> today, up |-> results[Of(n)].up]
    <3>1. /\ c \in Check /\ c.d = today /\ (c.up <=> results[Of(n)].up)
          /\ checks'[n] = Append(checks[n], c) /\ checks[n] \in Seq(Check)
      <4>1. NewChecks(n) = Append(checks[n], c)
        BY <1>5, <2>1, <2>3, CheckAdded
      <4>2. c \in Check /\ c.d = today /\ (c.up <=> results[Of(n)].up)
        BY <1>5, <2>3, CheckAdded
      <4> QED BY <1>1, <2>3, <4>1, <4>2, FilesFacts
    <3> HIDE DEF c
    <3>2. ASSUME NEW d
          PROVE  /\ Many(checks'[n], d) - Due(n, d)' = Many(checks[n], d) - Due(n, d)
                 /\ ManyUp(checks'[n], d) - DueUp(n, d)' = ManyUp(checks[n], d) - DueUp(n, d)
      <4>1. /\ Many(checks'[n], d) = Many(checks[n], d) + (IF c.d = d THEN 1 ELSE 0)
            /\ ManyUp(checks'[n], d) = ManyUp(checks[n], d) + (IF c.d = d /\ c.up THEN 1 ELSE 0)
        BY <3>1, CountMore
      <4>2. /\ Due(n, d)' = IF c.d = d THEN 1 ELSE 0
            /\ DueUp(n, d)' = IF c.d = d /\ c.up THEN 1 ELSE 0
            /\ Due(n, d) = 0 /\ DueUp(n, d) = 0
        BY <1>1, <1>4, <2>3, <3>1 DEF Due, DueUp, Of
      <4>3. Many(checks[n], d) \in Nat /\ ManyUp(checks[n], d) \in Nat
        BY <3>1, Counts
      <4> QED BY <4>1, <4>2, <4>3
    <3>3. \A d, total, up : Tally(n, d, total, up) => Tally(n, d, total, up)'
      BY <1>1, <3>2 DEF Tally, Within
    <3> QED BY <1>1, <2>1, <3>3 DEF Counted
  <2> QED BY <2>2, <2>3
<1>10. today' <= day'
  BY <1>1 DEF RollInv
<1> QED BY <1>1, <1>7, <1>8, <1>9, <1>10 DEF RollInv

LEMMA PendingCounted ==
    ASSUME ProbeInv, FilesTyped, RollInv, WritePending
    PROVE  RollInv'
<1>1. /\ phase = "pending" /\ phase' = "rest" /\ Gathered
      /\ checks' = [n \in Nodes |-> IF n \in InPool THEN NewChecks(n) ELSE checks[n]]
      /\ UNCHANGED <<daily, day, today, cycles, crashes>>
  BY DEF WritePending
<1>2. today \in Nat /\ day \in Nat /\ cycles \in Nat
  BY FilesFacts
<1>3. PoolTyped /\ Busy = {} /\ next = Len(items) + 1 /\ items \in Queues
  BY <1>1, IsGathered DEF ProbeInv, PoolTyped
<1>4. InPool \subseteq Queued
  BY <1>3 DEF InPool, Queued
<1>5. \A n \in InPool : n \in Nodes /\ results[Of(n)] \in Result
  BY <1>3, AllFound
<1>6. ASSUME NEW n \in Nodes PROVE Len(checks'[n]) + Ahead(n)' <= cycles'
  <2>1. Len(checks[n]) \in Nat /\ Len(checks[n]) + Ahead(n) <= cycles /\ Ahead(n)' = 0
    BY <1>1, FilesFacts, SeqLen DEF RollInv, Ahead
  <2>2. CASE n \in InPool
    <3>1. checks'[n] = NewChecks(n) /\ Ahead(n) = 1
      BY <1>1, <1>4, <2>2 DEF Ahead
    <3>2. Len(NewChecks(n)) <= Len(checks[n]) + 1 /\ Len(NewChecks(n)) \in Nat
      BY <1>5, <2>2, CheckAdded, SeqLen
    <3> QED BY <3>1, <3>2, <1>1, <1>2, <2>1
  <2>3. CASE n \notin InPool
    <3>1. checks'[n] = checks[n] /\ Ahead(n) \in {0, 1}
      BY <1>1, <2>3 DEF Ahead
    <3> QED BY <3>1, <1>1, <1>2, <2>1
  <2> QED BY <2>2, <2>3
<1>7. ASSUME NEW n \in Nodes \ Queued PROVE Dated(n)'
  BY <1>1 DEF RollInv, Dated
<1>8. ASSUME NEW n \in Nodes \ Queued, cycles' <= Window PROVE Counted(n)'
  <2>1. checks'[n] = checks[n] /\ Counted(n)
    BY <1>1, <1>4, <1>8 DEF RollInv
  <2>2. \A d : Due(n, d)' = Due(n, d) /\ DueUp(n, d)' = DueUp(n, d)
    BY <1>1 DEF Due, DueUp
  <2> QED BY <1>1, <2>1, <2>2, CountedSame
<1>9. today' <= day'
  BY <1>1 DEF RollInv
<1> QED BY <1>1, <1>6, <1>7, <1>8, <1>9 DEF RollInv
-----------------------------------------------------------------------------
\* The record of the day that the cycle writes, and those that stay before it.
Days(n, new, k, m, s) ==
    LET days == daily[n]
        open == Len(days) > 0 /\ days[Len(days)].d = today
    IN  /\ new \in DayRec /\ new.d = today
        /\ new.total = (IF open THEN days[Len(days)].total ELSE 0) + 1
        /\ new.up = (IF open THEN days[Len(days)].up ELSE 0) + (IF results[Of(n)].up THEN 1 ELSE 0)
        /\ m = IF open THEN Len(days) - 1 ELSE Len(days)
        /\ s \in Seq(DayRec) /\ Len(s) <= Retention /\ Len(s) = m + 1 - k /\ k <= m
        /\ s[Len(s)] = new
        /\ \A i \in 1..(m - k) : s[i] = days[i + k]

LEMMA DayWritten ==
    ASSUME FilesTyped, NEW n \in Nodes, results[Of(n)] \in Result
    PROVE  \E new \in DayRec, k \in Nat, m \in Nat : Days(n, new, k, m, NewDays(n))
<1> DEFINE days == daily[n]
           r    == results[Of(n)]
           open == Len(days) > 0 /\ days[Len(days)].d = today
           rec  == IF open THEN days[Len(days)] ELSE [d |-> today, up |-> 0, total |-> 0, close |-> None]
           new  == [rec EXCEPT !.total = @ + 1, !.up = IF r.up THEN @ + 1 ELSE @,
                             !.close = IF r.height # None THEN r.height ELSE @]
           base == IF open THEN SubSeq(days, 1, Len(days) - 1) ELSE days
           m    == IF open THEN Len(days) - 1 ELSE Len(days)
           all  == base \o <<new>>
<1>1. days \in Seq(DayRec) /\ Len(days) \in Nat /\ today \in Nat /\ Retention \in Nat \ {0}
  BY FilesFacts, SeqLen, ProbeAssumption
<1>2. /\ rec \in DayRec /\ rec.d = today
      /\ rec.total = (IF open THEN days[Len(days)].total ELSE 0)
      /\ rec.up = (IF open THEN days[Len(days)].up ELSE 0)
  <2>1. CASE open
    <3>1. Len(days) \in DOMAIN days
      BY <1>1, <2>1
    <3>2. days[Len(days)] \in DayRec
      BY <3>1, <1>1
    <3> QED BY <3>2, <2>1
  <2>2. CASE ~open
    <3>1. rec = [d |-> today, up |-> 0, total |-> 0, close |-> None]
      BY <2>2
    <3>2. rec \in DayRec /\ rec.d = today /\ rec.total = 0 /\ rec.up = 0
      BY <3>1, <1>1 DEF DayRec
    <3> QED BY <3>2, <2>2
  <2> QED BY <2>1, <2>2
<1> HIDE DEF rec
<1>3. /\ new \in DayRec /\ new.d = rec.d /\ new.total = rec.total + 1
      /\ new.up = rec.up + (IF r.up THEN 1 ELSE 0)
  <2>1. r.up \in BOOLEAN /\ r.height \in Heights \cup {None}
    BY DEF Result
  <2>2. rec \in [d: Nat, up: Nat, total: Nat, close: Heights \cup {None}]
    BY <1>2 DEF DayRec
  <2> DEFINE ups == IF r.up THEN rec.up + 1 ELSE rec.up
             cl  == IF r.height # None THEN r.height ELSE rec.close
  <2>3. /\ rec.d \in Nat /\ rec.total + 1 \in Nat /\ ups \in Nat /\ cl \in Heights \cup {None}
        /\ ups = rec.up + (IF r.up THEN 1 ELSE 0)
    BY <2>1, <2>2
  <2>4. new = [rec EXCEPT !.total = rec.total + 1, !.up = ups, !.close = cl]
    BY <2>2
  <2> HIDE DEF new, ups, cl
  <2>5. new = [d |-> rec.d, up |-> ups, total |-> rec.total + 1, close |-> cl]
    BY <2>2, <2>4
  <2> QED BY <2>3, <2>5 DEF DayRec
<1> HIDE DEF new
<1>4. /\ base \in Seq(DayRec) /\ Len(base) = m /\ m \in Nat /\ m <= Len(days)
      /\ \A i \in 1..m : base[i] = days[i]
  <2>1. CASE open
    <3>1. Len(days) - 1 \in Nat /\ \A i \in 1..(Len(days) - 1) : days[i] \in DayRec
      BY <1>1, <2>1
    <3>2. SubSeq(days, 1, Len(days) - 1) \in Seq(DayRec)
      BY <3>1, <1>1
    <3>3. Len(SubSeq(days, 1, Len(days) - 1)) = Len(days) - 1
      BY <3>1, <1>1
    <3>4. \A i \in 1..(Len(days) - 1) : SubSeq(days, 1, Len(days) - 1)[i] = days[i]
      BY <3>1, <1>1
    <3>5. base = SubSeq(days, 1, Len(days) - 1) /\ m = Len(days) - 1
      BY <2>1
    <3> HIDE DEF base, m
    <3> QED BY <3>1, <3>2, <3>3, <3>4, <3>5, <1>1
  <2>2. CASE ~open
    BY <1>1, <2>2
  <2> QED BY <2>1, <2>2
<1>5. NewDays(n) = Last(all, Retention)
  BY DEF NewDays, new, rec
<1> HIDE DEF base, m
<1>6. <<new>> \in Seq(DayRec) /\ Len(<<new>>) = 1 /\ <<new>>[1] = new
  BY <1>3
<1>7. all \in Seq(DayRec)
  BY <1>4, <1>6
<1>8. Len(all) = m + 1
  BY <1>4, <1>6
<1>9. all[m + 1] = new /\ \A i \in 1..m : all[i] = days[i]
  BY <1>4, <1>6
<1> HIDE DEF all
<1>10. PICK k \in Nat : /\ Len(NewDays(n)) = Len(all) - k /\ k < Len(all)
                        /\ \A i \in 1..(Len(all) - k) : NewDays(n)[i] = all[i + k]
  <2>1. Len(all) > 0
    BY <1>4, <1>8
  <2> QED BY <2>1, <1>1, <1>5, <1>7, LastOf
<1>11. NewDays(n) \in Seq(DayRec) /\ Len(NewDays(n)) <= Retention
  BY <1>1, <1>5, <1>7, LastOf
<1>12. /\ Len(NewDays(n)) = m + 1 - k /\ k <= m /\ m + 1 - k \in 1..(Len(all) - k)
       /\ (m + 1 - k) + k = m + 1
  BY <1>4, <1>8, <1>10
<1>13. NewDays(n)[Len(NewDays(n))] = new
  BY <1>9, <1>10, <1>12
<1>14. \A i \in 1..(m - k) : NewDays(n)[i] = days[i + k]
  <2> SUFFICES ASSUME NEW i \in 1..(m - k) PROVE NewDays(n)[i] = days[i + k]
    OBVIOUS
  <2>1. i \in 1..(Len(all) - k) /\ i + k \in 1..m
    BY <1>4, <1>8, <1>10
  <2> QED BY <2>1, <1>9, <1>10
<1>15. /\ new.d = today
       /\ new.total = (IF open THEN days[Len(days)].total ELSE 0) + 1
       /\ new.up = (IF open THEN days[Len(days)].up ELSE 0) + (IF r.up THEN 1 ELSE 0)
  BY <1>2, <1>3
<1>16. m = IF open THEN Len(days) - 1 ELSE Len(days)
  BY DEF m
<1>17. Days(n, new, k, m, NewDays(n))
  BY <1>3, <1>11, <1>12, <1>13, <1>14, <1>15, <1>16 DEF Days
<1>18. m \in Nat /\ k \in Nat /\ new \in DayRec
  BY <1>3, <1>4, <1>10
<1> QED BY <1>17, <1>18
-----------------------------------------------------------------------------
\* The records that stay are older than the one that is written.
LEMMA DaysInOrder ==
    ASSUME FilesTyped, NEW n \in Nodes, Dated(n), phase = "daily",
           NEW new \in DayRec, NEW k \in Nat, NEW m \in Nat, NEW s, Days(n, new, k, m, s)
    PROVE  /\ \A i \in DOMAIN daily[n] : daily[n][i].d \in Nat /\ daily[n][i].d <= today
           /\ m <= Len(daily[n]) /\ \A i \in 1..m : daily[n][i].d < today
           /\ DOMAIN s = 1..(m + 1 - k) /\ s[m + 1 - k] = new /\ new.d = today
           /\ \A i \in DOMAIN s : i # m + 1 - k => i + k \in 1..m /\ s[i] = daily[n][i + k]
           /\ Rising(s)
<1> DEFINE days == daily[n]
           open == Len(days) > 0 /\ days[Len(days)].d = today
<1>1. days \in Seq(DayRec) /\ Len(days) \in Nat /\ DOMAIN days = 1..Len(days) /\ today \in Nat
  BY FilesFacts, SeqLen
<1>2. \A i \in DOMAIN days : days[i].d \in Nat /\ days[i].d <= today
  BY DayFields DEF Dated
<1>3. Rising(days)
  BY DEF Dated
<1>4. /\ new.d = today /\ m = IF open THEN Len(days) - 1 ELSE Len(days)
      /\ s \in Seq(DayRec) /\ Len(s) = m + 1 - k /\ k <= m /\ s[Len(s)] = new
      /\ \A i \in 1..(m - k) : s[i] = days[i + k]
  BY DEF Days
<1>5. m <= Len(days)
  BY <1>1, <1>4
<1>6. ASSUME NEW i \in 1..m PROVE days[i].d < today
  <2>1. i \in DOMAIN days /\ Len(days) \in DOMAIN days
    BY <1>1, <1>5
  <2>2. CASE i < Len(days)
    <3>1. days[i].d < days[Len(days)].d
      BY <2>1, <2>2, <1>3 DEF Rising
    <3> QED BY <3>1, <2>1, <1>1, <1>2
  <2>3. CASE i = Len(days)
    <3>1. ~open /\ Len(days) > 0
      BY <1>1, <1>4, <2>3
    <3>2. days[i].d # today
      BY <3>1, <2>3
    <3> QED BY <3>2, <2>1, <1>1, <1>2
  <2> QED BY <2>1, <2>2, <2>3, <1>1
<1>7. DOMAIN s = 1..(m + 1 - k) /\ s[m + 1 - k] = new
  BY <1>4, SeqLen
<1>8. ASSUME NEW i \in DOMAIN s, i # m + 1 - k
      PROVE  i \in 1..(m - k) /\ i + k \in 1..m /\ s[i] = days[i + k]
  <2>1. i \in 1..(m + 1 - k) /\ k <= m
    BY <1>4, <1>7
  <2>2. i \in Nat /\ i >= 1 /\ i <= m - k
    BY <2>1, <1>8
  <2>3. i \in 1..(m - k) /\ i + k \in 1..m
    BY <2>1, <2>2
  <2> QED BY <2>3, <1>4
<1>9. Rising(s)
  <2> SUFFICES ASSUME NEW i \in DOMAIN s, NEW j \in DOMAIN s, i < j PROVE s[i].d < s[j].d
    BY DEF Rising
  <2>1. i # m + 1 - k /\ i \in Nat /\ j \in Nat
    BY <1>4, <1>7
  <2>2. s[i].d = days[i + k].d /\ i + k \in 1..m
    BY <2>1, <1>8
  <2>3. CASE j = m + 1 - k
    BY <2>2, <2>3, <1>4, <1>6, <1>7
  <2>4. CASE j # m + 1 - k
    <3>1. s[j].d = days[j + k].d /\ j + k \in 1..m
      BY <2>4, <1>8
    <3>2. i + k < j + k /\ i + k \in DOMAIN days /\ j + k \in DOMAIN days
      BY <2>1, <2>2, <3>1, <1>1, <1>5
    <3> QED BY <2>2, <3>1, <3>2, <1>3 DEF Rising
  <2> QED BY <2>3, <2>4
<1> QED BY <1>2, <1>4, <1>5, <1>6, <1>7, <1>8, <1>9

LEMMA DailyCounted ==
    ASSUME ProbeInv, FilesTyped, RollInv, WriteDaily
    PROVE  RollInv'
<1>1. /\ phase = "daily" /\ phase' = "turn"
      /\ daily' = [n \in Nodes |-> IF n \in InPool THEN NewDays(n) ELSE daily[n]]
      /\ UNCHANGED <<items, results, checks, day, today, cycles, crashes>>
  BY DEF WriteDaily, Pool
<1>2. today \in Nat /\ day \in Nat /\ cycles \in Nat /\ crashes \in Nat /\ today <= day
  BY FilesFacts DEF RollInv
<1>3. PoolTyped /\ Busy = {} /\ next = Len(items) + 1 /\ items \in Lists
  BY <1>1 DEF ProbeInv, PoolTyped
<1>4. \A n \in InPool : n \notin Queued /\ n \in Nodes /\ results[Of(n)] \in Result
  BY <1>3, ListedOnce, AllFound DEF InPool
<1>5. ASSUME NEW n \in Nodes PROVE Len(checks'[n]) + Ahead(n)' <= cycles'
  BY <1>1 DEF RollInv, Ahead
<1>6. \A n \in Queued : daily'[n] = <<>>
  BY <1>1, <1>4, QueuedNodes DEF RollInv
<1>7. \A n, d : Due(n, d)' = 0 /\ DueUp(n, d)' = 0
  BY <1>1 DEF Due, DueUp
<1>8. ASSUME NEW n \in Nodes \ Queued, n \notin InPool
      PROVE  Dated(n)' /\ (cycles' <= Window => Counted(n)')
  <2>1. daily'[n] = daily[n] /\ checks'[n] = checks[n]
    BY <1>1, <1>8
  <2>2. Dated(n)'
    BY <1>1, <2>1 DEF RollInv, Dated
  <2>3. \A d : Due(n, d)' = Due(n, d) /\ DueUp(n, d)' = DueUp(n, d)
    BY <1>7, <1>8 DEF Due, DueUp
  <2> QED BY <1>1, <2>1, <2>2, <2>3, CountedSame DEF RollInv
<1>9. ASSUME NEW n \in InPool
      PROVE  Dated(n)' /\ (cycles' <= Window => Counted(n)')
  <2> DEFINE days == daily[n]
  <2>1. n \in Nodes \ Queued /\ Dated(n) /\ results[Of(n)] \in Result
    BY <1>4 DEF RollInv
  <2> PICK s : s = NewDays(n)
    OBVIOUS
  <2>2. PICK new \in DayRec, k \in Nat, m \in Nat : Days(n, new, k, m, s)
    BY <2>1, DayWritten
  <2>3. /\ \A i \in DOMAIN days : days[i].d \in Nat /\ days[i].d <= today
        /\ m <= Len(days) /\ \A i \in 1..m : days[i].d < today
        /\ DOMAIN s = 1..(m + 1 - k) /\ s[m + 1 - k] = new /\ new.d = today
        /\ \A i \in DOMAIN s : i # m + 1 - k => i + k \in 1..m /\ s[i] = days[i + k]
        /\ Rising(s)
    BY <1>1, <2>1, <2>2, DaysInOrder
  <2>4. daily'[n] = s
    BY <1>1, <2>1
  <2>5. DOMAIN days = 1..Len(days) /\ Len(days) \in Nat /\ k <= m
    BY <2>1, <2>2, FilesFacts, SeqLen DEF Days
  <2>6. \A i \in DOMAIN s : s[i].d \in Nat /\ s[i].d <= today
    BY <1>2, <2>3, <2>5
  <2>7. Dated(n)'
    BY SMTT(30), <1>1, <1>2, <2>3, <2>4, <2>6 DEF Dated
  <2>8. ASSUME cycles <= Window PROVE Counted(n)'
    <3> DEFINE open == Len(days) > 0 /\ days[Len(days)].d = today
               T == IF open THEN days[Len(days)].total ELSE 0
               U == IF open THEN days[Len(days)].up ELSE 0
               u == IF results[Of(n)].up THEN 1 ELSE 0
    <3>1. Counted(n)
      BY <2>1, <2>8 DEF RollInv
    <3>2. new.total = T + 1 /\ new.up = U + u /\ m = IF open THEN Len(days) - 1 ELSE Len(days)
      BY <2>2 DEF Days
    <3>3. Tally(n, today, T, U) /\ T \in Nat /\ U \in Nat
      <4>1. CASE open
        <5>1. Len(days) \in DOMAIN days
          BY <2>5, <4>1
        <5>2. Tally(n, days[Len(days)].d, days[Len(days)].total, days[Len(days)].up)
          BY <3>1, <5>1 DEF Counted
        <5>3. days[Len(days)].total \in Nat /\ days[Len(days)].up \in Nat
          BY <2>1, <5>1, DayFields
        <5> QED BY <4>1, <5>2, <5>3
      <4>2. CASE ~open
        <5>1. \A i \in DOMAIN days : days[i].d < today
          BY <2>3, <2>5, <3>2, <4>2
        <5>2. Tally(n, today, 0, 0)
          BY <1>2, <3>1, <5>1 DEF Counted
        <5> QED BY <4>2, <5>2
      <4> QED BY <4>1, <4>2
    <3>4. Due(n, today) = 1 /\ DueUp(n, today) = u
      BY <1>1 DEF Due, DueUp
    <3>5. u \in {0, 1}
      OBVIOUS
    <3> HIDE DEF T, U, u
    <3>6. Tally(n, new.d, new.total, new.up)'
      <4> DEFINE a == Many(checks[n], today)
                 b == ManyUp(checks[n], today)
      <4>1. a \in Nat /\ b \in Nat
        BY <2>1, FilesFacts, Counts
      <4>2. T \in (a - 1 - crashes)..(a - 1) /\ U \in (b - u - crashes)..(b - u)
        BY <3>3, <3>4 DEF Tally, Within
      <4> HIDE DEF a, b
      <4>3. T + 1 \in (a - 0 - crashes)..(a - 0) /\ U + u \in (b - 0 - crashes)..(b - 0)
        BY <1>2, <3>3, <3>5, <4>1, <4>2
      <4> QED BY <1>1, <1>7, <2>3, <3>2, <4>3 DEF Tally, Within, a, b
    <3>7. ASSUME NEW d, d # today, NEW x, NEW y, Tally(n, d, x, y) PROVE Tally(n, d, x, y)'
      <4>1. Due(n, d) = 0 /\ DueUp(n, d) = 0
        BY <3>7 DEF Due, DueUp
      <4> QED BY <1>1, <1>7, <3>7, <4>1 DEF Tally, Within
    <3>8. ASSUME NEW i \in DOMAIN s PROVE Tally(n, s[i].d, s[i].total, s[i].up)'
      <4>1. CASE i = m + 1 - k
        BY <2>3, <3>6, <4>1
      <4>2. CASE i # m + 1 - k
        <5>1. i + k \in 1..m /\ s[i] = days[i + k] /\ i + k \in DOMAIN days
          BY <2>3, <2>5, <4>2
        <5>2. days[i + k].d # today
          BY <1>2, <2>3, <5>1
        <5>3. Tally(n, days[i + k].d, days[i + k].total, days[i + k].up)
          BY <3>1, <5>1 DEF Counted
        <5>4. Tally(n, s[i].d, s[i].total, s[i].up) /\ s[i].d # today
          BY <5>1, <5>2, <5>3
        <5> QED BY <3>7, <5>4
      <4> QED BY <4>1, <4>2
    <3>9. ASSUME NEW d \in Nat, \A i \in DOMAIN s : s[i].d < d
          PROVE  Tally(n, d, 0, 0)'
      <4>1. m + 1 - k \in DOMAIN s
        BY <2>3, <2>5
      <4>2. today < d
        BY <2>3, <3>9, <4>1
      <4>3. \A i \in DOMAIN days : days[i].d < d
        BY <1>2, <2>3, <4>2
      <4>4. Tally(n, d, 0, 0)
        BY <3>1, <4>3 DEF Counted
      <4> QED BY <1>2, <3>7, <4>2, <4>4
    <3> QED BY <2>4, <3>8, <3>9 DEF Counted
  <2> QED BY <1>1, <2>7, <2>8
<1>10. today' <= day'
  BY <1>1, <1>2
<1> QED BY <1>5, <1>6, <1>8, <1>9, <1>10 DEF RollInv
-----------------------------------------------------------------------------
LEMMA NewCardTyped ==
    ASSUME NEW c \in Card, NEW r \in Result
    PROVE  NewCard(c, r) \in Card
BY DEF NewCard, Card, Result

\* The lists of a cycle leave the files in their types.
LEMMA CardsWritten ==
    ASSUME ProbeInv, FilesTyped, Gathered,
           cards' = [n \in Nodes |-> IF n \in InPool THEN NewCard(cards[n], results[Of(n)]) ELSE cards[n]]
    PROVE  cards' \in [Nodes -> Card]
<1>1. \A n \in InPool : n \in Nodes /\ results[Of(n)] \in Result
  BY IsGathered, AllFound
<1>2. \A n \in Nodes : cards[n] \in Card
  BY DEF FilesTyped
<1>3. \A n \in Nodes : (IF n \in InPool THEN NewCard(cards[n], results[Of(n)]) ELSE cards[n]) \in Card
  BY <1>1, <1>2, NewCardTyped
<1> QED BY <1>3

LEMMA ChecksWritten ==
    ASSUME ProbeInv, FilesTyped, Busy = {}, next = Len(items) + 1,
           checks' = [n \in Nodes |-> IF n \in InPool THEN NewChecks(n) ELSE checks[n]]
    PROVE  checks' \in [Nodes -> Seq(Check)] /\ \A n \in Nodes : Len(checks'[n]) <= Window
<1>1. \A n \in InPool : n \in Nodes /\ results[Of(n)] \in Result
  BY AllFound
<1>2. \A n \in InPool : NewChecks(n) \in Seq(Check) /\ Len(NewChecks(n)) <= Window
  BY <1>1, CheckAdded
<1>3. \A n \in Nodes : checks[n] \in Seq(Check) /\ Len(checks[n]) <= Window
  BY DEF FilesTyped
<1>4. \A n \in Nodes : /\ (IF n \in InPool THEN NewChecks(n) ELSE checks[n]) \in Seq(Check)
                       /\ Len(IF n \in InPool THEN NewChecks(n) ELSE checks[n]) <= Window
  BY <1>2, <1>3
<1> QED BY <1>4

LEMMA DaysTyped ==
    ASSUME ProbeInv, FilesTyped, Busy = {}, next = Len(items) + 1,
           daily' = [n \in Nodes |-> IF n \in InPool THEN NewDays(n) ELSE daily[n]]
    PROVE  daily' \in [Nodes -> Seq(DayRec)] /\ \A n \in Nodes : Len(daily'[n]) <= Retention
<1>1. \A n \in InPool : n \in Nodes /\ results[Of(n)] \in Result
  BY AllFound
<1>2. \A n \in InPool : NewDays(n) \in Seq(DayRec) /\ Len(NewDays(n)) <= Retention
  BY <1>1, DayWritten DEF Days
<1>3. \A n \in Nodes : daily[n] \in Seq(DayRec) /\ Len(daily[n]) <= Retention
  BY DEF FilesTyped
<1>4. \A n \in Nodes : /\ (IF n \in InPool THEN NewDays(n) ELSE daily[n]) \in Seq(DayRec)
                       /\ Len(IF n \in InPool THEN NewDays(n) ELSE daily[n]) <= Retention
  BY <1>2, <1>3
<1> QED BY <1>4

LEMMA RollStarts == ProbeInit => FilesTyped /\ RollInv
<1> SUFFICES ASSUME ProbeInit PROVE FilesTyped /\ RollInv
  OBVIOUS
<1>1. /\ phase = "rest" /\ today = 0 /\ day = 0 /\ cycles = 0 /\ crashes = 0
      /\ cards = [n \in Nodes |-> [status |-> None, height |-> None, version |-> None, indexer |-> None]]
      /\ checks = [n \in Nodes |-> <<>>] /\ daily = [n \in Nodes |-> <<>>]
  BY DEF ProbeInit
<1>2. MaxDays \in Nat /\ MaxCycles \in Nat /\ MaxCrashes \in Nat /\ Window \in Nat /\ Retention \in Nat
  BY ProbeAssumption
<1>3. \A n \in Nodes : checks[n] = <<>> /\ daily[n] = <<>>
  BY <1>1
<1>4. cards \in [Nodes -> Card]
  BY <1>1 DEF Card
<1>5. checks \in [Nodes -> Seq(Check)] /\ daily \in [Nodes -> Seq(DayRec)]
  BY <1>1
<1>6. FilesTyped
  BY <1>1, <1>2, <1>3, <1>4, <1>5, EmptyPool DEF FilesTyped
<1>7. \A n : Due(n, 0)= 0 /\ \A d : Due(n, d) = 0 /\ DueUp(n, d) = 0
  BY <1>1 DEF Due, DueUp
<1>8. \A n \in Nodes, d \in Nat : Many(checks[n], d) = 0 /\ ManyUp(checks[n], d) = 0
  <2> SUFFICES ASSUME NEW n \in Nodes, NEW d \in Nat
               PROVE  Many(checks[n], d) = 0 /\ ManyUp(checks[n], d) = 0
    OBVIOUS
  <2>1. /\ {j \in DOMAIN checks[n] : checks[n][j].d = d} = {}
        /\ {j \in DOMAIN checks[n] : checks[n][j].d = d /\ checks[n][j].up} = {}
    BY <1>3, EmptyPool
  <2> QED BY <2>1, FS_EmptySet DEF Many, ManyUp
<1>9. ASSUME NEW n \in Nodes PROVE Dated(n) /\ Counted(n)
  <2>1. DOMAIN daily[n] = {}
    BY <1>3, EmptyPool
  <2>2. \A d \in Nat : Tally(n, d, 0, 0)
    BY <1>1, <1>7, <1>8 DEF Tally, Within
  <2> QED BY <2>1, <2>2 DEF Dated, Counted, Rising
<1>10. \A n \in Nodes : Len(checks[n]) + Ahead(n) <= cycles
  BY <1>1, <1>3, EmptyPool DEF Ahead
<1> QED BY <1>1, <1>3, <1>6, <1>9, <1>10, QueuedNodes DEF RollInv

LEMMA FilesStep == ProbeInv /\ FilesTyped /\ [ProbeNext]_probe => FilesTyped'
<1> SUFFICES ASSUME ProbeInv, FilesTyped, [ProbeNext]_probe PROVE FilesTyped'
  OBVIOUS
<1>1. MaxDays \in Nat \ {0} /\ MaxCycles \in Nat /\ MaxCrashes \in Nat
  BY ProbeAssumption
<1>2. CASE UNCHANGED Aside
  BY <1>2 DEF Aside, Files, FilesTyped
<1>3. CASE \E list \in Lists : BeginCycle(list)
  BY <1>1, <1>3 DEF BeginCycle, Files, FilesTyped
<1>4. CASE Crash
  BY <1>1, <1>4 DEF Crash, Files, FilesTyped
<1>5. CASE Midnight
  BY <1>1, <1>5 DEF Midnight, Files, FilesTyped
<1>6. CASE WriteList
  BY <1>6, CardsWritten DEF WriteList, FilesTyped
<1>7. CASE WriteHistory \/ WriteDaily
  <2>1. Busy = {} /\ next = Len(items) + 1
    BY <1>7 DEF WriteHistory, WriteDaily, ProbeInv, PoolTyped
  <2>2. CASE WriteHistory
    BY <2>1, <2>2, ChecksWritten DEF WriteHistory, FilesTyped
  <2>3. CASE WriteDaily
    BY <2>1, <2>3, DaysTyped DEF WriteDaily, FilesTyped
  <2> QED BY <1>7, <2>2, <2>3
<1>8. CASE WritePending
  <2>1. Gathered /\ Busy = {} /\ next = Len(items) + 1
    BY <1>8, IsGathered DEF WritePending
  <2> QED BY <1>8, <2>1, CardsWritten, ChecksWritten DEF WritePending, FilesTyped
<1>9. CASE \E w \in Workers :
             \/ Take(w) \/ Greeted(w) \/ Connected(w) \/ Cut(w)
             \/ Timeout(w) \/ Flooded(w) \/ Closed(w)
             \/ \E h \in Heard : Data(w, h)
  BY <1>2, <1>9, WorkerFrame
<1>10. CASE Fault \/ Leave \/ (\E queue \in Queues : TurnToPending(queue)) \/ UNCHANGED probe
  BY <1>2, <1>10 DEF Fault, Leave, TurnToPending, probe, Aside, Files
<1> QED BY <1>3, <1>4, <1>5, <1>6, <1>7, <1>8, <1>9, <1>10 DEF ProbeNext, Recording

\* The phases a worker works in.
LEMMA WorkerPhase ==
    ASSUME ProbeInv, NEW w \in Workers,
           \/ Take(w) \/ Greeted(w) \/ Connected(w) \/ Cut(w)
           \/ Timeout(w) \/ Flooded(w) \/ Closed(w)
           \/ \E h \in Heard : Data(w, h)
    PROVE  phase \in {"public", "pending", "leaving"} /\ phase' \in {phase, "rest", "leaving"}
<1>1. phase \in {"public", "pending", "leaving"}
  BY DEF Take, Greeted, Connected, Cut, Timeout, Flooded, Closed, Data, Probing
<1> SUFFICES phase' \in {phase, "rest", "leaving"}
  BY <1>1
<1>2. CASE Take(w) \/ Greeted(w)
  BY <1>2 DEF Take, Greeted
<1>3. CASE ~Take(w) /\ ~Greeted(w)
  <2>1. work[w] # Idle
    <3>1. Cut(w) \/ Timeout(w) => work[w] # Idle
      BY DEF Cut, Timeout
    <3>2. Connected(w) \/ Flooded(w) \/ Closed(w) \/ (\E h \in Heard : Data(w, h))
            => work[w].at \in {"reply", "read"}
      BY DEF Connected, Flooded, Closed, Data
    <3>3. Idle.at = "idle"
      BY DEF Idle
    <3> QED BY <1>3, <3>1, <3>2, <3>3
  <2>2. w \in Busy /\ work[w].step \in Steps
    BY <2>1, WorkerTask, TaskFields DEF Busy
  <2>3. \A r : Finish(w, r) => phase' = phase
    BY DEF Finish
  <2>4. \A s, h, v : Request(w, s, h, v) => phase' = phase
    BY DEF Request
  <2>5. ASSUME Lost(w) PROVE phase' = phase
    <3>1. \E r : Finish(w, r)
      BY <2>2, <2>5 DEF Lost, Steps
    <3> QED BY <3>1, <2>3
  <2>6. CASE Connected(w)
    BY <2>3, <2>6 DEF Connected
  <2>7. CASE Cut(w) \/ Timeout(w) \/ Flooded(w)
    BY <2>3, <2>5, <2>7 DEF Cut, Timeout, Flooded
  <2>8. CASE \E h \in Heard : Data(w, h)
    BY <2>3, <2>8 DEF Data
  <2>9. CASE Closed(w)
    <3>1. \A ok, v, tip, x : /\ AnswerLogin(w, ok, v) => phase' = phase
                             /\ AnswerWallet(w, ok, v, tip) => phase' = phase
                             /\ AnswerServices(w, ok, v, x) => phase' = phase
      BY <2>3, <2>4 DEF AnswerLogin, AnswerWallet, AnswerServices
    <3>2. work[w].step \in {"login", "wallet", "services"}
      BY <2>2, <2>9 DEF Closed, Steps
    <3>3. \E ok, v, tip, x : AnswerLogin(w, ok, v) \/ AnswerWallet(w, ok, v, tip) \/ AnswerServices(w, ok, v, x)
      BY <2>9, <3>2 DEF Closed
    <3> QED BY <3>1, <3>3
  <2> QED BY <1>3, <2>6, <2>7, <2>8, <2>9
<1> QED BY <1>2, <1>3

LEMMA RollStep == ProbeInv /\ FilesTyped /\ RollInv /\ [ProbeNext]_probe => RollInv'
<1> SUFFICES ASSUME ProbeInv, FilesTyped, RollInv, [ProbeNext]_probe PROVE RollInv'
  OBVIOUS
<1>1. today \in Nat /\ day \in Nat
  BY FilesFacts
<1>2. CASE \E list \in Lists : BeginCycle(list)
  BY <1>2, RollBegins
<1>3. CASE Crash
  BY <1>3, RollKilled
<1>4. CASE WriteHistory \/ WriteDaily \/ WritePending
  BY <1>4, HistoryCounted, DailyCounted, PendingCounted
<1>5. CASE \E w \in Workers :
             \/ Take(w) \/ Greeted(w) \/ Connected(w) \/ Cut(w)
             \/ Timeout(w) \/ Flooded(w) \/ Closed(w)
             \/ \E h \in Heard : Data(w, h)
  <2>1. /\ UNCHANGED Aside /\ phase \in {"public", "pending", "leaving"}
        /\ phase' \in {phase, "rest", "leaving"}
    BY <1>5, WorkerFrame, WorkerPhase
  <2> QED BY <1>1, <2>1, RollQuiet DEF Aside, Files
<1>6. CASE Fault \/ Leave \/ WriteList \/ \E queue \in Queues : TurnToPending(queue)
  BY <1>1, <1>6, RollQuiet DEF Fault, Leave, WriteList, TurnToPending, Files
<1>7. CASE Midnight \/ UNCHANGED probe
  BY <1>1, <1>7, RollQuiet DEF Midnight, probe, Files, Pool
<1> QED BY <1>2, <1>3, <1>4, <1>5, <1>6, <1>7 DEF ProbeNext, Recording

ProbeKept == ProbeInv /\ FilesTyped /\ RollInv

LEMMA ProbeKeptHolds == ProbeSpec => []ProbeKept
<1>1. ProbeInit => ProbeKept
  BY ProbeStarts, RollStarts DEF ProbeKept
<1>2. ProbeKept /\ [ProbeNext]_probe => ProbeKept'
  BY ProbeStep, FilesStep, RollStep DEF ProbeKept
<1> QED BY <1>1, <1>2, PTL DEF ProbeSpec

(***************************************************************************)
(* Every variable of a cycle is of its type.                               *)
(***************************************************************************)
THEOREM ProbeTypes == ProbeSpec => []ProbeTypeOK
<1>1. ProbeKept => ProbeTypeOK
  <2> SUFFICES ASSUME ProbeKept PROVE ProbeTypeOK
    OBVIOUS
  <2>1. PoolTyped /\ FilesTyped
    BY DEF ProbeKept, ProbeInv
  <2>2. next \in Nat \ {0}
    BY <2>1, ItemsOnce DEF PoolTyped
  <2>3. items \in {<<>>} \cup Lists \cup Queues
    BY <2>1 DEF PoolTyped
  <2>4. \A i \in DOMAIN results : results[i] \in Result \cup {None}
    BY <2>1 DEF PoolTyped
  <2>5. \A n \in Nodes : /\ checks[n] \in Seq(Check) /\ Len(checks[n]) <= Window
                         /\ daily[n] \in Seq(DayRec) /\ Len(daily[n]) <= Retention
    BY <2>1 DEF FilesTyped
  <2> QED BY <2>1, <2>2, <2>3, <2>4, <2>5 DEF ProbeTypeOK, PoolTyped, FilesTyped
<1> QED BY <1>1, ProbeKeptHolds, PTL

(***************************************************************************)
(* The rollup counts the cycles that the rolling checks count, whatever    *)
(* was killed between the two writes.                                      *)
(***************************************************************************)
THEOREM RollupCountsTheChecks == ProbeSpec => []RollupAgrees
<1>1. ProbeKept => RollupAgrees
  <2> SUFFICES ASSUME ProbeKept, NEW n \in Nodes, cycles <= Window, NEW i \in DOMAIN daily[n]
               PROVE  LET rec  == daily[n][i]
                          seen == {j \in DOMAIN checks[n] : checks[n][j].d = rec.d}
                          ups  == {j \in seen : checks[n][j].up}
                          open == crashes + (IF phase = "daily" THEN 1 ELSE 0)
                      IN  /\ rec.total \in (Cardinality(seen) - open)..Cardinality(seen)
                          /\ rec.up \in (Cardinality(ups) - open)..Cardinality(ups)
    BY DEF RollupAgrees
  <2>1. FilesTyped /\ RollInv
    BY DEF ProbeKept
  <2>2. n \notin Queued
    BY <2>1, EmptyPool DEF RollInv
  <2>3. Tally(n, daily[n][i].d, daily[n][i].total, daily[n][i].up)
    BY <2>1, <2>2 DEF RollInv, Counted
  <2> DEFINE d    == daily[n][i].d
             t    == daily[n][i].total
             u    == daily[n][i].up
             seen == {j \in DOMAIN checks[n] : checks[n][j].d = d}
             ups  == {j \in seen : checks[n][j].up}
             p    == IF phase = "daily" THEN 1 ELSE 0
  <2>4. t \in Nat /\ u \in Nat /\ crashes \in Nat /\ p \in {0, 1}
    BY <2>1, DayFields, FilesFacts
  <2>5. Many(checks[n], d) = Cardinality(seen) /\ ManyUp(checks[n], d) = Cardinality(ups)
    <3>1. ups = {j \in DOMAIN checks[n] : checks[n][j].d = d /\ checks[n][j].up}
      OBVIOUS
    <3> QED BY <3>1 DEF Many, ManyUp
  <2>6. Cardinality(seen) \in Nat /\ Cardinality(ups) \in Nat
    BY <2>1, <2>5, FilesFacts, Counts
  <2>7. Due(n, d) \in {0, 1} /\ DueUp(n, d) \in {0, 1} /\ Due(n, d) <= p /\ DueUp(n, d) <= p
    BY DEF Due, DueUp
  <2>8. /\ t \in (Cardinality(seen) - Due(n, d) - crashes)..(Cardinality(seen) - Due(n, d))
        /\ u \in (Cardinality(ups) - DueUp(n, d) - crashes)..(Cardinality(ups) - DueUp(n, d))
    BY <2>3, <2>5 DEF Tally, Within
  <2> HIDE DEF d, t, u, seen, ups, p
  <2>9. /\ t \in (Cardinality(seen) - (crashes + p))..Cardinality(seen)
        /\ u \in (Cardinality(ups) - (crashes + p))..Cardinality(ups)
    BY <2>4, <2>6, <2>7, <2>8
  <2> QED BY <2>9 DEF d, t, u, seen, ups, p
<1> QED BY <1>1, ProbeKeptHolds, PTL
=============================================================================
