----------------------------- MODULE Moderation -----------------------------
(***************************************************************************)
(* Listings: the submissions of server/store.ts and the handlers of        *)
(* server/index.ts that create, moderate, edit and delete them, with the   *)
(* records a bootstrap import adds (scripts/bootstrap-import.mjs).         *)
(*                                                                         *)
(* The store hands out its records by reference. A handler that awaits     *)
(* something slow (a probe or a PayNym lookup over Tor, the seed file)     *)
(* keeps the object it was given, changes it afterwards and puts it back   *)
(* under its id, whatever that id holds by then. So the model has a heap   *)
(* of record objects, the store's map from ids to objects, and one job for *)
(* each handler that is waiting.                                           *)
(*                                                                         *)
(* One network; a record submitted under a slug gets that slug for its id, *)
(* and an operator stands for the payment codes of one PayNym.             *)
(***************************************************************************)
EXTENDS Naturals, FiniteSets

CONSTANTS
    Operators,  \* PayNyms that own records
    Names,      \* slugs
    Ids,        \* the slugs records are submitted under, which become ids
    Objects,    \* addresses of record objects
    Jobs,       \* bound: handlers waiting at once
    NoRec,      \* no record under an id
    Free        \* an object nobody refers to, a handler that is not running

ASSUME IdsAssumption == Ids \subseteq Names

VARIABLES
    slot,       \* store.submissions: the object stored under each id
    heap,       \* what each object holds
    job,        \* the handlers that are waiting, and what they keep
    vouched,    \* history: <<id, operator>> pairs an admin approved last
    overlapped  \* history: two operations on one id or name ran at once

vars == <<slot, heap, job, vouched, overlapped>>

\* `imported` is history: the record, or one it replaced, came from an import.
Record == [id: Ids, owner: Operators, name: Names,
           status: {"pending", "approved", "rejected"}, imported: BOOLEAN]

Waiting ==
    [kind: {"probing"}, who: Operators, name: Ids, ids: SUBSET Ids]
    \cup [kind: {"resolving"}, who: Operators, name: Ids, ids: SUBSET Ids,
          id: Ids]
    \cup [kind: {"approving", "pairing"}, obj: Objects]
    \cup [kind: {"editing"}, obj: Objects, name: Names]
    \cup [kind: {"importing"}, id: Ids, name: Names, who: Operators]

Job == Waiting \cup {Free}

\* There is always room for one more object.
ASSUME ObjectsAssumption ==
    /\ NoRec \notin Objects /\ Free \notin Record \cup Waiting
    /\ IsFiniteSet(Ids) /\ IsFiniteSet(Jobs)
    /\ IsFiniteSet(Objects) =>
         Cardinality(Ids) + Cardinality(Jobs) <= Cardinality(Objects)

Stored(i) == slot[i] # NoRec
At(i) == heap[slot[i]]

\* The records a slug matches: by their name or by their id.
Matching(n) == {i \in Ids : Stored(i) /\ (At(i).name = n \/ i = n)}

Owned(n, who) == {i \in Matching(n) : At(i).owner = who}

\* nameConflict, over every record whatever its status.
NameConflict(n, who) == Matching(n) \ Owned(n, who) # {}

\* Bug: only the display names are compared, and an id can be taken.
TakenByNameOnly(n, id) ==
    {i \in Ids : Stored(i) /\ At(i).name = n} \ {id} # {}

\* slugTakenByOther.
TakenByOther(n, id) == Matching(n) \ {id} # {}

Held == {job[j].obj : j \in {k \in Jobs : job[k] # Free
                             /\ job[k].kind \in {"approving", "pairing", "editing"}}}
Referenced == Held \cup {slot[i] : i \in {k \in Ids : Stored(k)}}

\* The ids and names a waiting handler has looked at and is going to write.
Touches(b) ==
    CASE b.kind \in {"probing", "resolving"} -> {b.name} \cup b.ids
      [] b.kind = "editing"   -> {heap[b.obj].id, b.name}
      [] b.kind = "importing" -> {b.id, b.name}
      [] OTHER                -> {heap[b.obj].id}

\* An operation on the ids and names of T begins (or is over at once).
Begin(T) ==
    overlapped' = (overlapped \/ \E j \in Jobs : job[j] # Free
                                               /\ Touches(job[j]) \cap T # {})

\* An object that is no longer referred to is collected.
Collect(h, kept) == [o \in Objects |-> IF o \in kept THEN h[o] ELSE Free]

KeptBy(s, b) ==
    {s[i] : i \in {k \in Ids : s[k] # NoRec}} \cup
    {b[j].obj : j \in {k \in Jobs : b[k] # Free
                       /\ b[k].kind \in {"approving", "pairing", "editing"}}}

\* putSubmission of an object with content r, by a handler that then ends.
Put(o, r, j) ==
    /\ slot' = [slot EXCEPT ![r.id] = o]
    /\ job' = [job EXCEPT ![j] = Free]
    /\ heap' = Collect([heap EXCEPT ![o] = r], KeptBy(slot', job'))

Fresh == CHOOSE o \in Objects : o \notin Referenced

Start(j, b) == job[j] = Free /\ job' = [job EXCEPT ![j] = b]

-----------------------------------------------------------------------------

Init ==
    /\ slot = [i \in Ids |-> NoRec]
    /\ heap = [o \in Objects |-> Free]
    /\ job = [j \in Jobs |-> Free]
    /\ vouched = {}
    /\ overlapped = FALSE

(***************************************************************************)
(* POST /api/dojo: the name is checked, the node is probed, the operator's *)
(* own record of that name is looked up, the PayNym is resolved, and a new *)
(* object is stored.                                                       *)
(***************************************************************************)

\* Bug: the pre-flight name check of the form is taken for the authority.
SubmitUnchecked(j, who, n) ==
    /\ Start(j, [kind |-> "probing", who |-> who, name |-> n,
                 ids |-> Matching(n)])
    /\ Begin({n} \cup Matching(n))
    /\ UNCHANGED <<slot, heap, vouched>>

Submit(j, who, n) ==
    /\ ~NameConflict(n, who)
    /\ Start(j, [kind |-> "probing", who |-> who, name |-> n,
                 ids |-> Matching(n)])
    /\ Begin({n} \cup Matching(n))
    /\ UNCHANGED <<slot, heap, vouched>>

\* The node answered. Its own record is updated in place; a record that is
\* not there yet gets the slug for its id.
Probed(j) ==
    /\ job[j] # Free /\ job[j].kind = "probing"
    /\ LET b == job[j]
           mine == Owned(b.name, b.who)
       IN  \E id \in IF mine = {} THEN {b.name} ELSE mine :
             job' = [job EXCEPT ![j] = [kind |-> "resolving", who |-> b.who,
                                        name |-> b.name, ids |-> b.ids,
                                        id |-> id]]
    /\ UNCHANGED <<slot, heap, vouched, overlapped>>

\* Bug: the new object is stored without a moderation state.
SubmittedBare(j) ==
    /\ job[j] # Free /\ job[j].kind = "resolving"
    /\ Put(Fresh, [id |-> job[j].id, owner |-> job[j].who, name |-> job[j].name,
                   imported |-> FALSE], j)
    /\ UNCHANGED <<vouched, overlapped>>

Submitted(j) ==
    /\ job[j] # Free /\ job[j].kind = "resolving"
    /\ Put(Fresh, [id |-> job[j].id, owner |-> job[j].who, name |-> job[j].name,
                   status |-> "pending",
                   imported |-> Stored(job[j].id) /\ At(job[j].id).imported], j)
    /\ UNCHANGED <<vouched, overlapped>>

(***************************************************************************)
(* POST /api/admin/approve and /reject. The object is changed at once;     *)
(* approving a record without a PayNym looks one up before putting it.     *)
(***************************************************************************)
SetStatus(i, s) == heap' = [heap EXCEPT ![slot[i]].status = s]

Approve(i) ==
    /\ Stored(i)
    /\ SetStatus(i, "approved")
    /\ vouched' = vouched \cup {<<i, At(i).owner>>}
    /\ Begin({i})

ApproveAtOnce(i) == Approve(i) /\ UNCHANGED <<slot, job>>

ApproveSlowly(j, i) ==
    /\ Approve(i)
    /\ Start(j, [kind |-> "approving", obj |-> slot[i]])
    /\ UNCHANGED slot

Reject(i) ==
    /\ Stored(i)
    /\ SetStatus(i, "rejected")
    /\ vouched' = vouched \ {<<i, At(i).owner>>}
    /\ Begin({i})
    /\ UNCHANGED <<slot, job>>

(***************************************************************************)
(* POST /api/dojo/edit and /api/admin/edit wait for the seed file between  *)
(* the scan of the store and the change; POST /api/dojo/pairing waits for  *)
(* the probe of the new endpoint.                                          *)
(***************************************************************************)
Edit(j, i, n) ==
    /\ Stored(i) /\ ~TakenByOther(n, i)
    /\ Start(j, [kind |-> "editing", obj |-> slot[i], name |-> n])
    /\ Begin({i, n})
    /\ UNCHANGED <<slot, heap, vouched>>

Edited(j) ==
    /\ job[j] # Free /\ job[j].kind = "editing"
    /\ LET o == job[j].obj IN Put(o, [heap[o] EXCEPT !.name = job[j].name], j)
    /\ UNCHANGED <<vouched, overlapped>>

Pairing(j, i) ==
    /\ Stored(i)
    /\ Start(j, [kind |-> "pairing", obj |-> slot[i]])
    /\ Begin({i})
    /\ UNCHANGED <<slot, heap, vouched>>

\* The slow part of approve or pairing is over: the object is put back.
PutBack(j) ==
    /\ job[j] # Free /\ job[j].kind \in {"approving", "pairing"}
    /\ LET o == job[j].obj IN Put(o, heap[o], j)
    /\ UNCHANGED <<vouched, overlapped>>

\* A gate refuses (the node does not answer, its version is too old): nothing
\* is stored.
Refuse(j) ==
    /\ job[j] # Free /\ job[j].kind \in {"probing", "pairing", "importing"}
    /\ job' = [job EXCEPT ![j] = Free]
    /\ heap' = Collect(heap, KeptBy(slot, job'))
    /\ UNCHANGED <<slot, vouched, overlapped>>

(***************************************************************************)
(* POST /api/dojo/delete, /api/admin/remove, and the sweep that prunes     *)
(* rejected records whose time is over: in the store all three delete.     *)
(***************************************************************************)
Delete(i) ==
    /\ Stored(i)
    /\ slot' = [slot EXCEPT ![i] = NoRec]
    /\ heap' = Collect(heap, KeptBy(slot', job))
    /\ vouched' = {v \in vouched : v[1] # i}
    /\ Begin({i})
    /\ UNCHANGED job

(***************************************************************************)
(* POST /api/admin/import plans against the ids stored now, looks up the   *)
(* codes of each PayNym, and stores the planned records unconditionally.   *)
(***************************************************************************)
Import(j, i, n, who) ==
    /\ ~Stored(i)
    /\ Start(j, [kind |-> "importing", id |-> i, name |-> n, who |-> who])
    /\ Begin({i, n})
    /\ UNCHANGED <<slot, heap, vouched>>

\* Bug: the import of a fresh installation, whose records arrive approved.
ImportedApproved(j) ==
    /\ job[j] # Free /\ job[j].kind = "importing"
    /\ Put(Fresh, [id |-> job[j].id, owner |-> job[j].who, name |-> job[j].name,
                   status |-> "approved", imported |-> TRUE], j)
    /\ UNCHANGED <<vouched, overlapped>>

Imported(j) ==
    /\ job[j] # Free /\ job[j].kind = "importing"
    /\ Put(Fresh, [id |-> job[j].id, owner |-> job[j].who, name |-> job[j].name,
                   status |-> "pending", imported |-> TRUE], j)
    /\ UNCHANGED <<vouched, overlapped>>

\* The backend is killed: the handlers are gone, the store is read again.
Restart ==
    /\ \E j \in Jobs : job[j] # Free
    /\ job' = [j \in Jobs |-> Free]
    /\ heap' = Collect(heap, KeptBy(slot, job'))
    /\ UNCHANGED <<slot, vouched, overlapped>>

Next ==
    \/ \E j \in Jobs :
         \/ Probed(j) \/ Submitted(j) \/ Edited(j) \/ PutBack(j) \/ Imported(j)
         \/ Refuse(j)
         \/ \E i \in Ids :
              \/ ApproveSlowly(j, i) \/ Pairing(j, i)
              \/ \E n \in Names : Edit(j, i, n)
              \/ \E who \in Operators :
                   Submit(j, who, i) \/ \E n \in Names : Import(j, i, n, who)
    \/ \E i \in Ids : ApproveAtOnce(i) \/ Reject(i) \/ Delete(i)
    \/ Restart

Spec == Init /\ [][Next]_vars

-----------------------------------------------------------------------------

(***************************************************************************)
(* TypeOK: the shapes of the records, the store and the waiting handlers;  *)
(* a record is stored under its own id.                                    *)
(***************************************************************************)
TypeOK ==
    /\ slot \in [Ids -> Objects \cup {NoRec}]
    /\ heap \in [Objects -> Record \cup {Free}]
    /\ \A i \in Ids : Stored(i) => At(i) # Free /\ At(i).id = i
    /\ job \in [Jobs -> Job]
    /\ vouched \subseteq Ids \X Operators
    /\ overlapped \in BOOLEAN

(***************************************************************************)
(* A slug finds at most one of the records submitted here: two of them     *)
(* never share a name, nor does one bear the other's id for its name. The  *)
(* checks before a submission and a rename must add up to this across      *)
(* renames, deletions and resubmissions, as long as no two operations on   *)
(* one name overlap. (An import compares ids and endpoints, not names.)    *)
(***************************************************************************)
NamesUnique ==
    ~overlapped =>
        \A n \in Names :
            Cardinality({i \in Matching(n) : ~At(i).imported}) <= 1

(***************************************************************************)
(* A listing is public only if the last word an admin said about this      *)
(* operator's record was an approval: resubmitting, importing, editing,    *)
(* deleting and submitting again never bring one back.                     *)
(***************************************************************************)
LastWordCounts ==
    ~overlapped =>
        \A i \in Ids :
            Stored(i) /\ At(i).status = "approved" => <<i, At(i).owner>> \in vouched

(***************************************************************************)
(* The comment above nameConflict: the check covers every status, "so a    *)
(* rejected or pending record cannot be hijacked either". A submission     *)
(* never takes over the record of another operator.                        *)
(***************************************************************************)
NoneHijacked ==
    [][\A j \in Jobs, i \in Ids :
         Submitted(j) /\ Stored(i) => heap'[slot'[i]].owner = At(i).owner]_vars

(***************************************************************************)
(* Handlers that wait at the same time interfere only through an id or a   *)
(* name both work on: otherwise no record changes its operator, and what   *)
(* is stored in a new place is a new object, never an older version of the *)
(* record or a deleted one come back.                                      *)
(***************************************************************************)
IsolatedWrites ==
    [][~overlapped' =>
         \A i \in Ids :
            slot'[i] # slot[i] /\ slot'[i] # NoRec
            => /\ slot'[i] \notin Referenced
               /\ Stored(i) => heap'[slot'[i]].owner = At(i).owner]_vars
=============================================================================
