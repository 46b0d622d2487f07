----------------------------- MODULE IndexStore -----------------------------
(***************************************************************************)
(* The gateway's durable index counter, gateway/index-state.ts, for one    *)
(* chain, with the orders of the marketplace that call it.                 *)
(*                                                                         *)
(* The process is one JavaScript thread: a call runs without interruption  *)
(* from one await to the next, so an operation on a loaded state (look     *)
(* up, mutate, serialise) is one step, and three things are not:           *)
(*   - a call that finds no state in memory awaits the read of the file;   *)
(*   - the snapshot an operation serialised is renamed over the file in a  *)
(*     later step, and two renames may complete in either order;           *)
(*   - the reply leaves after the rename of the call's own snapshot.       *)
(* The process may be killed between any two steps.                        *)
(***************************************************************************)
EXTENDS Naturals, FiniteSets

CONSTANTS
    Orders,       \* orders that ask the gateway for an address
    Quarantine,   \* RECLAIM_QUARANTINE_MS, in ticks of the clock
    MaxTime,      \* bound: the clock stops here
    MaxInFlight,  \* bound: calls the gateway is working on at once
    MaxCrashes,   \* bound: times the process is killed
    NoState       \* IndexStore.state before the first load

ASSUME BoundsAssumption ==
    /\ Quarantine \in Nat /\ Quarantine > 0
    /\ MaxTime \in Nat /\ MaxInFlight \in Nat /\ MaxCrashes \in Nat

VARIABLES
    mem,      \* IndexStore.state: NoState or a snapshot
    disk,     \* the content of index-state.<network>.json
    now,      \* Date.now()
    pc,       \* where each order's call is: idle, load, loaded or rename
    op,       \* what it was called for: allocate, release or settle
    at,       \* the `now` argument, evaluated when the call was made
    buf,      \* the content read from the file, or about to replace it
    idx,      \* the index the order asked about or was given
    life,     \* the order as the caller sees it
    expiredAt,\* when the caller first gave the order's index back
    crashes,  \* how often the process was killed
    overwrote,\* history: a load replaced a state that was already in memory
    reordered \* history: a rename replaced a newer snapshot by an older one

vars == <<mem, disk, now, pc, op, at, buf, idx, life, expiredAt,
          crashes, overwrote, reordered>>

(***************************************************************************)
(* The state of the counter. `rev` stands for updated_at: it grows with    *)
(* every persist. Lists whose order or repetition the code never relies on *)
(* are sets; reclaimed keeps the time stamps that order it.                *)
(***************************************************************************)
Reclaimed == [index: Nat, at: Nat]
Snapshot  == [next: Nat, reclaimed: SUBSET Reclaimed, issued: SUBSET Nat,
              rev: Nat]

\* What stands for "not loaded" is not a state.
ASSUME NoStateAssumption == NoState \notin Snapshot

Empty == [next |-> 0, reclaimed |-> {}, issued |-> {}, rev |-> 0]

\* The entries whose quarantine is over at time t.
Ready(s, t) == {r \in s.reclaimed : r.at + Quarantine <= t}

\* The first ready entry of the list: entries are pushed as time passes, so it
\* is one with the smallest stamp.
FirstReady(s, t) ==
    {r \in Ready(s, t) : \A q \in Ready(s, t) : r.at <= q.at}

TakeFresh(s) ==
    [next |-> s.next + 1, reclaimed |-> s.reclaimed,
     issued |-> s.issued \cup {s.next}, rev |-> s.rev + 1]

TakeReclaimed(s, r) ==
    [next |-> s.next, reclaimed |-> s.reclaimed \ {r},
     issued |-> s.issued \cup {r.index}, rev |-> s.rev + 1]

InReclaimed(s, i) == \E r \in s.reclaimed : r.index = i

\* Bug: the entry keeps the stamp of the epoch, so no quarantine applies.
GiveBackUnstamped(s, i, t) ==
    [next |-> s.next, reclaimed |-> s.reclaimed \cup {[index |-> i, at |-> 0]},
     issued |-> s.issued \ {i}, rev |-> s.rev + 1]

GiveBack(s, i, t) ==
    [next |-> s.next,
     reclaimed |-> s.reclaimed \cup
                     (IF InReclaimed(s, i) THEN {} ELSE {[index |-> i, at |-> t]}),
     issued |-> s.issued \ {i}, rev |-> s.rev + 1]

\* Bug: settle() is mistaken for release(), and a paid index is reclaimed.
RetireToFreeList(s, i) == GiveBack(s, i, 0)

Retire(s, i) ==
    [next |-> s.next, reclaimed |-> s.reclaimed,
     issued |-> s.issued \ {i}, rev |-> s.rev + 1]

-----------------------------------------------------------------------------

Init ==
    /\ mem = NoState
    /\ disk = Empty
    /\ now = 0
    /\ pc = [o \in Orders |-> "idle"]
    /\ op = [o \in Orders |-> "allocate"]
    /\ at = [o \in Orders |-> 0]
    /\ buf = [o \in Orders |-> Empty]
    /\ idx = [o \in Orders |-> 0]
    /\ life = [o \in Orders |-> "new"]
    /\ expiredAt = [o \in Orders |-> 0]
    /\ crashes = 0
    /\ overwrote = FALSE
    /\ reordered = FALSE

InFlight == {o \in Orders : pc[o] # "idle"}

\* What an order becomes when its call is answered. One whose caller has hung
\* up in the meantime ("lost") learns nothing.
Answered(l) == CASE l = "asking"  -> "live"
                 [] l = "expired" -> "released"
                 [] l = "paid"    -> "settled"
                 [] OTHER         -> l

\* What it becomes on an error, a timeout or a dead process: a caller that was
\* never told its index has none; a release or settlement is not confirmed.
Unanswered(l) == IF l = "asking" THEN "lost" ELSE l

\* persist(): the state is serialised now and renamed over the file later.
Persist(o, s, l) ==
    /\ mem' = s
    /\ buf' = [buf EXCEPT ![o] = s]
    /\ pc' = [pc EXCEPT ![o] = "rename"]
    /\ life' = [life EXCEPT ![o] = l]

\* The early return of release() and settle(): the index is not issued, the
\* state s that load() returned is kept, and nothing is written.
ReturnFalse(o, s, l) ==
    /\ mem' = s
    /\ buf' = [buf EXCEPT ![o] = Empty]
    /\ pc' = [pc EXCEPT ![o] = "idle"]
    /\ life' = [life EXCEPT ![o] = Answered(l)]

\* allocate() from the moment load() has returned s, for an order in state l.
RunAllocate(o, s, t, l) ==
    \/ /\ Ready(s, t) = {}
       /\ idx' = [idx EXCEPT ![o] = s.next]
       /\ Persist(o, TakeFresh(s), l)
    \/ \E r \in FirstReady(s, t) :
         /\ idx' = [idx EXCEPT ![o] = r.index]
         /\ Persist(o, TakeReclaimed(s, r), l)

\* Bug: release() does not look whether the index is issued, so a repeated
\* release puts it on the free list while another order may hold it.
RunReleaseUnchecked(o, s, t, l) ==
    /\ idx' = idx
    /\ Persist(o, [s EXCEPT !.reclaimed = @ \cup {[index |-> idx[o], at |-> t]},
                            !.rev = @ + 1], l)

RunRelease(o, s, t, l) ==
    /\ idx' = idx
    /\ IF idx[o] \in s.issued
         THEN Persist(o, GiveBack(s, idx[o], t), l)
         ELSE ReturnFalse(o, s, l)

RunSettle(o, s, l) ==
    /\ idx' = idx
    /\ IF idx[o] \in s.issued
         THEN Persist(o, Retire(s, idx[o]), l)
         ELSE ReturnFalse(o, s, l)

Run(o, what, s, t, l) ==
    CASE what = "allocate" -> RunAllocate(o, s, t, l)
      [] what = "release"  -> RunRelease(o, s, t, l)
      [] what = "settle"   -> RunSettle(o, s, l)

\* A call arrives. With a state in memory load() returns it at once and the
\* operation runs in the same step; otherwise the call goes to read the file.
Enter(o, what, l) ==
    /\ pc[o] = "idle"
    /\ Cardinality(InFlight) < MaxInFlight
    /\ op' = [op EXCEPT ![o] = what]
    /\ at' = [at EXCEPT ![o] = now]
    /\ \/ /\ mem = NoState
          /\ pc' = [pc EXCEPT ![o] = "load"]
          /\ life' = [life EXCEPT ![o] = l]
          /\ UNCHANGED <<mem, buf, idx>>
       \/ /\ mem # NoState
          /\ Run(o, what, mem, now, l)
    /\ UNCHANGED <<disk, now, crashes, overwrote, reordered>>

Allocate(o) ==
    /\ life[o] = "new"
    /\ Enter(o, "allocate", "asking")
    /\ UNCHANGED expiredAt

\* The invoice expired unpaid. The caller may repeat a release it got no answer
\* to, but not after the quarantine it asked for is over.
Release(o) ==
    /\ \/ /\ life[o] = "live"
          /\ expiredAt' = [expiredAt EXCEPT ![o] = now]
       \/ /\ life[o] = "expired" /\ now < expiredAt[o] + Quarantine
          /\ UNCHANGED expiredAt
    /\ Enter(o, "release", "expired")

Settle(o) ==
    /\ life[o] \in {"live", "paid"}
    /\ Enter(o, "settle", "paid")
    /\ UNCHANGED expiredAt

\* readFile() opens the file: a rename after this is not seen.
ReadFile(o) ==
    /\ pc[o] = "load"
    /\ buf' = [buf EXCEPT ![o] = disk]
    /\ pc' = [pc EXCEPT ![o] = "loaded"]
    /\ UNCHANGED <<mem, disk, now, op, at, idx, life, expiredAt, crashes,
                   overwrote, reordered>>

\* The read has completed: load() assigns this.state, whatever it holds by
\* now, and the operation runs on it.
Resume(o) ==
    /\ pc[o] = "loaded"
    /\ overwrote' = (overwrote \/ mem # NoState)
    /\ Run(o, op[o], buf[o], at[o], life[o])
    /\ UNCHANGED <<disk, now, op, at, expiredAt, crashes, reordered>>

\* The rename of a call's snapshot, and the reply.
Rename(o) ==
    /\ pc[o] = "rename"
    /\ disk' = buf[o]
    /\ reordered' = (reordered \/ buf[o].rev < disk.rev)
    /\ buf' = [buf EXCEPT ![o] = Empty]
    /\ pc' = [pc EXCEPT ![o] = "idle"]
    /\ life' = [life EXCEPT ![o] = Answered(@)]
    /\ UNCHANGED <<mem, now, op, at, idx, expiredAt, crashes, overwrote>>

\* The file cannot be read or written: the call is answered with an error.
\* What it did to the state in memory stays.
Fail(o) ==
    /\ pc[o] \in {"loaded", "rename"}
    /\ buf' = [buf EXCEPT ![o] = Empty]
    /\ pc' = [pc EXCEPT ![o] = "idle"]
    /\ life' = [life EXCEPT ![o] = Unanswered(@)]
    /\ UNCHANGED <<mem, disk, now, op, at, idx, expiredAt, crashes,
                   overwrote, reordered>>

\* The caller's five seconds are over; the gateway goes on working.
HangUp(o) ==
    /\ pc[o] # "idle" /\ life[o] = "asking"
    /\ life' = [life EXCEPT ![o] = "lost"]
    /\ UNCHANGED <<mem, disk, now, pc, op, at, buf, idx, expiredAt, crashes,
                   overwrote, reordered>>

\* The process is killed and started again.
Crash ==
    /\ crashes < MaxCrashes
    /\ crashes' = crashes + 1
    /\ mem' = NoState
    /\ pc' = [o \in Orders |-> "idle"]
    /\ buf' = [o \in Orders |-> Empty]
    /\ life' = [o \in Orders |-> IF pc[o] = "idle" THEN life[o]
                                 ELSE Unanswered(life[o])]
    /\ UNCHANGED <<disk, now, op, at, idx, expiredAt, overwrote, reordered>>

Tick ==
    /\ now < MaxTime
    /\ now' = now + 1
    /\ UNCHANGED <<mem, disk, pc, op, at, buf, idx, life, expiredAt, crashes,
                   overwrote, reordered>>

\* Between calls the process may stay idle for ever.
Quiet ==
    /\ InFlight = {}
    /\ UNCHANGED vars

Next ==
    \/ \E o \in Orders :
         \/ Allocate(o) \/ Release(o) \/ Settle(o)
         \/ ReadFile(o) \/ Resume(o) \/ Rename(o)
         \/ Fail(o) \/ HangUp(o)
    \/ Crash \/ Tick \/ Quiet

Spec == Init /\ [][Next]_vars

-----------------------------------------------------------------------------

(***************************************************************************)
(* TypeOK: the shapes of the counter, its file and the calls.              *)
(***************************************************************************)
TypeOK ==
    /\ mem \in Snapshot \cup {NoState}
    /\ disk \in Snapshot
    /\ now \in Nat /\ crashes \in Nat
    /\ pc \in [Orders -> {"idle", "load", "loaded", "rename"}]
    /\ op \in [Orders -> {"allocate", "release", "settle"}]
    /\ at \in [Orders -> Nat] /\ expiredAt \in [Orders -> Nat]
    /\ buf \in [Orders -> Snapshot]
    /\ idx \in [Orders -> Nat]
    /\ life \in [Orders -> {"new", "asking", "lost", "live", "expired",
                            "released", "paid", "settled"}]
    /\ overwrote \in BOOLEAN /\ reordered \in BOOLEAN

(***************************************************************************)
(* No snapshot, in memory, on the way to the file or in the file, holds an *)
(* index twice: reclaimed and issued are disjoint, an index is reclaimed   *)
(* once, and both lie below next. The guards of allocate, release and      *)
(* settle must keep this however their calls overlap and whatever was lost *)
(* to a crash.                                                             *)
(***************************************************************************)
Coherent(s) ==
    /\ \A i \in s.issued : i < s.next
    /\ \A r \in s.reclaimed : r.index < s.next /\ r.index \notin s.issued
    /\ \A r, q \in s.reclaimed : r.index = q.index => r = q

SnapshotsCoherent ==
    /\ mem # NoState => Coherent(mem)
    /\ Coherent(disk)
    /\ \A o \in Orders : Coherent(buf[o])

(***************************************************************************)
(* An address on a live invoice belongs to that order alone, and never to  *)
(* one that another order has paid.                                        *)
(***************************************************************************)
AddressesExclusive ==
    \A o, p \in Orders :
        /\ o # p
        /\ life[o] = "live"
        /\ life[p] \in {"live", "paid", "settled"}
        => idx[o] # idx[p]

\* An index given back does not return to a customer before its quarantine.
QuarantineRespected ==
    \A o, p \in Orders :
        /\ life[o] \in {"expired", "released"}
        /\ life[p] = "live"
        /\ idx[o] = idx[p]
        => expiredAt[o] + Quarantine <= now

(***************************************************************************)
(* Overlapping calls, errors, hang-ups and restarts are all harmless by    *)
(* themselves: two orders can come to share an address only after a load   *)
(* replaced a state that was in memory, or a rename put an older snapshot  *)
(* over a newer one.                                                       *)
(***************************************************************************)
OnlyKnownRaces ==
    ~overwrote /\ ~reordered => AddressesExclusive /\ QuarantineRespected

(***************************************************************************)
(* What the callers are promised. An index counts as held from the reply   *)
(* that carries it; one whose reply was lost is nobody's.                  *)
(***************************************************************************)
Told(o) == life[o] \notin {"new", "asking", "lost"}

Ledger == INSTANCE IndexLedger WITH
    holder <- [o \in Orders |-> IF Told(o) THEN idx[o] ELSE 0],
    phase  <- [o \in Orders |->
                 IF ~Told(o) THEN "none"
                 ELSE IF life[o] = "live" THEN "live"
                 ELSE IF life[o] \in {"paid", "settled"} THEN "paid"
                 ELSE "resting"],
    since  <- expiredAt

(***************************************************************************)
(* The store implements the ledger, whatever overlaps, fails, hangs up or  *)
(* is killed: every step is one of the ledger or changes nothing there,    *)
(* until a load has replaced a state that was in memory or a rename has    *)
(* put an older snapshot over a newer one.                                 *)
(***************************************************************************)
ImplementsLedger ==
    Ledger!Init /\ [][overwrote' \/ reordered' \/ Ledger!Next]_Ledger!lvars
=============================================================================
