-------------------------- MODULE IndexStore_proofs --------------------------
(***************************************************************************)
(* Proofs about the index store, for any set of orders, any quarantine and *)
(* any bounds: any number of calls in flight and of crashes. The admin     *)
(* console of Console.tla is proved about at the end, for any directories, *)
(* requests, losses and restarts.                                          *)
(***************************************************************************)
EXTENDS IndexStore, Console, SequenceTheorems, TLAPS

(***************************************************************************)
(* The operations of allocate, release and settle on one snapshot.         *)
(***************************************************************************)
LEMMA EmptyCoherent == Empty \in Snapshot /\ Coherent(Empty)
  BY DEF Empty, Snapshot, Coherent

\* A fresh index is above every index in use.
LEMMA TakeFreshCoherent ==
    ASSUME NEW s \in Snapshot, Coherent(s)
    PROVE  TakeFresh(s) \in Snapshot /\ Coherent(TakeFresh(s)) /\ s.next \in Nat
  BY DEF TakeFresh, Snapshot, Reclaimed, Coherent

\* Moving an entry from the free list to the issued set keeps them disjoint.
LEMMA TakeReclaimedCoherent ==
    ASSUME NEW s \in Snapshot, Coherent(s), NEW r \in s.reclaimed
    PROVE  TakeReclaimed(s, r) \in Snapshot /\ Coherent(TakeReclaimed(s, r))
           /\ r.index \in Nat
  BY DEF TakeReclaimed, Snapshot, Reclaimed, Coherent

\* So does the way back, when the index was issued.
LEMMA GiveBackCoherent ==
    ASSUME NEW s \in Snapshot, Coherent(s), NEW i \in s.issued, NEW t \in Nat
    PROVE  GiveBack(s, i, t) \in Snapshot /\ Coherent(GiveBack(s, i, t))
  BY DEF GiveBack, InReclaimed, Snapshot, Reclaimed, Coherent

LEMMA RetireCoherent ==
    ASSUME NEW s \in Snapshot, Coherent(s), NEW i \in s.issued
    PROVE  Retire(s, i) \in Snapshot /\ Coherent(Retire(s, i))
  BY DEF Retire, Snapshot, Reclaimed, Coherent

-----------------------------------------------------------------------------
(***************************************************************************)
(* Types and coherence. Each action writes mem, disk and buf only with a   *)
(* snapshot it found in one of them, or with the result of one operation   *)
(* on such a snapshot.                                                     *)
(***************************************************************************)
Shaped == TypeOK /\ SnapshotsCoherent

Lives == {"new", "asking", "lost", "live", "expired", "released", "paid",
          "settled"}

LEMMA AnsweredType ==
    ASSUME NEW l \in Lives
    PROVE  Answered(l) \in Lives /\ Unanswered(l) \in Lives
  BY DEF Answered, Unanswered, Lives

\* What one call may do to the state of the process once load() has returned s.
LEMMA RunShaped ==
    ASSUME Shaped, NEW o \in Orders, NEW s \in Snapshot, Coherent(s),
           NEW what \in {"allocate", "release", "settle"},
           NEW t \in Nat, NEW l \in Lives, Run(o, what, s, t, l)
    PROVE  /\ mem' \in Snapshot /\ Coherent(mem')
           /\ buf' \in [Orders -> Snapshot]
           /\ \A p \in Orders : Coherent(buf'[p])
           /\ pc' \in [Orders -> {"idle", "load", "loaded", "rename"}]
           /\ idx' \in [Orders -> Nat]
           /\ life' \in [Orders -> Lives]
  <1>1. idx[o] \in Nat /\ buf \in [Orders -> Snapshot]
        /\ (\A p \in Orders : Coherent(buf[p]))
        /\ pc \in [Orders -> {"idle", "load", "loaded", "rename"}]
        /\ idx \in [Orders -> Nat] /\ life \in [Orders -> Lives]
    BY DEF Shaped, TypeOK, SnapshotsCoherent, Lives
  <1>2. ASSUME NEW u \in Snapshot, Coherent(u), Persist(o, u, l), idx' \in [Orders -> Nat]
        PROVE  /\ mem' \in Snapshot /\ Coherent(mem')
               /\ buf' \in [Orders -> Snapshot]
               /\ \A p \in Orders : Coherent(buf'[p])
               /\ pc' \in [Orders -> {"idle", "load", "loaded", "rename"}]
               /\ life' \in [Orders -> Lives]
    BY <1>1, <1>2 DEF Persist
  <1>3. ASSUME ReturnFalse(o, s, l)
        PROVE  /\ mem' \in Snapshot /\ Coherent(mem')
               /\ buf' \in [Orders -> Snapshot]
               /\ \A p \in Orders : Coherent(buf'[p])
               /\ pc' \in [Orders -> {"idle", "load", "loaded", "rename"}]
               /\ life' \in [Orders -> Lives]
    BY <1>1, <1>3, EmptyCoherent, AnsweredType DEF ReturnFalse
  <1>4. CASE what = "allocate"
    <2>1. RunAllocate(o, s, t, l)
      BY <1>4 DEF Run
    <2>2. CASE idx' = [idx EXCEPT ![o] = s.next] /\ Persist(o, TakeFresh(s), l)
      <3>1. TakeFresh(s) \in Snapshot /\ Coherent(TakeFresh(s)) /\ s.next \in Nat
        BY TakeFreshCoherent
      <3>2. idx' \in [Orders -> Nat]
        BY <1>1, <2>2, <3>1
      <3> QED BY <1>2, <2>2, <3>1, <3>2
    <2>3. ASSUME NEW r \in FirstReady(s, t), idx' = [idx EXCEPT ![o] = r.index],
                 Persist(o, TakeReclaimed(s, r), l)
          PROVE  /\ mem' \in Snapshot /\ Coherent(mem')
                 /\ buf' \in [Orders -> Snapshot]
                 /\ \A p \in Orders : Coherent(buf'[p])
                 /\ pc' \in [Orders -> {"idle", "load", "loaded", "rename"}]
                 /\ idx' \in [Orders -> Nat]
                 /\ life' \in [Orders -> Lives]
      <3>1. r \in s.reclaimed
        BY DEF FirstReady, Ready
      <3>2. TakeReclaimed(s, r) \in Snapshot /\ Coherent(TakeReclaimed(s, r))
            /\ r.index \in Nat
        BY <3>1, TakeReclaimedCoherent
      <3>3. idx' \in [Orders -> Nat]
        BY <1>1, <2>3, <3>2
      <3> QED BY <1>2, <2>3, <3>2, <3>3
    <2> QED BY <2>1, <2>2, <2>3 DEF RunAllocate
  <1>5. CASE what = "release"
    <2>1. RunRelease(o, s, t, l)
      BY <1>5 DEF Run
    <2>2. idx' \in [Orders -> Nat]
      BY <1>1, <2>1 DEF RunRelease
    <2>3. CASE idx[o] \in s.issued
      BY <1>2, <2>1, <2>2, <2>3, GiveBackCoherent DEF RunRelease
    <2>4. CASE idx[o] \notin s.issued
      BY <1>3, <2>1, <2>2, <2>4 DEF RunRelease
    <2> QED BY <2>3, <2>4
  <1>6. CASE what = "settle"
    <2>1. RunSettle(o, s, l)
      BY <1>6 DEF Run
    <2>2. idx' \in [Orders -> Nat]
      BY <1>1, <2>1 DEF RunSettle
    <2>3. CASE idx[o] \in s.issued
      BY <1>2, <2>1, <2>2, <2>3, RetireCoherent DEF RunSettle
    <2>4. CASE idx[o] \notin s.issued
      BY <1>3, <2>1, <2>2, <2>4 DEF RunSettle
    <2> QED BY <2>3, <2>4
  <1> QED BY <1>4, <1>5, <1>6

LEMMA EnterShaped ==
    ASSUME Shaped, NEW o \in Orders, NEW l \in Lives,
           NEW what \in {"allocate", "release", "settle"}, Enter(o, what, l),
           expiredAt' \in [Orders -> Nat]
    PROVE  Shaped'
  <1>1. /\ op' \in [Orders -> {"allocate", "release", "settle"}]
        /\ at' \in [Orders -> Nat]
    BY DEF Enter, Shaped, TypeOK
  <1>2. CASE mem = NoState /\ pc' = [pc EXCEPT ![o] = "load"]
             /\ life' = [life EXCEPT ![o] = l] /\ UNCHANGED <<mem, buf, idx>>
    BY <1>1, <1>2 DEF Enter, Shaped, TypeOK, SnapshotsCoherent, Lives
  <1>3. CASE mem # NoState /\ Run(o, what, mem, now, l)
    <2>1. mem \in Snapshot /\ Coherent(mem) /\ now \in Nat
      BY <1>3 DEF Shaped, TypeOK, SnapshotsCoherent
    <2>2. /\ mem' \in Snapshot /\ Coherent(mem')
          /\ buf' \in [Orders -> Snapshot]
          /\ \A p \in Orders : Coherent(buf'[p])
          /\ pc' \in [Orders -> {"idle", "load", "loaded", "rename"}]
          /\ idx' \in [Orders -> Nat]
          /\ life' \in [Orders -> Lives]
      BY <1>3, <2>1, RunShaped
    <2> QED BY <1>1, <2>2 DEF Enter, Shaped, TypeOK, SnapshotsCoherent, Lives
  <1> QED BY <1>2, <1>3 DEF Enter

LEMMA InitShaped == Init => Shaped
  <1> SUFFICES ASSUME Init PROVE Shaped
    OBVIOUS
  <1>1. SnapshotsCoherent
    BY EmptyCoherent DEF Init, SnapshotsCoherent
  <1>2. overwrote \in BOOLEAN /\ reordered \in BOOLEAN
    BY DEF Init
  <1>3. mem \in Snapshot \cup {NoState} /\ disk \in Snapshot
        /\ buf \in [Orders -> Snapshot]
    BY EmptyCoherent DEF Init
  <1> QED BY <1>1, <1>2, <1>3 DEF Init, Shaped, TypeOK

LEMMA StepShaped == Shaped /\ [Next]_vars => Shaped'
  <1> SUFFICES ASSUME Shaped, [Next]_vars PROVE Shaped'
    OBVIOUS
  <1>1. ASSUME NEW o \in Orders, Allocate(o) PROVE Shaped'
    BY <1>1, EnterShaped DEF Allocate, Lives, Shaped, TypeOK
  <1>2. ASSUME NEW o \in Orders, Release(o) PROVE Shaped'
    <2>1. expiredAt' \in [Orders -> Nat]
      BY <1>2 DEF Release, Shaped, TypeOK
    <2> QED BY <1>2, <2>1, EnterShaped DEF Release, Lives
  <1>3. ASSUME NEW o \in Orders, Settle(o) PROVE Shaped'
    BY <1>3, EnterShaped DEF Settle, Lives, Shaped, TypeOK
  <1>4. ASSUME NEW o \in Orders, ReadFile(o) PROVE Shaped'
    BY <1>4 DEF ReadFile, Shaped, TypeOK, SnapshotsCoherent
  <1>5. ASSUME NEW o \in Orders, Resume(o) PROVE Shaped'
    <2>1. /\ buf[o] \in Snapshot /\ Coherent(buf[o])
          /\ op[o] \in {"allocate", "release", "settle"}
          /\ at[o] \in Nat /\ life[o] \in Lives
          /\ Run(o, op[o], buf[o], at[o], life[o])
      BY <1>5 DEF Resume, Shaped, TypeOK, SnapshotsCoherent, Lives
    <2>2. /\ mem' \in Snapshot /\ Coherent(mem')
          /\ buf' \in [Orders -> Snapshot]
          /\ \A p \in Orders : Coherent(buf'[p])
          /\ pc' \in [Orders -> {"idle", "load", "loaded", "rename"}]
          /\ idx' \in [Orders -> Nat]
          /\ life' \in [Orders -> Lives]
      BY <2>1, RunShaped
    <2>3. overwrote' \in BOOLEAN
      BY <1>5 DEF Resume
    <2> QED BY <1>5, <2>2, <2>3
            DEF Resume, Shaped, TypeOK, SnapshotsCoherent, Lives
  <1>6. ASSUME NEW o \in Orders, Rename(o) PROVE Shaped'
    <2>1. buf[o] \in Snapshot /\ Coherent(buf[o])
      BY <1>6 DEF Shaped, TypeOK, SnapshotsCoherent
    <2>2. Answered(life[o]) \in Lives
      BY AnsweredType DEF Shaped, TypeOK, Lives
    <2> QED BY <1>6, <2>1, <2>2, EmptyCoherent
            DEF Rename, Shaped, TypeOK, SnapshotsCoherent, Lives
  <1>7. ASSUME NEW o \in Orders, Fail(o) PROVE Shaped'
    <2>1. Unanswered(life[o]) \in Lives
      BY AnsweredType DEF Shaped, TypeOK, Lives
    <2> QED BY <1>7, <2>1, EmptyCoherent
            DEF Fail, Shaped, TypeOK, SnapshotsCoherent, Lives
  <1>8. ASSUME NEW o \in Orders, HangUp(o) PROVE Shaped'
    BY <1>8 DEF HangUp, Shaped, TypeOK, SnapshotsCoherent
  <1>9. CASE Crash
    <2>1. \A o \in Orders : Unanswered(life[o]) \in Lives
      BY AnsweredType DEF Shaped, TypeOK, Lives
    <2> QED BY <1>9, <2>1, EmptyCoherent
            DEF Crash, Shaped, TypeOK, SnapshotsCoherent, Lives
  <1>10. CASE Tick
    BY <1>10 DEF Tick, Shaped, TypeOK, SnapshotsCoherent
  <1>11. CASE Quiet \/ UNCHANGED vars
    BY <1>11 DEF Quiet, vars, Shaped, TypeOK, SnapshotsCoherent
  <1> QED BY <1>1, <1>2, <1>3, <1>4, <1>5, <1>6, <1>7, <1>8, <1>9, <1>10, <1>11
          DEF Next

(***************************************************************************)
(* TypeCorrect: the counter, its file and every call keep their shape      *)
(* through allocate, release, settle, load, persist and a restart.         *)
(***************************************************************************)
THEOREM TypeCorrect == Spec => []TypeOK
  <1>1. Shaped => TypeOK
    BY DEF Shaped
  <1> QED BY <1>1, InitShaped, StepShaped, PTL DEF Spec

(***************************************************************************)
(* StaysCoherent: allocate, release and settle never bring an index into   *)
(* the free list twice, or into both lists, or above next: not in memory,  *)
(* not in the file, not in a snapshot on its way there, whatever overlaps, *)
(* fails or is killed.                                                     *)
(***************************************************************************)
THEOREM StaysCoherent == Spec => []SnapshotsCoherent
  <1>1. Shaped => SnapshotsCoherent
    BY DEF Shaped
  <1> QED BY <1>1, InitShaped, StepShaped, PTL DEF Spec

-----------------------------------------------------------------------------
(***************************************************************************)
(* Exclusiveness. While no load has replaced a state in memory and no      *)
(* rename has put an older snapshot over a newer one, the snapshots that   *)
(* can still be the counter's state form a chain: memory is the newest, and *)
(* the file only moves on along it.                                        *)
(***************************************************************************)
\* Every snapshot that is, or can become, what the next call starts from.
Snaps == {disk} \cup {s \in Snapshot : s = mem}
         \cup {buf[p] : p \in {q \in Orders : pc[q] = "rename"}}

\* An order whose index is on an invoice, is paid, or is on its way to an
\* invoice with the snapshot of the order's own call.
Owner(o) == \/ life[o] \in {"live", "paid", "settled"}
            \/ life[o] = "asking" /\ pc[o] = "rename"

\* An order that has given its index back, whether or not it was confirmed.
Resting(o) == life[o] \in {"expired", "released"}

\* The snapshots from this revision on know that the order owns its index.
Base(o) == IF life[o] = "asking" THEN buf[o].rev ELSE disk.rev

\* A call that works on s, at any time, is not handed the index i.
NotFree(s, i) == i < s.next /\ ~InReclaimed(s, i)

\* A call that works on s is not handed the index i before time t is a
\* quarantine ago.
Rests(s, i, t) ==
    i < s.next /\ \A r \in s.reclaimed : r.index = i => t <= r.at

\* What a call may be, given what it was made for.
CallsFit ==
    \A o \in Orders :
        /\ pc[o] # "idle" => life[o] \in {"asking", "lost", "expired", "paid"}
        /\ pc[o] \in {"load", "loaded"} =>
             \/ op[o] = "allocate" /\ life[o] \in {"asking", "lost"}
             \/ op[o] = "release" /\ life[o] = "expired"
             \/ op[o] = "settle" /\ life[o] = "paid"
        /\ at[o] <= now /\ expiredAt[o] <= now

\* Until somebody has loaded, nothing is written, and who has read the file
\* has what is in it.
BeforeLoad ==
    mem = NoState =>
        \A o \in Orders : /\ pc[o] # "rename"
                          /\ pc[o] = "loaded" => buf[o] = disk

MemNewest == mem # NoState => \A s \in Snaps : s.rev <= mem.rev

OwnersApart ==
    \A o, p \in Orders : Owner(o) /\ Owner(p) /\ idx[o] = idx[p] => o = p

OwnedNotFree ==
    \A o \in Orders : Owner(o) =>
        \A s \in Snaps : Base(o) <= s.rev => NotFree(s, idx[o])

GivenBackRests ==
    \A o \in Orders : Resting(o) =>
        \A s \in Snaps : disk.rev <= s.rev => Rests(s, idx[o], expiredAt[o])

QuarantineOver ==
    \A o, p \in Orders :
        Resting(o) /\ Owner(p) /\ idx[o] = idx[p]
        => expiredAt[o] + Quarantine <= now

\* A release that waits for the first load is still one of an index that
\* nobody else has had since.
ReleaseInTime ==
    mem = NoState =>
        \A o \in Orders : pc[o] \in {"load", "loaded"} /\ op[o] = "release" =>
            \A p \in Orders : idx[p] = idx[o] =>
                /\ ~Owner(p)
                /\ Resting(p) => expiredAt[p] <= at[o]

Chain == /\ MemNewest /\ OwnersApart /\ OwnedNotFree /\ GivenBackRests
         /\ QuarantineOver /\ ReleaseInTime

Calls == Shaped /\ CallsFit /\ BeforeLoad

IInv == Calls /\ (~overwrote /\ ~reordered => Chain)

(***************************************************************************)
(* What each operation does to the indices that are, and are not, free.    *)
(***************************************************************************)
LEMMA TakeFreshKeeps ==
    ASSUME NEW s \in Snapshot, Coherent(s)
    PROVE  /\ TakeFresh(s).rev = s.rev + 1
           /\ NotFree(TakeFresh(s), s.next)
           /\ \A i \in Nat : NotFree(s, i) => NotFree(TakeFresh(s), i) /\ i # s.next
           /\ \A i, e \in Nat : Rests(s, i, e) => Rests(TakeFresh(s), i, e) /\ i # s.next
  BY DEF TakeFresh, Snapshot, Reclaimed, Coherent, NotFree, Rests, InReclaimed

LEMMA TakeReclaimedKeeps ==
    ASSUME NEW s \in Snapshot, Coherent(s), NEW r \in s.reclaimed
    PROVE  /\ TakeReclaimed(s, r).rev = s.rev + 1
           /\ NotFree(TakeReclaimed(s, r), r.index)
           /\ \A i \in Nat : NotFree(s, i) => NotFree(TakeReclaimed(s, r), i) /\ i # r.index
           /\ \A i, e \in Nat : Rests(s, i, e) =>
                Rests(TakeReclaimed(s, r), i, e) /\ (i = r.index => e <= r.at)
  BY DEF TakeReclaimed, Snapshot, Reclaimed, Coherent, NotFree, Rests, InReclaimed

LEMMA GiveBackKeeps ==
    ASSUME NEW s \in Snapshot, NEW i \in Nat, NEW t \in Nat
    PROVE  /\ GiveBack(s, i, t).rev = s.rev + 1
           /\ \A j \in Nat : NotFree(s, j) /\ j # i => NotFree(GiveBack(s, i, t), j)
           /\ \A j, e \in Nat : Rests(s, j, e) /\ (j = i => e <= t)
                                => Rests(GiveBack(s, i, t), j, e)
  BY DEF GiveBack, Snapshot, Reclaimed, NotFree, Rests, InReclaimed

LEMMA RetireKeeps ==
    ASSUME NEW s \in Snapshot, NEW i \in Nat
    PROVE  /\ Retire(s, i).rev = s.rev + 1
           /\ \A j \in Nat : NotFree(s, j) => NotFree(Retire(s, i), j)
           /\ \A j, e \in Nat : Rests(s, j, e) => Rests(Retire(s, i), j, e)
  BY DEF Retire, Snapshot, Reclaimed, NotFree, Rests, InReclaimed

LEMMA NotFreeRests ==
    ASSUME NEW s, NEW i, NEW t, NotFree(s, i)
    PROVE  Rests(s, i, t)
  BY DEF NotFree, Rests, InReclaimed

(***************************************************************************)
(* What the lemmas below use of the types.                                 *)
(***************************************************************************)
LEMMA CallsTyped ==
    ASSUME Calls
    PROVE  /\ disk \in Snapshot /\ now \in Nat /\ Quarantine \in Nat
           /\ disk.rev \in Nat
           /\ pc \in [Orders -> {"idle", "load", "loaded", "rename"}]
           /\ op \in [Orders -> {"allocate", "release", "settle"}]
           /\ at \in [Orders -> Nat] /\ expiredAt \in [Orders -> Nat]
           /\ buf \in [Orders -> Snapshot] /\ idx \in [Orders -> Nat]
           /\ life \in [Orders -> Lives]
           /\ mem # NoState => mem \in Snapshot
           /\ \A s \in Snaps : s \in Snapshot /\ s.rev \in Nat
           /\ \A o \in Orders : buf[o].rev \in Nat /\ Base(o) \in Nat
  <1>1. /\ disk \in Snapshot /\ now \in Nat /\ Quarantine \in Nat
        /\ pc \in [Orders -> {"idle", "load", "loaded", "rename"}]
        /\ op \in [Orders -> {"allocate", "release", "settle"}]
        /\ at \in [Orders -> Nat] /\ expiredAt \in [Orders -> Nat]
        /\ buf \in [Orders -> Snapshot] /\ idx \in [Orders -> Nat]
        /\ life \in [Orders -> Lives]
        /\ mem # NoState => mem \in Snapshot
    BY BoundsAssumption DEF Calls, Shaped, TypeOK, Lives
  <1>2. \A s \in Snapshot : s.rev \in Nat
    BY DEF Snapshot
  <1>3. \A s \in Snaps : s \in Snapshot
    BY <1>1 DEF Snaps
  <1> QED BY <1>1, <1>2, <1>3 DEF Base

\* A call's new snapshot u, made from the newest one, is on its way.
LEMMA PersistChain ==
    ASSUME Calls, Chain, NEW o \in Orders, NEW l, NEW s \in Snaps,
           \A v \in Snaps : v.rev <= s.rev,
           NEW u \in Snapshot, u.rev = s.rev + 1, Persist(o, u, l),
           pc[o] # "rename", disk' = disk, now' = now,
           idx' \in [Orders -> Nat], expiredAt' \in [Orders -> Nat],
           \A p \in Orders \ {o} : idx'[p] = idx[p] /\ expiredAt'[p] = expiredAt[p],
           l \in {"asking", "lost", "expired", "paid"},
           \A p \in Orders \ {o} :
             /\ Owner(p) => NotFree(u, idx[p])
             /\ Resting(p) => Rests(u, idx[p], expiredAt[p]),
           l \in {"asking", "paid"} =>
             /\ NotFree(u, idx'[o])
             /\ \A p \in Orders \ {o} : idx[p] = idx'[o] =>
                  /\ ~Owner(p)
                  /\ Resting(p) => expiredAt[p] + Quarantine <= now,
           l = "paid" => \A v \in Snaps : disk.rev <= v.rev => NotFree(v, idx'[o]),
           l = "expired" =>
             /\ Rests(u, idx'[o], expiredAt'[o])
             /\ \A v \in Snaps : disk.rev <= v.rev => Rests(v, idx'[o], expiredAt'[o])
             /\ \A p \in Orders \ {o} : idx[p] = idx'[o] => ~Owner(p)
    PROVE  Chain'
  <1>1. /\ disk.rev \in Nat /\ now \in Nat /\ Quarantine \in Nat
        /\ pc \in [Orders -> {"idle", "load", "loaded", "rename"}]
        /\ buf \in [Orders -> Snapshot] /\ life \in [Orders -> Lives]
        /\ s.rev \in Nat /\ u.rev \in Nat
        /\ \A v \in Snaps : v.rev \in Nat
        /\ \A p \in Orders : Base(p) \in Nat
    BY CallsTyped DEF Snapshot
  <1>2. /\ mem' = u /\ buf' = [buf EXCEPT ![o] = u]
        /\ pc' = [pc EXCEPT ![o] = "rename"] /\ life' = [life EXCEPT ![o] = l]
    BY DEF Persist
  <1>3. Snaps' \subseteq Snaps \cup {u}
    BY <1>1, <1>2 DEF Snaps
  <1>4. \A p \in Orders \ {o} :
          /\ Owner(p)' <=> Owner(p)
          /\ Resting(p)' <=> Resting(p)
          /\ Base(p)' = Base(p)
    BY <1>1, <1>2 DEF Owner, Resting, Base
  <1>5. /\ Owner(o)' <=> l \in {"asking", "paid"}
        /\ Resting(o)' <=> l = "expired"
        /\ l = "asking" => Base(o)' = u.rev
        /\ l = "paid" => Base(o)' = disk.rev
    BY <1>1, <1>2 DEF Owner, Resting, Base
  <1>6. MemNewest'
    BY <1>1, <1>2, <1>3 DEF MemNewest
  <1>7. OwnersApart'
    BY <1>4, <1>5 DEF OwnersApart, Chain
  <1>8. OwnedNotFree'
    <2> SUFFICES ASSUME NEW p \in Orders, Owner(p)', NEW v \in Snaps', Base(p)' <= v.rev
                 PROVE  NotFree(v, idx'[p])
      BY DEF OwnedNotFree, NotFree, InReclaimed
    <2>1. CASE p # o
      <3>1. Owner(p) /\ Base(p) <= v.rev /\ idx'[p] = idx[p]
        BY <1>4, <2>1
      <3> QED BY <1>3, <2>1, <3>1 DEF Chain, OwnedNotFree
    <2>2. CASE p = o
      <3>1. CASE v = u
        BY <1>5, <2>2, <3>1
      <3>2. CASE v \in Snaps
        BY <1>1, <1>5, <2>2, <3>2
      <3> QED BY <1>3, <3>1, <3>2
    <2> QED BY <2>1, <2>2
  <1>9. GivenBackRests'
    <2> SUFFICES ASSUME NEW p \in Orders, Resting(p)', NEW v \in Snaps', disk.rev <= v.rev
                 PROVE  Rests(v, idx'[p], expiredAt'[p])
      BY DEF GivenBackRests, Rests
    <2>1. CASE p # o
      BY <1>3, <1>4, <2>1 DEF Chain, GivenBackRests
    <2>2. CASE p = o
      BY <1>3, <1>5, <2>2
    <2> QED BY <2>1, <2>2
  <1>10. QuarantineOver'
    <2> SUFFICES ASSUME NEW q \in Orders, NEW p \in Orders, Resting(q)', Owner(p)',
                        idx'[q] = idx'[p]
                 PROVE  expiredAt'[q] + Quarantine <= now
      BY DEF QuarantineOver
    <2>1. CASE p # o /\ q # o
      BY <1>4, <2>1 DEF Chain, QuarantineOver
    <2>2. CASE p = o /\ q # o
      BY <1>4, <1>5, <2>2
    <2>3. CASE q = o
      BY <1>4, <1>5, <2>3
    <2> QED BY <2>1, <2>2, <2>3
  <1>11. ReleaseInTime'
    BY <1>2, NoStateAssumption DEF ReleaseInTime
  <1> QED BY <1>6, <1>7, <1>8, <1>9, <1>10, <1>11 DEF Chain

\* A call that changes nothing is answered: memory is, or becomes, s.
LEMMA ReturnFalseChain ==
    ASSUME Calls, Chain, NEW o \in Orders, NEW l, NEW s \in Snaps,
           \A v \in Snaps : v.rev <= s.rev,
           ReturnFalse(o, s, l), disk' = disk, now' = now, idx' = idx,
           pc[o] # "rename", expiredAt' \in [Orders -> Nat],
           \A p \in Orders \ {o} : expiredAt'[p] = expiredAt[p],
           l \in {"expired", "paid"},
           l = "paid" => Owner(o),
           l = "expired" =>
             /\ \A v \in Snaps : disk.rev <= v.rev => Rests(v, idx[o], expiredAt'[o])
             /\ \A p \in Orders \ {o} : idx[p] = idx[o] => ~Owner(p)
    PROVE  Chain'
  <1>1. /\ disk.rev \in Nat /\ now \in Nat /\ Quarantine \in Nat
        /\ pc \in [Orders -> {"idle", "load", "loaded", "rename"}]
        /\ buf \in [Orders -> Snapshot] /\ life \in [Orders -> Lives]
        /\ \A v \in Snaps : v \in Snapshot /\ v.rev \in Nat
        /\ \A p \in Orders : Base(p) \in Nat
    BY CallsTyped
  <1>2. /\ mem' = s /\ buf' = [buf EXCEPT ![o] = Empty]
        /\ pc' = [pc EXCEPT ![o] = "idle"]
        /\ life' = [life EXCEPT ![o] = Answered(l)]
        /\ l = "expired" => Answered(l) = "released"
        /\ l = "paid" => Answered(l) = "settled"
    BY DEF ReturnFalse, Answered
  <1>3. Snaps' \subseteq Snaps
    BY <1>1, <1>2 DEF Snaps
  <1>4. \A p \in Orders \ {o} :
          /\ Owner(p)' <=> Owner(p)
          /\ Resting(p)' <=> Resting(p)
          /\ Base(p)' = Base(p)
    BY <1>1, <1>2 DEF Owner, Resting, Base
  <1>5. /\ Owner(o)' => Owner(o) /\ l = "paid"
        /\ Owner(o)' => Base(o)' = disk.rev
        /\ Resting(o)' <=> l = "expired"
        /\ l = "paid" => life[o] = "asking" \/ Base(o) = disk.rev
        /\ Owner(o) => life[o] # "asking"
    BY <1>1, <1>2 DEF Owner, Resting, Base
  <1>6. MemNewest'
    BY <1>1, <1>2, <1>3 DEF MemNewest
  <1>7. OwnersApart'
    BY <1>4, <1>5 DEF OwnersApart, Chain
  <1>8. OwnedNotFree'
    BY <1>3, <1>4, <1>5 DEF OwnedNotFree, Chain
  <1>9. GivenBackRests'
    BY <1>3, <1>4, <1>5 DEF GivenBackRests, Chain
  <1>10. QuarantineOver'
    BY <1>4, <1>5 DEF QuarantineOver, Chain
  <1>11. ReleaseInTime'
    BY <1>1, <1>2, NoStateAssumption DEF ReleaseInTime
  <1> QED BY <1>6, <1>7, <1>8, <1>9, <1>10, <1>11 DEF Chain

\* What a call may be when it runs: an order without an index asks for one, a
\* release comes before anybody else had the index, a settlement from its owner.
MayRun(o, what, t, l) ==
    \/ what = "allocate" /\ l \in {"asking", "lost"} /\ ~Owner(o)
    \/ /\ what = "release" /\ l = "expired" /\ expiredAt'[o] <= t
       /\ \A v \in Snaps : disk.rev <= v.rev => Rests(v, idx[o], expiredAt'[o])
       /\ \A p \in Orders \ {o} : idx[p] = idx[o] =>
            ~Owner(p) /\ (Resting(p) => expiredAt[p] <= t)
    \/ what = "settle" /\ l = "paid" /\ Owner(o)

LEMMA RunChain ==
    ASSUME Calls, Chain, NEW o \in Orders, NEW s \in Snaps, Coherent(s),
           \A v \in Snaps : v.rev <= s.rev,
           NEW what, NEW t \in Nat, NEW l, t <= now,
           Run(o, what, s, t, l), MayRun(o, what, t, l),
           pc[o] # "rename", disk' = disk, now' = now,
           expiredAt' \in [Orders -> Nat],
           \A p \in Orders \ {o} : expiredAt'[p] = expiredAt[p]
    PROVE  Chain'
  <1>1. /\ disk.rev \in Nat /\ now \in Nat /\ Quarantine \in Nat
        /\ pc \in [Orders -> {"idle", "load", "loaded", "rename"}]
        /\ buf \in [Orders -> Snapshot] /\ life \in [Orders -> Lives]
        /\ idx \in [Orders -> Nat] /\ expiredAt \in [Orders -> Nat]
        /\ s \in Snapshot /\ s.rev \in Nat
        /\ \A p \in Orders : Base(p) \in Nat
        /\ disk \in Snaps
    BY CallsTyped DEF Snaps
  <1>2. \A p \in Orders :
          /\ Owner(p) => NotFree(s, idx[p])
          /\ Resting(p) => Rests(s, idx[p], expiredAt[p])
    <2>1. \A p \in Orders : Owner(p) => Base(p) <= s.rev
      <3> SUFFICES ASSUME NEW p \in Orders, Owner(p) PROVE Base(p) <= s.rev
        OBVIOUS
      <3>1. CASE life[p] = "asking"
        BY <3>1 DEF Owner, Base, Snaps
      <3>2. CASE life[p] # "asking"
        BY <1>1, <3>2 DEF Base
      <3> QED BY <3>1, <3>2
    <2> QED BY <1>1, <2>1 DEF Chain, OwnedNotFree, GivenBackRests
  <1>3. CASE what = "allocate"
    <2>1. RunAllocate(o, s, t, l) /\ l \in {"asking", "lost"}
      BY <1>3 DEF Run, MayRun
    <2>2. CASE idx' = [idx EXCEPT ![o] = s.next] /\ Persist(o, TakeFresh(s), l)
      <3>1. TakeFresh(s) \in Snapshot /\ s.next \in Nat
        BY <1>1, TakeFreshCoherent
      <3>2. /\ idx' \in [Orders -> Nat] /\ idx'[o] = s.next
            /\ \A p \in Orders \ {o} : idx'[p] = idx[p]
        BY <1>1, <2>2, <3>1
      <3>3. TakeFresh(s).rev = s.rev + 1 /\ NotFree(TakeFresh(s), s.next)
        BY <1>1, TakeFreshKeeps
      <3>4. \A p \in Orders \ {o} :
              /\ Owner(p) => NotFree(TakeFresh(s), idx[p]) /\ idx[p] # s.next
              /\ Resting(p) => Rests(TakeFresh(s), idx[p], expiredAt[p])
                               /\ idx[p] # s.next
        BY <1>1, <1>2, TakeFreshKeeps
      <3> QED BY <2>1, <2>2, <3>1, <3>2, <3>3, <3>4, PersistChain
    <2>3. ASSUME NEW r \in FirstReady(s, t), idx' = [idx EXCEPT ![o] = r.index],
                 Persist(o, TakeReclaimed(s, r), l)
          PROVE  Chain'
      <3>1. r \in s.reclaimed /\ r.at + Quarantine <= t
        BY DEF FirstReady, Ready
      <3>2. TakeReclaimed(s, r) \in Snapshot /\ r.index \in Nat /\ r.at \in Nat
        BY <1>1, <3>1, TakeReclaimedCoherent DEF Snapshot, Reclaimed
      <3>3. /\ idx' \in [Orders -> Nat] /\ idx'[o] = r.index
            /\ \A p \in Orders \ {o} : idx'[p] = idx[p]
        BY <1>1, <2>3, <3>2
      <3>4. /\ TakeReclaimed(s, r).rev = s.rev + 1
            /\ NotFree(TakeReclaimed(s, r), r.index)
        BY <1>1, <3>1, TakeReclaimedKeeps
      <3>5. \A p \in Orders \ {o} :
              /\ Owner(p) => NotFree(TakeReclaimed(s, r), idx[p]) /\ idx[p] # r.index
              /\ Resting(p) => Rests(TakeReclaimed(s, r), idx[p], expiredAt[p])
                               /\ (idx[p] = r.index => expiredAt[p] <= r.at)
        BY <1>1, <1>2, <3>1, TakeReclaimedKeeps
      <3>6. \A p \in Orders \ {o} : idx[p] = r.index =>
              ~Owner(p) /\ (Resting(p) => expiredAt[p] + Quarantine <= now)
        BY <1>1, <3>1, <3>2, <3>5
      <3> QED BY <2>1, <2>3, <3>2, <3>3, <3>4, <3>5, <3>6, PersistChain
    <2> QED BY <2>1, <2>2, <2>3 DEF RunAllocate
  <1>4. CASE what = "release"
    <2>1. /\ RunRelease(o, s, t, l) /\ idx' = idx /\ l = "expired"
          /\ expiredAt'[o] <= t /\ expiredAt'[o] \in Nat
          /\ \A v \in Snaps : disk.rev <= v.rev => Rests(v, idx[o], expiredAt'[o])
          /\ \A p \in Orders \ {o} : idx[p] = idx[o] =>
               ~Owner(p) /\ (Resting(p) => expiredAt[p] <= t)
      BY <1>4 DEF Run, RunRelease, MayRun
    <2>2. CASE idx[o] \in s.issued
      <3> DEFINE u == GiveBack(s, idx[o], t)
      <3> HIDE DEF u
      <3>1. Persist(o, u, l)
        BY <2>1, <2>2 DEF RunRelease, u
      <3>2. u \in Snapshot /\ u.rev = s.rev + 1
        BY <1>1, <2>2, GiveBackCoherent, GiveBackKeeps DEF u
      <3>3. Rests(s, idx[o], expiredAt'[o])
        BY <1>1, <2>1
      <3>4. Rests(u, idx[o], expiredAt'[o])
        BY <1>1, <2>1, <3>3, GiveBackKeeps DEF u
      <3>5. \A p \in Orders \ {o} :
              /\ Owner(p) => NotFree(u, idx[p])
              /\ Resting(p) => Rests(u, idx[p], expiredAt[p])
        BY <1>1, <1>2, <2>1, GiveBackKeeps DEF u
      <3> QED BY <1>1, <2>1, <3>1, <3>2, <3>4, <3>5, PersistChain
    <2>3. CASE idx[o] \notin s.issued
      <3>1. ReturnFalse(o, s, l)
        BY <2>1, <2>3 DEF RunRelease
      <3> QED BY <2>1, <3>1, ReturnFalseChain
    <2> QED BY <2>2, <2>3
  <1>5. CASE what = "settle"
    <2>1. /\ RunSettle(o, s, l) /\ idx' = idx /\ l = "paid" /\ Owner(o)
      BY <1>5 DEF Run, RunSettle, MayRun
    <2>2. CASE idx[o] \in s.issued
      <3> DEFINE u == Retire(s, idx[o])
      <3> HIDE DEF u
      <3>1. Persist(o, u, l)
        BY <2>1, <2>2 DEF RunSettle, u
      <3>2. u \in Snapshot /\ u.rev = s.rev + 1
        BY <1>1, <2>2, RetireCoherent, RetireKeeps DEF u
      <3>3. \A p \in Orders :
              /\ Owner(p) => NotFree(u, idx[p])
              /\ Resting(p) => Rests(u, idx[p], expiredAt[p])
        BY <1>1, <1>2, RetireKeeps DEF u
      <3>4. \A p \in Orders \ {o} : idx[p] = idx[o] =>
              ~Owner(p) /\ (Resting(p) => expiredAt[p] + Quarantine <= now)
        BY <2>1 DEF Chain, OwnersApart, QuarantineOver
      <3>5. \A v \in Snaps : disk.rev <= v.rev => NotFree(v, idx[o])
        <4>1. Base(o) = disk.rev
          BY <1>1, <2>1 DEF Owner, Base
        <4> QED BY <2>1, <4>1 DEF Chain, OwnedNotFree
      <3> QED BY <1>1, <2>1, <3>1, <3>2, <3>3, <3>4, <3>5, PersistChain
    <2>3. CASE idx[o] \notin s.issued
      <3>1. ReturnFalse(o, s, l)
        BY <2>1, <2>3 DEF RunSettle
      <3> QED BY <2>1, <3>1, ReturnFalseChain
    <2> QED BY <2>2, <2>3
  <1> QED BY <1>3, <1>4, <1>5 DEF MayRun

(***************************************************************************)
(* CallsFit and BeforeLoad hold whatever races.                            *)
(***************************************************************************)
LEMMA RunFits ==
    ASSUME Calls, NEW o \in Orders, NEW s \in Snapshot,
           NEW what, NEW t \in Nat, NEW l, Run(o, what, s, t, l),
           \/ what = "allocate" /\ l \in {"asking", "lost"}
           \/ what = "release" /\ l = "expired"
           \/ what = "settle" /\ l = "paid"
    PROVE  /\ mem' # NoState
           /\ pc'[o] \in {"rename", "idle"}
           /\ pc'[o] = "rename" => life'[o] = l
           /\ \A p \in Orders \ {o} : /\ pc'[p] = pc[p] /\ life'[p] = life[p]
                                      /\ idx'[p] = idx[p] /\ buf'[p] = buf[p]
           /\ l # "asking" /\ l # "lost" => idx' = idx
  <1>1. /\ pc \in [Orders -> {"idle", "load", "loaded", "rename"}]
        /\ life \in [Orders -> Lives] /\ idx \in [Orders -> Nat]
        /\ buf \in [Orders -> Snapshot]
    BY CallsTyped
  <1>2. ASSUME NEW u, Persist(o, u, l)
        PROVE  /\ mem' = u /\ pc'[o] = "rename" /\ life'[o] = l
               /\ \A p \in Orders \ {o} : /\ pc'[p] = pc[p] /\ life'[p] = life[p]
                                          /\ buf'[p] = buf[p]
    BY <1>1, <1>2 DEF Persist
  <1>3. ASSUME ReturnFalse(o, s, l)
        PROVE  /\ mem' = s /\ pc'[o] = "idle"
               /\ \A p \in Orders \ {o} : /\ pc'[p] = pc[p] /\ life'[p] = life[p]
                                          /\ buf'[p] = buf[p]
    BY <1>1, <1>3 DEF ReturnFalse
  <1>4. \A u \in {TakeFresh(s), GiveBack(s, idx[o], t), Retire(s, idx[o])}
             \cup {TakeReclaimed(s, r) : r \in s.reclaimed} :
          u # NoState
    <2>1. NoState \notin Snapshot
      BY NoStateAssumption
    <2>2. idx[o] \in Nat
      BY <1>1
    <2>3. TakeFresh(s) \in Snapshot
      BY DEF TakeFresh, Snapshot
    <2>4. GiveBack(s, idx[o], t) \in Snapshot
      BY <2>2 DEF GiveBack, Snapshot, Reclaimed
    <2>5. Retire(s, idx[o]) \in Snapshot
      BY DEF Retire, Snapshot
    <2>6. \A r \in s.reclaimed : TakeReclaimed(s, r) \in Snapshot
      BY DEF TakeReclaimed, Snapshot, Reclaimed
    <2> QED BY <2>1, <2>3, <2>4, <2>5, <2>6
  <1>5. CASE what = "allocate"
    <2>1. RunAllocate(o, s, t, l)
      BY <1>5 DEF Run
    <2>2. \A r \in FirstReady(s, t) : r \in s.reclaimed
      BY DEF FirstReady, Ready
    <2>3. \A p \in Orders \ {o} : idx'[p] = idx[p]
      BY <1>1, <2>1 DEF RunAllocate
    <2> QED BY <1>2, <1>4, <1>5, <2>1, <2>2, <2>3 DEF RunAllocate
  <1>6. CASE what = "release"
    <2>1. RunRelease(o, s, t, l)
      BY <1>6 DEF Run
    <2> QED BY <1>2, <1>3, <1>4, <2>1, NoStateAssumption DEF RunRelease
  <1>7. CASE what = "settle"
    <2>1. RunSettle(o, s, l)
      BY <1>7 DEF Run
    <2> QED BY <1>2, <1>3, <1>4, <2>1, NoStateAssumption DEF RunSettle
  <1> QED BY <1>5, <1>6, <1>7

\* What entering does to the call and to the order, with or without a state.
LEMMA EnterFits ==
    ASSUME Calls, NEW o \in Orders, NEW what, NEW l, Enter(o, what, l),
           \/ what = "allocate" /\ l \in {"asking", "lost"}
           \/ what = "release" /\ l = "expired"
           \/ what = "settle" /\ l = "paid",
           expiredAt' \in [Orders -> Nat], \A p \in Orders : expiredAt'[p] <= now
    PROVE  CallsFit' /\ BeforeLoad'
  <1>1. /\ pc \in [Orders -> {"idle", "load", "loaded", "rename"}]
        /\ op \in [Orders -> {"allocate", "release", "settle"}]
        /\ at \in [Orders -> Nat] /\ life \in [Orders -> Lives] /\ now \in Nat
        /\ CallsFit /\ BeforeLoad
        /\ mem # NoState => mem \in Snapshot
    BY CallsTyped DEF Calls
  <1>2. op'[o] = what /\ at'[o] = now /\ disk' = disk /\ now' = now
        /\ \A p \in Orders \ {o} : op'[p] = op[p] /\ at'[p] = at[p]
    BY <1>1 DEF Enter
  <1>3. CASE mem = NoState /\ pc' = [pc EXCEPT ![o] = "load"]
             /\ life' = [life EXCEPT ![o] = l] /\ UNCHANGED <<mem, buf, idx>>
    <2>1. /\ pc'[o] = "load" /\ life'[o] = l
          /\ \A p \in Orders \ {o} : pc'[p] = pc[p] /\ life'[p] = life[p]
      BY <1>1, <1>3
    <2>2. CallsFit'
      BY <1>1, <1>2, <2>1 DEF CallsFit
    <2>3. BeforeLoad'
      BY <1>1, <1>2, <1>3, <2>1 DEF BeforeLoad
    <2> QED BY <2>2, <2>3
  <1>4. CASE mem # NoState /\ Run(o, what, mem, now, l)
    <2>1. /\ mem' # NoState /\ pc'[o] \in {"rename", "idle"}
          /\ pc'[o] = "rename" => life'[o] = l
          /\ \A p \in Orders \ {o} : pc'[p] = pc[p] /\ life'[p] = life[p]
      BY <1>1, <1>4, RunFits
    <2>2. CallsFit'
      BY <1>1, <1>2, <2>1 DEF CallsFit
    <2>3. BeforeLoad'
      BY <2>1 DEF BeforeLoad
    <2> QED BY <2>2, <2>3
  <1> QED BY <1>3, <1>4 DEF Enter

LEMMA StepFits == Calls /\ Next => CallsFit' /\ BeforeLoad'
  <1> SUFFICES ASSUME Calls, Next PROVE CallsFit' /\ BeforeLoad'
    OBVIOUS
  <1>0. /\ pc \in [Orders -> {"idle", "load", "loaded", "rename"}]
        /\ op \in [Orders -> {"allocate", "release", "settle"}]
        /\ at \in [Orders -> Nat] /\ life \in [Orders -> Lives] /\ now \in Nat
        /\ buf \in [Orders -> Snapshot] /\ expiredAt \in [Orders -> Nat]
        /\ CallsFit /\ BeforeLoad
    BY CallsTyped DEF Calls
  <1>1. ASSUME NEW o \in Orders, Allocate(o) PROVE CallsFit' /\ BeforeLoad'
    BY <1>0, <1>1, EnterFits DEF Allocate, CallsFit
  <1>2. ASSUME NEW o \in Orders, Release(o) PROVE CallsFit' /\ BeforeLoad'
    <2>1. expiredAt' \in [Orders -> Nat] /\ \A p \in Orders : expiredAt'[p] <= now
      BY <1>0, <1>2 DEF Release, CallsFit
    <2> QED BY <1>2, <2>1, EnterFits DEF Release
  <1>3. ASSUME NEW o \in Orders, Settle(o) PROVE CallsFit' /\ BeforeLoad'
    BY <1>0, <1>3, EnterFits DEF Settle, CallsFit
  <1>4. ASSUME NEW o \in Orders, ReadFile(o) PROVE CallsFit' /\ BeforeLoad'
    <2>1. CallsFit'
      BY <1>0, <1>4 DEF ReadFile, CallsFit
    <2>2. BeforeLoad'
      BY <1>0, <1>4 DEF ReadFile, BeforeLoad
    <2> QED BY <2>1, <2>2
  <1>5. ASSUME NEW o \in Orders, Resume(o) PROVE CallsFit' /\ BeforeLoad'
    <2>1. /\ pc[o] = "loaded" /\ buf[o] \in Snapshot /\ at[o] \in Nat
          /\ Run(o, op[o], buf[o], at[o], life[o])
          /\ UNCHANGED <<disk, now, op, at, expiredAt>>
      BY <1>0, <1>5 DEF Resume
    <2>2. \/ op[o] = "allocate" /\ life[o] \in {"asking", "lost"}
          \/ op[o] = "release" /\ life[o] = "expired"
          \/ op[o] = "settle" /\ life[o] = "paid"
      BY <1>0, <2>1 DEF CallsFit
    <2>3. /\ mem' # NoState /\ pc'[o] \in {"rename", "idle"}
          /\ pc'[o] = "rename" => life'[o] = life[o]
          /\ \A p \in Orders \ {o} : pc'[p] = pc[p] /\ life'[p] = life[p]
      BY <2>1, <2>2, RunFits
    <2>4. CallsFit'
      BY <1>0, <2>1, <2>2, <2>3 DEF CallsFit
    <2>5. BeforeLoad'
      BY <2>3 DEF BeforeLoad
    <2> QED BY <2>4, <2>5
  <1>6. ASSUME NEW o \in Orders, Rename(o) PROVE CallsFit' /\ BeforeLoad'
    <2>1. CallsFit'
      BY <1>0, <1>6 DEF Rename, CallsFit
    <2>2. BeforeLoad'
      BY <1>0, <1>6 DEF Rename, BeforeLoad
    <2> QED BY <2>1, <2>2
  <1>7. ASSUME NEW o \in Orders, Fail(o) PROVE CallsFit' /\ BeforeLoad'
    <2>1. CallsFit'
      BY <1>0, <1>7 DEF Fail, CallsFit
    <2>2. BeforeLoad'
      BY <1>0, <1>7 DEF Fail, BeforeLoad
    <2> QED BY <2>1, <2>2
  <1>8. ASSUME NEW o \in Orders, HangUp(o) PROVE CallsFit' /\ BeforeLoad'
    <2>1. CallsFit'
      BY <1>0, <1>8 DEF HangUp, CallsFit
    <2>2. BeforeLoad'
      BY <1>0, <1>8 DEF HangUp, BeforeLoad
    <2> QED BY <2>1, <2>2
  <1>9. CASE Crash
    BY <1>0, <1>9 DEF Crash, CallsFit, BeforeLoad
  <1>10. CASE Tick
    <2>1. CallsFit'
      BY <1>0, <1>10 DEF Tick, CallsFit
    <2>2. BeforeLoad'
      BY <1>0, <1>10 DEF Tick, BeforeLoad
    <2> QED BY <2>1, <2>2
  <1>11. CASE Quiet
    BY <1>0, <1>11 DEF Quiet, vars, CallsFit, BeforeLoad
  <1> QED BY <1>1, <1>2, <1>3, <1>4, <1>5, <1>6, <1>7, <1>8, <1>9, <1>10, <1>11
          DEF Next

(***************************************************************************)
(* The chain is kept, step by step, as long as no race happens.            *)
(***************************************************************************)
\* An action that takes orders from the owners and snapshots away, and may move
\* the file on, but brings none.
Fewer ==
    /\ Snaps' \subseteq Snaps
    /\ disk.rev <= disk'.rev /\ now <= now'
    /\ idx' = idx /\ expiredAt' = expiredAt
    /\ mem' = mem \/ mem' = NoState
    /\ \A p \in Orders : Resting(p)' <=> Resting(p)
    /\ \A p \in Orders : Owner(p)' =>
         /\ Owner(p)
         /\ \/ Base(p)' = Base(p)
            \/ Base(p)' = disk'.rev /\ Base(p) = disk.rev
            \/ Base(p)' = disk'.rev /\ buf[p] = disk'
    /\ mem' = NoState =>
         \A o \in Orders : pc'[o] \in {"load", "loaded"} /\ op'[o] = "release" =>
           /\ mem = NoState /\ pc[o] \in {"load", "loaded"}
           /\ op[o] = "release" /\ at'[o] = at[o]

LEMMA FewerChain ==
    ASSUME Calls, Chain, Calls', Fewer
    PROVE  Chain'
  <1> USE DEF Fewer
  <1>1. /\ disk.rev \in Nat /\ disk'.rev \in Nat /\ now \in Nat /\ now' \in Nat
        /\ Quarantine \in Nat /\ expiredAt \in [Orders -> Nat]
        /\ \A v \in Snaps : v.rev \in Nat
        /\ \A p \in Orders : Base(p) \in Nat /\ buf[p].rev \in Nat
    <2>1. disk' \in Snapshot /\ now' \in Nat
      BY DEF Calls, Shaped, TypeOK
    <2> QED BY <2>1, CallsTyped DEF Snapshot
  <1>2. MemNewest'
    BY DEF MemNewest, Chain
  <1>3. OwnersApart'
    BY DEF OwnersApart, Chain
  <1>4. OwnedNotFree'
    <2> SUFFICES ASSUME NEW p \in Orders, Owner(p)', NEW v \in Snaps', Base(p)' <= v.rev
                 PROVE  NotFree(v, idx[p])
      BY DEF OwnedNotFree, NotFree, InReclaimed
    <2>1. Owner(p) /\ v \in Snaps /\ v.rev \in Nat
      BY <1>1
    <2>2. Base(p) <= v.rev
      <3>1. CASE Base(p)' = Base(p)
        BY <3>1
      <3>2. CASE Base(p)' = disk'.rev /\ Base(p) = disk.rev
        BY <1>1, <2>1, <3>2
      <3>3. CASE Base(p)' = disk'.rev /\ buf[p] = disk'
        BY <1>1, <2>1, <3>3 DEF Base
      <3> QED BY <3>1, <3>2, <3>3
    <2> QED BY <2>1, <2>2 DEF Chain, OwnedNotFree
  <1>5. GivenBackRests'
    BY <1>1 DEF GivenBackRests, Chain
  <1>6. QuarantineOver'
    BY <1>1 DEF QuarantineOver, Chain
  <1>7. ReleaseInTime'
    BY DEF ReleaseInTime, Chain
  <1> QED BY <1>2, <1>3, <1>4, <1>5, <1>6, <1>7 DEF Chain

\* What a call starts from is the newest snapshot there is.
LEMMA StartsFromNewest ==
    ASSUME Calls, Chain
    PROVE  /\ mem # NoState => mem \in Snaps /\ \A v \in Snaps : v.rev <= mem.rev
           /\ mem = NoState => Snaps = {disk}
  <1>1. mem # NoState => mem \in Snapshot
    BY CallsTyped
  <1>2. mem = NoState => \A q \in Orders : pc[q] # "rename"
    BY DEF Calls, BeforeLoad
  <1> QED BY <1>1, <1>2, NoStateAssumption DEF Snaps, Chain, MemNewest

LEMMA EnterChain ==
    ASSUME Calls, Chain, NEW o \in Orders, NEW what, NEW l, Enter(o, what, l),
           MayRun(o, what, now, l), expiredAt' \in [Orders -> Nat],
           \A p \in Orders \ {o} : expiredAt'[p] = expiredAt[p],
           l \in {"asking", "lost", "expired", "paid"},
           what = "release" =>
             Owner(o) \/ (Resting(o) /\ expiredAt'[o] = expiredAt[o])
    PROVE  Chain'
  <1>1. /\ disk.rev \in Nat /\ now \in Nat /\ Quarantine \in Nat
        /\ pc \in [Orders -> {"idle", "load", "loaded", "rename"}]
        /\ op \in [Orders -> {"allocate", "release", "settle"}]
        /\ at \in [Orders -> Nat] /\ buf \in [Orders -> Snapshot]
        /\ life \in [Orders -> Lives] /\ idx \in [Orders -> Nat]
        /\ expiredAt \in [Orders -> Nat]
        /\ \A v \in Snaps : v \in Snapshot /\ v.rev \in Nat
        /\ \A p \in Orders : Base(p) \in Nat
        /\ pc[o] = "idle" /\ disk' = disk /\ now' = now
    BY CallsTyped DEF Enter
  <1>2. CASE mem # NoState /\ Run(o, what, mem, now, l)
    <2>1. mem \in Snaps /\ (\A v \in Snaps : v.rev <= mem.rev) /\ Coherent(mem)
      BY <1>2, StartsFromNewest DEF Calls, Shaped, SnapshotsCoherent
    <2>2. now <= now
      BY <1>1
    <2> QED BY <1>1, <1>2, <2>1, <2>2, RunChain
  <1>3. CASE mem = NoState /\ pc' = [pc EXCEPT ![o] = "load"]
             /\ life' = [life EXCEPT ![o] = l] /\ UNCHANGED <<mem, buf, idx>>
    <2>1. /\ op' = [op EXCEPT ![o] = what] /\ at' = [at EXCEPT ![o] = now]
      BY DEF Enter
    <2>2. Snaps' = Snaps /\ Snaps = {disk}
      <3>1. Snaps = {disk}
        BY <1>3, StartsFromNewest
      <3>2. \A q \in Orders : pc'[q] # "rename"
        BY <1>1, <1>3 DEF Calls, BeforeLoad
      <3>3. Snaps' = {disk}
        BY <1>1, <1>3, <3>2, NoStateAssumption DEF Snaps
      <3> QED BY <3>1, <3>3
    <2>3. \A p \in Orders \ {o} :
            /\ Owner(p)' <=> Owner(p)
            /\ Resting(p)' <=> Resting(p)
            /\ Base(p)' = Base(p)
      BY <1>1, <1>3 DEF Owner, Resting, Base
    <2>4. /\ Owner(o)' <=> l = "paid"
          /\ Resting(o)' <=> l = "expired"
          /\ l = "paid" => Owner(o) /\ Base(o)' = disk.rev
          /\ life[o] # "asking" /\ Owner(o) => Base(o) = disk.rev
          /\ Owner(o) => life[o] # "asking"
      BY <1>1, <1>3 DEF Owner, Resting, Base, MayRun
    <2>5. MemNewest'
      BY <1>3 DEF MemNewest
    <2>6. OwnersApart'
      BY <1>3, <2>3, <2>4 DEF OwnersApart, Chain
    <2>7. OwnedNotFree'
      BY <1>1, <1>3, <2>2, <2>3, <2>4 DEF OwnedNotFree, Chain
    <2>8. GivenBackRests'
      BY <1>1, <1>3, <2>2, <2>3, <2>4 DEF GivenBackRests, Chain, MayRun
    <2>9. QuarantineOver'
      <3> SUFFICES ASSUME NEW q \in Orders, NEW p \in Orders, Resting(q)', Owner(p)',
                          idx[q] = idx[p]
                   PROVE  expiredAt'[q] + Quarantine <= now
        BY <1>1, <1>3 DEF QuarantineOver
      <3>1. CASE q # o
        BY <2>3, <2>4, <3>1 DEF Chain, QuarantineOver
      <3>2. CASE q = o
        BY <2>3, <2>4, <3>2 DEF MayRun
      <3> QED BY <3>1, <3>2
    <2>10. ReleaseInTime'
      <3> SUFFICES ASSUME NEW q \in Orders, pc'[q] \in {"load", "loaded"},
                          op'[q] = "release", NEW p \in Orders, idx[p] = idx[q]
                   PROVE  ~Owner(p)' /\ (Resting(p)' => expiredAt'[p] <= at'[q])
        BY <1>3 DEF ReleaseInTime
      <3>1. CASE q = o
        BY <1>1, <2>1, <2>3, <2>4, <3>1 DEF MayRun
      <3>2. CASE q # o
        <4>1. pc[q] \in {"load", "loaded"} /\ op[q] = "release" /\ at'[q] = at[q]
          BY <1>1, <1>3, <2>1, <3>2
        <4>2. ~Owner(p) /\ (Resting(p) => expiredAt[p] <= at[q])
          BY <1>3, <4>1 DEF Chain, ReleaseInTime
        <4>3. CASE p # o
          BY <2>3, <4>1, <4>2, <4>3
        <4>4. CASE p = o
          BY <1>1, <2>1, <2>4, <4>1, <4>2, <4>4 DEF MayRun
        <4> QED BY <4>3, <4>4
      <3> QED BY <3>1, <3>2
    <2> QED BY <2>5, <2>6, <2>7, <2>8, <2>9, <2>10 DEF Chain
  <1> QED BY <1>2, <1>3 DEF Enter

LEMMA ReleaseChain ==
    ASSUME Calls, Chain, NEW o \in Orders, Release(o)
    PROVE  Chain'
  <1>1. /\ disk.rev \in Nat /\ now \in Nat /\ Quarantine \in Nat
        /\ expiredAt \in [Orders -> Nat] /\ idx \in [Orders -> Nat]
        /\ CallsFit /\ Enter(o, "release", "expired")
    BY CallsTyped DEF Calls, Release
  <1>2. CASE life[o] = "live" /\ expiredAt' = [expiredAt EXCEPT ![o] = now]
    <2>1. Owner(o) /\ Base(o) = disk.rev
      BY <1>2 DEF Owner, Base
    <2>2. \A v \in Snaps : disk.rev <= v.rev => Rests(v, idx[o], expiredAt'[o])
      BY <2>1, NotFreeRests DEF Chain, OwnedNotFree
    <2>3. \A p \in Orders \ {o} : idx[p] = idx[o] =>
            ~Owner(p) /\ (Resting(p) => expiredAt[p] <= now)
      BY <1>1, <2>1 DEF Chain, OwnersApart, CallsFit
    <2>4. expiredAt'[o] = now /\ expiredAt' \in [Orders -> Nat]
          /\ \A p \in Orders \ {o} : expiredAt'[p] = expiredAt[p]
      BY <1>1, <1>2
    <2>5. MayRun(o, "release", now, "expired")
      BY <1>1, <2>2, <2>3, <2>4 DEF MayRun
    <2> QED BY <1>1, <2>1, <2>4, <2>5, EnterChain
  <1>3. CASE life[o] = "expired" /\ now < expiredAt[o] + Quarantine
             /\ expiredAt' = expiredAt
    <2>1. Resting(o)
      BY <1>3 DEF Resting
    <2>2. \A v \in Snaps : disk.rev <= v.rev => Rests(v, idx[o], expiredAt'[o])
      BY <1>3, <2>1 DEF Chain, GivenBackRests
    <2>3. \A p \in Orders \ {o} : idx[p] = idx[o] =>
            ~Owner(p) /\ (Resting(p) => expiredAt[p] <= now)
      BY <1>1, <1>3, <2>1 DEF Chain, QuarantineOver, CallsFit
    <2>4. MayRun(o, "release", now, "expired")
      BY <1>1, <1>3, <2>2, <2>3 DEF MayRun, CallsFit
    <2> QED BY <1>1, <1>3, <2>1, <2>4, EnterChain
  <1> QED BY <1>2, <1>3 DEF Release

LEMMA ResumeChain ==
    ASSUME Calls, Chain, NEW o \in Orders, Resume(o), ~overwrote'
    PROVE  Chain'
  <1>1. /\ pc[o] = "loaded" /\ mem = NoState
        /\ Run(o, op[o], buf[o], at[o], life[o])
        /\ UNCHANGED <<disk, now, expiredAt>>
    BY DEF Resume
  <1>2. /\ buf[o] = disk /\ Snaps = {disk} /\ disk.rev \in Nat
        /\ Coherent(disk) /\ expiredAt \in [Orders -> Nat] /\ at[o] \in Nat
        /\ CallsFit
    BY <1>1, CallsTyped, StartsFromNewest
       DEF Calls, BeforeLoad, Shaped, SnapshotsCoherent
  <1>3. MayRun(o, op[o], at[o], life[o])
    <2>1. CASE op[o] = "allocate" /\ life[o] \in {"asking", "lost"}
      BY <1>1, <2>1 DEF MayRun, Owner
    <2>2. CASE op[o] = "release" /\ life[o] = "expired"
      <3>1. Resting(o)
        BY <2>2 DEF Resting
      <3>2. expiredAt[o] <= at[o]
        BY <1>1, <2>2, <3>1 DEF Chain, ReleaseInTime
      <3>3. \A v \in Snaps : disk.rev <= v.rev => Rests(v, idx[o], expiredAt[o])
        BY <3>1 DEF Chain, GivenBackRests
      <3>4. \A p \in Orders \ {o} : idx[p] = idx[o] =>
              ~Owner(p) /\ (Resting(p) => expiredAt[p] <= at[o])
        BY <1>1, <2>2 DEF Chain, ReleaseInTime
      <3> QED BY <1>1, <2>2, <3>2, <3>3, <3>4 DEF MayRun
    <2>3. CASE op[o] = "settle" /\ life[o] = "paid"
      BY <2>3 DEF MayRun, Owner
    <2> QED BY <1>1, <1>2, <2>1, <2>2, <2>3 DEF CallsFit
  <1>4. at[o] <= now
    BY <1>2 DEF CallsFit
  <1> QED BY <1>1, <1>2, <1>3, <1>4, RunChain

LEMMA StepChain ==
    ASSUME Calls, Chain, Next, Calls', ~overwrote', ~reordered'
    PROVE  Chain'
  <1>0. /\ disk.rev \in Nat /\ now \in Nat /\ now <= now /\ disk.rev <= disk.rev
        /\ pc \in [Orders -> {"idle", "load", "loaded", "rename"}]
        /\ op \in [Orders -> {"allocate", "release", "settle"}]
        /\ at \in [Orders -> Nat] /\ buf \in [Orders -> Snapshot]
        /\ life \in [Orders -> Lives] /\ idx \in [Orders -> Nat]
        /\ expiredAt \in [Orders -> Nat]
        /\ mem # NoState => mem \in Snapshot
        /\ CallsFit /\ BeforeLoad
    BY CallsTyped DEF Calls
  <1>1. ASSUME NEW o \in Orders, Allocate(o) PROVE Chain'
    <2>1. ~Owner(o) /\ expiredAt' = expiredAt /\ Enter(o, "allocate", "asking")
      BY <1>1 DEF Allocate, Owner
    <2>2. MayRun(o, "allocate", now, "asking")
      BY <2>1 DEF MayRun
    <2> QED BY <1>0, <2>1, <2>2, EnterChain
  <1>2. ASSUME NEW o \in Orders, Release(o) PROVE Chain'
    BY <1>2, ReleaseChain
  <1>3. ASSUME NEW o \in Orders, Settle(o) PROVE Chain'
    <2>1. Owner(o) /\ expiredAt' = expiredAt /\ Enter(o, "settle", "paid")
      BY <1>3 DEF Settle, Owner
    <2>2. MayRun(o, "settle", now, "paid")
      BY <2>1 DEF MayRun
    <2> QED BY <1>0, <2>1, <2>2, EnterChain
  <1>4. ASSUME NEW o \in Orders, ReadFile(o) PROVE Chain'
    <2>1. Snaps' \subseteq Snaps
      BY <1>0, <1>4 DEF ReadFile, Snaps
    <2>2. \A p \in Orders : /\ Owner(p)' => Owner(p) /\ Base(p)' = Base(p)
                            /\ Resting(p)' <=> Resting(p)
      BY <1>0, <1>4 DEF ReadFile, Owner, Resting, Base
    <2>3. \A p \in Orders : pc'[p] \in {"load", "loaded"} => pc[p] \in {"load", "loaded"}
      BY <1>0, <1>4 DEF ReadFile
    <2>9. Fewer
      BY <1>0, <1>4, <2>1, <2>2, <2>3 DEF Fewer, ReadFile
    <2> QED BY <2>9, FewerChain
  <1>5. ASSUME NEW o \in Orders, Resume(o) PROVE Chain'
    BY <1>5, ResumeChain
  <1>6. ASSUME NEW o \in Orders, Rename(o) PROVE Chain'
    <2>1. /\ disk' = buf[o] /\ disk.rev <= disk'.rev /\ mem' = mem /\ mem # NoState
          /\ UNCHANGED <<now, op, at, idx, expiredAt>>
      <3>1. buf[o].rev \in Nat
        BY <1>0 DEF Snapshot
      <3>2. ~(buf[o].rev < disk.rev)
        BY <1>6 DEF Rename
      <3>3. disk' = buf[o] /\ disk.rev <= disk'.rev
        BY <1>0, <1>6, <3>1, <3>2 DEF Rename
      <3>4. mem' = mem /\ UNCHANGED <<now, op, at, idx, expiredAt>>
        BY <1>6 DEF Rename
      <3>5. mem # NoState
        BY <1>0, <1>6 DEF Rename, BeforeLoad
      <3> QED BY <3>3, <3>4, <3>5
    <2>2. Snaps' \subseteq Snaps
      BY <1>0, <1>6 DEF Rename, Snaps
    <2>3. \A p \in Orders \ {o} :
            /\ Owner(p)' <=> Owner(p)
            /\ Resting(p)' <=> Resting(p)
            /\ life[p] = "asking" => Base(p)' = Base(p)
            /\ life[p] # "asking" => Base(p)' = disk'.rev /\ Base(p) = disk.rev
      BY <1>0, <1>6 DEF Rename, Owner, Resting, Base
    <2>4. /\ Owner(o)' => Owner(o) /\ Base(o)' = disk'.rev
          /\ Resting(o)' <=> Resting(o)
      <3>1. life'[o] = Answered(life[o]) /\ life[o] \in {"asking", "lost", "expired", "paid"}
        BY <1>0, <1>6 DEF Rename, CallsFit
      <3>2. /\ Answered("asking") = "live" /\ Answered("lost") = "lost"
            /\ Answered("expired") = "released" /\ Answered("paid") = "settled"
        BY DEF Answered
      <3> QED BY <1>6, <3>1, <3>2 DEF Rename, Owner, Resting, Base
    <2>5. \A p \in Orders :
            /\ Resting(p)' <=> Resting(p)
            /\ Owner(p)' =>
                 /\ Owner(p)
                 /\ \/ Base(p)' = Base(p)
                    \/ Base(p)' = disk'.rev /\ Base(p) = disk.rev
                    \/ Base(p)' = disk'.rev /\ buf[p] = disk'
      BY <2>1, <2>3, <2>4
    <2>6. Fewer
      BY <1>0, <2>1, <2>2, <2>5 DEF Fewer
    <2> QED BY <2>6, FewerChain
  <1>7. ASSUME NEW o \in Orders, Fail(o) PROVE Chain'
    <2>1. Snaps' \subseteq Snaps
      BY <1>0, <1>7 DEF Fail, Snaps
    <2>2. \A p \in Orders : /\ Owner(p)' => Owner(p) /\ Base(p)' = Base(p)
                            /\ Resting(p)' <=> Resting(p)
      BY <1>0, <1>7 DEF Fail, Owner, Resting, Base, Unanswered
    <2>3. \A p \in Orders : pc'[p] \in {"load", "loaded"} => pc[p] \in {"load", "loaded"}
      BY <1>0, <1>7 DEF Fail
    <2>9. Fewer
      BY <1>0, <1>7, <2>1, <2>2, <2>3 DEF Fewer, Fail
    <2> QED BY <2>9, FewerChain
  <1>8. ASSUME NEW o \in Orders, HangUp(o) PROVE Chain'
    <2>1. Snaps' \subseteq Snaps
      BY <1>0, <1>8 DEF HangUp, Snaps
    <2>2. \A p \in Orders : /\ Owner(p)' => Owner(p) /\ Base(p)' = Base(p)
                            /\ Resting(p)' <=> Resting(p)
      BY <1>0, <1>8 DEF HangUp, Owner, Resting, Base
    <2>9. Fewer
      BY <1>0, <1>8, <2>1, <2>2 DEF Fewer, HangUp
    <2> QED BY <2>9, FewerChain
  <1>9. CASE Crash
    <2>1. /\ disk' = disk /\ mem' = NoState /\ UNCHANGED <<now, op, at, idx, expiredAt>>
          /\ \A p \in Orders : pc'[p] = "idle"
      BY <1>9 DEF Crash
    <2>2. Snaps' \subseteq Snaps
      BY <2>1, NoStateAssumption DEF Snaps
    <2>3. \A p \in Orders : /\ Owner(p)' => Owner(p) /\ Base(p)' = Base(p)
                            /\ Resting(p)' <=> Resting(p)
      BY <1>0, <1>9, <2>1 DEF Crash, Owner, Resting, Base, Unanswered
    <2>4. Fewer
      BY <1>0, <2>1, <2>2, <2>3 DEF Fewer
    <2> QED BY <2>4, FewerChain
  <1>10. CASE Tick
    <2>1. now <= now'
      BY <1>0, <1>10 DEF Tick
    <2>2. Snaps' = Snaps
      BY <1>10 DEF Tick, Snaps
    <2>3. \A p \in Orders : /\ Owner(p)' <=> Owner(p)
                            /\ Base(p)' = Base(p)
                            /\ Resting(p)' <=> Resting(p)
      BY <1>10 DEF Tick, Owner, Resting, Base
    <2>9. Fewer
      BY <1>0, <1>10, <2>1, <2>2, <2>3 DEF Fewer, Tick
    <2> QED BY <2>9, FewerChain
  <1>11. CASE Quiet
    BY <1>11 DEF Quiet, vars, Chain, MemNewest, OwnersApart, OwnedNotFree,
                 GivenBackRests, QuarantineOver, ReleaseInTime, Snaps, Owner,
                 Resting, Base
  <1> QED BY <1>1, <1>2, <1>3, <1>4, <1>5, <1>6, <1>7, <1>8, <1>9, <1>10, <1>11
          DEF Next

\* The two races are remembered.
LEMMA RacesStick ==
    ASSUME Shaped, Next, ~overwrote', ~reordered'
    PROVE  ~overwrote /\ ~reordered
  <1>1. overwrote \in BOOLEAN /\ reordered \in BOOLEAN
    BY DEF Shaped, TypeOK
  <1>2. ASSUME NEW o \in Orders, Resume(o) PROVE ~overwrote /\ ~reordered
    BY <1>1, <1>2 DEF Resume
  <1>3. ASSUME NEW o \in Orders, Rename(o) PROVE ~overwrote /\ ~reordered
    BY <1>1, <1>3 DEF Rename
  <1>4. ASSUME NEW o \in Orders, Allocate(o) \/ Release(o) \/ Settle(o)
        PROVE  ~overwrote /\ ~reordered
    BY <1>4 DEF Allocate, Release, Settle, Enter
  <1>5. ASSUME NEW o \in Orders, ReadFile(o) \/ Fail(o) \/ HangUp(o)
        PROVE  ~overwrote /\ ~reordered
    BY <1>5 DEF ReadFile, Fail, HangUp
  <1>6. CASE Crash \/ Tick \/ Quiet
    BY <1>6 DEF Crash, Tick, Quiet, vars
  <1> QED BY <1>2, <1>3, <1>4, <1>5, <1>6 DEF Next

LEMMA StepIInv == IInv /\ [Next]_vars => IInv'
  <1> SUFFICES ASSUME IInv, [Next]_vars PROVE IInv'
    OBVIOUS
  <1>1. CASE Next
    <2>1. Calls'
      BY <1>1, StepShaped, StepFits DEF IInv, Calls
    <2>2. ASSUME ~overwrote', ~reordered' PROVE Chain'
      <3>1. ~overwrote /\ ~reordered
        BY <1>1, <2>2, RacesStick DEF IInv, Calls
      <3> QED BY <1>1, <2>1, <2>2, <3>1, StepChain DEF IInv
    <2> QED BY <2>1, <2>2 DEF IInv
  <1>2. CASE UNCHANGED vars
    <2>1. Calls'
      BY <1>2, StepShaped
         DEF IInv, Calls, CallsFit, BeforeLoad, vars
    <2>2. Chain => Chain'
      BY <1>2 DEF vars, Chain, MemNewest, OwnersApart, OwnedNotFree,
                  GivenBackRests, QuarantineOver, ReleaseInTime, Snaps, Owner,
                  Resting, Base
    <2> QED BY <1>2, <2>1, <2>2 DEF IInv, vars
  <1> QED BY <1>1, <1>2

LEMMA InitIInv == Init => IInv
  <1> SUFFICES ASSUME Init PROVE IInv
    OBVIOUS
  <1>1. Shaped
    BY InitShaped
  <1>2. CallsFit /\ BeforeLoad
    BY DEF Init, CallsFit, BeforeLoad
  <1>3. \A o \in Orders : ~Owner(o) /\ ~Resting(o) /\ pc[o] = "idle"
    BY DEF Init, Owner, Resting
  <1>4. Chain
    BY <1>3 DEF Init, Chain, MemNewest, OwnersApart, OwnedNotFree,
                GivenBackRests, QuarantineOver, ReleaseInTime
  <1> QED BY <1>1, <1>2, <1>4 DEF IInv, Calls

LEMMA AlwaysIInv == Spec => []IInv
  BY InitIInv, StepIInv, PTL DEF Spec

(***************************************************************************)
(* NoOtherRaces: for any number of orders, overlapping calls, errors, hang-*)
(* ups and restarts, two orders come to share an address, or an index      *)
(* comes back before its quarantine, only after the load or the rename of  *)
(* index-state.ts met one of the two races.                                *)
(***************************************************************************)
THEOREM NoOtherRaces == Spec => []OnlyKnownRaces
  <1>1. IInv => OnlyKnownRaces
    <2> SUFFICES ASSUME IInv, ~overwrote, ~reordered
                 PROVE  AddressesExclusive /\ QuarantineRespected
      BY DEF OnlyKnownRaces
    <2>1. OwnersApart /\ QuarantineOver
      BY DEF IInv, Chain
    <2>2. AddressesExclusive
      BY <2>1 DEF AddressesExclusive, OwnersApart, Owner
    <2>3. QuarantineRespected
      BY <2>1 DEF QuarantineRespected, QuarantineOver, Owner, Resting
    <2> QED BY <2>2, <2>3
  <1> QED BY <1>1, AlwaysIInv, PTL

-----------------------------------------------------------------------------
(***************************************************************************)
(* The refinement. The steps that the callers learn of are the ledger's;   *)
(* every other step of the store leaves the ledger as it is.               *)
(***************************************************************************)
\* What the ledger sees of one order.
Holds(o) == IF Told(o) THEN idx[o] ELSE 0
PhaseOf(o) == IF ~Told(o) THEN "none"
              ELSE IF life[o] = "live" THEN "live"
              ELSE IF life[o] \in {"paid", "settled"} THEN "paid"
              ELSE "resting"

LEMMA LedgerSees ==
    /\ Ledger!lvars = <<[o \in Orders |-> Holds(o)], [o \in Orders |-> PhaseOf(o)],
                        expiredAt, now>>
    /\ Ledger!lvars' = <<[o \in Orders |-> Holds(o)'], [o \in Orders |-> PhaseOf(o)'],
                        expiredAt', now'>>
  BY DEF Ledger!lvars, Holds, PhaseOf

\* Nothing that the ledger sees has changed.
LEMMA LedgerRests ==
    ASSUME \A o \in Orders : Holds(o)' = Holds(o) /\ PhaseOf(o)' = PhaseOf(o),
           expiredAt' = expiredAt, now' = now
    PROVE  UNCHANGED Ledger!lvars
  <1>1. /\ [o \in Orders |-> Holds(o)'] = [o \in Orders |-> Holds(o)]
        /\ [o \in Orders |-> PhaseOf(o)'] = [o \in Orders |-> PhaseOf(o)]
    OBVIOUS
  <1> QED BY <1>1, LedgerSees

LEMMA LedgerInit == Init => Ledger!Init
  <1> SUFFICES ASSUME Init PROVE Ledger!Init
    OBVIOUS
  <1>1. \A o \in Orders : ~Told(o)
    BY DEF Init, Told
  <1> QED BY <1>1 DEF Init, Ledger!Init

\* A call that runs for an order that has not been told of an index, or that
\* keeps it, shows the ledger what its caller has already done.
LEMMA RunHolds ==
    ASSUME Calls, NEW o \in Orders, NEW s \in Snapshot,
           NEW what, NEW t \in Nat, NEW l, Run(o, what, s, t, l),
           \/ what = "allocate" /\ l \in {"asking", "lost"}
           \/ what = "release" /\ l = "expired"
           \/ what = "settle" /\ l = "paid"
    PROVE  /\ \A p \in Orders \ {o} : life'[p] = life[p] /\ idx'[p] = idx[p]
           /\ \/ life'[o] = l
              \/ life'[o] = Answered(l) /\ l # "asking" /\ l # "lost"
           /\ l # "asking" /\ l # "lost" => idx' = idx
  <1>1. life \in [Orders -> Lives]
    BY CallsTyped
  <1>2. (\E u : Persist(o, u, l)) \/ (ReturnFalse(o, s, l) /\ l # "asking" /\ l # "lost")
    <2>1. CASE what = "allocate"
      BY <2>1 DEF Run, RunAllocate
    <2>2. CASE what = "release"
      <3>1. RunRelease(o, s, t, l)
        BY <2>2 DEF Run
      <3> QED BY <2>2, <3>1 DEF RunRelease
    <2>3. CASE what = "settle"
      <3>1. RunSettle(o, s, l)
        BY <2>3 DEF Run
      <3> QED BY <2>3, <3>1 DEF RunSettle
    <2> QED BY <2>1, <2>2, <2>3
  <1>3. \/ life'[o] = l
        \/ life'[o] = Answered(l) /\ l # "asking" /\ l # "lost"
    BY <1>1, <1>2 DEF Persist, ReturnFalse
  <1> QED BY <1>3, RunFits

\* One action per step that the ledger knows; the others leave it as it is.
LEMMA AllocateLedger ==
    ASSUME Calls, NEW o \in Orders, Allocate(o)
    PROVE  UNCHANGED Ledger!lvars
  <1>1. /\ life \in [Orders -> Lives] /\ idx \in [Orders -> Nat]
        /\ life[o] = "new" /\ expiredAt' = expiredAt /\ now' = now
        /\ mem # NoState => mem \in Snapshot
        /\ now \in Nat
    BY CallsTyped DEF Allocate, Enter
  <1>2. life'[o] = "asking" /\ \A p \in Orders \ {o} : life'[p] = life[p] /\ idx'[p] = idx[p]
    BY <1>1, RunHolds DEF Allocate, Enter
  <1>3. \A p \in Orders : Holds(p)' = Holds(p) /\ PhaseOf(p)' = PhaseOf(p)
    BY <1>1, <1>2 DEF Holds, PhaseOf, Told
  <1> QED BY <1>1, <1>3, LedgerRests

LEMMA EnterTold ==
    ASSUME Calls, NEW o \in Orders, NEW what, NEW l, Enter(o, what, l),
           \/ what = "release" /\ l = "expired"
           \/ what = "settle" /\ l = "paid"
    PROVE  /\ idx' = idx /\ now' = now
           /\ life'[o] \in {l, Answered(l)}
           /\ \A p \in Orders \ {o} : life'[p] = life[p]
  <1>1. /\ life \in [Orders -> Lives]
        /\ mem # NoState => mem \in Snapshot
        /\ now \in Nat
    BY CallsTyped
  <1>2. CASE mem = NoState /\ life' = [life EXCEPT ![o] = l] /\ UNCHANGED <<mem, buf, idx>>
    BY <1>1, <1>2 DEF Enter
  <1>3. CASE mem # NoState /\ Run(o, what, mem, now, l)
    BY <1>1, <1>3, RunHolds DEF Enter
  <1> QED BY <1>2, <1>3 DEF Enter

LEMMA AnsweredIs ==
    /\ Answered("asking") = "live" /\ Answered("lost") = "lost"
    /\ Answered("expired") = "released" /\ Answered("paid") = "settled"
  BY DEF Answered

LEMMA ReleaseLedger ==
    ASSUME Calls, NEW o \in Orders, Release(o)
    PROVE  Ledger!Expire(o) \/ UNCHANGED Ledger!lvars
  <1>1. /\ life \in [Orders -> Lives] /\ expiredAt \in [Orders -> Nat]
        /\ idx' = idx /\ now' = now /\ life'[o] \in {"expired", "released"}
        /\ \A p \in Orders \ {o} : life'[p] = life[p]
    BY CallsTyped, EnterTold, AnsweredIs DEF Release
  <1>2. /\ \A p \in Orders \ {o} : Holds(p)' = Holds(p) /\ PhaseOf(p)' = PhaseOf(p)
        /\ PhaseOf(o)' = "resting"
    BY <1>1 DEF Holds, PhaseOf, Told
  <1>3. CASE life[o] = "live" /\ expiredAt' = [expiredAt EXCEPT ![o] = now]
    <2>1. Holds(o)' = Holds(o) /\ PhaseOf(o) = "live"
      BY <1>1, <1>3 DEF Holds, PhaseOf, Told
    <2>2. [p \in Orders |-> Holds(p)'] = [p \in Orders |-> Holds(p)]
      BY <1>2, <2>1
    <2>3. [p \in Orders |-> PhaseOf(p)'] =
             [[p \in Orders |-> PhaseOf(p)] EXCEPT ![o] = "resting"]
      BY <1>2, <2>1
    <2> QED BY <1>1, <1>3, <2>1, <2>2, <2>3 DEF Ledger!Expire, Holds, PhaseOf
  <1>4. CASE life[o] = "expired" /\ expiredAt' = expiredAt
    <2>1. Holds(o)' = Holds(o) /\ PhaseOf(o) = "resting"
      BY <1>1, <1>4 DEF Holds, PhaseOf, Told
    <2> QED BY <1>1, <1>2, <1>4, <2>1, LedgerRests
  <1> QED BY <1>3, <1>4 DEF Release

LEMMA SettleLedger ==
    ASSUME Calls, NEW o \in Orders, Settle(o)
    PROVE  Ledger!Pay(o) \/ UNCHANGED Ledger!lvars
  <1>1. /\ life \in [Orders -> Lives] /\ expiredAt' = expiredAt
        /\ idx' = idx /\ now' = now /\ life'[o] \in {"paid", "settled"}
        /\ \A p \in Orders \ {o} : life'[p] = life[p]
        /\ life[o] \in {"live", "paid"}
    BY CallsTyped, EnterTold, AnsweredIs DEF Settle
  <1>2. /\ \A p \in Orders \ {o} : Holds(p)' = Holds(p) /\ PhaseOf(p)' = PhaseOf(p)
        /\ PhaseOf(o)' = "paid" /\ Holds(o)' = Holds(o)
    BY <1>1 DEF Holds, PhaseOf, Told
  <1>3. CASE life[o] = "live"
    <2>1. PhaseOf(o) = "live"
      BY <1>3 DEF PhaseOf, Told
    <2>2. [p \in Orders |-> Holds(p)'] = [p \in Orders |-> Holds(p)]
      BY <1>2
    <2>3. [p \in Orders |-> PhaseOf(p)'] =
             [[p \in Orders |-> PhaseOf(p)] EXCEPT ![o] = "paid"]
      BY <1>2
    <2> QED BY <1>1, <2>1, <2>2, <2>3 DEF Ledger!Pay, Holds, PhaseOf
  <1>4. CASE life[o] = "paid"
    <2>1. PhaseOf(o) = "paid"
      BY <1>4 DEF PhaseOf, Told
    <2> QED BY <1>1, <1>2, <2>1, LedgerRests
  <1> QED BY <1>1, <1>3, <1>4

LEMMA ResumeLedger ==
    ASSUME Calls, NEW o \in Orders, Resume(o)
    PROVE  UNCHANGED Ledger!lvars
  <1>1. /\ life \in [Orders -> Lives] /\ idx \in [Orders -> Nat]
        /\ buf[o] \in Snapshot /\ at[o] \in Nat
        /\ expiredAt' = expiredAt /\ now' = now
        /\ Run(o, op[o], buf[o], at[o], life[o]) /\ pc[o] = "loaded"
    BY CallsTyped DEF Resume
  <1>2. \/ op[o] = "allocate" /\ life[o] \in {"asking", "lost"}
        \/ op[o] = "release" /\ life[o] = "expired"
        \/ op[o] = "settle" /\ life[o] = "paid"
    BY <1>1 DEF Calls, CallsFit
  <1>3. /\ \A p \in Orders \ {o} : life'[p] = life[p] /\ idx'[p] = idx[p]
        /\ \/ life'[o] = life[o]
           \/ life'[o] = Answered(life[o]) /\ life[o] \in {"expired", "paid"}
        /\ life[o] # "asking" /\ life[o] # "lost" => idx' = idx
    BY <1>1, <1>2, RunHolds
  <1>4. \A p \in Orders : Holds(p)' = Holds(p) /\ PhaseOf(p)' = PhaseOf(p)
    BY <1>1, <1>2, <1>3, AnsweredIs DEF Holds, PhaseOf, Told
  <1> QED BY <1>1, <1>4, LedgerRests

\* The reply to a new order is where the ledger issues the index: whoever held
\* it before has given it back a quarantine ago, or was never told.
LEMMA RenameLedger ==
    ASSUME Calls, Chain, NEW o \in Orders, Rename(o)
    PROVE  Ledger!Issue(o) \/ UNCHANGED Ledger!lvars
  <1>1. /\ life \in [Orders -> Lives] /\ idx \in [Orders -> Nat]
        /\ expiredAt \in [Orders -> Nat] /\ now \in Nat /\ Quarantine \in Nat
        /\ life' = [life EXCEPT ![o] = Answered(life[o])]
        /\ idx' = idx /\ expiredAt' = expiredAt /\ now' = now
        /\ pc[o] = "rename" /\ life[o] \in {"asking", "lost", "expired", "paid"}
    BY CallsTyped DEF Rename, Calls, CallsFit
  <1>2. CASE life[o] = "asking"
    <2>1. Owner(o) /\ ~Told(o) /\ PhaseOf(o) = "none"
      BY <1>1, <1>2 DEF Owner, Told, PhaseOf
    <2>2. /\ life'[o] = "live" /\ Holds(o)' = idx[o] /\ PhaseOf(o)' = "live"
          /\ \A p \in Orders \ {o} : Holds(p)' = Holds(p) /\ PhaseOf(p)' = PhaseOf(p)
      BY <1>1, <1>2, AnsweredIs DEF Told, Holds, PhaseOf
    <2>3. \A p \in Orders : Holds(p) = idx[o] =>
            /\ PhaseOf(p) \notin {"live", "paid"}
            /\ PhaseOf(p) = "resting" => expiredAt[p] + Quarantine <= now
      <3> SUFFICES ASSUME NEW p \in Orders, Holds(p) = idx[o], Told(p)
                   PROVE  /\ PhaseOf(p) \notin {"live", "paid"}
                          /\ PhaseOf(p) = "resting" => expiredAt[p] + Quarantine <= now
        BY DEF PhaseOf
      <3>1. p # o /\ idx[p] = idx[o]
        BY <2>1 DEF Holds
      <3>2. ~Owner(p) /\ (Resting(p) => expiredAt[p] + Quarantine <= now)
        BY <2>1, <3>1 DEF Chain, OwnersApart, QuarantineOver
      <3> QED BY <1>1, <3>2 DEF PhaseOf, Told, Owner, Resting, Lives
    <2>4. [p \in Orders |-> PhaseOf(p)'] =
             [[p \in Orders |-> PhaseOf(p)] EXCEPT ![o] = "live"]
      BY <2>2
    <2>5. [p \in Orders |-> Holds(p)'] =
             [[p \in Orders |-> Holds(p)] EXCEPT ![o] = idx[o]]
      BY <2>2
    <2>6. idx[o] \in Nat /\ [p \in Orders |-> Holds(p)'][o] = idx[o]
      BY <1>1, <2>2
    <2> QED BY <1>1, <2>1, <2>3, <2>4, <2>5, <2>6
            DEF Ledger!Issue, Ledger!Free, Holds, PhaseOf
  <1>3. CASE life[o] # "asking"
    <2>1. \A p \in Orders : Holds(p)' = Holds(p) /\ PhaseOf(p)' = PhaseOf(p)
      BY <1>1, <1>3, AnsweredIs DEF Holds, PhaseOf, Told
    <2> QED BY <1>1, <2>1, LedgerRests
  <1> QED BY <1>2, <1>3

LEMMA StepLedger ==
    IInv /\ IInv' /\ [Next]_vars =>
      [overwrote' \/ reordered' \/ Ledger!Next]_Ledger!lvars
  <1> SUFFICES ASSUME IInv, IInv', [Next]_vars, ~overwrote', ~reordered'
               PROVE  Ledger!Next \/ UNCHANGED Ledger!lvars
    OBVIOUS
  <1>1. ASSUME Next PROVE Ledger!Next \/ UNCHANGED Ledger!lvars
    <2>0. /\ Calls /\ Chain
          /\ life \in [Orders -> Lives] /\ now \in Nat
      BY <1>1, RacesStick, CallsTyped DEF IInv, Calls
    <2>1. ASSUME NEW o \in Orders, Allocate(o) PROVE UNCHANGED Ledger!lvars
      BY <2>0, <2>1, AllocateLedger
    <2>2. ASSUME NEW o \in Orders, Release(o)
          PROVE  Ledger!Next \/ UNCHANGED Ledger!lvars
      BY <2>0, <2>2, ReleaseLedger DEF Ledger!Next
    <2>3. ASSUME NEW o \in Orders, Settle(o)
          PROVE  Ledger!Next \/ UNCHANGED Ledger!lvars
      BY <2>0, <2>3, SettleLedger DEF Ledger!Next
    <2>4. ASSUME NEW o \in Orders, ReadFile(o) PROVE UNCHANGED Ledger!lvars
      <3>1. \A p \in Orders : Holds(p)' = Holds(p) /\ PhaseOf(p)' = PhaseOf(p)
        BY <2>4 DEF ReadFile, Holds, PhaseOf, Told
      <3> QED BY <2>4, <3>1, LedgerRests DEF ReadFile
    <2>5. ASSUME NEW o \in Orders, Resume(o) PROVE UNCHANGED Ledger!lvars
      BY <2>0, <2>5, ResumeLedger
    <2>6. ASSUME NEW o \in Orders, Rename(o)
          PROVE  Ledger!Next \/ UNCHANGED Ledger!lvars
      BY <2>0, <2>6, RenameLedger DEF Ledger!Next
    <2>7. ASSUME NEW o \in Orders, Fail(o) PROVE UNCHANGED Ledger!lvars
      <3>1. \A p \in Orders : Holds(p)' = Holds(p) /\ PhaseOf(p)' = PhaseOf(p)
        BY <2>0, <2>7 DEF Fail, Unanswered, Holds, PhaseOf, Told
      <3> QED BY <2>7, <3>1, LedgerRests DEF Fail
    <2>8. ASSUME NEW o \in Orders, HangUp(o) PROVE UNCHANGED Ledger!lvars
      <3>1. \A p \in Orders : Holds(p)' = Holds(p) /\ PhaseOf(p)' = PhaseOf(p)
        BY <2>0, <2>8 DEF HangUp, Holds, PhaseOf, Told
      <3> QED BY <2>8, <3>1, LedgerRests DEF HangUp
    <2>9. ASSUME Crash PROVE UNCHANGED Ledger!lvars
      <3>1. \A p \in Orders : Holds(p)' = Holds(p) /\ PhaseOf(p)' = PhaseOf(p)
        BY <2>0, <2>9 DEF Crash, Unanswered, Holds, PhaseOf, Told
      <3> QED BY <2>9, <3>1, LedgerRests DEF Crash
    <2>10. ASSUME Tick PROVE Ledger!Next
      <3>1. \A p \in Orders : Holds(p)' = Holds(p) /\ PhaseOf(p)' = PhaseOf(p)
        BY <2>10 DEF Tick, Holds, PhaseOf, Told
      <3>2. [p \in Orders |-> Holds(p)'] = [p \in Orders |-> Holds(p)]
            /\ [p \in Orders |-> PhaseOf(p)'] = [p \in Orders |-> PhaseOf(p)]
        BY <3>1
      <3>3. Ledger!Tick
        BY <2>10, <3>2 DEF Tick, Ledger!Tick, Holds, PhaseOf
      <3> QED BY <3>3 DEF Ledger!Next
    <2>11. ASSUME Quiet PROVE UNCHANGED Ledger!lvars
      <3>1. \A p \in Orders : Holds(p)' = Holds(p) /\ PhaseOf(p)' = PhaseOf(p)
        BY <2>11 DEF Quiet, vars, Holds, PhaseOf, Told
      <3> QED BY <2>11, <3>1, LedgerRests DEF Quiet, vars
    <2> QED BY <1>1, <2>1, <2>2, <2>3, <2>4, <2>5, <2>6, <2>7, <2>8, <2>9, <2>10,
               <2>11 DEF Next
  <1>2. ASSUME UNCHANGED vars PROVE UNCHANGED Ledger!lvars
    <2>1. \A p \in Orders : Holds(p)' = Holds(p) /\ PhaseOf(p)' = PhaseOf(p)
      BY <1>2 DEF vars, Holds, PhaseOf, Told
    <2> QED BY <1>2, <2>1, LedgerRests DEF vars
  <1> QED BY <1>1, <1>2

(***************************************************************************)
(* LedgerImplemented: the counter of index-state.ts implements the ledger: *)
(* from the first call on, every step is one the ledger allows, or changes *)
(* nothing of it, until a race has happened; for any number of orders, any *)
(* overlap, and any number of crashes.                                     *)
(***************************************************************************)
THEOREM LedgerImplemented == Spec => ImplementsLedger
  <1>1. Spec => []IInv
    BY AlwaysIInv
  <1> QED BY <1>1, LedgerInit, StepLedger, PTL DEF Spec, ImplementsLedger

-----------------------------------------------------------------------------
(***************************************************************************)
(* The console: any directories, pages that ask any number of times, any   *)
(* number of losses, restarts and commits.                                 *)
(***************************************************************************)
ConsoleTyped == ConsoleTypeOK /\ polls \in [Kinds -> Seq(Ask)]

\* What the import's panel has come to, while nothing was overtaken: a POST under
\* way belongs to what the panel says was asked, and nobody polls for it yet; what
\* is polled for is the job that was started last, and so is what the panel shows.
Sent(p, r) == /\ r # None /\ r.state = "asked" /\ r.onion = p.onion
              /\ p.at = "answer" /\ p.status = 202
                   => job["import"] = None \/ job["import"].onion = p.onion

Brings(a) == a.old \/ a.at = "sent" \/ a.job = None \/ a.job.onion = last

Paired ==
    LET p == post["import"]  r == run["import"]  q == polls["import"] IN
    /\ p # None => Sent(p, r) /\ ~timer["import"] /\ \A i \in DOMAIN q : q[i].old
    /\ timer["import"] =>
         /\ r # None /\ r.state \in {"asked", "running"}
         /\ job["import"] = None \/ job["import"].onion = last
         /\ \A i \in DOMAIN q : Brings(q[i])
    /\ r # None /\ r.state = "ready" => r.onion = last

PairedInv == ~trouble => Paired

ConsoleInv == ConsoleTyped /\ PairedInv

LEMMA Shifted ==
    ASSUME NEW n \in Nat, NEW i \in 1..n, NEW j \in 1..(n - 1), ~(j <= i - 1)
    PROVE  \E m \in 1..(n - i) : j = (i - 1) + m /\ i + m \in 1..n
<1>1. j - (i - 1) \in 1..(n - i) /\ j = (i - 1) + (j - (i - 1)) /\ i + (j - (i - 1)) \in 1..n
  OBVIOUS
<1> QED BY <1>1

LEMMA RemoveParts ==
    ASSUME NEW S, NEW s \in Seq(S), NEW i \in DOMAIN s
    PROVE  /\ RemoveAt(s, i) \in Seq(S) /\ Len(RemoveAt(s, i)) = Len(s) - 1
           /\ \A j \in DOMAIN RemoveAt(s, i) : \E m \in DOMAIN s : RemoveAt(s, i)[j] = s[m]
<1>1. i \in 1..Len(s) /\ Len(s) \in Nat
  OBVIOUS
<1>2. /\ SubSeq(s, 1, i - 1) \in Seq(S) /\ Len(SubSeq(s, 1, i - 1)) = i - 1
      /\ \A j \in 1..(i - 1) : SubSeq(s, 1, i - 1)[j] = s[j]
  BY <1>1
<1>3. /\ SubSeq(s, i + 1, Len(s)) \in Seq(S) /\ Len(SubSeq(s, i + 1, Len(s))) = Len(s) - i
      /\ \A j \in 1..(Len(s) - i) : SubSeq(s, i + 1, Len(s))[j] = s[i + j]
  BY <1>1
<1> DEFINE front == SubSeq(s, 1, i - 1)
           rear  == SubSeq(s, i + 1, Len(s))
<1>4. RemoveAt(s, i) = front \o rear
  BY DEF RemoveAt
<1> HIDE DEF front, rear
<1>5. front \in Seq(S) /\ Len(front) = i - 1 /\ \A j \in 1..(i - 1) : front[j] = s[j]
  BY <1>2 DEF front
<1>6. rear \in Seq(S) /\ Len(rear) = Len(s) - i /\ \A j \in 1..(Len(s) - i) : rear[j] = s[i + j]
  BY <1>3 DEF rear
<1>7. front \o rear \in Seq(S) /\ Len(front \o rear) = Len(s) - 1
  BY <1>1, <1>5, <1>6
<1>8. ASSUME NEW j \in 1..(Len(s) - 1) PROVE \E m \in 1..Len(s) : (front \o rear)[j] = s[m]
  <2>1. CASE j <= i - 1
    <3>1. (front \o rear)[j] = s[j]
      BY <1>1, <1>5, <1>6, <2>1
    <3> QED BY <1>1, <2>1, <3>1
  <2>2. CASE ~(j <= i - 1)
    <3>1. PICK m \in 1..(Len(s) - i) : j = (i - 1) + m /\ i + m \in 1..Len(s)
      BY <1>1, <2>2, Shifted
    <3>2. (front \o rear)[j] = IF j <= Len(front) THEN front[j] ELSE rear[j - Len(front)]
      <4>1. \A n \in Nat, m1, m2 \in Nat : m1 = i - 1 /\ m2 = n - i => m1 + m2 = n - 1
        BY <1>1
      <4>2. Len(front) \in Nat /\ Len(rear) \in Nat
        BY <1>5, <1>6
      <4>3. j \in 1..(Len(front) + Len(rear))
        BY <1>1, <1>5, <1>6, <4>1, <4>2
      <4> QED BY <1>5, <1>6, <4>3, ConcatProperties
    <3>3. j - Len(front) = m
      BY <1>1, <1>5, <3>1
    <3>4. rear[m] = s[i + m]
      BY <1>6
    <3> QED BY <1>5, <2>2, <3>1, <3>2, <3>3, <3>4
  <2> QED BY <2>1, <2>2
<1>9. DOMAIN (front \o rear) = 1..(Len(s) - 1) /\ DOMAIN s = 1..Len(s)
  BY <1>7
<1> QED BY <1>4, <1>7, <1>8, <1>9

-----------------------------------------------------------------------------
(***************************************************************************)
(* Types, action by action.                                                *)
(***************************************************************************)
LEMMA ConsoleParts ==
    ASSUME ConsoleTyped
    PROVE  /\ job \in [Kinds -> Job \cup {None}] /\ run \in [Kinds -> PageRun \cup {None}]
           /\ cache \in 0..MaxPushes \cup {None} /\ floor \in BOOLEAN
           /\ checks \in Seq(0..MaxPushes \cup {None}) /\ Len(checks) <= MaxChecks
           /\ head \in 0..MaxPushes /\ known \in 0..MaxPushes
           /\ timer \in [Kinds -> BOOLEAN] /\ last \in Onions \cup {None}
           /\ post \in [Kinds -> Post \cup {None}] /\ polls \in [Kinds -> Seq(Ask)]
           /\ \A k \in Kinds : Len(polls[k]) <= MaxPolls
           /\ trouble \in BOOLEAN
BY DEF ConsoleTyped, ConsoleTypeOK

LEMMA JobsFit == Job \subseteq PageRun
BY DEF Job, PageRun

\* Where the backend and its checks stay.
LEMMA PageTyped ==
    ASSUME ConsoleTyped, UNCHANGED <<job, cache, floor, checks, head, known>>,
           run' \in [Kinds -> PageRun \cup {None}], timer' \in [Kinds -> BOOLEAN],
           last' \in Onions \cup {None}, post' \in [Kinds -> Post \cup {None}],
           polls' \in [Kinds -> Seq(Ask)], \A k \in Kinds : Len(polls'[k]) <= MaxPolls,
           trouble' \in BOOLEAN
    PROVE  ConsoleTyped'
BY DEF ConsoleTyped, ConsoleTypeOK

LEMMA ServerTyped ==
    ASSUME ConsoleTyped, UNCHANGED page, job' \in [Kinds -> Job \cup {None}],
           cache' \in 0..MaxPushes \cup {None}, floor' \in BOOLEAN,
           checks' \in Seq(0..MaxPushes \cup {None}), Len(checks') <= MaxChecks,
           head' \in 0..MaxPushes, known' \in 0..MaxPushes, trouble' \in BOOLEAN
    PROVE  ConsoleTyped'
BY DEF ConsoleTyped, ConsoleTypeOK, page

\* A POST, as it changes.
LEMMA PostKinds ==
    ASSUME NEW p \in Post
    PROVE  /\ [p EXCEPT !.at = "body"] \in Post /\ [p EXCEPT !.at = "sent"] \in Post
           /\ \A s \in {202, 400, 409} : [p EXCEPT !.at = "answer", !.status = s] \in Post
           /\ p.tries > 1 => [p EXCEPT !.at = "sent", !.tries = @ - 1] \in Post
           /\ p.onion \in Onions \cup {None} /\ p.apply \in BOOLEAN
<1>1. /\ p.onion \in Onions \cup {None} /\ p.apply \in BOOLEAN /\ p.tries \in 1..Tries
      /\ p = [onion |-> p.onion, apply |-> p.apply, at |-> p.at, status |-> p.status, tries |-> p.tries]
      /\ p.at \in {"sent", "body", "answer"} /\ p.status \in {202, 400, 409}
  BY DEF Post
<1>2. [p EXCEPT !.at = "body"] \in Post /\ [p EXCEPT !.at = "sent"] \in Post
  BY DEF Post
<1>3. \A s \in {202, 400, 409} : [p EXCEPT !.at = "answer", !.status = s] \in Post
  BY ZenonT(40) DEF Post
<1>4. ASSUME p.tries > 1 PROVE [p EXCEPT !.at = "sent", !.tries = @ - 1] \in Post
  <2>1. p.tries - 1 \in 1..Tries
    BY <1>1, <1>4, ConsoleAssumption
  <2> QED BY ZenonT(40), <2>1 DEF Post
<1> QED BY <1>1, <1>2, <1>3, <1>4

LEMMA AskKinds ==
    /\ [at |-> "sent", job |-> None, old |-> FALSE] \in Ask
    /\ \A a \in Ask : [a EXCEPT !.old = TRUE] \in Ask
    /\ \A a \in Ask, j \in Job \cup {None} : [[a EXCEPT !.at = "answer"] EXCEPT !.job = j] \in Ask
BY DEF Ask

LEMMA OutdatedParts ==
    ASSUME NEW s \in Seq(Ask)
    PROVE  /\ Outdated(s) \in Seq(Ask) /\ Len(Outdated(s)) = Len(s)
           /\ \A i \in DOMAIN Outdated(s) : Outdated(s)[i].old
<1>1. \A i \in 1..Len(s) : s[i] \in Ask /\ [s[i] EXCEPT !.old = TRUE] \in Ask
  <2>1. \A i \in 1..Len(s) : s[i] \in Ask
    OBVIOUS
  <2> QED BY <2>1, AskKinds
<1>2. \A a \in Ask : [a EXCEPT !.old = TRUE].old
  BY DEF Ask
<1>3. Outdated(s) \in [1..Len(s) -> Ask]
  BY <1>1 DEF Outdated
<1>4. Len(s) \in Nat /\ DOMAIN Outdated(s) = 1..Len(s)
  BY DEF Outdated
<1>5. Outdated(s) \in Seq(Ask) /\ Len(Outdated(s)) = Len(s)
  BY <1>3, <1>4
<1>6. \A i \in 1..Len(s) : Outdated(s)[i] = [s[i] EXCEPT !.old = TRUE]
  <2>1. DOMAIN s = 1..Len(s)
    OBVIOUS
  <2> QED BY <2>1, Zenon DEF Outdated
<1>7. \A i \in 1..Len(s) : Outdated(s)[i].old
  BY <1>1, <1>2, <1>6
<1> QED BY <1>4, <1>5, <1>7

LEMMA StartJobParts ==
    ASSUME ConsoleTyped, NEW k \in Kinds, NEW onion \in Onions \cup {None}, NEW apply \in BOOLEAN,
           StartJob(k, onion, apply)
    PROVE  /\ ConsoleTyped'
           /\ post[k] = None /\ UNCHANGED <<job, timer, last, trouble, cache, checks, head, known>>
           /\ run'[k] # None /\ run'[k].onion = onion /\ run'[k].state = "asked"
           /\ post'[k] # None /\ post'[k].onion = onion /\ post'[k].at = "sent" /\ post'[k].apply = apply
           /\ \A i \in DOMAIN polls'[k] : polls'[k][i].old
           /\ \A m \in Kinds \ {k} : run'[m] = run[m] /\ post'[m] = post[m] /\ polls'[m] = polls[m]
<1> DEFINE r == [onion |-> onion, apply |-> apply, state |-> "asked"]
           p == [onion |-> onion, apply |-> apply, at |-> "sent", status |-> 202, tries |-> Tries]
<1>1. r \in PageRun /\ r.onion = onion /\ r.state = "asked"
  BY DEF PageRun
<1>2. p \in Post /\ p.onion = onion /\ p.at = "sent" /\ p.apply = apply
  BY ConsoleAssumption DEF Post
<1>3. /\ post[k] = None /\ run' = [run EXCEPT ![k] = r] /\ post' = [post EXCEPT ![k] = p]
      /\ polls' = [polls EXCEPT ![k] = Outdated(polls[k])]
      /\ UNCHANGED <<job, cache, floor, checks, head, timer, last, trouble, known>>
  BY DEF StartJob, server
<1> HIDE DEF r, p
<1>4. r # None /\ p # None
  BY <1>1, <1>2, ConsoleAssumption
<1>5. /\ Outdated(polls[k]) \in Seq(Ask) /\ Len(Outdated(polls[k])) = Len(polls[k])
      /\ \A i \in DOMAIN Outdated(polls[k]) : Outdated(polls[k])[i].old
  BY ConsoleParts, OutdatedParts
<1>6. ConsoleTyped'
  BY <1>1, <1>2, <1>3, <1>5, ConsoleParts, PageTyped
<1> QED BY <1>1, <1>2, <1>3, <1>4, <1>5, <1>6, ConsoleParts

\* What a step leaves of the import as the page follows it.
SameImport ==
    /\ job'["import"] = job["import"] /\ run'["import"] = run["import"]
    /\ timer'["import"] = timer["import"] /\ post'["import"] = post["import"]
    /\ polls'["import"] = polls["import"] /\ last' = last /\ (trouble => trouble')

LEMMA PairedStays == ASSUME PairedInv, SameImport PROVE PairedInv'
BY DEF PairedInv, Paired, SameImport, Sent, Brings

-----------------------------------------------------------------------------
(***************************************************************************)
(* The page, action by action.                                             *)
(***************************************************************************)
LEMMA StartsKeep ==
    ASSUME ConsoleInv, NEW k \in Kinds, NEW onion \in Onions \cup {None}, NEW apply \in BOOLEAN,
           StartJob(k, onion, apply),
           k = "import" => run[k] = None \/ run[k].state = "ready"
    PROVE  ConsoleInv'
<1>1. ConsoleTyped /\ PairedInv
  BY DEF ConsoleInv
<1>2. /\ ConsoleTyped'
      /\ post[k] = None /\ UNCHANGED <<job, timer, last, trouble, cache, checks, head, known>>
      /\ run'[k] # None /\ run'[k].onion = onion /\ run'[k].state = "asked"
      /\ post'[k] # None /\ post'[k].onion = onion /\ post'[k].at = "sent" /\ post'[k].apply = apply
      /\ \A i \in DOMAIN polls'[k] : polls'[k][i].old
      /\ \A m \in Kinds \ {k} : run'[m] = run[m] /\ post'[m] = post[m] /\ polls'[m] = polls[m]
  BY <1>1, StartJobParts
<1>3. PairedInv'
  <2>1. CASE k = "update"
    <3>1. SameImport
      BY <1>2, <2>1 DEF SameImport, Kinds
    <3> QED BY <1>1, <3>1, PairedStays
  <2>2. CASE k = "import"
    <3>1. ~trouble => ~timer["import"]
      BY <1>1, <2>2 DEF PairedInv, Paired
    <3> QED BY <1>2, <2>2, <3>1 DEF PairedInv, Paired, Sent
  <2> QED BY <2>1, <2>2 DEF Kinds
<1> QED BY <1>2, <1>3 DEF ConsoleInv

LEMMA AsksKeep ==
    ASSUME ConsoleInv,
           StartUpdate \/ ApplyImport \/ (\E onion \in Onions : PlanImport(onion))
    PROVE  ConsoleInv'
<1>1. CASE StartUpdate
  BY <1>1, StartsKeep DEF StartUpdate, Kinds
<1>2. CASE ApplyImport
  <2>1. last \in Onions \cup {None}
    BY ConsoleParts DEF ConsoleInv
  <2> QED BY <1>2, <2>1, StartsKeep DEF ApplyImport, OffersApply, Kinds
<1>3. ASSUME NEW onion \in Onions, PlanImport(onion) PROVE ConsoleInv'
  BY <1>3, StartsKeep DEF PlanImport, Kinds
<1> QED BY <1>1, <1>2, <1>3

LEMMA DismissKeeps == ASSUME ConsoleInv, NEW k \in Kinds, Dismiss(k) PROVE ConsoleInv'
<1>1. ConsoleTyped /\ PairedInv
  BY DEF ConsoleInv
<1>2. /\ run' = [run EXCEPT ![k] = None] /\ timer' = [timer EXCEPT ![k] = FALSE]
      /\ trouble' = (trouble \/ post[k] # None)
      /\ UNCHANGED <<job, cache, floor, checks, head, last, post, polls, known>>
  BY DEF Dismiss, server
<1>3. ConsoleTyped'
  BY <1>1, <1>2, ConsoleParts, PageTyped
<1>4. PairedInv'
  <2>1. CASE k = "update"
    <3>1. SameImport
      BY <1>1, <1>2, <2>1, ConsoleParts DEF SameImport, Kinds
    <3> QED BY <1>1, <3>1, PairedStays
  <2>2. CASE k = "import"
    BY <1>1, <1>2, <2>2, ConsoleParts DEF PairedInv, Paired
  <2> QED BY <2>1, <2>2 DEF Kinds
<1> QED BY <1>3, <1>4 DEF ConsoleInv

\* A POST that has not been accepted.
LEMMA PostMoves ==
    ASSUME ConsoleInv, NEW k \in Kinds, NEW q \in Post, post[k] # None,
           q.onion = post[k].onion, ~(q.at = "answer" /\ q.status = 202),
           post' = [post EXCEPT ![k] = q],
           UNCHANGED <<job, cache, floor, checks, head, run, timer, last, polls, known, trouble>>
    PROVE  ConsoleInv'
<1>1. ConsoleTyped /\ PairedInv
  BY DEF ConsoleInv
<1>2. ConsoleTyped'
  BY <1>1, ConsoleParts, PageTyped
<1>3. post'[k] = q /\ \A m \in Kinds \ {k} : post'[m] = post[m]
  BY <1>1, ConsoleParts
<1>4. PairedInv'
  <2>1. CASE k = "update"
    <3>1. SameImport
      BY <1>3, <2>1 DEF SameImport, Kinds
    <3> QED BY <1>1, <3>1, PairedStays
  <2>2. CASE k = "import"
    BY <1>1, <1>3, <2>2 DEF PairedInv, Paired, Sent, Brings
  <2> QED BY <2>1, <2>2 DEF Kinds
<1> QED BY <1>2, <1>4 DEF ConsoleInv

LEMMA PostShape ==
    ASSUME NEW p \in Post
    PROVE  /\ LET b == [p EXCEPT !.at = "body"] IN b.onion = p.onion /\ b.at = "body"
           /\ LET b == [p EXCEPT !.at = "sent"] IN b.onion = p.onion /\ b.at = "sent" /\ b.apply = p.apply
           /\ \A s \in {202, 400, 409} :
                LET b == [p EXCEPT !.at = "answer", !.status = s]
                IN  b.onion = p.onion /\ b.at = "answer" /\ b.status = s
           /\ LET b == [p EXCEPT !.at = "sent", !.tries = @ - 1] IN b.onion = p.onion /\ b.at = "sent"
BY DEF Post

LEMMA ArriveKeeps == ASSUME ConsoleInv, NEW k \in Kinds, Arrive(k) PROVE ConsoleInv'
<1>1. post[k] # None /\ post[k] \in Post
  BY ConsoleParts DEF ConsoleInv, Arrive
<1> DEFINE p  == post[k]
           q1 == [p EXCEPT !.at = "answer", !.status = 409]
           q2 == [p EXCEPT !.at = "body"]
<1>2. /\ q1 \in Post /\ q1.onion = p.onion /\ q1.at = "answer" /\ q1.status = 409
      /\ q2 \in Post /\ q2.onion = p.onion /\ q2.at = "body"
  BY ZenonT(40), <1>1 DEF Post
<1>3. /\ post' = [post EXCEPT ![k] = q1] \/ post' = [post EXCEPT ![k] = q2]
      /\ UNCHANGED <<job, cache, floor, checks, head, run, timer, last, polls, known, trouble>>
  BY DEF Arrive, server
<1> HIDE DEF q1, q2
<1> QED BY <1>1, <1>2, <1>3, PostMoves

LEMMA RefuseKeeps == ASSUME ConsoleInv, Refuse PROVE ConsoleInv'
<1> DEFINE p == post["import"]
           q == [p EXCEPT !.at = "answer", !.status = 400]
<1>1. p # None /\ p \in Post /\ "import" \in Kinds
  BY ConsoleParts DEF ConsoleInv, Refuse, Kinds
<1>2. q \in Post /\ q.onion = p.onion /\ q.at = "answer" /\ q.status = 400
  BY ZenonT(40), <1>1 DEF Post
<1>3. /\ post' = [post EXCEPT !["import"] = q]
      /\ UNCHANGED <<job, cache, floor, checks, head, run, timer, last, polls, known, trouble>>
  BY <1>1, ConsoleParts DEF ConsoleInv, Refuse, server
<1> HIDE DEF q
<1>4. PICK k \in Kinds, r \in Post :
         /\ post[k] # None /\ r.onion = post[k].onion /\ r.at = "answer" /\ r.status = 400
         /\ post' = [post EXCEPT ![k] = r]
  BY <1>1, <1>2, <1>3
<1>5. ~(r.at = "answer" /\ r.status = 202)
  BY <1>4
<1>6. UNCHANGED <<job, cache, floor, checks, head, run, timer, last, polls, known, trouble>>
  BY <1>3
<1>7. post[k] # None /\ r.onion = post[k].onion
  BY <1>4
<1>8. post' = [post EXCEPT ![k] = r]
  BY <1>4
<1> QED BY <1>5, <1>6, <1>7, <1>8, PostMoves

\* What the page shows of a job that could not be started.
FailedRun(r) == IF r = None THEN None ELSE [r EXCEPT !.state = "failed"]

LEMMA FailedParts ==
    ASSUME NEW r \in PageRun \cup {None}
    PROVE  FailedRun(r) \in PageRun \cup {None} /\ (FailedRun(r) # None => FailedRun(r).state = "failed")
BY DEF FailedRun, PageRun, JobState

LEMMA PostLostKeeps == ASSUME ConsoleInv, NEW k \in Kinds, PostLost(k) PROVE ConsoleInv'
<1>1. post[k] # None /\ post[k] \in Post /\ ConsoleTyped /\ PairedInv
  BY ConsoleParts DEF ConsoleInv, PostLost
<1> DEFINE p == post[k]
           q == [p EXCEPT !.at = "sent", !.tries = @ - 1]
<1>2. CASE p.tries > 1
  <2>1. q \in Post /\ q.onion = p.onion /\ q.at = "sent"
    BY ZenonT(40), <1>1, <1>2, PostKinds, PostShape
  <2>2. /\ post' = [post EXCEPT ![k] = q]
        /\ UNCHANGED <<job, cache, floor, checks, head, run, timer, last, polls, known, trouble>>
    BY <1>1, <1>2, ConsoleParts DEF PostLost, server
  <2> HIDE DEF q
  <2> QED BY <1>1, <2>1, <2>2, PostMoves
<1>3. CASE ~(p.tries > 1)
  <2>1. /\ post' = [post EXCEPT ![k] = None] /\ run' = [run EXCEPT ![k] = FailedRun(run[k])]
        /\ UNCHANGED <<job, cache, floor, checks, head, timer, last, polls, known, trouble>>
    BY <1>3 DEF PostLost, server, FailedRun
  <2>2. /\ FailedRun(run[k]) \in PageRun \cup {None}
        /\ FailedRun(run[k]) # None => FailedRun(run[k]).state = "failed"
    BY <1>1, ConsoleParts, FailedParts
  <2>3. /\ post'[k] = None /\ run'[k] = FailedRun(run[k])
        /\ \A m \in Kinds \ {k} : post'[m] = post[m] /\ run'[m] = run[m]
    BY <1>1, <2>1, ConsoleParts
  <2>4. ConsoleTyped'
    BY <1>1, <2>1, <2>2, ConsoleParts, PageTyped
  <2>5. PairedInv'
    <3>1. CASE k = "update"
      <4>1. SameImport
        BY <2>1, <2>3, <3>1 DEF SameImport, Kinds
      <4> QED BY <1>1, <4>1, PairedStays
    <3>2. CASE k = "import"
      BY <1>1, <2>1, <2>2, <2>3, <3>2 DEF PairedInv, Paired
    <3> QED BY <3>1, <3>2 DEF Kinds
  <2> QED BY <2>4, <2>5 DEF ConsoleInv
<1> QED BY <1>2, <1>3

LEMMA PostedKeeps == ASSUME ConsoleInv, NEW k \in Kinds, Posted(k) PROVE ConsoleInv'
<1>1. /\ post[k] # None /\ post[k] \in Post /\ post[k].at = "answer"
      /\ ConsoleTyped /\ PairedInv
  BY ConsoleParts DEF ConsoleInv, Posted
<1>2. /\ post' = [post EXCEPT ![k] = None]
      /\ UNCHANGED <<job, cache, floor, checks, head, polls, known, trouble>>
      /\ \/ run' = [run EXCEPT ![k] = None] /\ UNCHANGED <<timer, last>>
         \/ run' = [run EXCEPT ![k] = FailedRun(run[k])] /\ UNCHANGED <<timer, last>>
         \/ /\ post[k].status = 202 /\ timer' = [timer EXCEPT ![k] = TRUE] /\ UNCHANGED run
            /\ last' = IF k = "import" THEN post[k].onion ELSE last
  BY DEF Posted, server, FailedRun
<1>3. /\ post[k].onion \in Onions \cup {None} /\ FailedRun(run[k]) \in PageRun \cup {None}
      /\ FailedRun(run[k]) # None => FailedRun(run[k]).state = "failed"
  BY ZenonT(40), <1>1, ConsoleParts, PostKinds, FailedParts
<1>4. ConsoleTyped'
  <2>1. post' \in [Kinds -> Post \cup {None}] /\ run' \in [Kinds -> PageRun \cup {None}]
    BY SMTT(30), <1>1, <1>2, <1>3, ConsoleParts
  <2>2. last' \in Onions \cup {None}
    BY <1>1, <1>2, <1>3, ConsoleParts
  <2>3. timer' = timer \/ timer' = [timer EXCEPT ![k] = TRUE]
    BY <1>2
  <2>4. timer' \in [Kinds -> BOOLEAN]
    BY <1>1, <2>3, ConsoleParts
  <2> QED BY <1>1, <1>2, <2>1, <2>2, <2>4, ConsoleParts, PageTyped
<1>5. PairedInv'
  <2>1. CASE k = "update"
    <3>1. SameImport
      BY <1>1, <1>2, <2>1, ConsoleParts DEF SameImport, Kinds
    <3> QED BY <1>1, <3>1, PairedStays
  <2>2. CASE k = "import"
    <3>1. post'["import"] = None
      BY <1>1, <1>2, <2>2, ConsoleParts
    <3>2. CASE UNCHANGED <<timer, last>> /\ (run' = [run EXCEPT ![k] = None] \/ run' = [run EXCEPT ![k] = FailedRun(run[k])])
      <4>1. run'[k] = None \/ run'[k].state = "failed"
        BY <1>1, <1>3, <3>2, ConsoleParts
      <4> QED BY <1>1, <1>2, <2>2, <3>1, <3>2, <4>1 DEF PairedInv, Paired
    <3>3. CASE post[k].status = 202 /\ timer' = [timer EXCEPT ![k] = TRUE] /\ run' = run /\ last' = post[k].onion
      BY <1>1, <1>2, <2>2, <3>1, <3>3 DEF PairedInv, Paired, Sent, Brings
    <3> QED BY <1>2, <2>2, <3>2, <3>3
  <2> QED BY <2>1, <2>2 DEF Kinds
<1> QED BY <1>4, <1>5 DEF ConsoleInv

-----------------------------------------------------------------------------
(***************************************************************************)
(* The polls.                                                              *)
(***************************************************************************)
\* The polls of one kind, and nothing else.
LEMMA PollsMove ==
    ASSUME ConsoleInv, NEW k \in Kinds, NEW s \in Seq(Ask), Len(s) <= MaxPolls,
           polls' = [polls EXCEPT ![k] = s],
           UNCHANGED <<job, cache, floor, checks, head, run, timer, last, post, known, trouble>>,
           k = "import" /\ post[k] # None /\ ~trouble => \A i \in DOMAIN s : s[i].old,
           k = "import" /\ timer[k] /\ ~trouble => \A i \in DOMAIN s : Brings(s[i])
    PROVE  ConsoleInv'
<1>1. ConsoleTyped /\ PairedInv
  BY DEF ConsoleInv
<1>2. polls'[k] = s /\ \A m \in Kinds \ {k} : polls'[m] = polls[m]
  BY <1>1, ConsoleParts
<1>3. polls' \in [Kinds -> Seq(Ask)] /\ \A m \in Kinds : Len(polls'[m]) <= MaxPolls
  BY <1>1, <1>2, ConsoleParts
<1>4. ConsoleTyped'
  BY <1>1, <1>3, ConsoleParts, PageTyped
<1>5. PairedInv'
  <2>1. CASE k = "update"
    <3>1. SameImport
      BY <1>2, <2>1 DEF SameImport, Kinds
    <3> QED BY <1>1, <3>1, PairedStays
  <2>2. CASE k = "import"
    BY <1>1, <1>2, <2>2 DEF PairedInv, Paired, Sent, Brings
  <2> QED BY <2>1, <2>2 DEF Kinds
<1> QED BY <1>4, <1>5 DEF ConsoleInv

\* What the polls of the import's panel are, while nothing was overtaken.
LEMMA PollsOfImport ==
    ASSUME ConsoleInv, NEW k \in Kinds
    PROVE  /\ k = "import" /\ timer[k] /\ ~trouble =>
                /\ post[k] = None /\ (job[k] = None \/ job[k].onion = last)
                /\ \A i \in DOMAIN polls[k] : Brings(polls[k][i])
           /\ k = "import" /\ post[k] # None /\ ~trouble =>
                ~timer[k] /\ \A i \in DOMAIN polls[k] : polls[k][i].old
BY DEF ConsoleInv, PairedInv, Paired

LEMMA StatusParts ==
    ASSUME NEW a \in Ask, NEW j \in Job \cup {None}
    PROVE  LET b == [[a EXCEPT !.at = "answer"] EXCEPT !.job = j]
           IN  b \in Ask /\ b.old = a.old /\ b.at = "answer" /\ b.job = j
BY DEF Ask

LEMMA StatusKeeps ==
    ASSUME ConsoleInv, NEW k \in Kinds, NEW i \in Nat, Status(k, i)
    PROVE  ConsoleInv'
<1>1. /\ polls[k] \in Seq(Ask) /\ Len(polls[k]) <= MaxPolls /\ job[k] \in Job \cup {None}
      /\ polls \in [Kinds -> Seq(Ask)] /\ i \in DOMAIN polls[k]
  BY ConsoleParts DEF ConsoleInv, Status
<1> DEFINE a == polls[k][i]
           b == [[a EXCEPT !.at = "answer"] EXCEPT !.job = job[k]]
           s == [polls[k] EXCEPT ![i] = b]
<1>2. a \in Ask
  BY <1>1
<1>3. b \in Ask /\ b.old = a.old /\ b.at = "answer" /\ b.job = job[k]
  BY <1>1, <1>2, StatusParts
<1>4. /\ polls' = [polls EXCEPT ![k] = s]
      /\ UNCHANGED <<job, cache, floor, checks, head, run, timer, last, post, known, trouble>>
  BY <1>1 DEF Status, server
<1> HIDE DEF b
<1>5. s \in Seq(Ask) /\ Len(s) = Len(polls[k]) /\ DOMAIN s = DOMAIN polls[k]
  BY <1>1, <1>3
<1>6. s[i] = b /\ \A j \in DOMAIN s : j # i => s[j] = polls[k][j]
  BY <1>1
<1> HIDE DEF s
<1>7. ASSUME k = "import" /\ post[k] # None /\ ~trouble, NEW j \in DOMAIN s PROVE s[j].old
  BY <1>1, <1>3, <1>5, <1>6, <1>7, PollsOfImport
<1>8. ASSUME k = "import" /\ timer[k] /\ ~trouble, NEW j \in DOMAIN s PROVE Brings(s[j])
  BY <1>1, <1>3, <1>5, <1>6, <1>8, PollsOfImport DEF Brings
<1> QED BY <1>1, <1>4, <1>5, <1>7, <1>8, PollsMove

LEMMA PollKeeps == ASSUME ConsoleInv, NEW k \in Kinds, Poll(k) PROVE ConsoleInv'
<1>1. /\ polls[k] \in Seq(Ask) /\ polls \in [Kinds -> Seq(Ask)]
      /\ timer[k] /\ Len(polls[k]) < MaxPolls
  BY ConsoleParts DEF ConsoleInv, Poll
<1> DEFINE a == [at |-> "sent", job |-> None, old |-> FALSE]
           s == Append(polls[k], a)
<1>2. a \in Ask /\ a.at = "sent"
  BY AskKinds
<1>3. /\ polls' = [polls EXCEPT ![k] = s]
      /\ UNCHANGED <<job, cache, floor, checks, head, run, timer, last, post, known, trouble>>
  BY DEF Poll, server
<1> HIDE DEF a
<1>4. s \in Seq(Ask) /\ Len(s) = Len(polls[k]) + 1
  BY <1>1, <1>2
<1>5. \A j \in DOMAIN s : s[j] = a \/ (j \in DOMAIN polls[k] /\ s[j] = polls[k][j])
  BY <1>1, <1>2
<1>6. Len(s) <= MaxPolls
  BY <1>1, <1>4, ConsoleAssumption
<1> HIDE DEF s
<1>7. ASSUME k = "import" /\ post[k] # None /\ ~trouble, NEW j \in DOMAIN s PROVE s[j].old
  BY <1>1, <1>7, PollsOfImport
<1>8. ASSUME k = "import" /\ timer[k] /\ ~trouble, NEW j \in DOMAIN s PROVE Brings(s[j])
  BY <1>1, <1>2, <1>5, <1>8, PollsOfImport DEF Brings
<1> QED BY <1>3, <1>4, <1>6, <1>7, <1>8, PollsMove

LEMMA PollLostKeeps ==
    ASSUME ConsoleInv, NEW k \in Kinds, NEW i \in Nat, PollLost(k, i)
    PROVE  ConsoleInv'
<1>1. /\ polls[k] \in Seq(Ask) /\ Len(polls[k]) <= MaxPolls
      /\ polls \in [Kinds -> Seq(Ask)] /\ i \in DOMAIN polls[k]
  BY ConsoleParts DEF ConsoleInv, PollLost
<1> DEFINE s == RemoveAt(polls[k], i)
<1>2. /\ s \in Seq(Ask) /\ Len(s) = Len(polls[k]) - 1
      /\ \A j \in DOMAIN s : \E m \in DOMAIN polls[k] : s[j] = polls[k][m]
  BY <1>1, RemoveParts
<1>3. /\ polls' = [polls EXCEPT ![k] = s]
      /\ UNCHANGED <<job, cache, floor, checks, head, run, timer, last, post, known, trouble>>
  BY DEF PollLost, server
<1> HIDE DEF s
<1>4. Len(s) <= MaxPolls
  BY <1>1, <1>2, ConsoleAssumption
<1>5. ASSUME k = "import" /\ post[k] # None /\ ~trouble, NEW j \in DOMAIN s PROVE s[j].old
  BY <1>2, <1>5, PollsOfImport
<1>6. ASSUME k = "import" /\ timer[k] /\ ~trouble, NEW j \in DOMAIN s PROVE Brings(s[j])
  BY <1>2, <1>6, PollsOfImport
<1> QED BY <1>2, <1>3, <1>4, <1>5, <1>6, PollsMove

\* What an answered poll leaves of the page.
LEMMA AnsweredPoll ==
    ASSUME ConsoleInv, NEW k \in Kinds, NEW i \in DOMAIN polls[k]
    PROVE  /\ polls[k][i] \in Ask /\ polls[k][i].job \in PageRun \cup {None}
           /\ [polls EXCEPT ![k] = RemoveAt(@, i)] \in [Kinds -> Seq(Ask)]
           /\ \A m \in Kinds : Len([polls EXCEPT ![k] = RemoveAt(@, i)][m]) <= MaxPolls
           /\ \A j \in DOMAIN RemoveAt(polls[k], i) :
                \E m \in DOMAIN polls[k] : RemoveAt(polls[k], i)[j] = polls[k][m]
<1>1. /\ polls[k] \in Seq(Ask) /\ \A m \in Kinds : Len(polls[m]) <= MaxPolls
      /\ polls \in [Kinds -> Seq(Ask)]
  BY ConsoleParts DEF ConsoleInv
<1> DEFINE s == RemoveAt(polls[k], i)
<1>2. /\ s \in Seq(Ask) /\ Len(s) = Len(polls[k]) - 1
      /\ \A j \in DOMAIN s : \E m \in DOMAIN polls[k] : s[j] = polls[k][m]
  BY <1>1, RemoveParts
<1>3. polls[k][i] \in Ask
  BY <1>1
<1>4. polls[k][i].job \in PageRun \cup {None}
  BY <1>3, JobsFit DEF Ask
<1> HIDE DEF s
<1>5. Len(s) <= MaxPolls
  BY <1>1, <1>2, ConsoleAssumption
<1>6. [polls EXCEPT ![k] = s] \in [Kinds -> Seq(Ask)] /\ \A m \in Kinds : Len([polls EXCEPT ![k] = s][m]) <= MaxPolls
  BY <1>1, <1>2, <1>5
<1> QED BY <1>2, <1>3, <1>4, <1>6 DEF s

LEMMA OverJobs == \A j \in Job : ~Over(j) => j.state = "running"
BY DEF Job, JobState, Over

LEMMA ImportPolledKeeps == ASSUME ConsoleInv, NEW i \in Nat, ImportPolled(i) PROVE ConsoleInv'
<1>1. PICK k \in Kinds : k = "import"
  BY DEF Kinds
<1>2. /\ i \in DOMAIN polls[k] /\ polls[k][i].at = "answer"
      /\ polls' = [polls EXCEPT ![k] = RemoveAt(polls[k], i)]
      /\ UNCHANGED <<job, cache, floor, checks, head, last, post, known>>
  BY <1>1 DEF ImportPolled, server
<1> DEFINE a == polls[k][i]
           s == RemoveAt(polls[k], i)
<1>3. \/ a.job = None /\ UNCHANGED <<run, timer, trouble>>
      \/ /\ a.job # None
         /\ run' = [run EXCEPT ![k] = a.job]
         /\ timer' = [timer EXCEPT ![k] = @ /\ ~Over(a.job)]
         /\ trouble' = (trouble \/ a.old \/ ~timer[k])
  BY <1>1 DEF ImportPolled
<1>4. /\ a \in Ask /\ a.job \in PageRun \cup {None}
      /\ polls' \in [Kinds -> Seq(Ask)] /\ \A m \in Kinds : Len(polls'[m]) <= MaxPolls
      /\ \A j \in DOMAIN s : \E m \in DOMAIN polls[k] : s[j] = polls[k][m]
  BY <1>2, AnsweredPoll
<1>5. ConsoleTyped /\ PairedInv
  BY DEF ConsoleInv
<1>6. polls'[k] = s
  BY <1>2, <1>5, ConsoleParts
<1> HIDE DEF s
<1>7. CASE a.job = None /\ UNCHANGED <<run, timer, trouble>>
  <2>1. ConsoleTyped'
    BY <1>2, <1>4, <1>5, <1>7, ConsoleParts, PageTyped
  <2>2. PairedInv'
    BY <1>1, <1>2, <1>4, <1>5, <1>6, <1>7 DEF PairedInv, Paired, Sent, Brings
  <2> QED BY <2>1, <2>2 DEF ConsoleInv
<1>8. CASE /\ a.job # None
           /\ run' = [run EXCEPT ![k] = a.job]
           /\ timer' = [timer EXCEPT ![k] = @ /\ ~Over(a.job)]
           /\ trouble' = (trouble \/ a.old \/ ~timer[k])
  <2>1. a.job \in Job
    BY <1>4, <1>8 DEF Ask
  <2>2. /\ run' \in [Kinds -> PageRun \cup {None}] /\ timer' \in [Kinds -> BOOLEAN]
        /\ run'[k] = a.job /\ timer'[k] = (timer[k] /\ ~Over(a.job))
    BY <1>4, <1>5, <1>8, ConsoleParts
  <2>3. trouble' \in BOOLEAN
    BY <1>8
  <2>4. last' \in Onions \cup {None} /\ post' \in [Kinds -> Post \cup {None}]
    BY <1>2, <1>5, ConsoleParts
  <2>5. ConsoleTyped'
    BY <1>2, <1>4, <1>5, <2>2, <2>3, <2>4, PageTyped
  <2>6. ASSUME ~trouble' PROVE Paired'
    <3>1. ~trouble /\ ~a.old /\ timer[k]
      BY <1>8, <2>6
    <3>2. /\ post[k] = None /\ (job[k] = None \/ job[k].onion = last)
          /\ \A m \in DOMAIN polls[k] : Brings(polls[k][m])
      BY <1>1, <3>1, PollsOfImport
    <3>3. a.job.onion = last
      BY <1>2, <1>8, <3>1, <3>2 DEF Brings
    <3>4. \A j \in DOMAIN s : Brings(s[j])
      BY <1>4, <3>2
    <3>5. ~Over(a.job) => a.job.state = "running"
      BY <2>1, OverJobs
    <3>6. post'[k] = None /\ job' = job /\ last' = last
      BY <1>2, <3>2
    <3>7. \A j \in DOMAIN polls'[k] : polls'[k][j].old \/ polls'[k][j].at = "sent"
                 \/ polls'[k][j].job = None \/ polls'[k][j].job.onion = last'
      BY <1>6, <3>4, <3>6 DEF Brings
    <3>8. timer'[k] => run'[k] # None /\ run'[k].state \in {"asked", "running"}
      BY <1>8, <2>2, <3>5
    <3>9. run'[k].onion = last' /\ (job'[k] = None \/ job'[k].onion = last')
      BY <2>2, <3>2, <3>3, <3>6
    <3> QED BY <1>1, <3>6, <3>7, <3>8, <3>9 DEF Paired, Brings
  <2> QED BY <2>5, <2>6 DEF ConsoleInv, PairedInv
<1> QED BY <1>3, <1>7, <1>8

LEMMA UpdatePolledKeeps == ASSUME ConsoleInv, NEW i \in Nat, UpdatePolled(i) PROVE ConsoleInv'
<1>1. PICK k \in Kinds : k = "update"
  BY DEF Kinds
<1>2. ConsoleTyped /\ PairedInv
  BY DEF ConsoleInv
<1>3. i \in DOMAIN polls[k] /\ UNCHANGED <<job, cache, floor, checks, head, known>>
  BY <1>1 DEF UpdatePolled, server
<1>4. CASE Opened(run', timer', last', post', polls') /\ UNCHANGED trouble
  <2>1. /\ run' = [m \in Kinds |-> None] /\ timer' = [m \in Kinds |-> FALSE] /\ last' = None
        /\ post' = [m \in Kinds |-> None] /\ polls' = [m \in Kinds |-> <<>>] /\ trouble' = trouble
    BY <1>4 DEF Opened, Blank
  <2>2. polls' \in [Kinds -> Seq(Ask)]
    BY <2>1
  <2>3. \A m \in Kinds : Len(polls'[m]) <= MaxPolls
    BY <2>1, ConsoleAssumption
  <2>4. ConsoleTyped'
    BY <1>2, <1>3, <2>1, <2>2, <2>3, ConsoleParts, PageTyped
  <2>5. PairedInv'
    BY <2>1 DEF PairedInv, Paired, Kinds
  <2> QED BY <2>4, <2>5 DEF ConsoleInv
<1> DEFINE a == polls[k][i]
<1>5. CASE /\ polls' = [polls EXCEPT ![k] = RemoveAt(polls[k], i)]
           /\ UNCHANGED <<last, post>>
           /\ \/ UNCHANGED <<run, timer, trouble>>
              \/ /\ a.job # None
                 /\ run' = [run EXCEPT ![k] = a.job]
                 /\ timer' = [timer EXCEPT ![k] = @ /\ a.job.state # "failed"]
                 /\ trouble' = (trouble \/ a.old \/ ~timer[k])
  <2>1. /\ a \in Ask /\ a.job \in PageRun \cup {None}
        /\ polls' \in [Kinds -> Seq(Ask)] /\ \A m \in Kinds : Len(polls'[m]) <= MaxPolls
    BY <1>3, <1>5, AnsweredPoll
  <2>2. run' \in [Kinds -> PageRun \cup {None}]
    BY <1>2, <1>5, <2>1, ConsoleParts
  <2>3. timer' \in [Kinds -> BOOLEAN]
    BY <1>2, <1>5, ConsoleParts
  <2>4. a.old \in BOOLEAN
    BY <2>1 DEF Ask
  <2>5. trouble' \in BOOLEAN
    BY <1>2, <1>5, <2>4, ConsoleParts
  <2>6. ConsoleTyped'
    BY <1>2, <1>3, <1>5, <2>1, <2>2, <2>3, <2>5, ConsoleParts, PageTyped
  <2>7. \A m \in Kinds \ {k} : run'[m] = run[m] /\ timer'[m] = timer[m] /\ polls'[m] = polls[m]
    BY <1>2, <1>5, ConsoleParts
  <2>8. SameImport
    <3>1. "import" \in Kinds \ {k}
      BY <1>1 DEF Kinds
    <3>2. job' = job /\ last' = last /\ post' = post
      BY <1>3, <1>5
    <3>3. trouble => trouble'
      BY <1>5
    <3> QED BY <2>7, <3>1, <3>2, <3>3 DEF SameImport
  <2> QED BY <1>2, <2>6, <2>8, PairedStays DEF ConsoleInv
<1>6. \/ Opened(run', timer', last', post', polls') /\ UNCHANGED trouble
      \/ /\ polls' = [polls EXCEPT ![k] = RemoveAt(polls[k], i)]
         /\ UNCHANGED <<last, post>>
         /\ \/ UNCHANGED <<run, timer, trouble>>
            \/ /\ a.job # None
               /\ run' = [run EXCEPT ![k] = a.job]
               /\ timer' = [timer EXCEPT ![k] = @ /\ a.job.state # "failed"]
               /\ trouble' = (trouble \/ a.old \/ ~timer[k])
  BY <1>1 DEF UpdatePolled
<1> QED BY <1>4, <1>5, <1>6

-----------------------------------------------------------------------------
(***************************************************************************)
(* The backend, action by action.                                          *)
(***************************************************************************)
LEMMA AcceptKeeps == ASSUME ConsoleInv, NEW k \in Kinds, Accept(k) PROVE ConsoleInv'
<1>1. ConsoleTyped /\ PairedInv
  BY DEF ConsoleInv
<1>2. /\ post[k] # None /\ post[k] \in Post
      /\ post[k].onion \in Onions \cup {None} /\ post[k].apply \in BOOLEAN
  BY ZenonT(40), <1>1, ConsoleParts, PostKinds DEF Accept
<1> DEFINE j == [onion |-> post[k].onion, apply |-> post[k].apply, state |-> "running"]
           p == [[post[k] EXCEPT !.at = "answer"] EXCEPT !.status = 202]
<1>3. j \in Job /\ j.onion = post[k].onion
  BY <1>2 DEF Job, JobState
<1>4. p \in Post /\ p.onion = post[k].onion
  BY ZenonT(40), <1>2 DEF Post
<1>5. /\ job' = [job EXCEPT ![k] = j] /\ post' = [post EXCEPT ![k] = p]
      /\ UNCHANGED <<cache, floor, checks, head, run, timer, last, polls, known, trouble>>
  BY <1>1, <1>2, ConsoleParts DEF Accept
<1> HIDE DEF j, p
<1>6. /\ job' \in [Kinds -> Job \cup {None}] /\ post' \in [Kinds -> Post \cup {None}]
      /\ job'[k] = j /\ post'[k] = p
      /\ \A m \in Kinds \ {k} : job'[m] = job[m] /\ post'[m] = post[m]
  BY <1>1, <1>3, <1>4, <1>5, ConsoleParts
<1>7. ConsoleTyped'
  BY <1>1, <1>5, <1>6 DEF ConsoleTyped, ConsoleTypeOK
<1>8. PairedInv'
  <2>1. CASE k = "update"
    <3>1. "import" \in Kinds \ {k}
      BY <2>1 DEF Kinds
    <3>2. SameImport
      BY <1>5, <1>6, <3>1 DEF SameImport
    <3> QED BY <1>1, <3>2, PairedStays
  <2>2. CASE k = "import"
    BY <1>1, <1>2, <1>3, <1>4, <1>5, <1>6, <2>2 DEF PairedInv, Paired, Sent
  <2> QED BY <2>1, <2>2 DEF Kinds
<1> QED BY <1>7, <1>8 DEF ConsoleInv

LEMMA ElsewhereKeeps ==
    ASSUME ConsoleInv, NEW k \in Kinds, NEW onion \in Onions \cup {None}, NEW apply \in BOOLEAN,
           Elsewhere(k, onion, apply)
    PROVE  ConsoleInv'
<1>1. ConsoleTyped /\ PairedInv
  BY DEF ConsoleInv
<1> DEFINE j == [onion |-> onion, apply |-> apply, state |-> "running"]
<1>2. j \in Job
  BY DEF Job, JobState
<1>3. /\ job' = [job EXCEPT ![k] = j] /\ trouble' = (trouble \/ Follows(k))
      /\ UNCHANGED <<cache, floor, checks, head, run, timer, last, post, polls, known>>
  BY DEF Elsewhere, page
<1> HIDE DEF j
<1>4. /\ job' \in [Kinds -> Job \cup {None}]
      /\ job'[k] = j /\ \A m \in Kinds \ {k} : job'[m] = job[m]
  BY <1>1, <1>2, <1>3, ConsoleParts
<1>5. trouble' \in BOOLEAN
  BY <1>3
<1>6. ConsoleTyped'
  BY <1>1, <1>3, <1>4, <1>5 DEF ConsoleTyped, ConsoleTypeOK
<1>7. PairedInv'
  <2>1. CASE k = "update"
    <3>1. "import" \in Kinds \ {k}
      BY <2>1 DEF Kinds
    <3>2. SameImport
      BY <1>3, <1>4, <3>1 DEF SameImport
    <3> QED BY <1>1, <3>2, PairedStays
  <2>2. ASSUME k = "import", ~trouble' PROVE Paired'
    <3>1. ~trouble /\ ~timer[k] /\ post[k] = None
      BY <1>3, <2>2 DEF Follows
    <3> QED BY <1>1, <1>3, <2>2, <3>1 DEF PairedInv, Paired
  <2> QED BY <2>1, <2>2 DEF Kinds, PairedInv
<1> QED BY <1>6, <1>7 DEF ConsoleInv

LEMMA EndsKeeps == ASSUME ConsoleInv, NEW k \in Kinds, Ends(k) PROVE ConsoleInv'
<1>1. ConsoleTyped /\ PairedInv
  BY DEF ConsoleInv
<1>2. PICK s \in JobState : job' = [job EXCEPT ![k].state = s]
  BY DEF Ends
<1>3. job[k] # None /\ job[k] \in Job
  BY <1>1, ConsoleParts DEF Ends, Running
<1> DEFINE j == [job[k] EXCEPT !.state = s]
<1>4. j \in Job /\ j.onion = job[k].onion
  BY <1>3 DEF Job
<1>5. /\ job' = [job EXCEPT ![k] = j]
      /\ UNCHANGED <<cache, floor, checks, head, run, timer, last, post, polls, known, trouble>>
  BY <1>1, <1>2, ConsoleParts DEF Ends, page
<1> HIDE DEF j
<1>6. /\ job' \in [Kinds -> Job \cup {None}]
      /\ job'[k] = j /\ \A m \in Kinds \ {k} : job'[m] = job[m]
  BY <1>1, <1>4, <1>5, ConsoleParts
<1>7. ConsoleTyped'
  BY <1>1, <1>5, <1>6 DEF ConsoleTyped, ConsoleTypeOK
<1>8. PairedInv'
  <2>1. CASE k = "update"
    <3>1. "import" \in Kinds \ {k}
      BY <2>1 DEF Kinds
    <3>2. SameImport
      BY <1>5, <1>6, <3>1 DEF SameImport
    <3> QED BY <1>1, <3>2, PairedStays
  <2>2. ASSUME k = "import" PROVE PairedInv'
    BY <1>1, <1>3, <1>4, <1>5, <1>6, <2>2 DEF PairedInv, Paired, Sent, Brings
  <2> QED BY <2>1, <2>2 DEF Kinds
<1> QED BY <1>7, <1>8 DEF ConsoleInv

LEMMA RestartKeeps == ASSUME ConsoleInv, Restart PROVE ConsoleInv'
<1>1. ConsoleTyped /\ PairedInv
  BY DEF ConsoleInv
<1>2. /\ job' = [k \in Kinds |-> None] /\ cache' = None /\ floor' = FALSE /\ checks' = <<>>
      /\ UNCHANGED <<head, run, timer, last, polls, known>>
  BY DEF Restart, Blank
<1>3. ASSUME NEW k \in Kinds, post[k] # None PROVE [post[k] EXCEPT !.at = "sent"] \in Post
  <2>1. post[k] \in Post
    BY <1>1, <1>3, ConsoleParts
  <2> QED BY <2>1 DEF Post
<1>4. /\ post' \in [Kinds -> Post \cup {None}]
      /\ \A k \in Kinds : post[k] = None => post'[k] = None
  BY <1>1, <1>3, ConsoleParts DEF Restart
<1>5. trouble' \in BOOLEAN
  BY DEF Restart
<1>6. ConsoleTyped'
  <2>1. checks' \in Seq(0..MaxPushes \cup {None}) /\ Len(checks') <= MaxChecks
    BY <1>2, ConsoleAssumption
  <2> QED BY <1>1, <1>2, <1>4, <1>5, <2>1 DEF ConsoleTyped, ConsoleTypeOK
<1>7. ASSUME ~trouble' PROVE Paired'
  <2>1. "import" \in Kinds
    BY DEF Kinds
  <2>2. ~trouble /\ (Follows("import") =>
              run["import"] # None /\ run["import"].state \notin {"asked", "running"})
    BY <1>7, <2>1 DEF Restart
  <2>3. post["import"] = None /\ ~timer["import"]
    BY <1>1, <2>2 DEF PairedInv, Paired, Sent, Follows
  <2>4. post'["import"] = None
    BY <1>4, <2>1, <2>3
  <2>5. ~timer'["import"] /\ run'["import"] = run["import"] /\ last' = last
    BY <1>2, <2>3
  <2>6. run["import"] # None /\ run["import"].state = "ready" => run["import"].onion = last
    BY <1>1, <2>2 DEF PairedInv, Paired
  <2> QED BY <2>4, <2>5, <2>6 DEF Paired
<1> QED BY <1>6, <1>7 DEF ConsoleInv, PairedInv

\* The update check and its cache.
LEMMA ChecksKeep ==
    ASSUME ConsoleInv, UNCHANGED page, UNCHANGED <<job, trouble>>,
           cache' \in 0..MaxPushes \cup {None}, floor' \in BOOLEAN,
           checks' \in Seq(0..MaxPushes \cup {None}), Len(checks') <= MaxChecks,
           head' \in 0..MaxPushes, known' \in 0..MaxPushes
    PROVE  ConsoleInv'
<1>1. ConsoleTyped'
  BY ConsoleParts, ServerTyped DEF ConsoleInv
<1>2. SameImport
  BY DEF page, SameImport
<1> QED BY <1>1, <1>2, PairedStays DEF ConsoleInv

LEMMA FewerChecks ==
    ASSUME ConsoleInv, NEW i \in DOMAIN checks
    PROVE  /\ RemoveAt(checks, i) \in Seq(0..MaxPushes \cup {None})
           /\ Len(RemoveAt(checks, i)) <= MaxChecks
<1>1. checks \in Seq(0..MaxPushes \cup {None}) /\ Len(checks) <= MaxChecks
  BY ConsoleParts DEF ConsoleInv
<1> DEFINE s == RemoveAt(checks, i)
<1>2. s \in Seq(0..MaxPushes \cup {None}) /\ Len(s) = Len(checks) - 1
  BY <1>1, RemoveParts
<1> HIDE DEF s
<1>3. Len(s) <= MaxChecks
  BY <1>1, <1>2, ConsoleAssumption
<1> QED BY <1>2, <1>3 DEF s

LEMMA CheckStepsKeep ==
    ASSUME ConsoleInv, NEW i \in Nat,
           \/ (\E forced \in BOOLEAN : Check(forced))
           \/ Compare(i) \/ Checked(i) \/ CheckFails(i)
           \/ SignIn \/ CacheExpires \/ FloorEnds \/ Push
    PROVE  ConsoleInv'
<1>1. /\ checks \in Seq(0..MaxPushes \cup {None}) /\ Len(checks) <= MaxChecks
      /\ cache \in 0..MaxPushes \cup {None} /\ floor \in BOOLEAN
      /\ head \in 0..MaxPushes /\ known \in 0..MaxPushes
  BY ConsoleParts DEF ConsoleInv
<1>2. ASSUME NEW forced \in BOOLEAN, Check(forced) PROVE ConsoleInv'
  <2>1. /\ checks' = Append(checks, None) /\ floor' = (floor \/ forced) /\ Len(checks) < MaxChecks
        /\ UNCHANGED page /\ UNCHANGED <<job, trouble, cache, head, known>>
    BY <1>2 DEF Check
  <2>2. checks' \in Seq(0..MaxPushes \cup {None}) /\ Len(checks') = Len(checks) + 1
    BY <1>1, <2>1
  <2>3. Len(checks') <= MaxChecks
    BY <1>1, <2>1, <2>2, ConsoleAssumption
  <2>4. floor' \in BOOLEAN
    BY <2>1
  <2> QED BY <1>1, <2>1, <2>2, <2>3, <2>4, ChecksKeep
<1>3. CASE Compare(i)
  <2>1. /\ i \in DOMAIN checks /\ checks' = [checks EXCEPT ![i] = head]
        /\ UNCHANGED page /\ UNCHANGED <<job, trouble, cache, floor, head, known>>
    BY <1>3 DEF Compare
  <2>2. checks' \in Seq(0..MaxPushes \cup {None}) /\ Len(checks') = Len(checks)
    BY <1>1, <2>1
  <2> QED BY <1>1, <2>1, <2>2, ChecksKeep
<1>4. CASE Checked(i)
  <2>1. /\ i \in DOMAIN checks /\ checks[i] # None /\ cache' = checks[i] /\ checks' = RemoveAt(checks, i)
        /\ UNCHANGED page /\ UNCHANGED <<job, trouble, floor, head, known>>
    BY <1>4 DEF Checked
  <2>2. checks' \in Seq(0..MaxPushes \cup {None}) /\ Len(checks') <= MaxChecks
    BY <2>1, FewerChecks
  <2>3. cache' \in 0..MaxPushes \cup {None}
    BY <1>1, <2>1
  <2> QED BY <1>1, <2>1, <2>2, <2>3, ChecksKeep
<1>5. CASE CheckFails(i)
  <2>1. /\ i \in DOMAIN checks /\ checks' = RemoveAt(checks, i)
        /\ UNCHANGED page /\ UNCHANGED <<job, trouble, cache, floor, head, known>>
    BY <1>5 DEF CheckFails
  <2>2. checks' \in Seq(0..MaxPushes \cup {None}) /\ Len(checks') <= MaxChecks
    BY <2>1, FewerChecks
  <2> QED BY <1>1, <2>1, <2>2, ChecksKeep
<1>6. CASE SignIn
  BY <1>1, <1>6, ChecksKeep DEF SignIn
<1>7. CASE CacheExpires
  BY <1>1, <1>7, ChecksKeep DEF CacheExpires
<1>8. CASE FloorEnds
  BY <1>1, <1>8, ChecksKeep DEF FloorEnds
<1>9. CASE Push
  <2>1. head < MaxPushes /\ head' = head + 1
        /\ UNCHANGED page /\ UNCHANGED <<job, trouble, checks, cache, floor, known>>
    BY <1>9 DEF Push
  <2>2. head' \in 0..MaxPushes
    BY <1>1, <2>1, ConsoleAssumption
  <2> QED BY <1>1, <2>1, <2>2, ChecksKeep
<1> QED BY <1>2, <1>3, <1>4, <1>5, <1>6, <1>7, <1>8, <1>9

-----------------------------------------------------------------------------
(***************************************************************************)
(* The console's specification.                                            *)
(***************************************************************************)
LEMMA ConsoleStarts == ConsoleInit => ConsoleInv /\ clicks = 0
<1> SUFFICES ASSUME ConsoleInit PROVE ConsoleInv /\ clicks = 0
  OBVIOUS
<1>1. /\ job = [k \in Kinds |-> None] /\ cache = None /\ floor = FALSE /\ checks = <<>> /\ head = 0
      /\ run = [k \in Kinds |-> None] /\ timer = [k \in Kinds |-> FALSE] /\ last = None
      /\ post = [k \in Kinds |-> None] /\ polls = [k \in Kinds |-> <<>>]
      /\ clicks = 0 /\ known = 0 /\ trouble = FALSE
  BY DEF ConsoleInit, Opened, Blank
<1>2. polls \in [Kinds -> Seq(Ask)] /\ \A k \in Kinds : Len(polls[k]) <= MaxPolls
  BY <1>1, ConsoleAssumption
<1>3. checks \in Seq(0..MaxPushes \cup {None}) /\ Len(checks) <= MaxChecks
  BY <1>1, ConsoleAssumption
<1>4. {head, known} \subseteq 0..MaxPushes
  BY <1>1, ConsoleAssumption
<1>5. ConsoleTyped
  BY <1>1, <1>2, <1>3, <1>4 DEF ConsoleTyped, ConsoleTypeOK
<1>6. PairedInv
  BY <1>1 DEF PairedInv, Paired, Kinds
<1> QED BY <1>1, <1>5, <1>6 DEF ConsoleInv

LEMMA ConsoleSteps == ConsoleInv /\ [ConsoleNext]_console => ConsoleInv'
<1> SUFFICES ASSUME ConsoleInv, [ConsoleNext]_console PROVE ConsoleInv'
  OBVIOUS
<1>1. CASE UNCHANGED console
  <2>1. UNCHANGED page /\ UNCHANGED <<job, cache, floor, checks, head, known, trouble>>
    BY <1>1 DEF console, server, page
  <2> QED BY <2>1, ConsoleParts, ChecksKeep DEF ConsoleInv
<1>2. CASE StartUpdate \/ ApplyImport \/ (\E onion \in Onions : PlanImport(onion))
  BY <1>2, AsksKeep
<1>3. CASE Refuse
  BY <1>3, RefuseKeeps
<1>4. ASSUME NEW i \in Nat, ImportPolled(i) \/ UpdatePolled(i) PROVE ConsoleInv'
  BY <1>4, ImportPolledKeeps, UpdatePolledKeeps
<1>5. ASSUME NEW k \in Kinds, Dismiss(k) \/ Arrive(k) \/ Accept(k) \/ Ends(k) PROVE ConsoleInv'
  BY <1>5, DismissKeeps, ArriveKeeps, AcceptKeeps, EndsKeeps
<1>6. ASSUME NEW k \in Kinds, Posted(k) \/ PostLost(k) \/ Poll(k) PROVE ConsoleInv'
  BY <1>6, PostedKeeps, PostLostKeeps, PollKeeps
<1>7. ASSUME NEW k \in Kinds, NEW i \in Nat, Status(k, i) \/ PollLost(k, i) PROVE ConsoleInv'
  BY <1>7, StatusKeeps, PollLostKeeps
<1>8. ASSUME NEW k \in Kinds, NEW onion \in Onions \cup {None}, NEW apply \in BOOLEAN,
             Elsewhere(k, onion, apply)
      PROVE  ConsoleInv'
  BY <1>8, ElsewhereKeeps
<1>9. ASSUME NEW i \in Nat,
             \/ (\E forced \in BOOLEAN : Check(forced))
             \/ Compare(i) \/ Checked(i) \/ CheckFails(i)
             \/ SignIn \/ CacheExpires \/ FloorEnds \/ Push
      PROVE  ConsoleInv'
  BY <1>9, CheckStepsKeep
<1>10. CASE Restart
  BY <1>10, RestartKeeps
<1>11. 0 \in Nat /\ 1..MaxPolls \subseteq Nat /\ 1..MaxChecks \subseteq Nat
  BY ConsoleAssumption
<1> QED BY <1>1, <1>2, <1>3, <1>4, <1>5, <1>6, <1>7, <1>8, <1>9, <1>10, <1>11 DEF ConsoleNext

\* Who asks for a job.
Asking ==
    \/ StartUpdate \/ ApplyImport \/ (\E onion \in Onions : PlanImport(onion))
    \/ \E k \in Kinds, onion \in Onions \cup {None}, apply \in BOOLEAN : Elsewhere(k, onion, apply)

LEMMA ClicksMove ==
    ASSUME [ConsoleNext]_console
    PROVE  clicks' = clicks \/ (clicks' = clicks + 1 /\ Asking)
<1>1. CASE UNCHANGED console
  BY <1>1 DEF console, bounds
<1>2. CASE StartUpdate \/ ApplyImport \/ (\E onion \in Onions : PlanImport(onion))
  BY <1>2 DEF StartUpdate, ApplyImport, PlanImport, StartJob, Asking
<1>3. CASE Refuse
  BY <1>3 DEF Refuse, bounds
<1>4. ASSUME NEW i \in 1..MaxPolls, ImportPolled(i) \/ UpdatePolled(i) PROVE clicks' = clicks
  BY <1>4 DEF ImportPolled, UpdatePolled, bounds
<1>5. ASSUME NEW k \in Kinds, Dismiss(k) \/ Arrive(k) \/ Accept(k) \/ Ends(k) PROVE clicks' = clicks
  BY <1>5 DEF Dismiss, Arrive, Accept, Ends, bounds
<1>6. ASSUME NEW k \in Kinds, Posted(k) \/ PostLost(k) \/ Poll(k) PROVE clicks' = clicks
  BY <1>6 DEF Posted, PostLost, Poll, bounds
<1>7. ASSUME NEW k \in Kinds, NEW i \in 1..MaxPolls, Status(k, i) \/ PollLost(k, i)
      PROVE  clicks' = clicks
  BY <1>7 DEF Status, PollLost, bounds
<1>8. ASSUME NEW k \in Kinds, NEW onion \in Onions \cup {None}, NEW apply \in BOOLEAN,
             Elsewhere(k, onion, apply)
      PROVE  clicks' = clicks + 1 /\ Asking
  BY <1>8 DEF Elsewhere, Asking
<1>9. ASSUME NEW forced \in BOOLEAN, Check(forced) PROVE clicks' = clicks
  BY <1>9 DEF Check, bounds
<1>10. ASSUME NEW i \in 1..MaxChecks, Compare(i) \/ Checked(i) \/ CheckFails(i) PROVE clicks' = clicks
  BY <1>10 DEF Compare, Checked, CheckFails, bounds
<1>11. CASE SignIn \/ CacheExpires \/ FloorEnds \/ Push \/ Restart
  BY <1>11 DEF SignIn, CacheExpires, FloorEnds, Push, Restart, bounds
<1> QED BY <1>1, <1>2, <1>3, <1>4, <1>5, <1>6, <1>7, <1>8, <1>9, <1>10, <1>11 DEF ConsoleNext

\* The one step that applies an import: its directory is that of the plan shown.
LEMMA AppliesThePlan ==
    ASSUME ConsoleInv, clicks \in Nat, [ConsoleNext]_console,
           ~trouble, clicks' > clicks, post'["import"] # post["import"], post'["import"].apply
    PROVE  run["import"].onion = post'["import"].onion /\ run["import"].state = "ready"
<1>1. ConsoleTyped /\ PairedInv
  BY DEF ConsoleInv
<1>2. Asking
  BY ClicksMove
<1>3. CASE StartUpdate
  <2>1. "update" \in Kinds /\ "import" \in Kinds \ {"update"}
    BY DEF Kinds
  <2>2. post'["import"] = post["import"]
    BY <1>1, <1>3, <2>1, StartJobParts DEF StartUpdate
  <2> QED BY <2>2
<1>4. CASE ApplyImport
  <2>1. run["import"] # None /\ run["import"].state = "ready" /\ StartJob("import", last, TRUE)
    BY <1>4 DEF ApplyImport, OffersApply
  <2>2. run["import"].onion = last
    BY <1>1, <2>1 DEF PairedInv, Paired
  <2>3. "import" \in Kinds /\ last \in Onions \cup {None}
    BY <1>1, ConsoleParts DEF Kinds
  <2>4. post'["import"].onion = last
    BY ZenonT(40), <1>1, <2>1, <2>3, StartJobParts
  <2> QED BY <2>1, <2>2, <2>4
<1>5. ASSUME NEW onion \in Onions, PlanImport(onion) PROVE FALSE
  <2>1. "import" \in Kinds
    BY DEF Kinds
  <2>2. post'["import"].apply = FALSE
    BY <1>1, <1>5, <2>1, StartJobParts DEF PlanImport
  <2> QED BY <2>2
<1>6. ASSUME NEW k \in Kinds, NEW onion \in Onions \cup {None}, NEW apply \in BOOLEAN,
             Elsewhere(k, onion, apply)
      PROVE  FALSE
  BY <1>6 DEF Elsewhere, page
<1> QED BY <1>2, <1>3, <1>4, <1>5, <1>6 DEF Asking

ConsoleKept == ConsoleInv /\ clicks \in Nat

LEMMA ConsoleAlways == ConsoleSpec => []ConsoleKept
<1>1. ConsoleInit => ConsoleKept
  BY ConsoleStarts DEF ConsoleKept
<1>2. ConsoleKept /\ [ConsoleNext]_console => ConsoleKept'
  BY ConsoleSteps, ClicksMove DEF ConsoleKept
<1> QED BY <1>1, <1>2, PTL DEF ConsoleSpec

(***************************************************************************)
(* Jobs, requests, polls and the check's cache keep their types, whatever  *)
(* is lost, repeated or overtaken.                                         *)
(***************************************************************************)
THEOREM ConsoleTypes == ConsoleSpec => []ConsoleTypeOK
<1>1. ConsoleKept => ConsoleTypeOK
  BY DEF ConsoleKept, ConsoleInv, ConsoleTyped
<1> QED BY <1>1, ConsoleAlways, PTL

(***************************************************************************)
(* The import that is applied is the one whose plan is on the screen, for  *)
(* any number of directories, jobs, polls, losses and restarts, as long as *)
(* no answer was overtaken and nobody else started an import meanwhile.    *)
(***************************************************************************)
THEOREM AppliedAsShown == ConsoleSpec => ApplyMatchesPlan
<1>1. ConsoleKept /\ [ConsoleNext]_console
        => [~trouble /\ clicks' > clicks
              /\ post'["import"] # post["import"] /\ post'["import"].apply
              => /\ run["import"].onion = post'["import"].onion
                 /\ run["import"].state = "ready"]_console
  BY AppliesThePlan DEF ConsoleKept
<1> QED BY <1>1, ConsoleAlways, PTL DEF ConsoleSpec, ApplyMatchesPlan
=============================================================================
