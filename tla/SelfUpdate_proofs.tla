-------------------------- MODULE SelfUpdate_proofs --------------------------
(***************************************************************************)
(* Proofs about the self-update and what is fetched for it, for any number *)
(* of updates, any entries of the tree and any versions, archives and      *)
(* limits.                                                                 *)
(***************************************************************************)
EXTENDS Upstream, FiniteSetTheorems, TLAPS

(***************************************************************************)
(* Where an update may be.                                                 *)
(***************************************************************************)
Plain   == [at: {"idle", "asked", "accepted", "restart", "over"}]
Carried == [at: {"backup", "deps", "overlay"}, tree: Versions,
            label: Versions \cup {None}, brings: {Served, Entries}, copied: SUBSET Entries]

\* What the types say of one update.
LEMMA Places ==
    ASSUME TypeOK, NEW u \in Updates
    PROVE  /\ up[u] \in Plain \cup Carried
           /\ up[u].at \in {"idle", "asked", "accepted", "backup", "deps", "overlay",
                            "restart", "over"}
           /\ up[u].at \in {"backup", "deps", "overlay"} =>
                /\ up[u] \in Carried
                /\ up[u].tree \in Versions /\ up[u].label \in Versions \cup {None}
                /\ up[u].brings \in {Served, Entries} /\ up[u].copied \subseteq Entries
  <1>1. up[u] \in Plain \cup Carried
    BY DEF TypeOK, Plain, Carried
  <1>2. CASE up[u] \in Plain
    BY <1>2 DEF Plain
  <1>3. CASE up[u] \in Carried
    BY <1>3 DEF Carried
  <1> QED BY <1>1, <1>2, <1>3

\* A step that moves one update leaves the others where they are.
LEMMA Moves ==
    ASSUME TypeOK, NEW u \in Updates, NEW p \in Plain \cup Carried, Becomes(u, p)
    PROVE  /\ up' \in [Updates -> Plain \cup Carried]
           /\ up'[u] = p
           /\ \A w \in Updates \ {u} : up'[w] = up[w]
  BY DEF TypeOK, Becomes, Plain, Carried

LEMMA Copies ==
    ASSUME TypeOK, NEW u \in Updates, NEW e \in Entries, Copied(u, e),
           up[u].at \in {"backup", "deps", "overlay"}
    PROVE  /\ up' \in [Updates -> Plain \cup Carried]
           /\ up'[u].at = up[u].at /\ up'[u].tree = up[u].tree
           /\ up'[u].label = up[u].label /\ up'[u].brings = up[u].brings
           /\ up'[u].copied = up[u].copied \cup {e}
           /\ \A w \in Updates \ {u} : up'[w] = up[w]
  <1>1. up[u] \in Carried
    BY Places
  <1>2. [up[u] EXCEPT !.copied = @ \cup {e}] \in Carried
    BY <1>1 DEF Carried
  <1>3. up \in [Updates -> Plain \cup Carried]
    BY DEF TypeOK, Plain, Carried
  <1>4. up' = [up EXCEPT ![u] = [up[u] EXCEPT !.copied = @ \cup {e}]]
    BY DEF Copied
  <1> QED BY <1>1, <1>2, <1>3, <1>4 DEF Carried

(***************************************************************************)
(* Types.                                                                  *)
(***************************************************************************)
LEMMA InitTypes == Init => TypeOK
  <1> SUFFICES ASSUME Init PROVE TypeOK
    OBVIOUS
  <1>1. up \in [Updates -> Plain \cup Carried]
    BY DEF Init, Idle, Plain
  <1>2. /\ overlapped \in BOOLEAN /\ cut \in BOOLEAN
        /\ mislabelled \in BOOLEAN /\ peered \in BOOLEAN
    BY DEF Init
  <1> QED BY <1>1, <1>2, SelfUpdateAssumption DEF Init, TypeOK, Plain, Carried, Entries

\* A step whose updates and history are well shaped, and which leaves the rest.
LEMMA ShapedStep ==
    ASSUME TypeOK, up' \in [Updates -> Plain \cup Carried],
           tree' \in [Entries -> Versions], running' \in [Served -> Versions],
           marker' \in Versions, job' \in Updates \cup {None},
           backup' \in [Updates -> [Code -> Versions \cup {None}]],
           overlapped' \in BOOLEAN, cut' \in BOOLEAN, mislabelled' \in BOOLEAN,
           peered' \in BOOLEAN
    PROVE  TypeOK'
  BY DEF TypeOK, Plain, Carried

LEMMA PlainAt ==
    /\ [at |-> "asked"] \in Plain /\ [at |-> "accepted"] \in Plain
    /\ [at |-> "restart"] \in Plain /\ Over \in Plain /\ Idle \in Plain
    /\ Over.at = "over" /\ Idle.at = "idle"
  BY DEF Plain, Over, Idle

LEMMA AtOnce ==
    ASSUME TypeOK, NEW u \in Updates, up[u].at \in {"backup", "deps", "overlay"}
    PROVE  /\ [up[u] EXCEPT !.at = "deps", !.copied = {}] \in Carried
           /\ [up[u] EXCEPT !.at = "overlay"] \in Carried
           /\ [up[u] EXCEPT !.at = "deps", !.copied = {}].at = "deps"
           /\ [up[u] EXCEPT !.at = "deps", !.copied = {}].copied = {}
           /\ [up[u] EXCEPT !.at = "deps", !.copied = {}].tree = up[u].tree
           /\ [up[u] EXCEPT !.at = "deps", !.copied = {}].label = up[u].label
           /\ [up[u] EXCEPT !.at = "deps", !.copied = {}].brings = up[u].brings
           /\ [up[u] EXCEPT !.at = "overlay"].at = "overlay"
           /\ [up[u] EXCEPT !.at = "overlay"].copied = up[u].copied
           /\ [up[u] EXCEPT !.at = "overlay"].tree = up[u].tree
           /\ [up[u] EXCEPT !.at = "overlay"].label = up[u].label
           /\ [up[u] EXCEPT !.at = "overlay"].brings = up[u].brings
  <1>1. up[u] \in Carried
    BY Places
  <1> QED BY <1>1 DEF Carried

(***************************************************************************)
(* What each action does to the update it is about, in one place: the      *)
(* proofs below split on it.                                               *)
(***************************************************************************)
Others(u) == \A w \in Updates \ {u} : up'[w] = up[w]
Same      == UNCHANGED <<tree, marker, running, backup, cut, mislabelled, peered>>

Asks(u) == /\ up[u].at = "idle" /\ up'[u].at = "asked"
           /\ Same /\ overlapped' = overlapped
Accepts(u) == /\ up[u].at = "asked" /\ up'[u].at = "accepted"
              /\ overlapped' = (overlapped \/ UnderWay # {}) /\ Same
Stages(u) == /\ up[u].at = "accepted" /\ up'[u].at = "backup"
             /\ up'[u].copied = {} /\ overlapped' = overlapped /\ cut' = cut
             /\ mislabelled' \in BOOLEAN
             /\ ~mislabelled' => ~mislabelled /\ up'[u].label = up'[u].tree
             /\ UNCHANGED <<tree, marker, running, backup, peered>>
\* It fails before anything was laid over the tree.
GivesUp(u) == /\ up[u].at \in {"accepted", "backup", "deps"} /\ up'[u].at = "over"
              /\ Same /\ overlapped' = overlapped
BacksUp(u, e) == /\ up[u].at = "backup" /\ up'[u].at = "backup"
                 /\ backup' \in [Updates -> [Code -> Versions \cup {None}]]
                 /\ \A w \in Updates \ {u} : backup'[w] = backup[w]
                 /\ backup'[u][e] \in {tree[e], backup[u][e]}
                 /\ \A d \in Code \ {e} : backup'[u][d] = backup[u][d]
                 /\ up'[u].tree = up[u].tree /\ up'[u].label = up[u].label
                 /\ UNCHANGED <<tree, marker, running, overlapped, cut, mislabelled, peered>>
HandsOff(u) == /\ up[u].at = "backup" /\ up'[u].at = "deps" /\ up'[u].copied = {}
               /\ up'[u].tree = up[u].tree /\ up'[u].label = up[u].label
               /\ Cardinality({e \in Code : backup[u][e] # None}) >= 2
               /\ Same /\ overlapped' = overlapped
Installs(u) == /\ up[u].at = "deps" /\ up'[u].at = "overlay"
               /\ up'[u].copied = up[u].copied
               /\ up'[u].tree = up[u].tree /\ up'[u].label = up[u].label
               /\ Same /\ overlapped' = overlapped
Overlays(u, e) == /\ up[u].at = "overlay" /\ up'[u].at = "overlay"
                  /\ e \in up[u].brings /\ up[u].brings \in {Served, Entries}
                  /\ tree' = [tree EXCEPT ![e] = up[u].tree]
                  /\ up'[u].copied = up[u].copied \cup {e}
                  /\ up'[u].tree = up[u].tree /\ up'[u].label = up[u].label
                  /\ up'[u].brings = up[u].brings
                  /\ peered' = (e # Gateway /\ (peered \/ Gateway \notin up[u].brings))
                  /\ UNCHANGED <<marker, running, backup, overlapped, cut, mislabelled>>
IsCut(u) == /\ up[u].at = "overlay" /\ up'[u].at = "over" /\ cut' = TRUE
            /\ UNCHANGED <<tree, marker, running, backup, overlapped, mislabelled, peered>>
Marks(u) == /\ up[u].at = "overlay" /\ up'[u].at = "restart"
            /\ up[u].copied = up[u].brings /\ up[u].brings \in {Served, Entries}
            /\ marker' = IF up[u].label = None THEN marker ELSE up[u].label
            /\ UNCHANGED <<tree, running, backup, overlapped, cut, mislabelled, peered>>
StartsNot(u) == /\ up[u].at = "restart" /\ up'[u].at = "over"
                /\ Same /\ overlapped' = overlapped
\* The service starts: every update that was asked for is over.
Starts == /\ running' = [e \in Served |-> tree[e]]
          /\ \A w \in Updates : up'[w] = IF up[w] = Idle THEN Idle ELSE Over
          /\ ~cut' => /\ ~cut
                      /\ \/ \E u \in Updates : up[u].at = "restart"
                         \/ \A u \in Updates : up[u].at = "overlay" => up[u].copied = {}
          /\ UNCHANGED <<tree, marker, backup, overlapped, mislabelled, peered>>

Kinds == \/ \E u \in Updates :
              /\ Others(u)
              /\ \/ Asks(u) \/ Accepts(u) \/ Stages(u) \/ GivesUp(u) \/ HandsOff(u)
                 \/ Installs(u) \/ IsCut(u) \/ Marks(u) \/ StartsNot(u)
                 \/ \E e \in Code : BacksUp(u, e)
                 \/ \E e \in Entries : Overlays(u, e)
         \/ Starts

LEMMA StepKinds ==
    ASSUME TypeOK, Next
    PROVE  TypeOK' /\ Kinds
  <1>0. /\ tree \in [Entries -> Versions] /\ running \in [Served -> Versions]
        /\ marker \in Versions /\ job \in Updates \cup {None}
        /\ backup \in [Updates -> [Code -> Versions \cup {None}]]
        /\ overlapped \in BOOLEAN /\ cut \in BOOLEAN /\ mislabelled \in BOOLEAN
        /\ peered \in BOOLEAN
        /\ up \in [Updates -> Plain \cup Carried]
        /\ Code \subseteq Entries /\ Served \subseteq Entries
    BY DEF TypeOK, Plain, Carried, Entries, Served
  <1> DEFINE Fits == /\ tree' \in [Entries -> Versions] /\ running' \in [Served -> Versions]
                     /\ marker' \in Versions /\ job' \in Updates \cup {None}
                     /\ backup' \in [Updates -> [Code -> Versions \cup {None}]]
                     /\ overlapped' \in BOOLEAN /\ cut' \in BOOLEAN
                     /\ mislabelled' \in BOOLEAN /\ peered' \in BOOLEAN
  <1>a. Fits /\ up' \in [Updates -> Plain \cup Carried] => TypeOK'
    BY ShapedStep
  <1>1. ASSUME NEW u \in Updates, Ask(u) PROVE TypeOK' /\ Others(u) /\ Asks(u)
    <2>1. Fits /\ Same /\ overlapped' = overlapped
      BY <1>0, <1>1 DEF Ask, Root, History, Same
    <2>2. up[u] = Idle /\ Becomes(u, [at |-> "asked"])
      BY <1>1 DEF Ask
    <2>3. up' \in [Updates -> Plain \cup Carried] /\ up'[u] = [at |-> "asked"] /\ Others(u)
      BY <2>2, PlainAt, Moves DEF Others
    <2> QED BY <1>a, <2>1, <2>2, <2>3, PlainAt DEF Asks
  <1>2. ASSUME NEW u \in Updates, Accept(u) PROVE TypeOK' /\ Others(u) /\ Accepts(u)
    <2>1. Fits /\ Same /\ overlapped' = (overlapped \/ UnderWay # {})
      BY <1>0, <1>2 DEF Accept, Root, Same
    <2>2. up[u].at = "asked" /\ Becomes(u, [at |-> "accepted"])
      BY <1>2 DEF Accept
    <2>3. up' \in [Updates -> Plain \cup Carried] /\ up'[u] = [at |-> "accepted"] /\ Others(u)
      BY <2>2, PlainAt, Moves DEF Others
    <2> QED BY <1>a, <2>1, <2>2, <2>3 DEF Accepts
  <1>3. ASSUME NEW u \in Updates, NEW v \in Versions, NEW l \in Versions \cup {None},
               NEW b \in {Served, Entries}, Stage(u, v, l, b),
               UNCHANGED <<Root, job, backup, overlapped, cut, peered>>,
               mislabelled' = (mislabelled \/ l # v)
        PROVE  TypeOK' /\ Others(u) /\ Stages(u)
    <2> DEFINE p == [at |-> "backup", tree |-> v, label |-> l, brings |-> b, copied |-> {}]
    <2>1. p \in Carried /\ p.at = "backup" /\ p.tree = v /\ p.label = l /\ p.copied = {}
      BY DEF Carried
    <2>2. up[u].at = "accepted" /\ Becomes(u, p)
      BY <1>3 DEF Stage
    <2> HIDE DEF p
    <2>3. up' \in [Updates -> Plain \cup Carried] /\ up'[u] = p /\ Others(u)
      BY <2>1, <2>2, Moves DEF Others
    <2>4. Fits
      BY <1>0, <1>3 DEF Root
    <2>5. ~mislabelled' => ~mislabelled /\ l = v
      BY <1>3
    <2> QED BY <1>3, <1>a, <2>1, <2>2, <2>3, <2>4, <2>5 DEF Stages, Root
  <1>4. ASSUME NEW u \in Updates, NEW v \in Versions, FetchGitHub(u, v)
        PROVE  TypeOK' /\ Others(u) /\ Stages(u)
    <2>1. mislabelled' = (mislabelled \/ v # v)
      BY <1>0, <1>4 DEF FetchGitHub, History
    <2> QED BY <1>3, <1>4, <2>1 DEF FetchGitHub, History
  <1>5. ASSUME NEW u \in Updates, NEW v \in Versions, NEW l \in Versions \cup {None},
               FetchPeer(u, v, l)
        PROVE  TypeOK' /\ Others(u) /\ Stages(u)
    BY <1>3, <1>5 DEF FetchPeer
  <1>6. ASSUME NEW u \in Updates, StagingFails(u) \/ InstallFails(u)
        PROVE  TypeOK' /\ Others(u) /\ GivesUp(u)
    <2>1. Becomes(u, Over) /\ up[u].at \in {"accepted", "backup", "deps"}
      BY <1>6 DEF StagingFails, InstallFails, Staging
    <2>2. up' \in [Updates -> Plain \cup Carried] /\ up'[u].at = "over" /\ Others(u)
      BY <2>1, PlainAt, Moves DEF Others
    <2>3. Fits /\ Same /\ overlapped' = overlapped
      BY <1>0, <1>6 DEF StagingFails, InstallFails, JobDone, Root, History, Same
    <2> QED BY <1>a, <2>1, <2>2, <2>3 DEF GivesUp
  <1>7. ASSUME NEW u \in Updates, HandOff(u) PROVE TypeOK' /\ Others(u) /\ HandsOff(u)
    <2> DEFINE p == [up[u] EXCEPT !.at = "deps", !.copied = {}]
    <2>1. /\ up[u].at = "backup" /\ Becomes(u, p)
          /\ Cardinality({e \in Code : backup[u][e] # None}) >= 2
      BY <1>7 DEF HandOff, Spawn
    <2>2. /\ p \in Carried /\ p.at = "deps" /\ p.copied = {}
          /\ p.tree = up[u].tree /\ p.label = up[u].label /\ p.brings = up[u].brings
      BY <2>1, AtOnce
    <2> HIDE DEF p
    <2>3. up' \in [Updates -> Plain \cup Carried] /\ up'[u] = p /\ Others(u)
      BY <2>1, <2>2, Moves DEF Others
    <2>4. Fits /\ Same /\ overlapped' = overlapped
      BY <1>0, <1>7 DEF HandOff, Spawn, JobDone, Root, History, Same
    <2> QED BY <1>a, <2>1, <2>2, <2>3, <2>4 DEF HandsOff
  <1>8. ASSUME NEW u \in Updates, InstallDeps(u) PROVE TypeOK' /\ Others(u) /\ Installs(u)
    <2> DEFINE p == [up[u] EXCEPT !.at = "overlay"]
    <2>1. up[u].at = "deps" /\ Becomes(u, p)
      BY <1>8 DEF InstallDeps
    <2>2. /\ p \in Carried /\ p.at = "overlay" /\ p.copied = up[u].copied
          /\ p.tree = up[u].tree /\ p.label = up[u].label /\ p.brings = up[u].brings
      BY <2>1, AtOnce
    <2> HIDE DEF p
    <2>3. up' \in [Updates -> Plain \cup Carried] /\ up'[u] = p /\ Others(u)
      BY <2>1, <2>2, Moves DEF Others
    <2>4. Fits /\ Same /\ overlapped' = overlapped
      BY <1>0, <1>8 DEF InstallDeps, Root, History, Same
    <2> QED BY <1>a, <2>1, <2>2, <2>3, <2>4 DEF Installs
  <1>9. ASSUME NEW u \in Updates, OverlayFails(u) PROVE TypeOK' /\ Others(u) /\ IsCut(u)
    <2>1. Becomes(u, Over) /\ up[u].at = "overlay" /\ cut' = TRUE
      BY <1>9 DEF OverlayFails
    <2>2. up' \in [Updates -> Plain \cup Carried] /\ up'[u].at = "over" /\ Others(u)
      BY <2>1, PlainAt, Moves DEF Others
    <2>3. Fits
      BY <1>0, <1>9 DEF OverlayFails, Root
    <2> QED BY <1>9, <1>a, <2>1, <2>2, <2>3 DEF IsCut, OverlayFails, Root
  <1>10. ASSUME NEW u \in Updates, Mark(u) PROVE TypeOK' /\ Others(u) /\ Marks(u)
    <2>1. up[u].at = "overlay" /\ up[u].copied = up[u].brings /\ Becomes(u, [at |-> "restart"])
          /\ marker' = IF up[u].label = None THEN marker ELSE up[u].label
      BY <1>10 DEF Mark
    <2>2. up' \in [Updates -> Plain \cup Carried] /\ up'[u] = [at |-> "restart"] /\ Others(u)
      BY <2>1, PlainAt, Moves DEF Others
    <2>3. marker' \in Versions /\ up[u].brings \in {Served, Entries}
      BY <1>0, <2>1, Places
    <2>4. Fits
      BY <1>0, <1>10, <2>3 DEF Mark, History
    <2> QED BY <1>10, <1>a, <2>1, <2>2, <2>3, <2>4 DEF Marks, Mark, History
  <1>11. ASSUME NEW u \in Updates, RestartRefused(u)
         PROVE  TypeOK' /\ Others(u) /\ StartsNot(u)
    <2>1. Becomes(u, Over) /\ up[u].at = "restart"
      BY <1>11 DEF RestartRefused
    <2>2. up' \in [Updates -> Plain \cup Carried] /\ up'[u].at = "over" /\ Others(u)
      BY <2>1, PlainAt, Moves DEF Others
    <2>3. Fits /\ Same /\ overlapped' = overlapped
      BY <1>0, <1>11 DEF RestartRefused, Root, History, Same
    <2> QED BY <1>a, <2>1, <2>2, <2>3 DEF StartsNot
  <1>12. ASSUME NEW u \in Updates, NEW e \in Code, BackUp(u, e) \/ PassOver(u, e)
         PROVE  TypeOK' /\ Others(u) /\ BacksUp(u, e)
    <2>1. up[u].at = "backup" /\ Copied(u, e) /\ UNCHANGED <<tree, marker, running>>
          /\ UNCHANGED <<job, overlapped, cut, mislabelled, peered>>
      BY <1>12 DEF BackUp, PassOver, Root, History
    <2>2. /\ backup' \in [Updates -> [Code -> Versions \cup {None}]]
          /\ \A w \in Updates \ {u} : backup'[w] = backup[w]
          /\ backup'[u][e] \in {tree[e], backup[u][e]}
          /\ \A d \in Code \ {e} : backup'[u][d] = backup[u][d]
      <3>1. CASE BackUp(u, e)
        <4>1. backup' = [backup EXCEPT ![u] = [backup[u] EXCEPT ![e] = tree[e]]]
          BY <3>1 DEF BackUp
        <4>2. tree[e] \in Versions
          BY <1>0
        <4>3. [backup[u] EXCEPT ![e] = tree[e]] \in [Code -> Versions \cup {None}]
          BY <1>0, <4>2
        <4> QED BY <1>0, <4>1, <4>3
      <3>2. CASE PassOver(u, e)
        BY <1>0, <3>2 DEF PassOver
      <3> QED BY <1>12, <3>1, <3>2
    <2>3. /\ up' \in [Updates -> Plain \cup Carried] /\ Others(u)
          /\ up'[u].at = "backup" /\ up'[u].tree = up[u].tree /\ up'[u].label = up[u].label
      BY <1>0, <2>1, Copies DEF Others
    <2>4. Fits
      BY <1>0, <2>1, <2>2
    <2> QED BY <1>a, <2>1, <2>2, <2>3, <2>4 DEF BacksUp
  <1>13. ASSUME NEW u \in Updates, NEW e \in Entries, Overlay(u, e)
         PROVE  TypeOK' /\ Others(u) /\ Overlays(u, e)
    <2>1. /\ up[u].at = "overlay" /\ Copied(u, e) /\ tree' = [tree EXCEPT ![e] = up[u].tree]
          /\ e \in up[u].brings
          /\ UNCHANGED <<marker, running, job, backup, overlapped, cut, mislabelled>>
          /\ peered' = (e # Gateway /\ (peered \/ Gateway \notin up[u].brings))
      BY <1>13 DEF Overlay
    <2>2. /\ up' \in [Updates -> Plain \cup Carried] /\ Others(u)
          /\ up'[u].at = "overlay" /\ up'[u].tree = up[u].tree /\ up'[u].label = up[u].label
          /\ up'[u].copied = up[u].copied \cup {e} /\ up'[u].brings = up[u].brings
      BY <2>1, Copies DEF Others
    <2>3. up[u].tree \in Versions /\ up[u].brings \in {Served, Entries}
      BY <2>1, Places
    <2>4. Fits
      BY <1>0, <2>1, <2>3
    <2> QED BY <1>a, <2>1, <2>2, <2>3, <2>4 DEF Overlays
  <1>14. ASSUME Started PROVE up' \in [Updates -> Plain \cup Carried]
                              /\ running' = [e \in Served |-> tree[e]] /\ job' = None
                              /\ \A w \in Updates : up'[w] = IF up[w] = Idle THEN Idle ELSE Over
    BY <1>14, PlainAt DEF Started
  <1>15. ASSUME NEW u \in Updates, Restart(u) PROVE TypeOK' /\ Starts
    <2>1. Fits
      BY <1>0, <1>14, <1>15 DEF Restart, History
    <2> QED BY <1>14, <1>15, <1>a, <2>1 DEF Restart, Starts, History
  <1>16. CASE Crash
    <2>1. cut' \in BOOLEAN
      BY <1>16 DEF Crash
    <2>2. Fits
      BY <1>0, <1>14, <1>16, <2>1 DEF Crash
    <2>3. TypeOK'
      BY <1>14, <1>16, <1>a, <2>2 DEF Crash
    <2>4. ~cut' => /\ ~cut
                   /\ \A u \in Updates : up[u].at = "overlay" => up[u].copied = {}
      BY <1>0, <1>16 DEF Crash
    <2>5. Starts
      BY <1>14, <1>16, <2>4 DEF Crash, Starts
    <2> QED BY <2>3, <2>5 DEF Kinds
  <1>17. CASE \E u \in Updates :
         \/ Ask(u) \/ Accept(u) \/ StagingFails(u) \/ HandOff(u)
         \/ InstallDeps(u) \/ InstallFails(u) \/ OverlayFails(u) \/ Mark(u)
         \/ RestartRefused(u)
    <2>1. PICK u \in Updates :
         \/ Ask(u) \/ Accept(u) \/ StagingFails(u) \/ HandOff(u)
         \/ InstallDeps(u) \/ InstallFails(u) \/ OverlayFails(u) \/ Mark(u)
         \/ RestartRefused(u)
      BY <1>17
    <2>2. TypeOK' /\ Others(u)
          /\ (Asks(u) \/ Accepts(u) \/ GivesUp(u) \/ HandsOff(u) \/ Installs(u)
              \/ IsCut(u) \/ Marks(u) \/ StartsNot(u))
      BY <2>1, <1>1, <1>2, <1>6, <1>7, <1>8, <1>9, <1>10, <1>11
    <2> QED BY <2>2 DEF Kinds
  <1>18. ASSUME NEW u \in Updates, TypeOK', Others(u),
                Stages(u) \/ (\E e \in Code : BacksUp(u, e)) \/ (\E e \in Entries : Overlays(u, e))
         PROVE  TypeOK' /\ Kinds
    BY <1>18 DEF Kinds
  <1>19. Starts => Kinds
    BY DEF Kinds
  <1> QED BY <1>4, <1>5, <1>12, <1>13, <1>15, <1>16, <1>17, <1>18, <1>19 DEF Next

(***************************************************************************)
(* One version. While updates follow one another and no overlay is cut     *)
(* short, what is Current of the tree is one version, or two while an      *)
(* overlay is going on: the one it had, and the one copied so far. The     *)
(* gateway is current until an archive without one is laid.                *)
(***************************************************************************)
Current == IF peered THEN Served ELSE Entries

Busy(u) == up[u].at \notin {"idle", "asked", "over"}

OneAtATime ==
    ~overlapped => \A u, w \in Updates : Busy(u) /\ Busy(w) => u = w

NothingCopied == \A u \in Updates : up[u].at = "deps" => up[u].copied = {}

Laid(e) == \E u \in Updates : up[u].at = "overlay" /\ e \in up[u].copied

Layers(v) ==
    /\ \A e \in Current : tree[e] = v \/ Laid(e)
    /\ \A u \in Updates : up[u].at = "overlay" =>
         /\ \A e \in up[u].copied : tree[e] = up[u].tree
         /\ Gateway \notin up[u].brings => up[u].copied = {} \/ peered
    /\ ~mislabelled =>
         /\ v = marker
         /\ \A u \in Updates : up[u].at \in {"backup", "deps", "overlay"} =>
              up[u].label = up[u].tree

OneVersion ==
    ~overlapped /\ ~cut => Whole(running) /\ \E v \in Versions : Layers(v)

(***************************************************************************)
(* Recovery. Once an update has been handed to the helper there is a whole *)
(* backup: its own, if it found one version, or the one of an update       *)
(* before it; and a mixture there is only after that.                      *)
(***************************************************************************)
HandedOff(u) == up[u].at \in {"deps", "overlay", "restart", "over"}

BackupOf(u, v) == /\ \A e \in Code : backup[u][e] \in {v, None}
                  /\ Cardinality({e \in Code : backup[u][e] = v}) >= 2

GoodBackup == \E u \in Updates, v \in Versions : HandedOff(u) /\ BackupOf(u, v)

OneCode(v) == \A e \in Code : tree[e] = v

Recovery ==
    ~overlapped =>
        /\ (\A v \in Versions : ~OneCode(v)) => GoodBackup
        /\ \A u \in Updates :
             /\ up[u].at \in {"idle", "asked", "accepted"} => \A e \in Code : backup[u][e] = None
             /\ up[u].at = "backup" => \A v \in Versions : OneCode(v) =>
                  \A e \in Code : backup[u][e] \in {v, None}
             /\ up[u].at \in {"deps", "overlay"} => GoodBackup

LEMMA CurrentIs ==
    /\ Served \subseteq Current /\ Current \subseteq Entries /\ Deps \in Served
    /\ Gateway \notin Served /\ Entries = Served \cup {Gateway}
  BY SelfUpdateAssumption DEF Current, Served, Entries

UInv == TypeOK /\ OneAtATime /\ NothingCopied /\ OneVersion /\ Recovery

LEMMA UnderWayIsBusy == \A u \in Updates : u \in UnderWay <=> Busy(u)
  BY DEF UnderWay, Busy

LEMMA InitUInv == Init => UInv
  <1> SUFFICES ASSUME Init PROVE UInv
    OBVIOUS
  <1>1. TypeOK
    BY InitTypes
  <1>2. \A u \in Updates : up[u].at = "idle"
    BY DEF Init, Idle
  <1>3. OneAtATime /\ NothingCopied
    BY <1>2 DEF OneAtATime, NothingCopied, Busy
  <1>4. Whole(running) /\ Layers(Installed)
    BY <1>2, CurrentIs, SelfUpdateAssumption DEF Init, Whole, Layers
  <1>5. OneVersion
    BY <1>4, SelfUpdateAssumption DEF OneVersion
  <1>6. OneCode(Installed)
    BY DEF Init, OneCode, Entries, Served
  <1>7. Recovery
    BY <1>2, <1>6, SelfUpdateAssumption DEF Recovery, Init
  <1> QED BY <1>1, <1>3, <1>5, <1>7 DEF UInv

LEMMA StepOneAtATime ==
    ASSUME UInv, Kinds, TypeOK'
    PROVE  OneAtATime' /\ NothingCopied'
  <1>1. CASE Starts
    <2>1. \A w \in Updates : ~Busy(w)' /\ up'[w].at # "deps"
      BY <1>1, PlainAt DEF Starts, Busy
    <2> QED BY <2>1 DEF OneAtATime, NothingCopied
  <1>2. ASSUME NEW u \in Updates, Others(u),
               \/ Asks(u) \/ Stages(u) \/ GivesUp(u) \/ HandsOff(u) \/ Installs(u)
               \/ IsCut(u) \/ Marks(u) \/ StartsNot(u)
               \/ (\E e \in Code : BacksUp(u, e))
               \/ (\E e \in Entries : Overlays(u, e))
        PROVE  OneAtATime' /\ NothingCopied'
    <2>1. /\ overlapped' = overlapped
          /\ Busy(u)' => Busy(u)
          /\ up'[u].at = "deps" => up'[u].copied = {}
      BY <1>2 DEF Asks, Stages, GivesUp, HandsOff, Installs, IsCut, Marks, StartsNot,
                  BacksUp, Overlays, Busy
    <2>2. \A w \in Updates \ {u} : (Busy(w)' <=> Busy(w)) /\ up'[w] = up[w]
      BY <1>2 DEF Others, Busy
    <2> QED BY <2>1, <2>2 DEF OneAtATime, NothingCopied, UInv
  <1>3. ASSUME NEW u \in Updates, Others(u), Accepts(u)
        PROVE  OneAtATime' /\ NothingCopied'
    <2>1. ~overlapped' => ~overlapped /\ UnderWay = {}
      BY <1>3 DEF Accepts, UInv, TypeOK
    <2>2. \A w \in Updates \ {u} : (Busy(w)' <=> Busy(w)) /\ up'[w] = up[w]
      BY <1>3 DEF Others, Busy
    <2>3. ~overlapped' => \A w \in Updates \ {u} : ~Busy(w)'
      BY <2>1, <2>2, UnderWayIsBusy
    <2> QED BY <1>3, <2>2, <2>3 DEF OneAtATime, NothingCopied, UInv, Accepts
  <1> QED BY <1>1, <1>2, <1>3 DEF Kinds

\* A step that leaves the tree, the marker and what is laid over it alone.
LEMMA TreeStays ==
    ASSUME OneVersion, UNCHANGED <<tree, marker, running, peered>>,
           ~overlapped' => ~overlapped, ~cut' => ~cut, ~mislabelled' => ~mislabelled,
           \A e \in Entries : ~overlapped' /\ ~cut' => (Laid(e) => Laid(e)'),
           \A w \in Updates : up'[w].at = "overlay" =>
             \/ /\ up[w].at = "overlay" /\ up'[w].copied = up[w].copied
                /\ up'[w].tree = up[w].tree /\ up'[w].brings = up[w].brings
             \/ up'[w].copied = {},
           \A w \in Updates : up'[w].at \in {"backup", "deps", "overlay"} =>
             \/ /\ up[w].at \in {"backup", "deps", "overlay"}
                /\ up'[w].label = up[w].label /\ up'[w].tree = up[w].tree
             \/ ~mislabelled' => up'[w].label = up'[w].tree
    PROVE  OneVersion'
  <1> SUFFICES ASSUME ~overlapped', ~cut'
               PROVE  Whole(running)' /\ \E v \in Versions : Layers(v)'
    BY DEF OneVersion
  <1>1. PICK v \in Versions : Layers(v)
    BY DEF OneVersion
  <1>2. Whole(running)'
    BY DEF OneVersion, Whole
  <1>3. \A e \in Current' : tree'[e] = v \/ Laid(e)'
    BY <1>1, CurrentIs DEF Layers, Current
  <1>4. \A u \in Updates : up'[u].at = "overlay" =>
          /\ \A e \in up'[u].copied : tree'[e] = up'[u].tree
          /\ Gateway \notin up'[u].brings => up'[u].copied = {} \/ peered'
    BY <1>1 DEF Layers
  <1>5. ~mislabelled' =>
         /\ v = marker'
         /\ \A u \in Updates : up'[u].at \in {"backup", "deps", "overlay"} =>
              up'[u].label = up'[u].tree
    BY <1>1 DEF Layers
  <1>6. Layers(v)'
    BY <1>3, <1>4, <1>5 DEF Layers
  <1> QED BY <1>2, <1>6

LEMMA StepOneVersion ==
    ASSUME UInv, Kinds, TypeOK'
    PROVE  OneVersion'
  <1>1. ASSUME NEW u \in Updates, Others(u),
               \/ Asks(u) \/ Accepts(u) \/ Stages(u) \/ GivesUp(u) \/ HandsOff(u)
               \/ Installs(u) \/ StartsNot(u) \/ (\E e \in Code : BacksUp(u, e))
        PROVE  OneVersion'
    <2>1. /\ UNCHANGED <<tree, marker, running, peered>> /\ cut' = cut
          /\ up[u].at # "overlay"
          /\ up'[u].at = "overlay" => up'[u].copied = {}
      BY <1>1 DEF UInv, NothingCopied, Asks, Accepts, Stages, GivesUp, HandsOff, Installs,
                  StartsNot, BacksUp, Same
    <2>2. up'[u].at \in {"backup", "deps", "overlay"} =>
            \/ /\ up[u].at \in {"backup", "deps", "overlay"}
               /\ up'[u].label = up[u].label /\ up'[u].tree = up[u].tree
            \/ ~mislabelled' => up'[u].label = up'[u].tree
      BY <1>1 DEF Asks, Accepts, Stages, GivesUp, HandsOff, Installs, StartsNot, BacksUp
    <2>3. (~overlapped' => ~overlapped) /\ (~mislabelled' => ~mislabelled)
      <3>1. ~mislabelled' => ~mislabelled
        BY <1>1 DEF Asks, Accepts, Stages, GivesUp, HandsOff, Installs, StartsNot, BacksUp, Same
      <3>2. ~overlapped' => ~overlapped
        BY <1>1 DEF Asks, Accepts, Stages, GivesUp, HandsOff, Installs, StartsNot, BacksUp,
                    UInv, TypeOK
      <3> QED BY <3>1, <3>2
    <2>4. \A e \in Entries : Laid(e) => Laid(e)'
      BY <1>1, <2>1 DEF Laid, Others
    <2>5. \A w \in Updates \ {u} : up'[w] = up[w]
      BY <1>1 DEF Others
    <2>6. \A w \in Updates : up'[w].at = "overlay" =>
            \/ /\ up[w].at = "overlay" /\ up'[w].copied = up[w].copied
               /\ up'[w].tree = up[w].tree /\ up'[w].brings = up[w].brings
            \/ up'[w].copied = {}
      BY <2>1, <2>5
    <2>7. \A w \in Updates : up'[w].at \in {"backup", "deps", "overlay"} =>
            \/ /\ up[w].at \in {"backup", "deps", "overlay"}
               /\ up'[w].label = up[w].label /\ up'[w].tree = up[w].tree
            \/ ~mislabelled' => up'[w].label = up'[w].tree
      BY <2>2, <2>5
    <2> QED BY <2>1, <2>3, <2>4, <2>6, <2>7, TreeStays DEF UInv
  <1>2. ASSUME NEW u \in Updates, Others(u), NEW e \in Entries, Overlays(u, e)
        PROVE  OneVersion'
    <2> SUFFICES ASSUME ~overlapped', ~cut'
                 PROVE  Whole(running)' /\ \E v \in Versions : Layers(v)'
      BY DEF OneVersion
    <2>1. ~overlapped /\ ~cut /\ running' = running
      BY <1>2 DEF Overlays
    <2>2. PICK v \in Versions : Layers(v)
      BY <2>1 DEF UInv, OneVersion
    <2>3. \A w \in Updates : w # u => ~Busy(w) /\ up'[w] = up[w]
      BY <1>2, <2>1 DEF UInv, OneAtATime, Overlays, Busy, Others
    <2>4. \A w \in Updates : w # u => up'[w].at \notin {"backup", "deps", "overlay"}
      BY <2>3 DEF Busy
    <2>5. \A d \in Entries : tree'[d] = IF d = e THEN up[u].tree ELSE tree[d]
      BY <1>2 DEF Overlays, UInv, TypeOK
    <2>6. \A d \in Current' : tree'[d] = v \/ Laid(d)'
      <3> SUFFICES ASSUME NEW d \in Current' PROVE tree'[d] = v \/ Laid(d)'
        OBVIOUS
      <3>1. d \in up'[u].copied => Laid(d)'
        BY <1>2 DEF Laid, Overlays
      <3>2. Laid(d) => d \in up[u].copied
        BY <2>3 DEF Laid, Busy
      <3>3. d \in Entries /\ (d \in Current \/ d = e)
        BY <1>2, CurrentIs DEF Overlays, Current
      <3> QED BY <1>2, <2>2, <2>5, <3>1, <3>2, <3>3 DEF Layers, Overlays
    <2>7. \A w \in Updates : up'[w].at = "overlay" =>
            /\ \A d \in up'[w].copied : tree'[d] = up'[w].tree
            /\ Gateway \notin up'[w].brings => up'[w].copied = {} \/ peered'
      <3>1. up[u].copied \subseteq Entries
        BY <1>2, Places DEF UInv, Overlays, Carried
      <3>2. \A d \in up'[u].copied : tree'[d] = up'[u].tree
        BY <1>2, <2>2, <2>5, <3>1 DEF Layers, Overlays
      <3>3. Gateway \notin up'[u].brings => peered'
        BY <1>2 DEF Overlays
      <3> QED BY <2>4, <3>2, <3>3
    <2>8. ~mislabelled' =>
            /\ v = marker'
            /\ \A w \in Updates : up'[w].at \in {"backup", "deps", "overlay"} =>
                 up'[w].label = up'[w].tree
      BY <1>2, <2>2, <2>4 DEF Layers, Overlays
    <2>9. Layers(v)'
      BY <2>6, <2>7, <2>8 DEF Layers
    <2>10. Whole(running)'
      BY <2>1 DEF UInv, OneVersion, Whole
    <2> QED BY <2>9, <2>10
  <1>3. ASSUME NEW u \in Updates, Others(u), Marks(u)
        PROVE  OneVersion'
    <2> SUFFICES ASSUME ~overlapped', ~cut'
                 PROVE  Whole(running)' /\ \E v \in Versions : Layers(v)'
      BY DEF OneVersion
    <2>1. ~overlapped /\ ~cut /\ running' = running /\ tree' = tree /\ peered' = peered
      BY <1>3 DEF Marks
    <2>2. PICK v \in Versions : Layers(v)
      BY <2>1 DEF UInv, OneVersion
    <2>3. \A w \in Updates : up'[w].at \notin {"backup", "deps", "overlay"}
      BY <1>3, <2>1 DEF UInv, OneAtATime, Marks, Busy, Others
    <2>4. PICK x \in Versions : x = up[u].tree /\ \A e \in Current : tree[e] = x
      <3>1. up[u].tree \in Versions
        BY <1>3, Places DEF UInv, Marks
      <3>2. Current \subseteq up[u].copied
        BY <1>3, <2>2, CurrentIs DEF Marks, Layers, Current
      <3> QED BY <1>3, <2>2, <3>1, <3>2 DEF Marks, Layers
    <2>5. ~mislabelled' => x = marker'
      BY <1>3, <2>2, <2>4, SelfUpdateAssumption DEF Layers, Marks
    <2>6. Layers(x)'
      BY <2>1, <2>3, <2>4, <2>5 DEF Layers, Current
    <2>7. Whole(running)'
      BY <2>1 DEF UInv, OneVersion, Whole
    <2> QED BY <2>4, <2>6, <2>7
  <1>4. ASSUME Starts
        PROVE  OneVersion'
    <2> SUFFICES ASSUME ~overlapped', ~cut'
                 PROVE  Whole(running)' /\ \E v \in Versions : Layers(v)'
      BY DEF OneVersion
    <2>1. /\ ~overlapped /\ ~cut /\ tree' = tree /\ marker' = marker
          /\ running' = [e \in Served |-> tree[e]]
          /\ mislabelled' = mislabelled /\ peered' = peered
      BY <1>4 DEF Starts
    <2>2. PICK v \in Versions : Layers(v)
      BY <2>1 DEF UInv, OneVersion
    <2>3. \A e \in Entries : ~Laid(e)
      BY <1>4, <2>1 DEF Starts, Laid, UInv, OneAtATime, Busy
    <2>4. \A e \in Current : tree[e] = v
      BY <2>2, <2>3, CurrentIs DEF Layers
    <2>5. \A w \in Updates : up'[w].at \notin {"backup", "deps", "overlay"}
      BY <1>4, PlainAt DEF Starts
    <2>6. Layers(v)'
      BY <2>1, <2>2, <2>4, <2>5 DEF Layers, Current
    <2>7. Whole(running)'
      BY <2>1, <2>4, CurrentIs DEF Whole
    <2> QED BY <2>6, <2>7
  <1>5. ASSUME NEW u \in Updates, IsCut(u)
        PROVE  OneVersion'
    BY <1>5 DEF IsCut, OneVersion
  <1> QED BY <1>1, <1>2, <1>3, <1>4, <1>5 DEF Kinds

(***************************************************************************)
(* Recovery, step by step.                                                 *)
(***************************************************************************)
\* What an update has backed up stays once it is handed off, and so does a good
\* backup.
LEMMA BackupStays ==
    ASSUME GoodBackup,
           \A w \in Updates : HandedOff(w) => HandedOff(w)' /\ backup'[w] = backup[w]
    PROVE  GoodBackup'
  BY DEF GoodBackup, BackupOf

\* A step that leaves the code and the backups alone.
LEMMA RecoveryStays ==
    ASSUME Recovery, tree' = tree, backup' = backup, ~overlapped' => ~overlapped,
           \A w \in Updates : HandedOff(w) => HandedOff(w)',
           \A w \in Updates : up'[w].at \in {"idle", "asked", "accepted"} =>
             up[w].at \in {"idle", "asked", "accepted"},
           \A w \in Updates : up'[w].at = "backup" =>
             up[w].at \in {"accepted", "backup"},
           \A w \in Updates : up'[w].at \in {"deps", "overlay"} =>
             up[w].at \in {"deps", "overlay"}
    PROVE  Recovery'
  <1> SUFFICES ASSUME ~overlapped' PROVE Recovery'
    BY DEF Recovery
  <1>1. ~overlapped
    OBVIOUS
  <1>2. GoodBackup => GoodBackup'
    BY BackupStays
  <1>3. \A v : OneCode(v)' <=> OneCode(v)
    BY DEF OneCode
  <1>4. (\A v \in Versions : ~OneCode(v)') => GoodBackup'
    BY <1>1, <1>2, <1>3 DEF Recovery
  <1>5. \A w \in Updates : up'[w].at \in {"idle", "asked", "accepted"} =>
          \A e \in Code : backup'[w][e] = None
    BY <1>1 DEF Recovery
  <1>6. \A w \in Updates : up'[w].at = "backup" => \A v \in Versions : OneCode(v)' =>
          \A e \in Code : backup'[w][e] \in {v, None}
    BY <1>1, <1>3 DEF Recovery
  <1>7. \A w \in Updates : up'[w].at \in {"deps", "overlay"} => GoodBackup'
    BY <1>1, <1>2 DEF Recovery
  <1> QED BY <1>4, <1>5, <1>6, <1>7 DEF Recovery

LEMMA StepRecovery ==
    ASSUME UInv, Kinds, TypeOK'
    PROVE  Recovery'
  <1>1. ASSUME NEW u \in Updates, Others(u),
               \/ Asks(u) \/ Accepts(u) \/ Stages(u) \/ GivesUp(u)
               \/ Installs(u) \/ IsCut(u) \/ Marks(u) \/ StartsNot(u)
        PROVE  Recovery'
    <2>1. tree' = tree /\ backup' = backup
      BY <1>1 DEF Asks, Accepts, Stages, GivesUp, Installs, IsCut, Marks, StartsNot, Same
    <2>2. ~overlapped' => ~overlapped
      BY <1>1 DEF Asks, Accepts, Stages, GivesUp, Installs, IsCut, Marks, StartsNot, UInv, TypeOK
    <2>3. /\ HandedOff(u) => HandedOff(u)'
          /\ up'[u].at \in {"idle", "asked", "accepted"} =>
               up[u].at \in {"idle", "asked", "accepted"}
          /\ up'[u].at = "backup" => up[u].at \in {"accepted", "backup"}
          /\ up'[u].at \in {"deps", "overlay"} => up[u].at \in {"deps", "overlay"}
      BY <1>1 DEF Asks, Accepts, Stages, GivesUp, Installs, IsCut, Marks, StartsNot, HandedOff
    <2>4. \A w \in Updates \ {u} : up'[w] = up[w]
      BY <1>1 DEF Others
    <2>5. \A w \in Updates : HandedOff(w) => HandedOff(w)'
      BY <2>3, <2>4 DEF HandedOff
    <2> QED BY <2>1, <2>2, <2>3, <2>4, <2>5, RecoveryStays DEF UInv
  <1>2. ASSUME NEW u \in Updates, Others(u), HandsOff(u)
        PROVE  Recovery'
    <2> SUFFICES ASSUME ~overlapped' PROVE Recovery'
      BY DEF Recovery
    <2>1. ~overlapped /\ tree' = tree /\ backup' = backup
      BY <1>2 DEF HandsOff, Same
    <2>2. \A w \in Updates \ {u} : up'[w] = up[w]
      BY <1>2 DEF Others
    <2>3. HandedOff(u)' /\ ~HandedOff(u)
      BY <1>2 DEF HandsOff, HandedOff
    <2>4. \A w \in Updates : HandedOff(w) => HandedOff(w)'
      BY <2>2, <2>3 DEF HandedOff
    <2>5. GoodBackup'
      <3>1. CASE \A v \in Versions : ~OneCode(v)
        BY <3>1, <2>1, <2>4, BackupStays DEF UInv, Recovery
      <3>2. ASSUME NEW v \in Versions, OneCode(v)
            PROVE  GoodBackup'
        <4>1. \A e \in Code : backup[u][e] \in {v, None}
          BY <1>2, <2>1, <3>2 DEF UInv, Recovery, HandsOff
        <4>2. {e \in Code : backup[u][e] # None} = {e \in Code : backup[u][e] = v}
          BY <4>1, SelfUpdateAssumption
        <4>3. Cardinality({e \in Code : backup[u][e] = v}) >= 2
          BY <1>2, <4>2 DEF HandsOff
        <4>4. BackupOf(u, v)'
          BY <2>1, <4>1, <4>3 DEF BackupOf
        <4> QED BY <2>3, <4>4 DEF GoodBackup
      <3> QED BY <3>1, <3>2
    <2>6. \A v : OneCode(v)' <=> OneCode(v)
      BY <2>1 DEF OneCode
    <2>7. \A w \in Updates : up'[w].at \in {"idle", "asked", "accepted"} =>
            \A e \in Code : backup'[w][e] = None
      BY <1>2, <2>1, <2>2 DEF UInv, Recovery, HandsOff
    <2>8. \A w \in Updates : up'[w].at = "backup" => \A v \in Versions : OneCode(v)' =>
            \A e \in Code : backup'[w][e] \in {v, None}
      BY <1>2, <2>1, <2>2, <2>6 DEF UInv, Recovery, HandsOff
    <2> QED BY <2>5, <2>7, <2>8 DEF Recovery
  <1>3. ASSUME NEW u \in Updates, Others(u), NEW e \in Code, BacksUp(u, e)
        PROVE  Recovery'
    <2> SUFFICES ASSUME ~overlapped' PROVE Recovery'
      BY DEF Recovery
    <2>1. ~overlapped /\ tree' = tree
      BY <1>3 DEF BacksUp
    <2>2. \A w \in Updates \ {u} : up'[w] = up[w] /\ backup'[w] = backup[w]
      BY <1>3 DEF Others, BacksUp
    <2>3. up[u].at = "backup" /\ up'[u].at = "backup"
      BY <1>3 DEF BacksUp
    <2>4. GoodBackup => GoodBackup'
      <3>1. \A w \in Updates : HandedOff(w) => HandedOff(w)' /\ backup'[w] = backup[w]
        BY <2>2, <2>3 DEF HandedOff
      <3> QED BY <3>1, BackupStays
    <2>5. \A v : OneCode(v)' <=> OneCode(v)
      BY <2>1 DEF OneCode
    <2>6. (\A v \in Versions : ~OneCode(v)') => GoodBackup'
      BY <2>1, <2>4, <2>5 DEF UInv, Recovery
    <2>7. \A w \in Updates : up'[w].at \in {"idle", "asked", "accepted"} =>
            \A d \in Code : backup'[w][d] = None
      BY <2>1, <2>2, <2>3 DEF UInv, Recovery
    <2>8. \A w \in Updates : up'[w].at = "backup" => \A v \in Versions : OneCode(v)' =>
            \A d \in Code : backup'[w][d] \in {v, None}
      <3> SUFFICES ASSUME NEW w \in Updates, up'[w].at = "backup",
                          NEW v \in Versions, OneCode(v)
                   PROVE  \A d \in Code : backup'[w][d] \in {v, None}
        BY <2>5
      <3>1. CASE w # u
        BY <3>1, <2>1, <2>2 DEF UInv, Recovery
      <3>2. CASE w = u
        <4>1. \A d \in Code : backup[u][d] \in {v, None}
          BY <2>1, <2>3 DEF UInv, Recovery
        <4>2. tree[e] = v
          BY DEF OneCode
        <4> QED BY <1>3, <3>2, <4>1, <4>2 DEF BacksUp
      <3> QED BY <3>1, <3>2
    <2>9. \A w \in Updates : up'[w].at \in {"deps", "overlay"} => GoodBackup'
      BY <2>1, <2>2, <2>3, <2>4 DEF UInv, Recovery
    <2> QED BY <2>6, <2>7, <2>8, <2>9 DEF Recovery
  <1>4. ASSUME NEW u \in Updates, Others(u), NEW e \in Entries, Overlays(u, e)
        PROVE  Recovery'
    <2> SUFFICES ASSUME ~overlapped' PROVE Recovery'
      BY DEF Recovery
    <2>1. ~overlapped /\ backup' = backup /\ up[u].at = "overlay" /\ up'[u].at = "overlay"
      BY <1>4 DEF Overlays
    <2>2. \A w \in Updates \ {u} : up'[w] = up[w]
      BY <1>4 DEF Others
    <2>3. GoodBackup
      BY <2>1 DEF UInv, Recovery
    <2>4. \A w \in Updates : HandedOff(w) => HandedOff(w)'
      BY <2>1, <2>2 DEF HandedOff
    <2>5. GoodBackup'
      BY <2>1, <2>3, <2>4, BackupStays
    <2>6. \A w \in Updates : up'[w].at \in {"idle", "asked", "accepted"} =>
            \A d \in Code : backup'[w][d] = None
      BY <2>1, <2>2 DEF UInv, Recovery
    <2>7. \A w \in Updates : up'[w].at # "backup"
      BY <2>1, <2>2 DEF UInv, OneAtATime, Busy
    <2> QED BY <2>5, <2>6, <2>7 DEF Recovery
  <1>5. ASSUME Starts
        PROVE  Recovery'
    <2>1. tree' = tree /\ backup' = backup /\ overlapped' = overlapped
      BY <1>5 DEF Starts
    <2>2. \A w \in Updates : (up'[w].at = "idle" /\ up[w].at = "idle") \/ up'[w].at = "over"
      BY <1>5, PlainAt DEF Starts
    <2>3. \A w \in Updates : HandedOff(w) => HandedOff(w)'
      BY <2>2 DEF HandedOff
    <2> QED BY <2>1, <2>2, <2>3, RecoveryStays DEF UInv
  <1> QED BY <1>1, <1>2, <1>3, <1>4, <1>5 DEF Kinds

LEMMA StepUInv ==
    ASSUME UInv, [Next]_vars
    PROVE  UInv'
  <1>1. CASE Next
    <2>1. TypeOK' /\ Kinds
      BY <1>1, StepKinds DEF UInv
    <2> QED BY <2>1, StepOneAtATime, StepOneVersion, StepRecovery DEF UInv
  <1>2. CASE UNCHANGED vars
    <2>1. /\ UNCHANGED <<tree, marker, running, job, up, backup>>
          /\ UNCHANGED <<overlapped, cut, mislabelled, peered>>
      BY <1>2 DEF vars
    <2>2. TypeOK'
      BY <2>1 DEF UInv, TypeOK
    <2>3. OneAtATime' /\ NothingCopied'
      BY <2>1 DEF UInv, OneAtATime, NothingCopied, Busy
    <2>4. \A v : Layers(v)' <=> Layers(v)
      BY <2>1 DEF Layers, Laid, Current
    <2>5. OneVersion'
      BY <2>1, <2>4 DEF UInv, OneVersion, Whole
    <2>6. GoodBackup' <=> GoodBackup
      BY <2>1 DEF GoodBackup, BackupOf, HandedOff
    <2>7. Recovery'
      BY <2>1, <2>6 DEF UInv, Recovery, OneCode
    <2> QED BY <2>2, <2>3, <2>5, <2>7 DEF UInv
  <1> QED BY <1>1, <1>2

LEMMA StepUpstreamUInv ==
    ASSUME UInv, [UpstreamNext]_<<vars, upstream>>
    PROVE  UInv'
  <1>1. UpdateStep => Next
    BY DEF UpdateStep
  <1>2. UpstreamNext => UpdateStep \/ UNCHANGED vars
    BY DEF UpstreamNext, Request, Redirected, Received, Commit, Release, StartCheck, Compared,
           Listed, CheckFails, Reported, Forgotten
  <1>3. [Next]_vars
    BY <1>1, <1>2
  <1> QED BY <1>3, StepUInv

\* The invariant of both specifications, of the update by itself and with what
\* is fetched for it.
THEOREM UpdateInvariant == UpstreamSpec => []UInv
  <1>1. UpstreamInit => UInv
    BY InitUInv DEF UpstreamInit
  <1>2. UInv /\ [UpstreamNext]_<<vars, upstream>> => UInv'
    BY StepUpstreamUInv
  <1> QED BY <1>1, <1>2, PTL DEF UpstreamSpec

LEMMA WholeFromUInv == UInv => InstalledWhole
  <1> SUFFICES ASSUME UInv PROVE InstalledWhole
    OBVIOUS
  <1>1. RunsOneVersion
    BY DEF UInv, OneVersion, RunsOneVersion
  <1>2. MarkerHonest
    <2> SUFFICES ASSUME ~overlapped, ~cut, ~mislabelled, UnderWay = {}
                 PROVE  \A e \in Current : tree[e] = marker
      BY DEF MarkerHonest, Current
    <2>1. PICK v \in Versions : Layers(v)
      BY DEF UInv, OneVersion
    <2>2. \A e \in Entries : ~Laid(e)
      BY UnderWayIsBusy DEF Laid, Busy
    <2> QED BY <2>1, <2>2, CurrentIs DEF Layers
  <1> QED BY <1>1, <1>2 DEF InstalledWhole

LEMMA RecoverableFromUInv == UInv => Recoverable
  <1> SUFFICES ASSUME UInv, ~overlapped, ~Whole([e \in Code |-> tree[e]])
               PROVE  \E u \in Updates, v \in Versions : BackupOf(u, v)
    BY DEF Recoverable, BackupOf
  <1>1. \A v \in Versions : ~OneCode(v)
    BY DEF OneCode, Whole
  <1> QED BY <1>1 DEF UInv, Recovery, GoodBackup

(***************************************************************************)
(* Whatever is fetched and whatever fails, the tree, the backups and the   *)
(* steps of job and helper keep their types.                               *)
(***************************************************************************)
THEOREM UpdateTypes == UpstreamSpec => []TypeOK
  <1>1. UInv => TypeOK
    BY DEF UInv
  <1> QED BY <1>1, UpdateInvariant, PTL

(***************************************************************************)
(* What the update of POST /api/admin/update and apply-update.mjs installs *)
(* of the backend is one version, and the one data/version.json names, the *)
(* gateway too unless an archive of a peer, which has none, was laid since *)
(* it was: as long as updates follow one another and no overlay is cut     *)
(* short, for any number of updates, entries and versions.                 *)
(***************************************************************************)
THEOREM UpdatesInstallOneVersion == UpstreamSpec => []InstalledWhole
  BY UpdateInvariant, WholeFromUInv, PTL

(***************************************************************************)
(* The backup loop of applyUpdate keeps its promise: whatever failed, and  *)
(* however many attempts have backed up the mixture since, while the code  *)
(* is a mixture there is a backup of one version.                          *)
(***************************************************************************)
THEOREM UpdatesAreRecoverable == UpstreamSpec => []Recoverable
  BY UpdateInvariant, RecoverableFromUInv, PTL

(***************************************************************************)
(* Archives: of the files that an archive names data/..., stripTopLevel    *)
(* leaves none.                                                            *)
(***************************************************************************)
LEMMA NothingOfData == \A a : "data" \notin Staged(a)
  BY DEF Staged, Stripped

LEMMA GenuineStaged == \A a : Genuine(a) => "files" \in Staged(a)
  BY DEF Genuine, Staged, Stripped, Unzipped

(***************************************************************************)
(* What unzip and stripTopLevel stage lays no file that the archive names  *)
(* data/... over the data/ of the instance, whatever else it holds and     *)
(* however much of it arrived; names with a "." in them are not looked     *)
(* through, and not spoken of here. And an archive as GitHub and           *)
(* pack-source make them is accepted.                                      *)
(***************************************************************************)
THEOREM ArchivesAreSafe == UpstreamSpec => []ArchiveSafe
  <1>1. UpstreamInit => "data" \notin data
    BY DEF UpstreamInit
  <1>2. "data" \notin data /\ [UpstreamNext]_<<vars, upstream>> => ("data" \notin data)'
    <2> SUFFICES ASSUME "data" \notin data, [UpstreamNext]_<<vars, upstream>>
                 PROVE  "data" \notin data'
      OBVIOUS
    <2>1. CASE UpdateStep
      BY <2>1, NothingOfData DEF UpdateStep
    <2>2. CASE ~UpdateStep
      BY <2>2 DEF UpstreamNext, Request, Redirected, Received, Commit, Release, StartCheck,
                  Compared, Listed, CheckFails, Reported, Forgotten, upstream
    <2> QED BY <2>1, <2>2
  <1>3. "data" \notin data => ArchiveSafe
    BY GenuineStaged DEF ArchiveSafe
  <1> QED BY <1>1, <1>2, <1>3, PTL DEF UpstreamSpec

(***************************************************************************)
(* The update check. Upstream the events are numbered as they happen, a    *)
(* release is made of a commit that exists, and of no commit twice; what   *)
(* the check has been told stays true of the part of it that it saw.       *)
(***************************************************************************)
RepoShape == repo \in [commits: Seq(Nat), releases: Seq([commit: Nat, at: Nat])]

Numbered ==
    /\ \A i, j \in 1..Len(repo.commits) : i < j => repo.commits[i] < repo.commits[j]
    /\ \A i \in 1..Len(repo.commits) : repo.commits[i] <= Clock

Released ==
    /\ \A i \in 1..Len(repo.releases) :
         /\ repo.releases[i].commit \in 1..Len(repo.commits)
         /\ repo.commits[repo.releases[i].commit] < repo.releases[i].at
    /\ \A i, j \in 1..Len(repo.releases) :
         repo.releases[i].commit = repo.releases[j].commit => i = j

Asked ==
    /\ check.at \in {"none", "compare", "releases", "tags", "done"}
    /\ check.at # "none" => check.commit \in 1..Len(repo.commits) /\ check.built \in Nat
    /\ check.at \in {"tags", "done"} => check.seen \in 0..Len(repo.releases)

CInv == RepoShape /\ Numbered /\ Released /\ Asked /\ ReportTrue

\* What was upstream is still there.
Grows == /\ RepoShape'
         /\ Len(repo.commits) <= Len(repo'.commits)
         /\ \A i \in 1..Len(repo.commits) : repo'.commits[i] = repo.commits[i]
         /\ Len(repo.releases) <= Len(repo'.releases)
         /\ \A i \in 1..Len(repo.releases) : repo'.releases[i] = repo.releases[i]

LEMMA InitCInv == UpstreamInit => CInv
  <1> SUFFICES ASSUME UpstreamInit PROVE CInv
    OBVIOUS
  <1>1. repo.commits = <<1>> /\ repo.releases = <<>> /\ check = Nothing /\ RepoShape
    BY DEF UpstreamInit, RepoShape
  <1>2. Len(repo.commits) = 1 /\ Len(repo.releases) = 0 /\ repo.commits[1] = 1 /\ Clock = 1
    BY <1>1 DEF Clock
  <1>3. Numbered /\ Released
    BY <1>2 DEF Numbered, Released
  <1>4. Asked /\ ReportTrue
    BY <1>1 DEF Asked, ReportTrue, Nothing
  <1> QED BY <1>1, <1>3, <1>4 DEF CInv

LEMMA Appended ==
    ASSUME NEW S, NEW s \in Seq(S), NEW e \in S
    PROVE  /\ Append(s, e) \in Seq(S) /\ Len(Append(s, e)) = Len(s) + 1
           /\ Append(s, e)[Len(s) + 1] = e
           /\ \A i \in 1..Len(s) : Append(s, e)[i] = s[i]
  OBVIOUS

LEMMA Members ==
    ASSUME NEW S, NEW s \in Seq(S)
    PROVE  Len(s) \in Nat /\ \A i \in 1..Len(s) : s[i] \in S
  OBVIOUS

LEMMA UpTo == \A n \in Nat : \A i \in 1..(n + 1) : i \in 1..n \/ i = n + 1
  OBVIOUS

LEMMA RepoTypes ==
    ASSUME RepoShape
    PROVE  /\ repo.commits \in Seq(Nat) /\ repo.releases \in Seq([commit: Nat, at: Nat])
           /\ Len(repo.commits) \in Nat /\ Len(repo.releases) \in Nat /\ Clock \in Nat
           /\ \A i \in 1..Len(repo.commits) : repo.commits[i] \in Nat
           /\ \A i \in 1..Len(repo.releases) :
                repo.releases[i].commit \in Nat /\ repo.releases[i].at \in Nat
  <1>1. repo.commits \in Seq(Nat) /\ repo.releases \in Seq([commit: Nat, at: Nat])
    BY DEF RepoShape
  <1>2. Len(repo.commits) \in Nat /\ Len(repo.releases) \in Nat
    BY <1>1, Members
  <1>3. \A i \in 1..Len(repo.commits) : repo.commits[i] \in Nat
    BY <1>1, Members
  <1>4. \A i \in 1..Len(repo.releases) : repo.releases[i] \in [commit: Nat, at: Nat]
    BY <1>1, Members
  <1>5. \A m, n \in Nat : m + n \in Nat
    OBVIOUS
  <1>6. Clock \in Nat
    BY <1>2, <1>5, Zenon DEF Clock
  <1> QED BY <1>1, <1>2, <1>3, <1>4, <1>6

LEMMA CommitGrows ==
    ASSUME CInv, Commit
    PROVE  Grows /\ Numbered' /\ Released'
  <1> DEFINE n == Len(repo.commits)
             s == Append(repo.commits, Clock + 1)
  <1>1. /\ repo.commits \in Seq(Nat) /\ Clock \in Nat /\ n \in Nat
        /\ Len(repo.releases) \in Nat /\ \A i \in 1..n : repo.commits[i] \in Nat
    BY RepoTypes DEF CInv
  <1>2. /\ s \in Seq(Nat) /\ Len(s) = n + 1 /\ s[n + 1] = Clock + 1
        /\ \A i \in 1..n : s[i] = repo.commits[i]
    BY <1>1, Appended
  <1>3. repo' = [commits |-> s, releases |-> repo.releases]
    BY DEF Commit, CInv, RepoShape
  <1> HIDE DEF s, n
  <1>4. RepoShape' /\ repo'.commits = s /\ repo'.releases = repo.releases
    BY <1>2, <1>3, RepoTypes DEF RepoShape, CInv
  <1>5. Clock' = Clock + 1
    <2>1. Clock = n + Len(repo.releases)
      BY DEF Clock, n
    <2>2. Clock' = Len(s) + Len(repo.releases)
      BY <1>4 DEF Clock
    <2>3. \A a, b \in Nat : (a + 1) + b = (a + b) + 1
      OBVIOUS
    <2> QED BY <1>1, <1>2, <2>1, <2>2, <2>3, Zenon
  <1>6. Grows
    BY <1>1, <1>2, <1>4 DEF Grows, n
  <1>7. Numbered'
    <2>0. /\ \A i, j \in 1..n : i < j => repo.commits[i] < repo.commits[j]
          /\ \A i \in 1..n : repo.commits[i] <= Clock
      BY DEF CInv, Numbered, n
    <2>1. \A i \in 1..(n + 1) : s[i] <= Clock + 1
      BY SMTT(30), <1>1, <1>2, <2>0, UpTo
    <2>2. \A i, j \in 1..(n + 1) : i < j => s[i] < s[j]
      <3> SUFFICES ASSUME NEW i \in 1..(n + 1), NEW j \in 1..(n + 1), i < j
                   PROVE  s[i] < s[j]
        OBVIOUS
      <3>1. i \in 1..n
        BY <1>1
      <3>2. CASE j \in 1..n
        BY <1>2, <2>0, <3>1, <3>2
      <3>3. CASE j = n + 1
        BY SMTT(30), <1>1, <1>2, <2>0, <3>1, <3>3
      <3> QED BY <1>1, <3>2, <3>3, UpTo
    <2> QED BY <1>2, <1>4, <1>5, <2>1, <2>2 DEF Numbered
  <1>8. Released'
    <2> SUFFICES ASSUME NEW i \in 1..Len(repo.releases)
                 PROVE  /\ repo.releases[i].commit \in 1..(n + 1)
                        /\ s[repo.releases[i].commit] < repo.releases[i].at
      BY <1>2, <1>4 DEF CInv, Released
    <2>1. /\ repo.releases[i].commit \in 1..n
          /\ repo.commits[repo.releases[i].commit] < repo.releases[i].at
      BY DEF CInv, Released, n
    <2> QED BY <1>1, <1>2, <2>1
  <1> QED BY <1>6, <1>7, <1>8

LEMMA ReleaseGrows ==
    ASSUME CInv, NEW c \in 1..MaxClock, Release(c)
    PROVE  Grows /\ Numbered' /\ Released'
  <1> DEFINE n == Len(repo.releases)
             r == [commit |-> c, at |-> Clock + 1]
             s == Append(repo.releases, r)
  <1>1. /\ repo.releases \in Seq([commit: Nat, at: Nat]) /\ Clock \in Nat /\ n \in Nat
        /\ \A i \in 1..Len(repo.commits) : repo.commits[i] \in Nat
        /\ Len(repo.commits) \in Nat
    BY RepoTypes DEF CInv
  <1>2. c \in 1..Len(repo.commits) /\ c \in Nat /\ r \in [commit: Nat, at: Nat]
    BY <1>1 DEF Release
  <1>3. /\ s \in Seq([commit: Nat, at: Nat]) /\ Len(s) = n + 1 /\ s[n + 1] = r
        /\ \A i \in 1..n : s[i] = repo.releases[i]
    BY <1>1, <1>2, Appended
  <1>4. repo' = [commits |-> repo.commits, releases |-> s]
    BY DEF Release, CInv, RepoShape
  <1>5. r.commit = c /\ r.at = Clock + 1
    OBVIOUS
  <1> HIDE DEF s, n, r
  <1>6. RepoShape' /\ repo'.commits = repo.commits /\ repo'.releases = s
    BY <1>3, <1>4, RepoTypes DEF RepoShape, CInv
  <1>7. Clock' = Clock + 1
    <2>1. Clock = Len(repo.commits) + n
      BY DEF Clock, n
    <2>2. Clock' = Len(repo.commits) + Len(s)
      BY <1>6 DEF Clock
    <2>3. \A a, b \in Nat : a + (b + 1) = (a + b) + 1
      OBVIOUS
    <2> QED BY <1>1, <1>3, <2>1, <2>2, <2>3, Zenon
  <1>8. Grows
    BY <1>1, <1>3, <1>6 DEF Grows, n
  <1>9. Numbered'
    <2>1. \A i \in 1..Len(repo.commits) : repo.commits[i] <= Clock + 1
      BY <1>1 DEF CInv, Numbered
    <2> QED BY <1>6, <1>7, <2>1 DEF CInv, Numbered
  <1>10. Released'
    <2>1. /\ \A i \in 1..n : repo.releases[i].commit \in 1..Len(repo.commits)
          /\ \A i \in 1..n : repo.commits[repo.releases[i].commit] < repo.releases[i].at
          /\ \A i, j \in 1..n : repo.releases[i].commit = repo.releases[j].commit => i = j
          /\ \A i \in 1..n : repo.releases[i].commit # c
      BY DEF CInv, Released, Release, n
    <2>2. repo.commits[c] < Clock + 1
      BY <1>1, <1>2 DEF CInv, Numbered
    <2>3. \A i \in 1..(n + 1) :
            s[i].commit \in 1..Len(repo.commits) /\ repo.commits[s[i].commit] < s[i].at
      BY <1>1, <1>2, <1>3, <1>5, <2>1, <2>2, UpTo
    <2>4. \A i, j \in 1..(n + 1) : s[i].commit = s[j].commit => i = j
      BY <1>1, <1>3, <1>5, <2>1, UpTo
    <2> QED BY <1>3, <1>6, <2>3, <2>4 DEF Released
  <1> QED BY <1>8, <1>9, <1>10

\* What a report says stays true while upstream goes on.
LEMMA ReportStays ==
    ASSUME CInv, Grows, check' = check
    PROVE  Asked' /\ ReportTrue'
  <1>1. /\ Len(repo.commits) \in Nat /\ Len(repo.releases) \in Nat
        /\ Len(repo'.commits) \in Nat /\ Len(repo'.releases) \in Nat
    <2>1. repo'.commits \in Seq(Nat) /\ repo'.releases \in Seq([commit: Nat, at: Nat])
      BY DEF Grows, RepoShape
    <2> QED BY <2>1, RepoTypes, Members DEF CInv
  <1>2. Asked'
    BY <1>1 DEF CInv, Asked, Grows
  <1>3. ReportTrue'
    <2> SUFFICES ASSUME check.at = "done" PROVE ReportTrue'
      BY DEF ReportTrue
    <2>1. /\ check.seen \in 0..Len(repo.releases)
          /\ check.commit \in 1..Len(repo.commits)
      BY DEF CInv, Asked
    <2>2. \A i \in 1..check.seen : repo'.releases[i].commit = repo.releases[i].commit
      BY <1>1, <2>1 DEF Grows
    <2>3. repo'.commits[check.commit] = repo.commits[check.commit]
      BY <2>1 DEF Grows
    <2>4. {i \in 1..check.seen : repo'.releases[i].commit > check.commit}
            = {i \in 1..check.seen : repo.releases[i].commit > check.commit}
      BY <2>2
    <2>5. check.seen > 0 => check.seen \in 1..check.seen
      BY <2>1
    <2>6. check.seen > 0 => repo'.releases[check.seen].commit = repo.releases[check.seen].commit
      BY <2>2, <2>5
    <2> QED BY <2>2, <2>3, <2>4, <2>6 DEF CInv, ReportTrue
  <1> QED BY <1>2, <1>3

\* The releases with one commit: none, or a single one.
LEMMA OneMatch ==
    ASSUME CInv, check.at = "tags", NEW i \in Matches(check, TRUE)
    PROVE  /\ Matches(check, TRUE) = {i} /\ (CHOOSE j \in Matches(check, TRUE) : TRUE) = i
           /\ i \in 1..check.seen /\ repo.releases[i].commit = check.commit
  <1>1. check.seen \in 0..Len(repo.releases) /\ Len(repo.releases) \in Nat
    BY RepoTypes DEF CInv, Asked
  <1>2. Matches(check, TRUE) \subseteq 1..Len(repo.releases)
    BY <1>1 DEF Matches
  <1>3. Matches(check, TRUE) = {i}
    BY <1>2 DEF Matches, CInv, Released
  <1> QED BY <1>3 DEF Matches

\* A release of newer code was published later than the code that runs was made.
LEMMA LaterCounts ==
    ASSUME CInv, check.at = "tags", check.built = repo.commits[check.commit]
    PROVE  Cardinality({i \in 1..check.seen : repo.releases[i].commit > check.commit})
             <= Later(check)
  <1> DEFINE A == {i \in 1..check.seen : repo.releases[i].commit > check.commit}
             B == {i \in 1..check.seen : repo.releases[i].at > check.built}
  <1>1. /\ check.seen \in 0..Len(repo.releases) /\ check.commit \in 1..Len(repo.commits)
        /\ Len(repo.releases) \in Nat /\ Len(repo.commits) \in Nat
    BY RepoTypes DEF CInv, Asked
  <1>2. A \subseteq B
    <2> SUFFICES ASSUME NEW i \in 1..check.seen, repo.releases[i].commit > check.commit
                 PROVE  repo.releases[i].at > check.built
      OBVIOUS
    <2>1. i \in 1..Len(repo.releases)
      BY <1>1
    <2> DEFINE c == repo.releases[i].commit
    <2>2. /\ c \in 1..Len(repo.commits) /\ repo.commits[c] < repo.releases[i].at
          /\ repo.releases[i].at \in Nat
      BY <2>1, RepoTypes DEF CInv, Released
    <2>3. repo.commits[check.commit] < repo.commits[c]
      BY <1>1, <2>2 DEF CInv, Numbered
    <2>4. repo.commits[c] \in Nat /\ repo.commits[check.commit] \in Nat
      BY <1>1, <2>2, RepoTypes DEF CInv
    <2> QED BY <2>2, <2>3, <2>4
  <1>3. IsFiniteSet(B)
    <2>1. 1 \in Int /\ check.seen \in Int
      BY <1>1
    <2>2. IsFiniteSet(1..check.seen)
      BY <2>1, FS_Interval, Zenon
    <2> QED BY <2>2, FS_Subset
  <1>4. Cardinality(A) <= Cardinality(B)
    BY <1>2, <1>3, FS_Subset
  <1> QED BY <1>4 DEF Later

LEMMA ReportedTrue ==
    ASSUME CInv, NEW tags \in BOOLEAN, Reported(tags)
    PROVE  Asked' /\ ReportTrue'
  <1>1. /\ check.at = "tags" /\ repo' = repo
        /\ check'.at = "done" /\ check'.commit = check.commit /\ check'.built = check.built
        /\ check'.seen = check.seen
        /\ check'.releases = ReleasesBehind(check, tags)
        /\ check'.exact = (Matches(check, tags) # {})
    BY DEF Reported
  <1>2. /\ check.seen \in 0..Len(repo.releases) /\ Len(repo.releases) \in Nat
        /\ check.seen \in Nat
    BY <1>1, RepoTypes DEF CInv, Asked
  <1>3. Asked'
    BY <1>1, <1>2 DEF CInv, Asked
  <1>4. CASE ~tags
    <2>1. Matches(check, tags) = {}
      BY <1>4 DEF Matches
    <2>2. check'.releases = None /\ ~check'.exact
      BY <1>1, <1>4, <2>1 DEF ReleasesBehind
    <2> QED BY <1>1, <1>3, <2>2 DEF ReportTrue
  <1>5. CASE tags /\ Matches(check, TRUE) # {}
    <2>0. tags = TRUE
      BY <1>5
    <2>1. PICK i \in Matches(check, TRUE) : TRUE
      BY <1>5
    <2>2. /\ i \in 1..check.seen /\ repo.releases[i].commit = check.commit
          /\ check'.releases = check.seen - i /\ check'.exact
      BY <1>1, <1>5, <2>0, <2>1, OneMatch DEF ReleasesBehind
    <2>3. check.seen > 0 /\ repo.releases[check.seen].commit = check.commit
            => check.seen = i
      BY <1>2, <2>2 DEF CInv, Released
    <2>4. check.seen > 0 /\ repo.releases[check.seen].commit = check.commit
            => check'.releases = 0
      BY <1>2, <2>2, <2>3
    <2> QED BY <1>1, <1>3, <2>2, <2>4 DEF ReportTrue
  <1>6. CASE tags /\ Matches(check, TRUE) = {}
    <2>0. tags = TRUE
      BY <1>6
    <2>1. check'.releases = Later(check) /\ ~check'.exact
      BY <1>1, <1>6, <2>0 DEF ReleasesBehind
    <2>2. ~(check.seen > 0 /\ repo.releases[check.seen].commit = check.commit)
      BY <1>2, <1>6 DEF Matches
    <2>3. check.built = repo.commits[check.commit] =>
            check'.releases >=
              Cardinality({i \in 1..check.seen : repo.releases[i].commit > check.commit})
      BY <1>1, <2>1, LaterCounts
    <2> QED BY <1>1, <1>3, <2>1, <2>2, <2>3 DEF ReportTrue
  <1> QED BY <1>4, <1>5, <1>6

LEMMA StepCInv ==
    ASSUME CInv, [UpstreamNext]_<<vars, upstream>>
    PROVE  CInv'
  <1>1. ASSUME UNCHANGED repo, check'.at \in {"none", "compare", "releases", "tags"}, Asked'
        PROVE  CInv'
    BY <1>1 DEF CInv, RepoShape, Numbered, Released, ReportTrue, Clock
  <1>2. CASE UNCHANGED <<repo, check>>
    BY <1>2 DEF CInv, RepoShape, Numbered, Released, Asked, ReportTrue, Clock
  <1>3. ASSUME Grows, Numbered', Released', check' = check
        PROVE  CInv'
    BY <1>3, ReportStays DEF CInv, Grows
  <1>4. CASE Commit
    BY <1>3, <1>4, CommitGrows DEF Commit
  <1>5. ASSUME NEW c \in 1..MaxClock, Release(c)
        PROVE  CInv'
    BY <1>3, <1>5, ReleaseGrows DEF Release
  <1>6. ASSUME NEW c \in 1..MaxClock, NEW t \in 1..MaxClock, StartCheck(c, t)
        PROVE  CInv'
    <2>1. repo' = repo /\ check' = [at |-> "compare", commit |-> c, built |-> t]
      BY <1>6 DEF StartCheck
    <2>2. c \in 1..Len(repo.commits) /\ t \in Nat
      BY <1>6, UpstreamAssumption DEF StartCheck
    <2>3. Asked' /\ check'.at = "compare"
      BY <2>1, <2>2 DEF Asked
    <2> QED BY <1>1, <2>1, <2>3
  <1>7. CASE Compared
    <2>1. /\ repo' = repo /\ check.at = "compare" /\ check'.at = "releases"
          /\ check'.commit = check.commit /\ check'.built = check.built
      BY <1>7 DEF Compared
    <2> QED BY <1>1, <2>1 DEF CInv, Asked
  <1>8. CASE Listed
    <2>1. /\ repo' = repo /\ check.at = "releases" /\ check'.at = "tags"
          /\ check'.commit = check.commit /\ check'.built = check.built
          /\ check'.seen = Len(repo.releases)
      BY <1>8 DEF Listed
    <2>2. Len(repo.releases) \in 0..Len(repo.releases)
      BY RepoTypes DEF CInv
    <2> QED BY <1>1, <2>1, <2>2 DEF CInv, Asked
  <1>9. CASE CheckFails \/ Forgotten
    <2>1. repo' = repo /\ check'.at = "none"
      BY <1>9 DEF CheckFails, Forgotten, Nothing
    <2> QED BY <1>1, <2>1 DEF Asked
  <1>10. ASSUME NEW tags \in BOOLEAN, Reported(tags)
         PROVE  CInv'
    <2>1. repo' = repo
      BY <1>10 DEF Reported
    <2> QED BY <1>10, <2>1, ReportedTrue DEF CInv, RepoShape, Numbered, Released, Clock
  <1>11. CASE UpdateStep \/ UNCHANGED <<vars, upstream>>
    BY <1>2, <1>11 DEF UpdateStep, upstream
  <1>12. ASSUME NEW u \in Updates,
                \/ \E from \in {"github", "peer"} : Request(u, from)
                \/ Redirected(u)
                \/ \E a \in Archives, label \in Versions \cup {None} : Received(u, a, label)
         PROVE  CInv'
    BY <1>2, <1>12 DEF Request, Redirected, Received
  <1> QED BY <1>4, <1>5, <1>6, <1>7, <1>8, <1>9, <1>10, <1>11, <1>12 DEF UpstreamNext

(***************************************************************************)
(* The report of checkUpdates, which asks its three questions while        *)
(* upstream goes on publishing: it never says that the newest release it   *)
(* was told of is behind, an exact count is exact, and a guess leaves out  *)
(* no release of newer code; for a repository of any length.               *)
(***************************************************************************)
THEOREM ReportsAreTrue == UpstreamSpec => []ReportTrue
  <1>1. UpstreamInit => CInv
    BY InitCInv
  <1>2. CInv /\ [UpstreamNext]_<<vars, upstream>> => CInv'
    BY StepCInv
  <1>3. CInv => ReportTrue
    BY DEF CInv
  <1> QED BY <1>1, <1>2, <1>3, PTL DEF UpstreamSpec
=============================================================================
