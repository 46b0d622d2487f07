----------------------------- MODULE SelfUpdate ------------------------------
(***************************************************************************)
(* The self-update: POST /api/admin/update of server/index.ts, the staging *)
(* and the backup of server/self-update.mjs, and the detached helper       *)
(* scripts/apply-update.mjs that installs the dependencies in the staging  *)
(* directory, overlays the staged tree on the web root one entry at a      *)
(* time, writes data/version.json and restarts the service.                *)
(*                                                                         *)
(* The unit of mise-server sets no KillMode, so a stop or a crash of the   *)
(* service ends every process of its control group, the helpers included.  *)
(* A tree is kept as the version of each of its top-level entries: of the  *)
(* files that its last archive brought, for cp merges, and a file that a   *)
(* version no longer has stays where an older one put it. The archive of   *)
(* GitHub is the whole repository; that of a peer is what its pack-source  *)
(* packs, which is all that the backend runs on, and not the gateway.      *)
(***************************************************************************)
EXTENDS Naturals, FiniteSets

CONSTANTS
    Updates,   \* bound: how many updates are asked for
    Code,      \* top-level entries of the tree that applyUpdate backs up
    Deps,      \* server/node_modules: in no backup
    Gateway,   \* gateway/: in no backup, and in no archive of a peer
    Versions,  \* commits
    Installed, \* the commit installed at first
    None       \* nothing there

ASSUME SelfUpdateAssumption ==
    /\ Deps \notin Code /\ Gateway \notin Code \cup {Deps} /\ Installed \in Versions
    /\ None \notin Versions \cup Updates

\* What the backend runs on, and what there is of a tree in all.
Served  == Code \cup {Deps}
Entries == Served \cup {Gateway}

VARIABLES
    tree,        \* the web root
    marker,      \* data/version.json: the commit
    running,     \* the tree the running backend was started from, as far as it runs it
    job,         \* the update UPDATE_JOB belongs to, until it is done
    up,          \* where each update is, and what it has fetched and copied
    backup,      \* data/backups/<stamp>
    overlapped,  \* history: two updates were under way at once
    cut,         \* history: a helper was ended, or failed, during its overlay
    mislabelled, \* history: a peer's archive came with another version, or none
    peered       \* history: since the gateway was laid, an archive without one was

vars    == <<tree, marker, running, job, up, backup, overlapped, cut, mislabelled, peered>>
Root    == <<tree, marker, running>>
History == <<overlapped, cut, mislabelled, peered>>

Idle == [at |-> "idle"]
Over == [at |-> "over"]

Staging  == {"accepted", "backup"}
UnderWay == {u \in Updates : up[u].at \notin {"idle", "asked", "over"}}
Whole(t) == \E v \in Versions : \A e \in DOMAIN t : t[e] = v

-----------------------------------------------------------------------------

Init ==
    /\ tree = [e \in Entries |-> Installed]
    /\ marker = Installed
    /\ running = [e \in Served |-> Installed]
    /\ job = None
    /\ up = [u \in Updates |-> Idle]
    /\ backup = [u \in Updates |-> [e \in Code |-> None]]
    /\ overlapped = FALSE /\ cut = FALSE /\ mislabelled = FALSE /\ peered = FALSE

Becomes(u, p) == up' = [up EXCEPT ![u] = p]
Copied(u, e)  == up' = [up EXCEPT ![u].copied = @ \cup {e}]
JobDone(u)    == job' = IF job = u THEN None ELSE job

\* POST /api/admin/update: the guard is looked at, then the body is awaited.
Ask(u) ==
    /\ up[u] = Idle /\ job = None
    /\ Becomes(u, [at |-> "asked"])
    /\ UNCHANGED <<Root, job, backup, History>>

Accept(u) ==
    /\ up[u].at = "asked"
    /\ job' = u
    /\ Becomes(u, [at |-> "accepted"])
    /\ overlapped' = (overlapped \/ UnderWay # {})
    /\ UNCHANGED <<Root, backup, cut, mislabelled, peered>>

Stage(u, v, l, b) ==
    /\ up[u].at = "accepted"
    /\ Becomes(u, [at |-> "backup", tree |-> v, label |-> l, brings |-> b, copied |-> {}])

\* Bug: the label of an archive from GitHub is the name of the branch.
FetchGitHubRef(u, v) ==
    /\ Stage(u, v, "main", Entries)
    /\ UNCHANGED <<Root, job, backup, History>>

\* fetchFromGitHub: the commit is resolved first, and its archive is named by it.
FetchGitHub(u, v) ==
    /\ Stage(u, v, v, Entries)
    /\ UNCHANGED <<Root, job, backup, History>>

\* fetchFromPeer: the archive, and then a version.json that may be missing or
\* describe what the peer has become in between.
FetchPeer(u, v, l) ==
    /\ Stage(u, v, l, Served)
    /\ mislabelled' = (mislabelled \/ l # v)
    /\ UNCHANGED <<Root, job, backup, overlapped, cut, peered>>

\* Fetching, staging or the backup as a whole fails; the job says so.
StagingFails(u) ==
    /\ up[u].at \in Staging
    /\ Becomes(u, Over) /\ JobDone(u)
    /\ UNCHANGED <<Root, backup, History>>

\* applyUpdate copies one entry after the other.
BackUp(u, e) ==
    /\ up[u].at = "backup" /\ e \notin up[u].copied
    /\ backup' = [backup EXCEPT ![u][e] = tree[e]]
    /\ Copied(u, e)
    /\ UNCHANGED <<Root, job, History>>

\* An entry that cannot be copied is passed over, one that is absent as well
\* as one the disk has no room for.
PassOver(u, e) ==
    /\ up[u].at = "backup" /\ e \notin up[u].copied
    /\ Copied(u, e)
    /\ UNCHANGED <<Root, job, backup, History>>

Spawn(u) ==
    /\ Becomes(u, [up[u] EXCEPT !.at = "deps", !.copied = {}])
    /\ JobDone(u)
    /\ UNCHANGED <<Root, backup, History>>

\* Bug: all of the entries may have been passed over.
HandOffUnbacked(u) == up[u].at = "backup" /\ up[u].copied = Code /\ Spawn(u)

\* With fewer than two entries copied the update is refused; otherwise the
\* helper is spawned, and the job is done.
HandOff(u) ==
    /\ up[u].at = "backup" /\ up[u].copied = Code
    /\ Cardinality({e \in Code : backup[u][e] # None}) >= 2
    /\ Spawn(u)

-----------------------------------------------------------------------------
(***************************************************************************)
(* apply-update.mjs.                                                       *)
(***************************************************************************)
InstallDeps(u) ==
    /\ up[u].at = "deps"
    /\ Becomes(u, [up[u] EXCEPT !.at = "overlay"])
    /\ UNCHANGED <<Root, job, backup, History>>

\* Bug: "npm ci" runs in the web root, and has deleted node_modules when it fails.
InstallInPlaceFails(u) ==
    /\ up[u].at = "deps"
    /\ tree' = [tree EXCEPT ![Deps] = None]
    /\ Becomes(u, Over)
    /\ UNCHANGED <<marker, running, job, backup, History>>

\* The dependencies are installed into staging: nothing has changed yet.
InstallFails(u) ==
    /\ up[u].at = "deps"
    /\ Becomes(u, Over)
    /\ UNCHANGED <<Root, job, backup, History>>

\* cp lays what was staged over the web root, one entry after the other.
Overlay(u, e) ==
    /\ up[u].at = "overlay" /\ e \in up[u].brings \ up[u].copied
    /\ tree' = [tree EXCEPT ![e] = up[u].tree]
    /\ Copied(u, e)
    /\ peered' = (e # Gateway /\ (peered \/ Gateway \notin up[u].brings))
    /\ UNCHANGED <<marker, running, job, backup, overlapped, cut, mislabelled>>

OverlayFails(u) ==
    /\ up[u].at = "overlay"
    /\ Becomes(u, Over)
    /\ cut' = TRUE
    /\ UNCHANGED <<Root, job, backup, overlapped, mislabelled, peered>>

\* Bug: whatever the archive says of its version is left in the marker.
MarkFromArchive(u) ==
    /\ up[u].at = "overlay" /\ up[u].copied = up[u].brings
    /\ marker' = Installed
    /\ Becomes(u, [at |-> "restart"])
    /\ UNCHANGED <<tree, running, job, backup, History>>

\* The marker is the version that was fetched, if that is known.
Mark(u) ==
    /\ up[u].at = "overlay" /\ up[u].copied = up[u].brings
    /\ marker' = IF up[u].label = None THEN marker ELSE up[u].label
    /\ Becomes(u, [at |-> "restart"])
    /\ UNCHANGED <<tree, running, job, backup, History>>

\* The service stops, all that runs in its control group with it, and starts.
Started ==
    /\ running' = [e \in Served |-> tree[e]]
    /\ job' = None
    /\ up' = [u \in Updates |-> IF up[u] = Idle THEN Idle ELSE Over]

Restart(u) ==
    /\ up[u].at = "restart"
    /\ Started
    /\ UNCHANGED <<tree, marker, backup, History>>

\* The account may not restart the service: the operator does, some day.
RestartRefused(u) ==
    /\ up[u].at = "restart"
    /\ Becomes(u, Over)
    /\ UNCHANGED <<Root, job, backup, History>>

\* The backend crashes, or the operator restarts it.
Crash ==
    /\ Started
    /\ cut' = (cut \/ \E u \in Updates : up[u].at = "overlay" /\ up[u].copied # {})
    /\ UNCHANGED <<tree, marker, backup, overlapped, mislabelled, peered>>

Next ==
    \/ \E u \in Updates :
         \/ Ask(u) \/ Accept(u) \/ StagingFails(u) \/ HandOff(u)
         \/ InstallDeps(u) \/ InstallFails(u) \/ OverlayFails(u) \/ Mark(u)
         \/ Restart(u) \/ RestartRefused(u)
         \/ \E v \in Versions :
              FetchGitHub(u, v) \/ \E l \in Versions \cup {None} : FetchPeer(u, v, l)
         \/ \E e \in Code : BackUp(u, e) \/ PassOver(u, e)
         \/ \E e \in Entries : Overlay(u, e)
    \/ Crash

Spec == Init /\ [][Next]_vars

-----------------------------------------------------------------------------
TypeOK ==
    /\ tree \in [Entries -> Versions] /\ running \in [Served -> Versions]
    /\ marker \in Versions
    /\ job \in Updates \cup {None}
    /\ up \in [Updates ->
          [at: {"idle", "asked", "accepted", "restart", "over"}]
            \cup [at: {"backup", "deps", "overlay"}, tree: Versions,
                  label: Versions \cup {None}, brings: {Served, Entries},
                  copied: SUBSET Entries]]
    /\ backup \in [Updates -> [Code -> Versions \cup {None}]]
    /\ overlapped \in BOOLEAN /\ cut \in BOOLEAN
    /\ mislabelled \in BOOLEAN /\ peered \in BOOLEAN

(***************************************************************************)
(* The service never starts on a mixture of two versions, nor without the  *)
(* dependencies of the code it runs, whatever fails along the way: only a  *)
(* helper ended during its overlay leaves one.                             *)
(***************************************************************************)
RunsOneVersion == ~overlapped /\ ~cut => Whole(running)

(***************************************************************************)
(* data/version.json names the code in the web root once nothing is under  *)
(* way, so that the update check compares the right commit; the gateway    *)
(* only while no archive of a peer was laid since it was.                  *)
(***************************************************************************)
MarkerHonest ==
    ~overlapped /\ ~cut /\ ~mislabelled /\ UnderWay = {}
        => \A e \in (IF peered THEN Served ELSE Entries) : tree[e] = marker

(***************************************************************************)
(* What an update leaves of the backend is one version, and the one the    *)
(* marker names, from GitHub the gateway too: the service never starts on  *)
(* a mixture, and the update check never compares the wrong commit.        *)
(***************************************************************************)
InstalledWhole == RunsOneVersion /\ MarkerHonest

(***************************************************************************)
(* An archive of a peer is "exactly the code the instance runs", and laid  *)
(* over a web root it "upgrades the CODE" (pack-source.mjs): the web root  *)
(* is of one version after any update.                                     *)
(***************************************************************************)
UpdateBringsAll == ~overlapped /\ ~cut /\ UnderWay = {} => Whole(tree)

(***************************************************************************)
(* The backup is the recovery story of an update (the comments around the  *)
(* backup loop of applyUpdate): while the code is a mixture, there is a    *)
(* backup of at least two entries that are all of one version, even after  *)
(* further attempts have backed up the mixture.                            *)
(***************************************************************************)
Recoverable ==
    ~overlapped /\ ~Whole([e \in Code |-> tree[e]])
        => \E u \in Updates, v \in Versions :
             /\ \A e \in Code : backup[u][e] \in {v, None}
             /\ Cardinality({e \in Code : backup[u][e] = v}) >= 2

(***************************************************************************)
(* "Only one at a time" (the comment above UPDATE_JOB in index.ts): while  *)
(* no helper is cut short from outside, what the backend runs on is of one *)
(* version once no update is under way.                                    *)
(***************************************************************************)
UpdatesDoNotMix == ~cut /\ UnderWay = {} => Whole([e \in Served |-> tree[e]])
=============================================================================
