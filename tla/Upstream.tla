------------------------------ MODULE Upstream -------------------------------
(***************************************************************************)
(* What an instance takes from elsewhere over Tor: the archives that an    *)
(* update stages (fetchFromPeer, fetchFromGitHub, unzip and stripTopLevel  *)
(* of server/self-update.mjs, githubGet of server/updates.mjs), and the    *)
(* update check (checkUpdates). SelfUpdate has what becomes of a tree that *)
(* was staged.                                                             *)
(*                                                                         *)
(* A connection that is closed ends the reply, so a reply may be short of  *)
(* its end and nobody is told. The repository upstream only grows.         *)
(***************************************************************************)
EXTENDS SelfUpdate, Sequences

CONSTANTS
    Archives,    \* what may be served as an archive
    MaxEntries,  \* MAX_ENTRIES
    MaxInflated, \* MAX_INFLATED_BYTES
    MaxHops,     \* redirects that githubGet follows
    MaxClock     \* bound: commits and releases upstream

\* What a zip may hold besides the files of the tree: an entry for each folder,
\* names outside the top folder, files of data/, the same with a "." segment in
\* front (mise/./data/x), and names that lead elsewhere.
Holdings == {"files", "folders", "outside", "data", "dotted", "escaping"}

\* What is a file of data/ once path.join has its name.
IntoData == {"data", "dotted"}

ASSUME UpstreamAssumption ==
    /\ Archives \subseteq [of: Versions, holds: SUBSET Holdings, count: Nat, size: Nat,
                           whole: BOOLEAN]
    /\ {MaxEntries, MaxInflated, MaxHops, MaxClock} \subseteq Nat

VARIABLES
    got,    \* what each update is fetching, and has fetched
    data,   \* the files of archives that were laid over data/ of the web root
    repo,   \* upstream: the times of the commits, and the releases
    check   \* the update check under way, and its report

upstream == <<got, data, repo, check>>

Nothing  == [at |-> "none"]
Download == [at: {"asked"}, from: {"github", "peer"}, hops: 0..MaxHops]
              \cup [at: {"here"}, from: {"github", "peer"}, archive: Archives,
                    label: Versions \cup {None}]

\* The events upstream are numbered; a commit has the number it was made at.
Clock == Len(repo.commits) + Len(repo.releases)

UpstreamInit ==
    /\ Init
    /\ got = [u \in Updates |-> Nothing] /\ data = {}
    /\ repo = [commits |-> <<1>>, releases |-> <<>>]
    /\ check = Nothing

-----------------------------------------------------------------------------
(***************************************************************************)
(* An archive is fetched, and unpacked.                                    *)
(***************************************************************************)
\* The operator document of a peer verifies, or the commit is resolved.
Request(u, from) ==
    /\ up[u].at = "accepted" /\ got[u] = Nothing
    /\ got' = [got EXCEPT ![u] = [at |-> "asked", from |-> from, hops |-> 0]]
    /\ UNCHANGED <<vars, data, repo, check>>

\* githubGet follows the redirect to the host that has the archive.
Redirected(u) ==
    /\ up[u].at = "accepted" /\ got[u].at = "asked"
    /\ got[u].from = "github" /\ got[u].hops < MaxHops
    /\ got' = [got EXCEPT ![u].hops = @ + 1]
    /\ UNCHANGED <<vars, data, repo, check>>

\* The archive arrives; a peer's version.json is asked for afterwards.
Received(u, a, label) ==
    /\ up[u].at = "accepted" /\ got[u].at = "asked"
    /\ got[u].from = "github" => label = a.of
    /\ got' = [got EXCEPT ![u] = [at |-> "here", from |-> got[u].from,
                                  archive |-> a, label |-> label]]
    /\ UNCHANGED <<vars, data, repo, check>>

\* unzip. The directory is at the end: an archive that was cut has none.
Unzipped(a) ==
    IF a.whole /\ a.count <= MaxEntries /\ a.size <= MaxInflated THEN a.holds ELSE {}

\* Bug: the archives of pack-source have no data, so nobody looks for it.
StrippedWithData(h) ==
    IF "escaping" \in h THEN {} ELSE h \ {"folders", "outside"}

\* stripTopLevel looks at the names as the zip has them: what is staged.
Stripped(h) ==
    IF "escaping" \in h THEN {} ELSE h \ {"folders", "outside", "data"}

Staged(a) == Stripped(Unzipped(a))

\* A step of SelfUpdate: what it stages has arrived, and is a source tree; what
\* it lays over the web root is what was staged; and what is over is deleted.
UpdateStep ==
    /\ Next
    /\ \A u \in Updates : up[u].at = "accepted" /\ up'[u].at = "backup" =>
         /\ got[u].at = "here" /\ "files" \in Staged(got[u].archive)
         /\ up'[u].tree = got[u].archive.of /\ up'[u].label = got[u].label
         /\ up'[u].brings = IF got[u].from = "github" THEN Entries ELSE Served
    /\ data' = data \cup UNION {Staged(got[u].archive) \cap IntoData :
                  u \in {w \in Updates : up[w].at = "overlay" /\ up'[w].at = "overlay"}}
    /\ got' = [u \in Updates |-> IF up'[u].at = "over" THEN Nothing ELSE got[u]]
    /\ UNCHANGED <<repo, check>>

-----------------------------------------------------------------------------
(***************************************************************************)
(* checkUpdates: three questions, one after the other, while upstream goes *)
(* on; a version is a commit, and when it was built or installed.          *)
(***************************************************************************)
Commit ==
    /\ Clock < MaxClock
    /\ repo' = [repo EXCEPT !.commits = Append(@, Clock + 1)]
    /\ UNCHANGED <<vars, got, data, check>>

\* Some commit that has no release yet gets one.
Release(c) ==
    /\ Clock < MaxClock /\ c \in 1..Len(repo.commits)
    /\ \A i \in DOMAIN repo.releases : repo.releases[i].commit # c
    /\ repo' = [repo EXCEPT !.releases = Append(@, [commit |-> c, at |-> Clock + 1])]
    /\ UNCHANGED <<vars, got, data, check>>

\* data/version.json is read, and the comparison with main asked for.
StartCheck(c, built) ==
    /\ check = Nothing
    /\ c \in 1..Len(repo.commits) /\ built \in repo.commits[c]..Clock
    /\ check' = [at |-> "compare", commit |-> c, built |-> built]
    /\ UNCHANGED <<vars, got, data, repo>>

Compared ==
    /\ check.at = "compare"
    /\ check' = [at |-> "releases", commit |-> check.commit, built |-> check.built,
                 behind |-> Len(repo.commits) - check.commit]
    /\ UNCHANGED <<vars, got, data, repo>>

Listed ==
    /\ check.at = "releases"
    /\ check' = [at |-> "tags", commit |-> check.commit, built |-> check.built,
                 behind |-> check.behind, seen |-> Len(repo.releases)]
    /\ UNCHANGED <<vars, got, data, repo>>

\* Either of the first two is refused, or does not come: nothing is reported.
CheckFails ==
    /\ check.at \in {"compare", "releases"}
    /\ check' = Nothing
    /\ UNCHANGED <<vars, got, data, repo>>

\* The releases that were published later than the version was built.
Later(k) == Cardinality({i \in 1..k.seen : repo.releases[i].at > k.built})

\* The releases whose tag is the commit that runs, when the tags are known.
Matches(k, tags) ==
    {i \in 1..k.seen : tags /\ repo.releases[i].commit = k.commit}

\* Bug: without the tags, the count by time is taken.
ReleasesBehindByTime(k, tags) ==
    IF Matches(k, tags) # {} THEN k.seen - CHOOSE i \in Matches(k, tags) : TRUE
    ELSE Later(k)

ReleasesBehind(k, tags) ==
    IF Matches(k, tags) # {} THEN k.seen - CHOOSE i \in Matches(k, tags) : TRUE
    ELSE IF tags THEN Later(k) ELSE None

\* The tags come, or cannot be had; then the report is made.
Reported(tags) ==
    /\ check.at = "tags"
    /\ check' = [at |-> "done", commit |-> check.commit, built |-> check.built,
                 behind |-> check.behind, seen |-> check.seen,
                 releases |-> ReleasesBehind(check, tags), exact |-> Matches(check, tags) # {}]
    /\ UNCHANGED <<vars, got, data, repo>>

Forgotten ==
    /\ check.at = "done" /\ check' = Nothing
    /\ UNCHANGED <<vars, got, data, repo>>

UpstreamNext ==
    \/ UpdateStep
    \/ \E u \in Updates :
         \/ \E from \in {"github", "peer"} : Request(u, from)
         \/ Redirected(u)
         \/ \E a \in Archives, label \in Versions \cup {None} : Received(u, a, label)
    \/ Commit \/ \E c \in 1..MaxClock : Release(c) \/ \E t \in 1..MaxClock : StartCheck(c, t)
    \/ Compared \/ Listed \/ CheckFails \/ Forgotten
    \/ \E tags \in BOOLEAN : Reported(tags)

UpstreamSpec == UpstreamInit /\ [][UpstreamNext]_<<vars, upstream>>

-----------------------------------------------------------------------------
(***************************************************************************)
(* UpstreamTypeOK: the shapes of downloads, and of the repository.         *)
(***************************************************************************)
UpstreamTypeOK ==
    /\ got \in [Updates -> {Nothing} \cup Download]
    /\ data \subseteq IntoData
    /\ check.at \in {"none", "compare", "releases", "tags", "done"}

\* An archive of pack-source or of GitHub that has arrived complete.
Genuine(a) ==
    /\ a.whole /\ "files" \in a.holds /\ "escaping" \notin a.holds
    /\ a.count <= MaxEntries /\ a.size <= MaxInflated

(***************************************************************************)
(* No file that an archive names data/... below its top folder is laid     *)
(* over the data/ of the instance, whatever else it holds and however much *)
(* of it has arrived; and what GitHub and peers really serve, with entries *)
(* for folders and with a data/ of its own, is accepted. DataUntouched is  *)
(* what names with a "." in them break.                                    *)
(***************************************************************************)
ArchiveSafe ==
    /\ "data" \notin data
    /\ \A u \in Updates : got[u].at = "here" /\ Genuine(got[u].archive)
         => "files" \in Staged(got[u].archive)

(***************************************************************************)
(* "NOTHING under data/ is ever staged, whatever the archive contains"     *)
(* (stripTopLevel in self-update.mjs): no update lays a file over data/.   *)
(***************************************************************************)
DataUntouched == data = {}

(***************************************************************************)
(* The report of an update check does not frighten and does not lull: an   *)
(* instance that runs the newest release it was told of is never said to   *)
(* be behind, a count that is called exact is, and one that is a guess     *)
(* leaves out no release of newer code, provided the version says when it  *)
(* was built; whatever upstream publishes between the three questions and  *)
(* whichever of them fails.                                                *)
(***************************************************************************)
ReportTrue ==
    check.at = "done" =>
        LET at(i)  == repo.releases[i].commit
            newest == check.seen > 0 /\ at(check.seen) = check.commit
        IN  /\ newest => check.releases \in {0, None}
            /\ check.exact => \E i \in 1..check.seen :
                                at(i) = check.commit /\ check.releases = check.seen - i
            /\ check.releases # None /\ ~check.exact
                 /\ check.built = repo.commits[check.commit]
               => check.releases >= Cardinality({i \in 1..check.seen : at(i) > check.commit})
=============================================================================
