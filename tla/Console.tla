-------------------------------- MODULE Console -------------------------------
(***************************************************************************)
(* The admin console: the page of assets/js/app.js on one side, the jobs   *)
(* and the update check of server/index.ts on the other, and between them  *)
(* HTTP requests over Tor that get lost, are repeated by api.call and      *)
(* answered out of order, a backend that restarts, and somebody else who   *)
(* is signed in and starts jobs as well.                                   *)
(*                                                                         *)
(* The two jobs, "import" and "update", have one form: a single slot in the*)
(* backend, a POST that starts the job, a timer in the page that asks for  *)
(* the slot. What an update does to the code is SelfUpdate.tla, what an    *)
(* import does to the records Moderation.tla.                              *)
(***************************************************************************)
EXTENDS Naturals, Sequences, SequencesExt

CONSTANTS
    Onions,      \* directories to import from
    Tries,       \* attempts of api.call
    MaxClicks,   \* bound: jobs asked for
    MaxPolls,    \* bound: polls for one job that are under way at once
    MaxLosses,   \* bound: answers lost
    MaxRestarts, \* bound: restarts of the backend
    MaxPushes,   \* bound: commits pushed to main
    MaxChecks,   \* bound: update checks under way at once
    None

Kinds    == {"import", "update"}
JobState == {"running", "failed", "empty", "ready"}

\* A job as the backend has it; "ready" is a plan with something to import, an
\* import that is done, or an update that was handed to the helper (needsRefresh).
Job  == [onion: Onions \cup {None}, apply: BOOLEAN, state: JobState]
\* As a page shows it, the state "asked" included.
PageRun == [onion: Onions \cup {None}, apply: BOOLEAN, state: JobState \cup {"asked"}]
\* The POST under way, and a poll.
Post == [onion: Onions \cup {None}, apply: BOOLEAN, at: {"sent", "body", "answer"},
         status: {202, 400, 409}, tries: 1..Tries]
Ask  == [at: {"sent", "answer"}, job: Job \cup {None}, old: BOOLEAN]

ASSUME ConsoleAssumption ==
    /\ {Tries, MaxPolls} \subseteq Nat \ {0}
    /\ {MaxClicks, MaxLosses, MaxRestarts, MaxPushes, MaxChecks} \subseteq Nat
    /\ None \notin Onions \cup Job \cup PageRun \cup Post

VARIABLES
    job,     \* IMPORT_JOB and UPDATE_JOB
    cache,   \* UPDATES_CACHE while it is fresh: the head of main it was compared with
    floor,   \* a forced check went out less than FORCED_UPDATE_FLOOR ago
    checks,  \* update checks under way: the head each has read, or None
    head,    \* the head of main
    run,     \* IMPORT_RUN and UPDATE_RUN of each page
    timer,   \* whether IMPORT_POLL and UPDATE_POLL are on
    last,    \* IMPORT_LAST of each page
    post, polls, \* the requests of each page
    clicks, losses, restarts,
    \* history
    known,   \* the head of main at the last sign-in
    trouble  \* an answer was overtaken, a job was hidden before it was answered,
             \* the backend of a running one restarted, or somebody else's job
             \* was started while the page followed one

server == <<job, cache, floor, checks, head>>
page   == <<run, timer, last, post, polls>>
bounds == <<clicks, losses, restarts>>
console == <<server, page, bounds, known, trouble>>

ConsoleTypeOK ==
    /\ job \in [Kinds -> Job \cup {None}]
    /\ cache \in 0..MaxPushes \cup {None} /\ floor \in BOOLEAN
    /\ checks \in Seq(0..MaxPushes \cup {None}) /\ Len(checks) <= MaxChecks
    /\ {head, known} \subseteq 0..MaxPushes
    /\ run \in [Kinds -> PageRun \cup {None}]
    /\ timer \in [Kinds -> BOOLEAN]
    /\ last \in Onions \cup {None}
    /\ post \in [Kinds -> Post \cup {None}]
    /\ \A k \in Kinds : polls[k] \in Seq(Ask) /\ Len(polls[k]) <= MaxPolls
    /\ trouble \in BOOLEAN

Blank == [k \in Kinds |-> None]

\* A page that was just loaded.
Opened(runs, timers, kept, sent, asked) ==
    /\ runs = Blank /\ timers = [k \in Kinds |-> FALSE] /\ kept = None
    /\ sent = Blank /\ asked = [k \in Kinds |-> <<>>]

ConsoleInit ==
    /\ job = Blank /\ cache = None /\ floor = FALSE /\ checks = <<>> /\ head = 0
    /\ Opened(run, timer, last, post, polls)
    /\ clicks = 0 /\ losses = 0 /\ restarts = 0
    /\ known = 0 /\ trouble = FALSE

-----------------------------------------------------------------------------
(***************************************************************************)
(* A page starts a job.                                                    *)
(***************************************************************************)
\* Polls of before.
Outdated(s) == [i \in DOMAIN s |-> [s[i] EXCEPT !.old = TRUE]]

\* startImport and startUpdate.
StartJob(k, onion, apply) ==
    /\ post[k] = None /\ clicks < MaxClicks
    /\ clicks' = clicks + 1
    /\ run'  = [run EXCEPT ![k] = [onion |-> onion, apply |-> apply, state |-> "asked"]]
    /\ post' = [post EXCEPT ![k] = [onion |-> onion, apply |-> apply, at |-> "sent",
                                       status |-> 202, tries |-> Tries]]
    /\ polls' = [polls EXCEPT ![k] = Outdated(@)]
    /\ UNCHANGED <<server, timer, last, losses, restarts, known, trouble>>

\* The buttons are there when the panel shows no job.
PlanImport(onion) == run["import"] = None /\ StartJob("import", onion, FALSE)
StartUpdate       == run["update"] = None /\ StartJob("update", None, TRUE)

\* The plan on the screen, and the details kept from its start.
OffersApply ==
    /\ run["import"] # None /\ run["import"].state = "ready" /\ ~run["import"].apply
    /\ last # None

ApplyImport == OffersApply /\ StartJob("import", last, TRUE)

\* Bug: the timer goes on.
DismissKeepingTimer(k) ==
    /\ run[k] # None /\ (k = "import" \/ run[k].state = "failed")
    /\ run' = [run EXCEPT ![k] = None]
    /\ UNCHANGED <<server, timer, last, post, polls, bounds, known, trouble>>

Dismiss(k) ==
    /\ run[k] # None /\ (k = "import" \/ run[k].state = "failed")
    /\ run'   = [run EXCEPT ![k] = None]
    /\ timer' = [timer EXCEPT ![k] = FALSE]
    /\ trouble' = (trouble \/ post[k] # None)
    /\ UNCHANGED <<server, last, post, polls, bounds, known>>

-----------------------------------------------------------------------------
(***************************************************************************)
(* The backend.                                                            *)
(***************************************************************************)
Running(k) == job[k] # None /\ job[k].state = "running"

\* The guard of the one job is looked at before the body is awaited.
Arrive(k) ==
    /\ post[k] # None /\ post[k].at = "sent"
    /\ post' = [post EXCEPT ![k] =
          IF Running(k)
            THEN [@ EXCEPT !.at = "answer", !.status = 409]
            ELSE [@ EXCEPT !.at = "body"]]
    /\ UNCHANGED <<server, run, timer, last, polls, bounds, known, trouble>>

\* Details that cannot be right are refused.
Refuse ==
    /\ post["import"] # None /\ post["import"].at = "body"
    /\ post' = [post EXCEPT !["import"].at = "answer", !["import"].status = 400]
    /\ UNCHANGED <<server, run, timer, last, polls, bounds, known, trouble>>

Follows(k) == timer[k] \/ post[k] # None \/ polls[k] # <<>>

Accept(k) ==
    /\ post[k] # None /\ post[k].at = "body"
    /\ job'  = [job EXCEPT ![k] = [onion |-> post[k].onion, apply |-> post[k].apply,
                                   state |-> "running"]]
    /\ post' = [post EXCEPT ![k].at = "answer", ![k].status = 202]
    /\ UNCHANGED <<cache, floor, checks, head, run, timer, last, polls, bounds, known, trouble>>

\* The same two steps for somebody else's POST.
Elsewhere(k, onion, apply) ==
    /\ (k = "update") = (onion = None /\ apply) /\ clicks < MaxClicks
    /\ ~Running(k)
    /\ clicks' = clicks + 1
    /\ job' = [job EXCEPT ![k] = [onion |-> onion, apply |-> apply, state |-> "running"]]
    /\ trouble' = (trouble \/ Follows(k))
    /\ UNCHANGED <<cache, floor, checks, head, page, losses, restarts, known>>

\* The job's own thread: it imports, rebuilds and probes, or stages and hands
\* over; an error ends it as well.
Ends(k) ==
    /\ Running(k)
    /\ \E s \in JobState \ {"running"} :
         (k = "update" => s # "empty") /\ job' = [job EXCEPT ![k].state = s]
    /\ UNCHANGED <<cache, floor, checks, head, page, bounds, known, trouble>>

\* GET /api/admin/import/status and /update/status.
Status(k, i) ==
    /\ i \in DOMAIN polls[k] /\ polls[k][i].at = "sent"
    /\ polls' = [polls EXCEPT ![k][i].at = "answer", ![k][i].job = job[k]]
    /\ UNCHANGED <<server, run, timer, last, post, bounds, known, trouble>>

-----------------------------------------------------------------------------
(***************************************************************************)
(* The answers.                                                            *)
(***************************************************************************)
\* Bug: a refusal is not shown.
PostedUnseen(k) ==
    /\ post[k] # None /\ post[k].at = "answer"
    /\ post' = [post EXCEPT ![k] = None]
    /\ timer' = [timer EXCEPT ![k] = @ \/ post[k].status = 202]
    /\ UNCHANGED <<server, run, last, polls, bounds, known, trouble>>

Posted(k) ==
    /\ post[k] # None /\ post[k].at = "answer"
    /\ post' = [post EXCEPT ![k] = None]
    /\ \/ /\ post[k].status = 409
          /\ run' = [run EXCEPT ![k] = None]
          /\ UNCHANGED <<timer, last>>
       \/ /\ post[k].status = 400
          /\ run' = [run EXCEPT ![k] = IF @ = None THEN None ELSE [@ EXCEPT !.state = "failed"]]
          /\ UNCHANGED <<timer, last>>
       \/ /\ post[k].status = 202
          /\ timer' = [timer EXCEPT ![k] = TRUE]
          /\ last' = IF k = "import" THEN post[k].onion ELSE last
          /\ UNCHANGED run
    /\ UNCHANGED <<server, polls, bounds, known, trouble>>

\* The connection drops, or the proxy answers that the backend is away, before
\* the request is executed or after: it is sent again, or given up.
PostLost(k) ==
    /\ post[k] # None /\ post[k].at # "body" /\ losses < MaxLosses
    /\ losses' = losses + 1
    /\ IF post[k].tries > 1
         THEN post' = [post EXCEPT ![k].at = "sent", ![k].tries = @ - 1] /\ UNCHANGED run
         ELSE /\ post' = [post EXCEPT ![k] = None]
              /\ run' = [run EXCEPT ![k] = IF @ = None THEN None ELSE [@ EXCEPT !.state = "failed"]]
    /\ UNCHANGED <<server, timer, last, polls, clicks, restarts, known, trouble>>

\* The interval fires, whether or not the last poll was answered.
Poll(k) ==
    /\ timer[k] /\ Len(polls[k]) < MaxPolls
    /\ polls' = [polls EXCEPT ![k] = Append(@, [at |-> "sent", job |-> None, old |-> FALSE])]
    /\ UNCHANGED <<server, run, timer, last, post, bounds, known, trouble>>

PollLost(k, i) ==
    /\ i \in DOMAIN polls[k] /\ losses < MaxLosses
    /\ losses' = losses + 1
    /\ polls' = [polls EXCEPT ![k] = RemoveAt(@, i)]
    /\ UNCHANGED <<server, run, timer, last, post, clicks, restarts, known, trouble>>

Over(j) == j.state \in {"failed", "empty", "ready"}

\* pollImport.
ImportPolled(i) ==
    LET k == "import"  a == polls[k][i] IN
    /\ i \in DOMAIN polls[k] /\ a.at = "answer"
    /\ polls' = [polls EXCEPT ![k] = RemoveAt(@, i)]
    /\ IF a.job = None THEN UNCHANGED <<run, timer, trouble>>
       ELSE /\ run' = [run EXCEPT ![k] = a.job]
            /\ timer' = [timer EXCEPT ![k] = @ /\ ~Over(a.job)]
            /\ trouble' = (trouble \/ a.old \/ ~timer[k])
    /\ UNCHANGED <<server, last, post, bounds, known>>

\* pollUpdate: after needsRefresh the next answer, whatever it says, reloads the
\* page, and everything in it begins again.
UpdatePolled(i) ==
    LET k == "update"  a == polls[k][i] IN
    /\ i \in DOMAIN polls[k] /\ a.at = "answer"
    /\ IF run[k] # None /\ run[k].state = "ready"
         THEN Opened(run', timer', last', post', polls') /\ UNCHANGED trouble
         ELSE /\ polls' = [polls EXCEPT ![k] = RemoveAt(@, i)]
              /\ IF a.job = None THEN UNCHANGED <<run, timer, trouble>>
                 ELSE /\ run' = [run EXCEPT ![k] = a.job]
                      /\ timer' = [timer EXCEPT ![k] = @ /\ a.job.state # "failed"]
                      /\ trouble' = (trouble \/ a.old \/ ~timer[k])
              /\ UNCHANGED <<last, post>>
    /\ UNCHANGED <<server, bounds, known>>

-----------------------------------------------------------------------------
(***************************************************************************)
(* The update check.                                                       *)
(***************************************************************************)
\* updateCacheDecision: what is cached is served, unless the check is forced and
\* the floor is over.
ServesCached(forced) == cache # None /\ (forced => floor)

\* GET /api/admin/updates, when it goes out.
Check(forced) ==
    /\ ~ServesCached(forced) /\ Len(checks) < MaxChecks
    /\ checks' = Append(checks, None)
    /\ floor' = (floor \/ forced)
    /\ UNCHANGED <<job, cache, head, page, bounds, known, trouble>>

\* checkUpdates: the comparison with main, then the releases and the tags.
Compare(i) ==
    /\ i \in DOMAIN checks /\ checks[i] = None
    /\ checks' = [checks EXCEPT ![i] = head]
    /\ UNCHANGED <<job, cache, floor, head, page, bounds, known, trouble>>

Checked(i) ==
    /\ i \in DOMAIN checks /\ checks[i] # None
    /\ cache' = checks[i]
    /\ checks' = RemoveAt(checks, i)
    /\ UNCHANGED <<job, floor, head, page, bounds, known, trouble>>

\* GitHub refuses, or the answer makes no sense: nothing is cached.
CheckFails(i) ==
    /\ i \in DOMAIN checks
    /\ checks' = RemoveAt(checks, i)
    /\ UNCHANGED <<job, cache, floor, head, page, bounds, known, trouble>>

\* The wallet's callback discards the cached answer, and leaves checks under way.
SignIn ==
    /\ cache' = None /\ known' = head
    /\ UNCHANGED <<job, floor, checks, head, page, bounds, trouble>>

\* Six hours, and a minute.
CacheExpires ==
    /\ cache # None /\ cache' = None
    /\ UNCHANGED <<job, floor, checks, head, page, bounds, known, trouble>>

FloorEnds ==
    /\ floor /\ floor' = FALSE
    /\ UNCHANGED <<job, cache, checks, head, page, bounds, known, trouble>>

Push ==
    /\ head < MaxPushes /\ head' = head + 1
    /\ UNCHANGED <<job, cache, floor, checks, page, bounds, known, trouble>>

-----------------------------------------------------------------------------
\* The update's helper restarts the backend, or something else does. Requests
\* that were being handled are sent again by the pages.
Restart ==
    /\ restarts < MaxRestarts /\ restarts' = restarts + 1
    /\ job' = Blank /\ cache' = None /\ floor' = FALSE /\ checks' = <<>>
    /\ post' = [k \in Kinds |->
          IF post[k] # None /\ post[k].at = "body"
            THEN [post[k] EXCEPT !.at = "sent"] ELSE post[k]]
    /\ trouble' = (trouble \/ \E k \in Kinds :
          Follows(k) /\ (run[k] = None \/ run[k].state \in {"asked", "running"}))
    /\ UNCHANGED <<head, run, timer, last, polls, clicks, losses, known>>

ConsoleNext ==
    \/ StartUpdate \/ ApplyImport \/ Refuse
    \/ \E onion \in Onions : PlanImport(onion)
    \/ \E i \in 1..MaxPolls : ImportPolled(i) \/ UpdatePolled(i)
    \/ \E k \in Kinds :
         \/ Dismiss(k) \/ Arrive(k) \/ Accept(k) \/ Ends(k)
         \/ Posted(k) \/ PostLost(k) \/ Poll(k)
         \/ \E i \in 1..MaxPolls : Status(k, i) \/ PollLost(k, i)
         \/ \E onion \in Onions \cup {None}, apply \in BOOLEAN : Elsewhere(k, onion, apply)
    \/ \E forced \in BOOLEAN : Check(forced)
    \/ \E i \in 1..MaxChecks : Compare(i) \/ Checked(i) \/ CheckFails(i)
    \/ SignIn \/ CacheExpires \/ FloorEnds \/ Push \/ Restart

\* Intervals fire, requests are handled and answered, and jobs end: every wait
\* in them has a time limit. Nothing is assumed of people.
Fairness ==
    /\ \A k \in Kinds :
         /\ WF_console(Arrive(k)) /\ WF_console(Accept(k))
         /\ WF_console(Posted(k)) /\ WF_console(Ends(k)) /\ WF_console(Poll(k))
         /\ WF_console(\E i \in 1..MaxPolls : Status(k, i))
    /\ WF_console(\E i \in 1..MaxPolls : ImportPolled(i))
    /\ WF_console(\E i \in 1..MaxPolls : UpdatePolled(i))

ConsoleSpec == ConsoleInit /\ [][ConsoleNext]_console /\ Fairness

-----------------------------------------------------------------------------
(***************************************************************************)
(* Signing in is "the moment to stop answering from a six-hour-old cache", *)
(* so that who pushed a commit before it is not "told they are up to date" *)
(* (the comment in the callback of index.ts): what is cached compares with *)
(* main as it was at the sign-in, or later.                                *)
(***************************************************************************)
AnswersSinceSignIn == cache # None => cache >= known

(***************************************************************************)
(* What is imported is what the screen shows a plan of, through lost       *)
(* requests, repeated ones and refusals, as long as nobody else starts     *)
(* an import meanwhile and no answer is overtaken. (The details of the     *)
(* button are those the page started its last job with; the plan is        *)
(* whatever the backend's one slot held when it was asked.)                *)
(***************************************************************************)
ApplyMatchesPlan ==
    [][~trouble /\ clicks' > clicks
          /\ post'["import"] # post["import"] /\ post'["import"].apply
          => /\ run["import"].onion = post'["import"].onion
             /\ run["import"].state = "ready"]_console

(***************************************************************************)
(* A panel that says a job is running comes to an end: it shows the result,*)
(* goes away or the page reloads, as long as no answer is overtaken and    *)
(* the backend is not restarted before the page has seen the result.       *)
(***************************************************************************)
Waiting(k) == run[k] # None /\ run[k].state \in {"asked", "running"}

PanelSettles ==
    \A k \in Kinds : Waiting(k) ~> (~Waiting(k) \/ trouble)
=============================================================================
