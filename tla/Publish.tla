------------------------------ MODULE Publish -------------------------------
(***************************************************************************)
(* From the store to the public files: rebuild() of server/build-public.ts *)
(* run by the backend after each moderation, and the update cycle of       *)
(* scripts/update.mjs, a process of its own that opens with the same       *)
(* rebuild, probes every listed node over Tor for minutes, and writes back *)
(* the list and the history it read before probing. There is no lock: each *)
(* file is replaced by an atomic rename, and the steps of the two          *)
(* processes interleave between any read and the write it leads to.        *)
(*                                                                         *)
(* dojos.json is the set of ids it lists with the two fields a reader of   *)
(* the page relies on to judge its age; the status of each node is left    *)
(* out, and so are history-daily.json, kept by the rules of history.json,  *)
(* the seed anchor and the badges. A retirement stamp is kept as an age    *)
(* that stops growing when the grace period is over.                       *)
(***************************************************************************)
EXTENDS Integers, FiniteSets

CONSTANTS
    Nodes,     \* the submissions followed; the directory holds others
    Backends,  \* bound: backend requests rebuilding at once
    Updater,   \* the update cycle's own rebuild
    Grace,     \* HISTORY_GRACE_DAYS, in ticks
    MaxFails,  \* bound: cycles that are killed or whose rebuild is skipped
    NoEntry    \* no record in the store, no entry in the history

ASSUME PublishAssumption ==
    Grace \in Nat /\ MaxFails \in Nat /\ Updater \notin Backends

Writers == Backends \cup {Updater}
Listed  == -1    \* no retirement stamp

VARIABLES
    sub,    \* the moderation state of each submission in the store
    out,    \* dojos.json: the ids it lists
    stamp,  \* dojos.json: who set generated_at, a probe cycle or a rebuild
    fault,  \* dojos.json: it carries probe_fault
    hist,   \* history.json
    pend,   \* pending-probe.json: the submissions it has checks of
    rb,     \* where each rebuild is, and what it has read
    cyc,    \* where the update cycle is, and what it has read
    fails,  \* cycles killed, or begun without their rebuild
    earned  \* history: whether an id never approved before was probed while it
            \* was pending, and its history is due to begin with those checks

vars  == <<sub, out, stamp, fault, hist, pend, rb, cyc, fails, earned>>
Files == <<out, stamp, fault, hist, pend>>

Entry   == [seeded: BOOLEAN, retired: Listed..Grace]
HistMap == [Nodes -> Entry \cup {NoEntry}]
Approved == {n \in Nodes : sub[n] = "approved"}
Pending  == {n \in Nodes : sub[n] = "pending"}
Idle     == [at |-> "idle"]

TypeOK ==
    /\ sub \in [Nodes -> {"pending", "approved", "rejected", NoEntry}]
    /\ out \subseteq Nodes
    /\ stamp \in {"cycle", "rebuild"} /\ fault \in BOOLEAN
    /\ hist \in HistMap
    /\ pend \subseteq Nodes
    /\ rb \in [Writers ->
          {Idle} \cup [at: {"list"}]
            \cup [at: {"pending"}, app: SUBSET Nodes]
            \cup [at: {"publish", "history"}, app: SUBSET Nodes, seeds: SUBSET Nodes]
            \cup [at: {"save"}, hist: HistMap]]
    /\ fails \in 0..MaxFails
    /\ earned \in [Nodes -> {"nothing", "probed", "due", "old"}]

-----------------------------------------------------------------------------

Init ==
    /\ sub = [n \in Nodes |-> NoEntry]
    /\ out = {} /\ stamp = "rebuild" /\ fault = FALSE
    /\ hist = [n \in Nodes |-> NoEntry]
    /\ pend = {}
    /\ rb = [w \in Writers |-> Idle]
    /\ cyc = Idle
    /\ fails = 0
    /\ earned = [n \in Nodes |-> "nothing"]

(***************************************************************************)
(* The moderation requests. Approving, rejecting and removing rebuild the  *)
(* list; a submission, and an operator deleting a record, do not.          *)
(***************************************************************************)
Forfeit(e) == IF e \in {"due", "old"} THEN "old" ELSE "nothing"

SubmitNode(n) ==
    /\ sub' = [sub EXCEPT ![n] = "pending"]
    /\ earned' = [earned EXCEPT ![n] = Forfeit(@)]
    /\ UNCHANGED <<Files, rb, cyc, fails>>

DeleteNode(n) ==
    /\ sub[n] # NoEntry
    /\ sub' = [sub EXCEPT ![n] = NoEntry]
    /\ earned' = [earned EXCEPT ![n] = Forfeit(@)]
    /\ UNCHANGED <<Files, rb, cyc, fails>>

\* A decision of an admin: approved, rejected, or NoEntry when removed.
Moderate(b, n, s) ==
    /\ rb[b] = Idle /\ sub[n] # NoEntry
    /\ sub' = [sub EXCEPT ![n] = s]
    /\ rb' = [rb EXCEPT ![b] = [at |-> "list"]]
    /\ earned' = [earned EXCEPT ![n] =
                    IF s # "approved" THEN Forfeit(@)
                    ELSE IF @ = "probed" THEN "due"
                    ELSE IF @ = "nothing" THEN "old" ELSE @]
    /\ UNCHANGED <<Files, cyc, fails>>

\* The same requests on a submission that is not followed.
ModerateOther(b) ==
    /\ rb[b] = Idle
    /\ rb' = [rb EXCEPT ![b] = [at |-> "list"]]
    /\ UNCHANGED <<sub, Files, cyc, fails, earned>>

-----------------------------------------------------------------------------
(***************************************************************************)
(* rebuild(): one action per wait between a read and the write it feeds.   *)
(***************************************************************************)
\* Bug: the approved submissions are added to what was published before.
ListMerged(w) ==
    /\ rb[w].at = "list"
    /\ rb' = [rb EXCEPT ![w] = [at |-> "pending", app |-> Approved \cup out]]
    /\ cyc' = IF w = Updater THEN [cyc EXCEPT !.waiting = Pending] ELSE cyc
    /\ UNCHANGED <<sub, Files, fails, earned>>

ListApproved(w) ==
    /\ rb[w].at = "list"
    /\ rb' = [rb EXCEPT ![w] = [at |-> "pending", app |-> Approved]]
    /\ cyc' = IF w = Updater THEN [cyc EXCEPT !.waiting = Pending] ELSE cyc
    /\ UNCHANGED <<sub, Files, fails, earned>>

ReadPending(w) ==
    /\ rb[w].at = "pending"
    /\ rb' = [rb EXCEPT ![w] = [at |-> "publish", app |-> rb[w].app, seeds |-> pend]]
    /\ UNCHANGED <<sub, Files, cyc, fails, earned>>

\* A new list, stamped with the time of the rebuild and without probe_fault.
PublishList(w) ==
    /\ rb[w].at = "publish"
    /\ out' = rb[w].app /\ stamp' = "rebuild" /\ fault' = FALSE
    /\ rb' = [rb EXCEPT ![w].at = "history"]
    /\ UNCHANGED <<sub, hist, pend, cyc, fails, earned>>

\* retireUnlisted.
Retire(h, listed) ==
    [n \in Nodes |->
        IF h[n] = NoEntry THEN NoEntry
        ELSE IF n \in listed THEN [h[n] EXCEPT !.retired = Listed]
        ELSE IF h[n].retired = Listed THEN [h[n] EXCEPT !.retired = 0]
        ELSE IF h[n].retired = Grace THEN NoEntry
        ELSE h[n]]

\* Every listed id has an entry, a new one begun with the given checks.
WithEntries(h, listed, seeds) ==
    [n \in Nodes |-> IF h[n] = NoEntry /\ n \in listed
                     THEN [seeded |-> n \in seeds, retired |-> Listed] ELSE h[n]]

ReadHistory(w) ==
    /\ rb[w].at = "history"
    /\ rb' = [rb EXCEPT ![w] =
                LET new == Retire(WithEntries(hist, rb[w].app, rb[w].seeds), rb[w].app)
                IN  IF new = hist THEN Idle ELSE [at |-> "save", hist |-> new]]
    /\ UNCHANGED <<sub, Files, cyc, fails, earned>>

SaveHistory(w) ==
    /\ rb[w].at = "save"
    /\ hist' = rb[w].hist
    /\ rb' = [rb EXCEPT ![w] = Idle]
    /\ UNCHANGED <<sub, out, stamp, fault, pend, cyc, fails, earned>>

\* A request's rebuild fails part way, or the backend is restarted.
RebuildFails(b) ==
    /\ rb[b] # Idle
    /\ rb' = [rb EXCEPT ![b] = Idle]
    /\ UNCHANGED <<sub, Files, cyc, fails, earned>>

RebuildStep(w) ==
    \/ ListApproved(w) \/ ReadPending(w) \/ PublishList(w)
    \/ ReadHistory(w) \/ SaveHistory(w)

-----------------------------------------------------------------------------
(***************************************************************************)
(* The update cycle. "waiting" is its view of the pending submissions: the *)
(* store is loaded once, when the opening rebuild lists it, or at the end  *)
(* of the cycle when that rebuild was skipped ("unread").                  *)
(***************************************************************************)
\* Bug: the cycle takes the list as it finds it, without reconciling first.
StartUnreconciled ==
    /\ cyc = Idle
    /\ cyc' = [at |-> "opening", waiting |-> {"unread"}]
    /\ UNCHANGED <<sub, Files, rb, fails, earned>>

Start ==
    /\ cyc = Idle
    /\ cyc' = [at |-> "opening", waiting |-> {"unread"}]
    /\ rb' = [rb EXCEPT ![Updater] = [at |-> "list"]]
    /\ UNCHANGED <<sub, Files, fails, earned>>

\* The opening rebuild could not read the seed file and was skipped.
SkipRebuild ==
    /\ rb[Updater].at = "list" /\ fails < MaxFails
    /\ rb' = [rb EXCEPT ![Updater] = Idle]
    /\ fails' = fails + 1
    /\ UNCHANGED <<sub, Files, cyc, earned>>

ReadList ==
    /\ cyc.at = "opening" /\ rb[Updater] = Idle
    /\ cyc' = [at |-> "listed", waiting |-> cyc.waiting, list |-> out]
    /\ UNCHANGED <<sub, Files, rb, fails, earned>>

\* A node the list names and the history does not know yet has its entry
\* begun by this cycle: what was earned while pending is given up.
ReadBase ==
    /\ cyc.at = "listed"
    /\ cyc' = [at |-> "probing", waiting |-> cyc.waiting, list |-> cyc.list, base |-> hist]
    /\ earned' = [n \in Nodes |-> IF n \in cyc.list /\ hist[n] = NoEntry THEN "old"
                                  ELSE earned[n]]
    /\ UNCHANGED <<sub, Files, rb, fails>>

\* Some node answered.
Learned ==
    /\ cyc.at = "probing"
    /\ out' = cyc.list /\ stamp' = "cycle" /\ fault' = FALSE
    /\ cyc' = [cyc EXCEPT !.at = "written"]
    /\ UNCHANGED <<sub, hist, pend, rb, fails, earned>>

\* Not one node answered: the fault is this machine's own, and only the fault
\* is recorded, in the list as it is now.
AllFailed ==
    /\ cyc.at = "probing"
    /\ cyc' = [at |-> "fault", list |-> out, stamp |-> stamp]
    /\ UNCHANGED <<sub, Files, rb, fails, earned>>

RecordFault ==
    /\ cyc.at = "fault"
    /\ out' = cyc.list /\ stamp' = cyc.stamp /\ fault' = TRUE
    /\ cyc' = Idle
    /\ UNCHANGED <<sub, hist, pend, rb, fails, earned>>

WriteHistory ==
    /\ cyc.at = "written"
    /\ hist' = Retire(WithEntries(cyc.base, cyc.list, {}), cyc.list)
    /\ cyc' = [at |-> "pending",
               waiting |-> IF cyc.waiting = {"unread"} THEN Pending ELSE cyc.waiting]
    /\ UNCHANGED <<sub, out, stamp, fault, pend, rb, fails, earned>>

\* Bug: the store is asked again which submissions are pending.
ProbePendingAfresh ==
    /\ cyc.at = "pending"
    /\ cyc' = Idle
    /\ pend' \in {Pending} \cup (IF Pending = {} THEN {pend} ELSE {})
    /\ earned' = [n \in Nodes |-> IF n \in Pending /\ earned[n] # "old"
                                  THEN "probed" ELSE earned[n]]
    /\ UNCHANGED <<sub, out, stamp, fault, hist, rb, fails>>

\* The pending submissions are probed and their file is replaced, unless not
\* one is waiting.
ProbePending ==
    /\ cyc.at = "pending"
    /\ cyc' = Idle
    /\ pend' \in {cyc.waiting} \cup (IF cyc.waiting = {} THEN {pend} ELSE {})
    /\ earned' = [n \in Nodes |-> IF n \in cyc.waiting /\ sub[n] = "pending" /\ earned[n] # "old"
                                  THEN "probed" ELSE earned[n]]
    /\ UNCHANGED <<sub, out, stamp, fault, hist, rb, fails>>

\* The cycle is killed (a restart, the time limit of an import's probe).
KillCycle ==
    /\ cyc # Idle /\ fails < MaxFails
    /\ cyc' = Idle /\ fails' = fails + 1
    /\ rb' = [rb EXCEPT ![Updater] = Idle]
    /\ UNCHANGED <<sub, Files, earned>>

\* Time passes for every copy of the history.
Older(h) ==
    [n \in Nodes |-> IF h[n] # NoEntry /\ h[n].retired \in 0..Grace-1
                     THEN [h[n] EXCEPT !.retired = @ + 1] ELSE h[n]]

Tick ==
    /\ hist' = Older(hist)
    /\ cyc' = IF "base" \in DOMAIN cyc THEN [cyc EXCEPT !.base = Older(@)] ELSE cyc
    /\ rb' = [w \in Writers |-> IF rb[w].at = "save" THEN [rb[w] EXCEPT !.hist = Older(@)]
                                ELSE rb[w]]
    /\ UNCHANGED <<sub, out, stamp, fault, pend, fails, earned>>

CycleStep ==
    \/ Start \/ ReadList \/ ReadBase \/ Learned \/ AllFailed \/ RecordFault
    \/ WriteHistory \/ ProbePending

Next ==
    \/ \E n \in Nodes :
         \/ SubmitNode(n) \/ DeleteNode(n)
         \/ \E b \in Backends, s \in {"approved", "rejected", NoEntry} : Moderate(b, n, s)
    \/ \E w \in Writers : RebuildStep(w)
    \/ \E b \in Backends : ModerateOther(b) \/ RebuildFails(b)
    \/ CycleStep \/ SkipRebuild \/ KillCycle \/ Tick

Spec == Init /\ [][Next]_vars

(***************************************************************************)
(* The timer of the update unit starts a cycle ten minutes after the last  *)
(* one ended, for ever; a cycle that is not killed takes its steps, as     *)
(* every wait in it has a time limit. Nothing is assumed of the requests.  *)
(***************************************************************************)
FairSpec == Spec /\ WF_vars(CycleStep) /\ WF_vars(RebuildStep(Updater))

-----------------------------------------------------------------------------
(***************************************************************************)
(* A submission that stays approved is listed from some cycle on, whatever *)
(* the approval's own rebuild met: reconciling first makes a write that a  *)
(* running cycle undid good (the comment at the head of main in            *)
(* update.mjs).                                                            *)
(***************************************************************************)
ApprovedGetsListed ==
    \A n \in Nodes : <>[](sub[n] = "approved") => <>[](n \in out)

(***************************************************************************)
(* A submission that is approved no more, deleted ones included, is taken  *)
(* off the list and stays off: no rebuild or cycle that read an older list *)
(* brings it back for good.                                                *)
(***************************************************************************)
UnapprovedGetsDropped ==
    \A n \in Nodes : <>[](sub[n] # "approved") => <>[](n \notin out)

(***************************************************************************)
(* The list follows the verdict: what stays approved is on it for good     *)
(* from some cycle on, and what stays unapproved is off it.                *)
(***************************************************************************)
ListFollowsVerdict == ApprovedGetsListed /\ UnapprovedGetsDropped

(***************************************************************************)
(* The checks made of a submission while it was pending become the start   *)
(* of its history, although a cycle that was probing when it was approved  *)
(* writes back a history without it: pending-probe.json still has them,    *)
(* for the cycle works from the pending list of its own beginning.         *)
(***************************************************************************)
ChecksSeedHistory ==
    \A n \in Nodes :
        <>[](fails = 0 /\ sub[n] = "approved" /\ earned[n] = "due")
            => <>[](hist[n] # NoEntry /\ hist[n].seeded)

(***************************************************************************)
(* The comment over the fault branch of update.mjs: generated_at is not    *)
(* advanced, so the staleness banner keeps measuring the age of real data. *)
(* Once a cycle has measured the nodes, a list that carries probe_fault is *)
(* dated by a cycle that measured them.                                    *)
(***************************************************************************)
StalenessHonest == [](stamp = "cycle" => [](fault => stamp = "cycle"))
=============================================================================
