--------------------------------- MODULE Page ---------------------------------
(***************************************************************************)
(* The page of a visitor (assets/js/app.js) and the service worker under   *)
(* it (sw.js): the list that is refetched and redrawn, the one dialog that *)
(* all popups share, and the panel in which an operator signs in and looks *)
(* after listings and a domain.                                            *)
(*                                                                         *)
(* Every function of the page that awaits is a task: it asks for something *)
(* ("asked"), the answer is made ("answered") and, whenever it arrives, the*)
(* function goes on with whatever the page has become. Answers of two      *)
(* tasks may overtake each other. render() builds the whole document       *)
(* anew, the dialog included: a task that remembered the old dialog's body *)
(* writes into nothing. What the answers mean to the backend is Login.tla, *)
(* Domains.tla and Moderation.tla; what the list is made of, Publish.tla.  *)
(***************************************************************************)
EXTENDS Naturals, FiniteSets

CONSTANTS
    Tasks,       \* tasks at work at once
    Codes,       \* payment codes that sign in
    Nonces,      \* challenges
    MaxLists,    \* bound: lists published
    MaxClicks,   \* bound: what the visitor does
    MaxOutages,  \* bound: times the instance cannot be reached, or answers with an error
    MaxSwitches, \* bound: times another tab signs in or out
    None,
    Error, Waiting \* an answer: none came, none is there yet

ASSUME PageAssumption ==
    /\ MaxLists \in Nat \ {0} /\ {MaxClicks, MaxOutages, MaxSwitches} \subseteq Nat
    /\ {None, Error, Waiting} \cap (Codes \cup Nonces \cup 1..MaxLists) = {}
    /\ None # Error /\ Waiting \notin {None, Error}

VARIABLES
    published, \* the list the instance serves: 1, 2, ...
    aged,      \* lists up to this one are older than three intervals
    reach,     \* whether requests reach the instance
    worker,    \* whether a service worker stands between
    kept,      \* what the worker has kept of the list, of /api/me and of /api/domain
    session,   \* the code that the browser's cookie stands for
    claimed,   \* of each challenge: None, "open", the code that answered it, "spent"
    dojos, backend, footer, \* DOJOS; BACKEND; which of VERSION and OPERATOR are there
    drawn,     \* the document: what of these it was built with
    visible, timer, pending, \* the tab; REFRESH_TIMER; PENDING_RENDER
    shown, body, \* the dialog: whether it is open, and what is written in it
    me, domain, \* ME and DOMAIN
    polling, last, \* the challenges whose intervals run, and the one of pollTimer
    task,
    clicks, outages, switches,
    mixed      \* history: an answer came from another session than the cookie's or
               \* the page's, or a sign-in was over before an earlier sign-out

instance == <<published, aged, reach, worker>>
screen   == <<dojos, backend, footer, drawn, visible, timer, pending>>
panel    == <<me, domain, polling, last>>
bounds   == <<clicks, outages, switches>>
vars == <<instance, kept, session, claimed, screen, shown, body, panel, task, bounds, mixed>>

Lists    == 1..MaxLists
Footers  == {"version", "operator"}
\* DOMAIN: not asked for, nothing known, or what the backend has of a code.
Domains  == {"unknown", "nothing"} \cup Codes
Bodies   == [is: {"empty", "text", "loading", "login"}]
              \cup [is: {"challenge"}, nonce: Nonces]
              \cup [is: {"panel"}, me: Codes, domain: Domains]
Idle     == [do |-> "idle", in |-> FALSE, nonce |-> None, got |-> Waiting]

Free(t)    == task[t] = Idle
Landing(t) == ~Free(t) /\ task[t].got # Waiting
\* A task that has just asked; in is whether it remembers the body of the dialog.
Asked(do, in, nonce) == [do |-> do, in |-> in, nonce |-> nonce, got |-> Waiting]
Asks(t, do) == task' = [task EXCEPT ![t] = Asked(do, FALSE, None)]

-----------------------------------------------------------------------------
(***************************************************************************)
(* render and the dialog.                                                  *)
(***************************************************************************)
\* freshness(DOJOS), at the time of drawing.
Drawing(d, b, f) == [dojos |-> d, stale |-> d # None /\ d <= aged, backend |-> b, footer |-> f]

Forgetting(tasks) == [t \in Tasks |-> [tasks[t] EXCEPT !.in = FALSE]]

\* render(), where the rest of the step leaves these tasks.
Render(d, b, f, tasks) ==
    /\ drawn' = Drawing(d, b, f)
    /\ shown' = FALSE /\ body' = [is |-> "empty"]
    /\ task' = Forgetting(tasks)

NotDrawn(tasks) == drawn' = drawn /\ UNCHANGED <<shown, body>> /\ task' = tasks

\* if(DOJOS) render().
RenderIfLoaded(b, f, tasks) ==
    IF dojos # None THEN Render(dojos, b, f, tasks) ELSE NotDrawn(tasks)

Click == clicks < MaxClicks /\ clicks' = clicks + 1

CloseModal ==
    /\ shown /\ Click
    /\ IF pending THEN Render(dojos, backend, footer, task)
                  ELSE shown' = FALSE /\ UNCHANGED <<drawn, body, task>>
    /\ pending' = FALSE
    /\ UNCHANGED <<instance, kept, session, claimed, dojos, backend, footer, visible, timer,
                   panel, outages, switches, mixed>>

\* The network switch and the menu.
Toggle ==
    /\ ~shown /\ dojos # None /\ Click
    /\ Render(dojos, backend, footer, task)
    /\ UNCHANGED <<instance, kept, session, claimed, dojos, backend, footer, visible, timer,
                   pending, panel, outages, switches, mixed>>

\* Pairing details, the checks and a text that was read before are written at
\* once; a text ("text") or the operator's signature ("verify") is first asked
\* for.
OpenText(t) ==
    /\ ~shown /\ drawn.dojos # None /\ Click
    /\ shown' = TRUE
    /\ \/ body' = [is |-> "text"] /\ UNCHANGED task
       \/ /\ Free(t) /\ body' = [is |-> "loading"]
          /\ \E do \in {"text", "verify"} : task' = [task EXCEPT ![t] = Asked(do, TRUE, None)]
    /\ UNCHANGED <<instance, kept, session, claimed, screen, panel, outages, switches, mixed>>

-----------------------------------------------------------------------------
(***************************************************************************)
(* The list: boot, interval, return of a hidden tab.                       *)
(***************************************************************************)
RefreshData(t) ==
    /\ Free(t) /\ visible'
    /\ Asks(t, "refresh")

\* The interval of scheduleRefresh.
Interval(t) ==
    /\ timer /\ visible /\ UNCHANGED visible
    /\ RefreshData(t)
    /\ UNCHANGED <<instance, kept, session, claimed, dojos, backend, footer, drawn, timer,
                   pending, shown, body, panel, bounds, mixed>>

Hide ==
    /\ visible /\ Click /\ visible' = FALSE
    /\ UNCHANGED <<instance, kept, session, claimed, dojos, backend, footer, drawn, timer,
                   pending, shown, body, panel, task, outages, switches, mixed>>

Return(t) ==
    /\ ~visible /\ visible' = TRUE
    /\ RefreshData(t)
    /\ UNCHANGED <<instance, kept, session, claimed, dojos, backend, footer, drawn, timer,
                   pending, shown, body, panel, bounds, mixed>>

\* The first load, after which version and operator are asked for; without it
\* nothing is scheduled.
LandBoot(t) ==
    /\ Landing(t) /\ task[t].do = "boot"
    /\ IF task[t].got = Error
         THEN /\ NotDrawn([task EXCEPT ![t] = Idle])
              /\ UNCHANGED <<dojos, timer>>
         ELSE /\ dojos' = task[t].got /\ timer' = TRUE
              /\ Render(dojos', backend, footer,
                        [task EXCEPT ![t] = Asked("both", FALSE, None)])
    /\ UNCHANGED <<instance, kept, session, claimed, backend, footer, visible, pending,
                   panel, bounds, mixed>>

\* Bug: a list of the same date is not worth a redraw.
LandRefreshNews(t) ==
    /\ Landing(t) /\ task[t].do = "refresh"
    /\ IF task[t].got \in {Error, dojos}
         THEN NotDrawn([task EXCEPT ![t] = Idle]) /\ UNCHANGED <<dojos, pending>>
         ELSE /\ dojos' = task[t].got
              /\ IF shown THEN NotDrawn([task EXCEPT ![t] = Idle]) /\ pending' = TRUE
                 ELSE Render(dojos', backend, footer, [task EXCEPT ![t] = Idle])
                      /\ UNCHANGED pending
    /\ UNCHANGED <<instance, kept, session, claimed, backend, footer, visible, timer,
                   panel, bounds, mixed>>

\* A failed refresh keeps the last list, and what is drawn. Under a dialog the
\* list is taken and the redraw waits.
LandRefresh(t) ==
    /\ Landing(t) /\ task[t].do = "refresh"
    /\ IF task[t].got = Error
         THEN NotDrawn([task EXCEPT ![t] = Idle]) /\ UNCHANGED <<dojos, pending>>
         ELSE /\ dojos' = task[t].got
              /\ IF shown THEN NotDrawn([task EXCEPT ![t] = Idle]) /\ pending' = TRUE
                 ELSE Render(dojos', backend, footer, [task EXCEPT ![t] = Idle])
                      /\ UNCHANGED pending
    /\ UNCHANGED <<instance, kept, session, claimed, backend, footer, visible, timer,
                   panel, bounds, mixed>>

\* loadVersion and loadOperator, in either order: a file that is not there
\* shows nothing.
LandFooter(t) ==
    /\ Landing(t) /\ task[t].do \in {"both"} \cup Footers
    /\ \E it \in Footers \cap (IF task[t].do = "both" THEN Footers ELSE {task[t].do}) :
         LET rest  == {x \in Footers : task[t].do = "both" /\ x # it}
             tasks == [task EXCEPT ![t] = IF rest = {} THEN Idle
                                          ELSE Asked(CHOOSE x \in rest : TRUE, FALSE, None)]
         IN  IF task[t].got = Error
               THEN NotDrawn(tasks) /\ UNCHANGED footer
               ELSE footer' = footer \cup {it} /\ RenderIfLoaded(backend, footer', tasks)
    /\ UNCHANGED <<instance, kept, session, claimed, dojos, backend, visible, timer, pending,
                   panel, bounds, mixed>>

\* detectBackend: the Manage button appears once a backend answers.
LandBackend(t) ==
    /\ Landing(t) /\ task[t].do = "backend"
    /\ IF task[t].got = Error
         THEN NotDrawn([task EXCEPT ![t] = Idle]) /\ UNCHANGED <<backend, me>>
         ELSE /\ me' = task[t].got /\ backend' = TRUE
              /\ RenderIfLoaded(TRUE, footer, [task EXCEPT ![t] = Idle])
    /\ mixed' = (mixed \/ task[t].got \notin {Error, session})
    /\ UNCHANGED <<instance, kept, session, claimed, dojos, footer, visible, timer, pending,
                   domain, polling, last, bounds>>

\* A text lands in the body it was asked for, whatever is written there by now.
LandText(t) ==
    /\ Landing(t) /\ task[t].do \in {"text", "verify"}
    /\ body' = IF task[t].in THEN [is |-> "text"] ELSE body
    /\ footer' = IF task[t].do = "verify" /\ task[t].got # Error
                   THEN footer \cup {"operator"} ELSE footer
    /\ task' = [task EXCEPT ![t] = Idle]
    /\ UNCHANGED <<instance, kept, session, claimed, dojos, backend, drawn, visible, timer,
                   pending, shown, panel, bounds, mixed>>

-----------------------------------------------------------------------------
(***************************************************************************)
(* Manage my Dojo.                                                         *)
(***************************************************************************)
\* renderManage by task t, when it has m for ME and d for DOMAIN: it ends with
\* the panel, goes on to ask for the domain, or starts a sign-in.
RenderManage(t, m, d) ==
    /\ me' = m /\ domain' = d
    /\ CASE m = None ->
              /\ body' = [is |-> "login"]
              /\ polling' = polling \ {last} /\ last' = None
              /\ task' = [task EXCEPT ![t] = Asked("challenge", FALSE, None)]
         [] m # None /\ d = "unknown" ->
              /\ task' = [task EXCEPT ![t] = Asked("domain", TRUE, None)]
              /\ UNCHANGED <<body, polling, last>>
         [] OTHER ->
              /\ body' = [is |-> "panel", me |-> m, domain |-> d]
              /\ task' = [task EXCEPT ![t] = Idle]
              /\ UNCHANGED <<polling, last>>

OpenManage(t) ==
    /\ ~shown /\ drawn.backend /\ Click
    /\ Free(t) /\ Asks(t, "me")
    /\ shown' = TRUE /\ body' = [is |-> "loading"]
    /\ UNCHANGED <<instance, kept, session, claimed, screen, panel, outages, switches, mixed>>

\* refreshMe, after which everything that asks for it draws the panel.
LandMe(t) ==
    /\ Landing(t) /\ task[t].do = "me"
    /\ RenderManage(t, IF task[t].got = Error THEN me ELSE task[t].got, domain)
    /\ mixed' = (mixed \/ task[t].got \notin {Error, session})
    /\ UNCHANGED <<instance, kept, session, claimed, screen, shown, bounds>>

\* refreshDomain, for the panel that is being drawn ("domain") and after the
\* domain was changed ("changed"; removed, and ME is read again).
LandDomain(t) ==
    /\ Landing(t) /\ task[t].do \in {"domain", "changed"}
    /\ LET d == IF task[t].got \in {Error, None} THEN "nothing" ELSE task[t].got IN
         IF task[t].do = "changed"
         THEN \/ RenderManage(t, me, d)
              \/ domain' = d /\ Asks(t, "me") /\ UNCHANGED <<body, me, polling, last>>
         ELSE /\ domain' = d
              /\ body' = IF task[t].in /\ me # None THEN [is |-> "panel", me |-> me, domain |-> d]
                                       ELSE body
              /\ task' = [task EXCEPT ![t] = Idle]
              /\ UNCHANGED <<me, polling, last>>
    /\ mixed' = (mixed \/ task[t].got \notin {Error, session}
                       \/ task[t].got \notin {Error, None, me})
    /\ UNCHANGED <<instance, kept, session, claimed, screen, shown, bounds>>

\* startAuth47: the challenge is shown, if there is still a box for it, and an
\* interval asks whether a wallet has answered.
LandChallenge(t) ==
    /\ Landing(t) /\ task[t].do = "challenge"
    /\ LET n == task[t].got IN
         IF n = Error
           THEN UNCHANGED <<body, polling, last>>
           ELSE /\ body' = IF body.is \in {"login", "challenge"}
                             THEN [is |-> "challenge", nonce |-> n] ELSE body
                /\ polling' = polling \cup {n} /\ last' = n
    /\ task' = [task EXCEPT ![t] = Idle]
    /\ UNCHANGED <<instance, kept, session, claimed, screen, shown, me, domain, bounds, mixed>>

\* A sign-out is not over.
Leaving == \E u \in Tasks : task[u].do \in {"logout", "left"}

Poll(t, n) ==
    /\ n \in polling /\ Free(t)
    /\ task' = [task EXCEPT ![t] = Asked("poll", FALSE, n)]
    /\ UNCHANGED <<instance, kept, session, claimed, screen, shown, body, panel, bounds, mixed>>

\* The answer brings the cookie. The interval that is stopped is that of
\* pollTimer, whichever asked.
LandPoll(t) ==
    /\ Landing(t) /\ task[t].do = "poll"
    /\ IF task[t].got = Error
         THEN task' = [task EXCEPT ![t] = Idle] /\ UNCHANGED <<session, polling, last>>
         ELSE /\ session' = task[t].got
              /\ polling' = polling \ {last} /\ last' = None
              /\ Asks(t, "me")
    /\ mixed' = (mixed \/ (task[t].got # Error /\ (me \notin {None, task[t].got} \/ Leaving)))
    /\ UNCHANGED <<instance, kept, claimed, screen, shown, body, me, domain, bounds>>

Acting == shown /\ body.is = "panel" /\ Click

Logout(t) ==
    /\ Acting /\ Free(t) /\ Asks(t, "logout")
    /\ UNCHANGED <<instance, kept, session, claimed, screen, shown, body, panel, outages,
                   switches, mixed>>

LandLogout(t) ==
    /\ Landing(t) /\ task[t].do = "logout"
    /\ polling' = polling \ {last} /\ last' = None
    /\ Asks(t, "left")
    /\ UNCHANGED <<instance, kept, session, claimed, screen, shown, body, me, domain, bounds,
                   mixed>>

\* Bug: the domain of the last operator is remembered.
LandLeftKeeping(t) ==
    /\ Landing(t) /\ task[t].do = "left"
    /\ RenderManage(t, None, domain)
    /\ UNCHANGED <<instance, kept, session, claimed, screen, shown, bounds, mixed>>

\* Whatever the backend says by now, the page is signed out.
LandLeft(t) ==
    /\ Landing(t) /\ task[t].do = "left"
    /\ RenderManage(t, None, "unknown")
    /\ UNCHANGED <<instance, kept, session, claimed, screen, shown, bounds, mixed>>

\* A listing is submitted, edited or deleted ("edit"), or the domain prepared,
\* checked, claimed or removed ("act"): a request, and then what it changed. A
\* delete or a removal that failed goes on as one that did not.
Act(t, do) ==
    /\ Acting /\ Free(t) /\ Asks(t, do)
    /\ UNCHANGED <<instance, kept, session, claimed, screen, shown, body, panel, outages,
                   switches, mixed>>

LandAct(t) ==
    /\ Landing(t) /\ task[t].do \in {"edit", "act"}
    /\ \/ task[t].do = "edit" /\ Asks(t, "me") /\ UNCHANGED <<body, me, domain, polling, last>>
       \/ /\ task[t].do = "edit" /\ task[t].got = Error
          /\ task' = [task EXCEPT ![t] = Idle] /\ UNCHANGED <<body, me, domain, polling, last>>
       \/ task[t].do = "act" /\ Asks(t, "changed") /\ UNCHANGED <<body, me, domain, polling, last>>
       \/ task[t].do = "act" /\ RenderManage(t, me, domain)
    /\ UNCHANGED <<instance, kept, session, claimed, screen, shown, bounds, mixed>>

\* Forms that open and close in the panel draw it again; the one for another
\* domain is shown in place of the claim.
Rewrite(t) ==
    /\ Acting /\ Free(t)
    /\ \E d \in {domain, "nothing"} : RenderManage(t, me, d)
    /\ UNCHANGED <<instance, kept, session, claimed, screen, shown, outages, switches, mixed>>

-----------------------------------------------------------------------------
(***************************************************************************)
(* The other side: answers, the wallet, another tab, the instance.         *)
(***************************************************************************)
Unseen(n) == /\ n \notin polling /\ body \notin [is: {"challenge"}, nonce: {n}]
             /\ \A t \in Tasks : n \notin {task[t].nonce, task[t].got}

\* What t gets of a resource whose contents are x. The worker keeps every
\* answer, an error too, and without network gives the last it has kept.
Fetched(t, lost, resource, x) ==
    LET answer == IF lost THEN Error ELSE x IN
    /\ task' = [task EXCEPT ![t].got = IF reach THEN answer ELSE kept[resource]]
    /\ kept' = IF reach /\ worker THEN [kept EXCEPT ![resource] = answer] ELSE kept
    /\ UNCHANGED <<session, claimed>>

\* A request is answered, and the answer is on its way, or lost, or an error:
\* after five attempts, or one, that is what the page has.
Answer(t, lost) ==
    LET what == task[t].do
        Got(x) == task' = [task EXCEPT ![t].got = x]
        Arrives == reach /\ ~lost
    IN  /\ ~Free(t) /\ task[t].got = Waiting
        /\ lost => reach
        /\ outages' = outages + (IF lost THEN 1 ELSE 0) /\ outages' <= MaxOutages
        /\ CASE what \in {"boot", "refresh"}         -> Fetched(t, lost, "list", published)
             [] what \in {"backend", "me", "left"}   -> Fetched(t, lost, "me", session)
             [] what \in {"domain", "changed"}       -> Fetched(t, lost, "domain", session)
             [] what = "challenge" ->
                  /\ IF Arrives THEN \E n \in {n \in Nonces : Unseen(n)} :
                                       Got(n) /\ claimed' = [claimed EXCEPT ![n] = "open"]
                                ELSE Got(Error) /\ UNCHANGED claimed
                  /\ UNCHANGED <<session, kept>>
             [] what = "poll" ->
                  LET by == claimed[task[t].nonce] IN
                  /\ Got(IF Arrives /\ by \in Codes THEN by ELSE Error)
                  /\ claimed' = IF reach /\ by \in Codes
                                  THEN [claimed EXCEPT ![task[t].nonce] = "spent"] ELSE claimed
                  /\ UNCHANGED <<session, kept>>
             [] what = "logout" ->
                  /\ Got(IF Arrives THEN None ELSE Error)
                  /\ session' = IF reach THEN None ELSE session
                  /\ UNCHANGED <<claimed, kept>>
             [] OTHER -> /\ Got(IF Arrives THEN None ELSE Error)
                         /\ UNCHANGED <<session, claimed, kept>>
        /\ UNCHANGED <<instance, screen, shown, body, panel, clicks, switches, mixed>>

\* A wallet answers a challenge it has seen, with any code.
Wallet(n, c) ==
    /\ n \in polling /\ claimed[n] = "open"
    /\ claimed' = [claimed EXCEPT ![n] = c]
    /\ UNCHANGED <<instance, kept, session, screen, shown, body, panel, task, bounds, mixed>>

\* Another tab, or the console, signs in or out, or the session lapses.
Elsewhere(c) ==
    /\ c # session /\ switches < MaxSwitches /\ switches' = switches + 1
    /\ session' = c /\ mixed' = TRUE
    /\ UNCHANGED <<instance, kept, claimed, screen, shown, body, panel, task, clicks, outages>>

Publish ==
    /\ published < MaxLists /\ published' = published + 1
    /\ UNCHANGED <<aged, reach, worker, kept, session, claimed, screen, shown, body, panel,
                   task, bounds, mixed>>

\* Three intervals go by.
Age ==
    /\ aged < published /\ aged' = aged + 1
    /\ UNCHANGED <<published, reach, worker, kept, session, claimed, screen, shown, body, panel,
                   task, bounds, mixed>>

Network ==
    /\ reach' = ~reach
    /\ outages' = outages + (IF reach THEN 1 ELSE 0) /\ outages' <= MaxOutages
    /\ UNCHANGED <<published, aged, worker, kept, session, claimed, screen, shown, body, panel,
                   task, clicks, switches, mixed>>

-----------------------------------------------------------------------------

\* The page has asked for the list, and whether there is a backend.
Init ==
    /\ published = 1 /\ aged = 0 /\ reach = TRUE /\ worker \in BOOLEAN
    /\ kept = [list |-> Error, me |-> Error, domain |-> Error]
    /\ session \in Codes \cup {None} /\ claimed = [n \in Nonces |-> None]
    /\ dojos = None /\ backend = FALSE /\ footer = {}
    /\ drawn = Drawing(None, FALSE, {})
    /\ visible = TRUE /\ timer = FALSE /\ pending = FALSE
    /\ shown = FALSE /\ body = [is |-> "empty"]
    /\ me = None /\ domain = "unknown" /\ polling = {} /\ last = None
    /\ \E t, u \in Tasks :
         /\ t # u
         /\ task = [v \in Tasks |-> CASE v = t -> Asked("boot", FALSE, None)
                                      [] v = u -> Asked("backend", FALSE, None)
                                      [] OTHER -> Idle]
    /\ clicks = 0 /\ outages = 0 /\ switches = 0 /\ mixed = FALSE

Land(t) ==
    \/ LandBoot(t) \/ LandRefresh(t) \/ LandFooter(t) \/ LandBackend(t) \/ LandText(t)
    \/ LandMe(t) \/ LandDomain(t) \/ LandChallenge(t) \/ LandPoll(t) \/ LandLogout(t)
    \/ LandLeft(t) \/ LandAct(t)

Next ==
    \/ CloseModal \/ Toggle \/ Hide \/ Publish \/ Age \/ Network
    \/ \E t \in Tasks :
         \/ OpenText(t) \/ OpenManage(t) \/ Logout(t) \/ Act(t, "edit") \/ Act(t, "act")
         \/ Rewrite(t) \/ Interval(t) \/ Return(t) \/ Land(t)
         \/ \E lost \in BOOLEAN : Answer(t, lost)
         \/ \E n \in Nonces : Poll(t, n)
    \/ \E n \in Nonces, c \in Codes : Wallet(n, c)
    \/ \E c \in Codes \cup {None} : Elsewhere(c)

\* A request is answered or fails, and what awaits it goes on; intervals fire,
\* though not while all tasks the model has are at work.
Fairness == /\ \A t \in Tasks : WF_vars(Answer(t, FALSE)) /\ WF_vars(Land(t))
            /\ SF_vars(\E t \in Tasks : Interval(t))

Spec == Init /\ [][Next]_vars /\ Fairness

-----------------------------------------------------------------------------
(***************************************************************************)
(* TypeOK: the shapes of the page and of what answers it.                  *)
(***************************************************************************)
TypeOK ==
    /\ published \in Lists /\ aged \in 0..published /\ {reach, worker} \subseteq BOOLEAN
    /\ session \in Codes \cup {None}
    /\ claimed \in [Nonces -> Codes \cup {None, "open", "spent"}]
    /\ dojos \in Lists \cup {None}
    /\ footer \subseteq Footers
    /\ {backend, visible, timer, pending, shown, mixed} \subseteq BOOLEAN
    /\ drawn \in [dojos: Lists \cup {None}, stale: BOOLEAN, backend: BOOLEAN,
                  footer: SUBSET Footers]
    /\ body \in Bodies /\ me \in Codes \cup {None} /\ domain \in Domains
    /\ polling \subseteq Nonces /\ last \in Nonces \cup {None}

(***************************************************************************)
(* "The redraw waits until the dialog is closed" and no longer: with no    *)
(* dialog open the document shows the list, the Manage button and the      *)
(* build hash the page has by then, and the avatar unless Verify fetched   *)
(* it. (Button and hash were lost on redraws while they were written into  *)
(* the document only.)                                                     *)
(***************************************************************************)
ScreenCurrent ==
    ~shown /\ drawn.dojos # None =>
        /\ drawn.dojos = dojos /\ drawn.backend = backend
        /\ footer \subseteq drawn.footer \cup {"operator"}

(***************************************************************************)
(* "Either the checker has stopped or we have been unable to reach it":    *)
(* a visible page whose requests bring nothing but an old list, from the   *)
(* instance or from the worker, says so before long, unless a dialog is in *)
(* the way. A page that could not load its first list schedules nothing,   *)
(* and without a worker a refresh that fails redraws nothing: there, it    *)
(* does not.                                                               *)
(***************************************************************************)
OnlyOldNews ==
    visible /\ timer /\ (IF reach THEN published <= aged
                         ELSE worker /\ kept.list \in 1..aged)

StalenessShows == <>[]OnlyOldNews => <>[](shown \/ drawn.stale)

(***************************************************************************)
(* What the panel shows can be relied on. A challenge on the screen is     *)
(* being asked for, or about to be replaced: nobody answers a code with    *)
(* the wallet and waits for ever. And the domain shown is that of the code *)
(* that is shown as signed in, whoever signed in before: as long as the    *)
(* cookie changes under this page only by its own sign-ins and sign-outs,  *)
(* their answers arrive in order, and nobody signs in before a sign-out is *)
(* over. (Otherwise it is not: DOMAIN is forgotten only by this page's own *)
(* sign-out, and only when that has asked for ME again.)                   *)
(***************************************************************************)
ChallengePolled ==
    shown /\ body.is = "challenge" =>
        \/ body.nonce \in polling
        \/ \E t \in Tasks : task[t].do \in {"me", "challenge", "left", "domain", "changed"}

OwnDomain ==
    ~mixed /\ body.is = "panel" => body.domain \in {body.me, "nothing"}

PanelHonest == ChallengePolled /\ OwnDomain

(***************************************************************************)
(* The screen keeps up with what the page knows, and owns up to what it    *)
(* does not: a list that has landed is drawn when nothing is in its way,   *)
(* and one that stays old is called old in the end.                        *)
(***************************************************************************)
ScreenHonest == []ScreenCurrent /\ StalenessShows
=============================================================================
