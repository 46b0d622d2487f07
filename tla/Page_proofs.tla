----------------------------- MODULE Page_proofs ------------------------------
(***************************************************************************)
(* Proofs about what runs in the browser.                                  *)
(*                                                                         *)
(* Page: any number of tasks, codes, challenges and lists. Each of the     *)
(* properties says something of the screen, and is kept by a fact about    *)
(* what has not reached the screen yet: which redraw still waits           *)
(* (Loaded), which task is still going to write over a challenge (Polled), *)
(* and whose session an answer may still bring (Sane).                     *)
(*                                                                         *)
(* Cards: any lists, histories, keys, refreshes and clicks. What is drawn  *)
(* and what is cached belong to the list the page has, or a redraw is due  *)
(* (CardsCurrent); a dialog and what would write it again are of one node  *)
(* and one list (DialogKept). The cards are in an order that exists for any*)
(* list, by a history that is still the one cached (Ordered, DaysKnown).   *)
(***************************************************************************)
EXTENDS Page, Cards, SequenceTheorems, FiniteSetTheorems, WellFoundedInduction, TLAPS

USE PageAssumption

-----------------------------------------------------------------------------
(***************************************************************************)
(* Page: the tasks, and what may answer each.                              *)
(***************************************************************************)
Doings == {"idle", "boot", "refresh", "both", "version", "operator", "backend", "text", "verify",
           "me", "domain", "changed", "challenge", "poll", "logout", "left", "edit", "act"}
Gots   == Codes \cup Nonces \cup Lists \cup {None, Error, Waiting}
Records == [do: Doings, in: BOOLEAN, nonce: Nonces \cup {None}, got: Gots]

\* What is asked for brings only answers of its kind.
Fits(r) ==
    /\ r.do \in {"boot", "refresh"} => r.got \in Lists \cup {Error, Waiting}
    /\ r.do \in {"backend", "me", "left", "domain", "changed"}
         => r.got \in Codes \cup {None, Error, Waiting}
    /\ r.do = "challenge" => r.got \in Nonces \cup {Error, Waiting}
    /\ r.do = "poll" => r.got \in Codes \cup {Error, Waiting} /\ r.nonce \in Nonces

Good(tasks) == tasks \in [Tasks -> Records] /\ \A t \in Tasks : Fits(tasks[t])

LEMMA GoodParts ==
    ASSUME NEW tasks, Good(tasks), NEW t \in Tasks
    PROVE  /\ tasks[t] \in Records /\ Fits(tasks[t])
           /\ tasks[t].do \in Doings /\ tasks[t].in \in BOOLEAN
           /\ tasks[t].nonce \in Nonces \cup {None} /\ tasks[t].got \in Gots
BY DEF Good, Records

LEMMA SetGood ==
    ASSUME NEW tasks, Good(tasks), NEW t \in Tasks, NEW r \in Records, Fits(r)
    PROVE  LET new == [tasks EXCEPT ![t] = r] IN
           Good(new) /\ new[t] = r /\ \A u \in Tasks : u # t => new[u] = tasks[u]
BY DEF Good

LEMMA AskedGood ==
    ASSUME NEW do \in Doings, NEW in \in BOOLEAN, NEW n \in Nonces \cup {None}, do = "poll" => n \in Nonces
    PROVE  /\ Asked(do, in, n) \in Records /\ Fits(Asked(do, in, n))
           /\ Asked(do, in, n).do = do /\ Asked(do, in, n).in = in
BY DEF Asked, Records, Fits, Gots

LEMMA IdleGood == Idle \in Records /\ Fits(Idle) /\ Idle.do = "idle" /\ ~Idle.in
BY DEF Idle, Records, Fits, Gots, Doings

LEMMA ForgettingGood ==
    ASSUME NEW tasks, Good(tasks)
    PROVE  /\ Good(Forgetting(tasks))
           /\ \A t \in Tasks : Forgetting(tasks)[t].do = tasks[t].do
<1>1. ASSUME NEW t \in Tasks
      PROVE  /\ [tasks[t] EXCEPT !.in = FALSE] \in Records
             /\ Fits([tasks[t] EXCEPT !.in = FALSE])
             /\ [tasks[t] EXCEPT !.in = FALSE].do = tasks[t].do
  BY GoodParts DEF Records, Fits
<1> QED BY <1>1 DEF Forgetting, Good


-----------------------------------------------------------------------------
(***************************************************************************)
(* Shapes.                                                                 *)
(***************************************************************************)
Kept == kept \in [list: Lists \cup {Error}, me: Codes \cup {None, Error},
                  domain: Codes \cup {None, Error}]

TInv == TypeOK /\ Kept /\ Good(task)

Pictures == [dojos: Lists \cup {None}, stale: BOOLEAN, backend: BOOLEAN, footer: SUBSET Footers]

LEMMA BodyKinds ==
    /\ \A k \in {"empty", "text", "loading", "login"} : [is |-> k] \in Bodies
    /\ \A n \in Nonces : [is |-> "challenge", nonce |-> n] \in Bodies
    /\ \A m \in Codes, d \in Domains : [is |-> "panel", me |-> m, domain |-> d] \in Bodies
BY DEF Bodies

LEMMA DrawingType ==
    ASSUME NEW d \in Lists \cup {None}, NEW b \in BOOLEAN, NEW f \in SUBSET Footers
    PROVE  /\ Drawing(d, b, f) \in Pictures /\ Drawing(d, b, f).dojos = d
           /\ Drawing(d, b, f).backend = b /\ Drawing(d, b, f).footer = f
<1> DEFINE old == d # None /\ d <= aged
<1>1. old \in BOOLEAN
  OBVIOUS
<1>2. Drawing(d, b, f) = [dojos |-> d, stale |-> old, backend |-> b, footer |-> f]
  BY DEF Drawing
<1> HIDE DEF old
<1> QED BY <1>1, <1>2 DEF Pictures

\* What render() leaves.
LEMMA RenderParts ==
    ASSUME NEW d \in Lists \cup {None}, NEW b \in BOOLEAN, NEW f \in SUBSET Footers,
           NEW tasks, Good(tasks),
           drawn' = Drawing(d, b, f), shown' = FALSE, body' = [is |-> "empty"],
           task' = Forgetting(tasks)
    PROVE  /\ drawn' \in Pictures /\ drawn'.dojos = d /\ drawn'.backend = b /\ drawn'.footer = f
           /\ body' \in Bodies
           /\ Good(task') /\ \A t \in Tasks : task'[t].do = tasks[t].do
BY DrawingType, ForgettingGood, BodyKinds

\* A task that is set to a record that fits.
LEMMA SetParts ==
    ASSUME Good(task), NEW t \in Tasks, NEW r \in Records, Fits(r), task' = [task EXCEPT ![t] = r]
    PROVE  Good(task') /\ task'[t] = r /\ \A u \in Tasks : u # t => task'[u] = task[u]
<1> DEFINE new == [task EXCEPT ![t] = r]
<1>1. Good(new) /\ new[t] = r /\ \A u \in Tasks : u # t => new[u] = task[u]
  BY DEF Good
<1>2. task' = new
  OBVIOUS
<1> HIDE DEF new
<1> QED BY <1>1, <1>2, Zenon

\* A task that gets its answer.
LEMMA GotParts ==
    ASSUME Good(task), NEW t \in Tasks, NEW x \in Gots, Fits([task[t] EXCEPT !.got = x]),
           task' = [task EXCEPT ![t].got = x]
    PROVE  Good(task') /\ \A u \in Tasks : task'[u].do = task[u].do /\ task'[u].in = task[u].in
<1> DEFINE r == [task[t] EXCEPT !.got = x]
<1>1. r \in Records /\ Fits(r) /\ r.do = task[t].do /\ r.in = task[t].in
  BY GoodParts DEF Records
<1>2. task' = [task EXCEPT ![t] = r]
  BY DEF Good
<1> HIDE DEF r
<1> QED BY <1>1, <1>2, SetParts

LEMMA AsksParts ==
    ASSUME Good(task), NEW t \in Tasks, NEW do \in Doings \ {"poll"}, Asks(t, do)
    PROVE  Good(task') /\ task'[t].do = do /\ \A u \in Tasks : u # t => task'[u] = task[u]
<1> DEFINE r == Asked(do, FALSE, None)
<1>1. r \in Records /\ Fits(r) /\ r.do = do
  BY AskedGood
<1>2. task' = [task EXCEPT ![t] = r]
  BY DEF Asks
<1> HIDE DEF r
<1> QED BY <1>1, <1>2, SetParts

\* What renderManage leaves.
LEMMA ManageParts ==
    ASSUME TInv, NEW t \in Tasks, NEW m \in Codes \cup {None}, NEW d \in Domains, RenderManage(t, m, d)
    PROVE  /\ me' = m /\ domain' = d /\ body' \in Bodies
           /\ polling' \subseteq Nonces /\ last' \in Nonces \cup {None}
           /\ Good(task') /\ \A u \in Tasks : u # t => task'[u] = task[u]
           /\ \/ m = None /\ body' = [is |-> "login"]
              \/ /\ m # None /\ d = "unknown" /\ body' = body /\ polling' = polling
                 /\ task'[t].do = "domain" /\ task'[t].in
              \/ m # None /\ d # "unknown" /\ body' = [is |-> "panel", me |-> m, domain |-> d]
<1>1. me' = m /\ domain' = d
  BY DEF RenderManage
<1>2. Good(task) /\ body \in Bodies /\ polling \subseteq Nonces /\ last \in Nonces \cup {None}
  BY DEF TInv, TypeOK
<1>3. CASE m = None
  <2>1. /\ body' = [is |-> "login"] /\ polling' = polling \ {last} /\ last' = None
        /\ task' = [task EXCEPT ![t] = Asked("challenge", FALSE, None)]
    BY <1>3 DEF RenderManage
  <2>2. Asked("challenge", FALSE, None) \in Records /\ Fits(Asked("challenge", FALSE, None))
    BY ZenonT(40), AskedGood DEF Doings
  <2>3. Good(task') /\ \A u \in Tasks : u # t => task'[u] = task[u]
    BY <1>2, <2>1, <2>2, SetParts
  <2>4. body' \in Bodies
    BY <2>1, BodyKinds
  <2> QED BY <1>1, <1>2, <1>3, <2>1, <2>3, <2>4
<1>4. CASE m # None /\ d = "unknown"
  <2> DEFINE r == Asked("domain", TRUE, None)
  <2>1. task' = [task EXCEPT ![t] = r] /\ UNCHANGED <<body, polling, last>>
    BY <1>4 DEF RenderManage
  <2>2. r \in Records /\ Fits(r) /\ r.do = "domain" /\ r.in
    BY DEF Asked, Records, Fits, Gots, Doings
  <2> HIDE DEF r
  <2>3. Good(task') /\ task'[t] = r /\ \A u \in Tasks : u # t => task'[u] = task[u]
    BY <1>2, <2>1, <2>2, SetParts
  <2> QED BY <1>1, <1>2, <1>4, <2>1, <2>2, <2>3
<1>5. CASE m # None /\ d # "unknown"
  <2>1. /\ body' = [is |-> "panel", me |-> m, domain |-> d] /\ task' = [task EXCEPT ![t] = Idle]
        /\ UNCHANGED <<polling, last>>
    BY <1>5 DEF RenderManage
  <2>2. Good(task') /\ \A u \in Tasks : u # t => task'[u] = task[u]
    BY <1>2, <2>1, IdleGood, SetParts
  <2>3. body' \in Bodies
    BY <1>5, <2>1, BodyKinds
  <2> QED BY <1>1, <1>2, <1>5, <2>1, <2>2, <2>3
<1> QED BY <1>3, <1>4, <1>5

\* Where the instance, the cookie and the challenges stay.
Still == UNCHANGED <<published, aged, reach, worker, kept, session, claimed>>

LEMMA ShapeOf ==
    ASSUME TInv, Still,
           dojos' \in Lists \cup {None}, footer' \subseteq Footers,
           {backend', visible', timer', pending', shown', mixed'} \subseteq BOOLEAN,
           drawn' \in Pictures, body' \in Bodies, me' \in Codes \cup {None}, domain' \in Domains,
           polling' \subseteq Nonces, last' \in Nonces \cup {None}, Good(task')
    PROVE  TInv'
BY DEF TInv, Still, TypeOK, Kept, Pictures, Lists, Bodies, Domains

LEMMA StartShape == Init => TInv
<1> SUFFICES ASSUME Init PROVE TInv
  OBVIOUS
<1>1. PICK t, u \in Tasks :
         task = [v \in Tasks |-> CASE v = t -> Asked("boot", FALSE, None)
                                   [] v = u -> Asked("backend", FALSE, None)
                                   [] OTHER -> Idle]
  BY DEF Init
<1>2. \A do \in {"boot", "backend"} : Asked(do, FALSE, None) \in Records /\ Fits(Asked(do, FALSE, None))
  BY ZenonT(40), AskedGood DEF Doings
<1>3. Good(task)
  BY <1>1, <1>2, IdleGood DEF Good
<1>4. Drawing(None, FALSE, {}) \in Pictures
  BY DrawingType
<1>5. body \in Bodies
  BY BodyKinds DEF Init
<1>6. Kept
  BY DEF Init, Kept
<1>7. drawn \in Pictures
  BY <1>4 DEF Init
<1>8. published \in Lists /\ aged \in 0..published /\ {reach, worker} \subseteq BOOLEAN
  BY DEF Init, Lists
<1>9. claimed \in [Nonces -> Codes \cup {None, "open", "spent"}]
  BY DEF Init
<1>10. {backend, visible, timer, pending, shown, mixed} \subseteq BOOLEAN
  BY DEF Init
<1> QED BY <1>3, <1>5, <1>6, <1>7, <1>8, <1>9, <1>10 DEF Init, TInv, TypeOK, Pictures, Lists, Domains

LEMMA Answers ==
    ASSUME TInv, NEW t \in Tasks, Landing(t)
    PROVE  /\ task[t].do \in {"boot", "refresh"} => task[t].got \in Lists \cup {Error}
           /\ task[t].do \in {"backend", "me", "left", "domain", "changed"}
                => task[t].got \in Codes \cup {None, Error}
           /\ task[t].do = "challenge" => task[t].got \in Nonces \cup {Error}
           /\ task[t].do = "poll" => task[t].got \in Codes \cup {Error}
BY GoodParts DEF TInv, Landing, Fits

\* RenderIfLoaded and NotDrawn: both leave a document and a dialog.
LEMMA IfLoadedParts ==
    ASSUME TInv, NEW b \in BOOLEAN, NEW f \in SUBSET Footers, NEW tasks, Good(tasks),
           RenderIfLoaded(b, f, tasks)
    PROVE  /\ drawn' \in Pictures /\ body' \in Bodies /\ shown' \in BOOLEAN
           /\ Good(task') /\ \A t \in Tasks : task'[t].do = tasks[t].do
           /\ dojos # None => /\ drawn'.dojos = dojos /\ drawn'.backend = b /\ drawn'.footer = f
                              /\ shown' = FALSE
           /\ dojos = None => drawn' = drawn /\ shown' = shown /\ body' = body /\ task' = tasks
<1>1. CASE dojos # None
  <2>1. /\ drawn' = Drawing(dojos, b, f) /\ shown' = FALSE /\ body' = [is |-> "empty"]
        /\ task' = Forgetting(tasks)
    BY <1>1 DEF RenderIfLoaded, Render
  <2>2. dojos \in Lists \cup {None}
    BY DEF TInv, TypeOK
  <2> QED BY ZenonT(40), <1>1, <2>1, <2>2, RenderParts
<1>2. CASE dojos = None
  <2>1. drawn' = drawn /\ shown' = shown /\ body' = body /\ task' = tasks
    BY <1>2 DEF RenderIfLoaded, NotDrawn
  <2>2. drawn \in Pictures /\ body \in Bodies /\ shown \in BOOLEAN
    BY DEF TInv, TypeOK, Pictures
  <2>3. Good(task')
    BY <2>1, Zenon
  <2> QED BY <1>2, <2>1, <2>2, <2>3
<1> QED BY <1>1, <1>2

LEMMA FreedGood ==
    ASSUME Good(task), NEW t \in Tasks
    PROVE  LET new == [task EXCEPT ![t] = Idle] IN
           Good(new) /\ new[t] = Idle /\ \A u \in Tasks : u # t => new[u] = task[u]
BY IdleGood, SetGood

-----------------------------------------------------------------------------
(***************************************************************************)
(* The list, action by action.                                             *)
(***************************************************************************)
\* The redraw that waits is the only thing a loaded document lacks.
Loaded ==
    /\ dojos = None <=> drawn.dojos = None
    /\ dojos = None => ~drawn.backend /\ ~shown
    /\ dojos # None => drawn.backend = backend /\ footer \subseteq drawn.footer \cup {"operator"}
    /\ drawn.dojos # dojos => shown /\ pending

\* A task that is going to write over the dialog: with the panel, or with a
\* login and a new challenge.
Rewrites(r, m) == r.do \in {"me", "left"} \/ (r.do = "domain" /\ r.in /\ m # None)

Polled ==
    shown /\ body.is = "challenge" /\ body.nonce \notin polling
        => \E t \in Tasks : Rewrites(task[t], me)

\* Whose the cookie, ME and DOMAIN are, while nothing is mixed up.
Sane ==
    /\ me # None => domain \in {me, "nothing", "unknown"}
    /\ me = None /\ domain \notin {"nothing", "unknown"} => session \in {None, domain} /\ Leaving
    /\ me # None /\ session # None => me = session
    /\ me # None /\ session = None => Leaving

Own == ~mixed => Sane /\ (body.is = "panel" => body.domain \in {body.me, "nothing"})

PInv == TInv /\ Loaded /\ Polled /\ Own

\* Where no dialog is open, or none with a challenge, nothing has to be polled.
LEMMA NoChallenge == ASSUME ~shown' \/ body'.is # "challenge" PROVE Polled'
BY DEF Polled

\* A task that was not going to rewrite the dialog is no loss.
LEMMA OthersRewrite ==
    ASSUME Polled, NEW t, ~Rewrites(task[t], me), \A u \in Tasks : u # t => task'[u] = task[u],
           UNCHANGED <<shown, body, me, polling>>
    PROVE  Polled'
<1>1. \A u \in Tasks : Rewrites(task[u], me) => Rewrites(task'[u], me')
  BY DEF Rewrites
<1> QED BY <1>1 DEF Polled

\* A sign-out goes on when another task does something.
LEMMA LeavingLasts ==
    ASSUME NEW t, t \in Tasks => task[t].do \notin {"logout", "left"} \/ task'[t].do \in {"logout", "left"},
           \A u \in Tasks : u # t => task'[u].do = task[u].do
    PROVE  Leaving => Leaving'
BY DEF Leaving

LEMMA OwnQuiet ==
    ASSUME Own, UNCHANGED <<me, domain, session>>, mixed => mixed', Leaving => Leaving',
           body' = body \/ body'.is # "panel"
    PROVE  Own'
BY DEF Own, Sane

LEMMA LoadedStays == ASSUME Loaded, UNCHANGED <<dojos, drawn, backend, shown, pending>>,
                            footer' = footer \/ footer' = footer \cup {"operator"}
                     PROVE  Loaded'
BY DEF Loaded

\* A step that renders the panel, or what stands for it.
LEMMA ManageKeeps ==
    ASSUME PInv, NEW t \in Tasks, task[t].do \notin {"logout"},
           NEW m \in Codes \cup {None}, NEW d \in Domains, RenderManage(t, m, d),
           UNCHANGED <<instance, kept, session, claimed, screen, shown>>,
           mixed' \in BOOLEAN, mixed => mixed',
           ~mixed' =>
              /\ m # None => d \in {m, "nothing", "unknown"}
              /\ m = None /\ d \notin {"nothing", "unknown"}
                   => session \in {None, d} /\ Leaving /\ task[t].do # "left"
              /\ m # None /\ session # None => m = session
              /\ m # None /\ session = None => Leaving /\ task[t].do # "left"
    PROVE  PInv'
<1>1. TInv /\ Loaded /\ Polled /\ Own
  BY DEF PInv
<1>2. /\ me' = m /\ domain' = d /\ body' \in Bodies
      /\ polling' \subseteq Nonces /\ last' \in Nonces \cup {None}
      /\ Good(task') /\ \A u \in Tasks : u # t => task'[u] = task[u]
      /\ \/ m = None /\ body' = [is |-> "login"]
         \/ /\ m # None /\ d = "unknown" /\ body' = body /\ polling' = polling
            /\ task'[t].do = "domain" /\ task'[t].in
         \/ m # None /\ d # "unknown" /\ body' = [is |-> "panel", me |-> m, domain |-> d]
  BY <1>1, ManageParts
<1>3. TInv'
  <2>1. Still /\ UNCHANGED <<dojos, footer, drawn, backend, visible, timer, pending, shown>>
    BY DEF Still, instance, screen
  <2>2. /\ dojos \in Lists \cup {None} /\ footer \subseteq Footers
        /\ {backend, visible, timer, pending, shown} \subseteq BOOLEAN /\ drawn \in Pictures
    BY <1>1 DEF TInv, TypeOK, Pictures
  <2> QED BY <1>1, <1>2, <2>1, <2>2, ShapeOf
<1>4. Loaded'
  BY <1>1, LoadedStays DEF screen
<1>5. Polled'
  <2>1. CASE m # None /\ d = "unknown"
    BY <1>2, <2>1 DEF Polled, Rewrites
  <2>2. CASE m = None \/ d # "unknown"
    <3>1. body'.is # "challenge"
      BY <1>2, <2>2
    <3> QED BY <3>1, NoChallenge
  <2> QED BY <2>1, <2>2
<1>6. Own'
  <2> SUFFICES ASSUME ~mixed' PROVE Sane' /\ (body'.is = "panel" => body'.domain \in {body'.me, "nothing"})
    BY DEF Own
  <2>1. Leaving /\ task[t].do # "left" => Leaving'
    BY <1>2 DEF Leaving
  <2>2. Sane'
    BY <1>2, <2>1 DEF Sane
  <2>3. body'.is = "panel" => body'.domain \in {body'.me, "nothing"}
    <3>1. body.is = "panel" => body.domain \in {body.me, "nothing"}
      BY <1>1 DEF Own
    <3> QED BY <1>2, <3>1
  <2> QED BY <2>2, <2>3
<1> QED BY <1>3, <1>4, <1>5, <1>6 DEF PInv

-----------------------------------------------------------------------------
\* Steps that redraw at once, and those that touch neither task nor dialog.
LEMMA CloseStep == ASSUME PInv, CloseModal PROVE PInv'
<1>1. TInv /\ Loaded /\ Own /\ shown
  BY DEF PInv, CloseModal
<1>2. dojos \in Lists /\ backend \in BOOLEAN /\ footer \in SUBSET Footers /\ drawn \in Pictures /\ Good(task)
      /\ body \in Bodies
  BY <1>1 DEF TInv, TypeOK, Loaded, Pictures
<1>3. /\ Still /\ UNCHANGED <<dojos, backend, footer, visible, timer, me, domain, polling, last, mixed>>
      /\ pending' = FALSE
  BY DEF CloseModal, Still, instance, panel
<1>4. CASE pending
  <2>1. /\ drawn' = Drawing(dojos, backend, footer) /\ shown' = FALSE /\ body' = [is |-> "empty"]
        /\ task' = Forgetting(task)
    BY <1>4 DEF CloseModal, Render
  <2>2. /\ drawn' \in Pictures /\ drawn'.dojos = dojos /\ drawn'.backend = backend /\ drawn'.footer = footer
        /\ body' \in Bodies /\ Good(task') /\ \A t \in Tasks : task'[t].do = task[t].do
    BY ZenonT(40), <1>2, <2>1, RenderParts
  <2>3. TInv'
    BY <1>1, <1>3, <2>1, <2>2, ShapeOf DEF TInv, TypeOK
  <2>4. Loaded'
    BY <1>1, <1>3, <2>1, <2>2 DEF Loaded
  <2>5. Polled'
    BY <2>1, NoChallenge
  <2>6. Own'
    BY <1>1, <1>3, <2>1, <2>2, OwnQuiet DEF Leaving, TInv, CloseModal
  <2> QED BY <2>3, <2>4, <2>5, <2>6 DEF PInv
<1>5. CASE ~pending
  <2>1. shown' = FALSE /\ UNCHANGED <<drawn, body, task>>
    BY <1>5 DEF CloseModal
  <2>2. TInv'
    <3>1. Good(task')
      BY <1>2, <2>1, Zenon
    <3> QED BY <1>1, <1>2, <1>3, <2>1, <3>1, ShapeOf DEF TInv, TypeOK
  <2>3. Loaded'
    BY <1>1, <1>3, <1>5, <2>1 DEF Loaded
  <2>4. Polled'
    BY <2>1, NoChallenge
  <2>5. Own'
    BY <1>1, <1>3, <2>1, OwnQuiet DEF Leaving, CloseModal
  <2> QED BY <2>2, <2>3, <2>4, <2>5 DEF PInv
<1>6. pending \in BOOLEAN
  BY <1>1 DEF TInv, TypeOK
<1> QED BY <1>4, <1>5, <1>6

LEMMA ToggleStep == ASSUME PInv, Toggle PROVE PInv'
<1>1. TInv /\ Loaded /\ Own
  BY DEF PInv
<1>2. dojos \in Lists /\ dojos # None /\ backend \in BOOLEAN /\ footer \in SUBSET Footers /\ Good(task)
  BY <1>1 DEF TInv, TypeOK, Toggle
<1>3. /\ Still
      /\ UNCHANGED <<dojos, backend, footer, visible, timer, pending, me, domain, polling, last, mixed, session>>
  BY DEF Toggle, Still, instance, panel
<1>4. /\ drawn' = Drawing(dojos, backend, footer) /\ shown' = FALSE /\ body' = [is |-> "empty"]
      /\ task' = Forgetting(task)
  BY DEF Toggle, Render
<1>5. /\ drawn' \in Pictures /\ drawn'.dojos = dojos /\ drawn'.backend = backend /\ drawn'.footer = footer
      /\ body' \in Bodies /\ Good(task') /\ \A t \in Tasks : task'[t].do = task[t].do
  BY ZenonT(40), <1>2, <1>4, RenderParts
<1>6. TInv'
  BY <1>1, <1>3, <1>4, <1>5, ShapeOf DEF TInv, TypeOK
<1>7. Loaded'
  BY <1>2, <1>3, <1>4, <1>5 DEF Loaded
<1>8. Polled'
  BY <1>4, NoChallenge
<1>9. Own'
  BY <1>1, <1>3, <1>4, <1>5, OwnQuiet DEF Leaving
<1> QED BY <1>6, <1>7, <1>8, <1>9 DEF PInv

\* Steps that leave the document and the dialog alone.
Aside == /\ UNCHANGED <<dojos, backend, drawn, shown, body, pending, me, domain, polling, last>>
         /\ footer' = footer \/ (dojos = None /\ footer' \subseteq Footers)

LEMMA AsideStep ==
    ASSUME PInv, Aside, Still, {visible', timer', mixed'} \subseteq BOOLEAN, mixed => mixed',
           NEW t, t \in Tasks => ~Rewrites(task[t], me) /\ task[t].do \notin {"logout", "left"},
           Good(task'), \A u \in Tasks : u # t => task'[u] = task[u]
    PROVE  PInv'
<1>1. TInv /\ Loaded /\ Polled /\ Own
  BY DEF PInv
<1>2. TInv'
  <2>1. /\ dojos \in Lists \cup {None} /\ footer \subseteq Footers /\ footer' \subseteq Footers
        /\ {backend, pending, shown} \subseteq BOOLEAN /\ drawn \in Pictures
        /\ body \in Bodies /\ me \in Codes \cup {None} /\ domain \in Domains
        /\ polling \subseteq Nonces /\ last \in Nonces \cup {None}
    BY <1>1 DEF TInv, TypeOK, Pictures, Aside
  <2> QED BY <1>1, <2>1, ShapeOf DEF Aside
<1>3. Loaded'
  BY <1>1 DEF Aside, Loaded
<1>4. Polled'
  <2>1. \A u \in Tasks : Rewrites(task[u], me) => Rewrites(task'[u], me')
    BY DEF Rewrites, Aside
  <2> QED BY <1>1, <2>1 DEF Polled, Aside
<1>5. Own'
  <2>1. Leaving => Leaving'
    BY DEF Leaving
  <2> QED BY <1>1, <2>1, OwnQuiet DEF Aside, Still
<1> QED BY <1>2, <1>3, <1>4, <1>5 DEF PInv

\* A new task in a free place.
LEMMA FreeIsQuiet ==
    ASSUME NEW t \in Tasks, Free(t)
    PROVE  ~Rewrites(task[t], me) /\ task[t].do \notin {"logout", "left"}
BY DEF Free, Idle, Rewrites

LEMMA RefreshStep == ASSUME PInv, NEW t \in Tasks, Interval(t) \/ Return(t) PROVE PInv'
<1>1. /\ Free(t) /\ Asks(t, "refresh") /\ visible' \in BOOLEAN /\ Still /\ Aside
      /\ UNCHANGED <<timer, mixed>>
  BY DEF Interval, Return, RefreshData, Still, Aside, instance, panel, PInv, TInv, TypeOK
<1>2. Good(task) /\ {timer, mixed} \subseteq BOOLEAN
  BY DEF PInv, TInv, TypeOK
<1>3. Good(task') /\ \A u \in Tasks : u # t => task'[u] = task[u]
  BY <1>1, <1>2, AsksParts DEF Doings
<1> QED BY <1>1, <1>2, <1>3, FreeIsQuiet, AsideStep

LEMMA PollStep == ASSUME PInv, NEW t \in Tasks, NEW n \in Nonces, Poll(t, n) PROVE PInv'
<1>1. /\ Free(t) /\ Still /\ Aside /\ UNCHANGED <<timer, mixed, visible>>
      /\ task' = [task EXCEPT ![t] = Asked("poll", FALSE, n)]
  BY DEF Poll, Still, Aside, instance, panel, screen
<1>2. Good(task) /\ {timer, mixed, visible} \subseteq BOOLEAN
  BY DEF PInv, TInv, TypeOK
<1>3. Asked("poll", FALSE, n) \in Records /\ Fits(Asked("poll", FALSE, n))
  BY ZenonT(40), AskedGood DEF Doings
<1>4. Good(task') /\ \A u \in Tasks : u # t => task'[u] = task[u]
  BY <1>1, <1>2, <1>3, SetParts
<1> QED BY <1>1, <1>2, <1>4, FreeIsQuiet, AsideStep

LEMMA ActStep == ASSUME PInv, NEW t \in Tasks, NEW do \in {"logout", "edit", "act"},
                        (Logout(t) /\ do = "logout") \/ Act(t, do) PROVE PInv'
<1>1. /\ Free(t) /\ Asks(t, do) /\ Still /\ Aside /\ UNCHANGED <<timer, mixed, visible>>
  BY DEF Logout, Act, Still, Aside, instance, panel, screen
<1>2. Good(task) /\ {timer, mixed, visible} \subseteq BOOLEAN
  BY DEF PInv, TInv, TypeOK
<1>3. Good(task') /\ \A u \in Tasks : u # t => task'[u] = task[u]
  BY <1>1, <1>2, AsksParts DEF Doings
<1> QED BY <1>1, <1>2, <1>3, FreeIsQuiet, AsideStep

\* The tab is hidden, or the world around the page goes on.
LEMMA OutsideStep ==
    ASSUME PInv, Hide \/ Publish \/ Age \/ Network \/ (\E n \in Nonces, c \in Codes : Wallet(n, c))
                   \/ (\E c \in Codes \cup {None} : Elsewhere(c))
    PROVE  PInv'
<1>1. TInv /\ Loaded /\ Polled /\ Own
  BY DEF PInv
<1>2. Aside /\ task' = task /\ UNCHANGED <<timer, kept>>
  BY DEF Hide, Publish, Age, Network, Wallet, Elsewhere, Aside, instance, screen, panel
<1> DEFINE World == /\ published' \in Lists /\ aged' \in 0..published' /\ {reach', worker'} \subseteq BOOLEAN
                    /\ session' \in Codes \cup {None} /\ visible' \in BOOLEAN
                    /\ mixed' \in BOOLEAN /\ (mixed => mixed')
                    /\ claimed' \in [Nonces -> Codes \cup {None, "open", "spent"}]
                    /\ (~mixed' => session' = session)
<1>0. /\ published \in Lists /\ aged \in 0..published /\ reach \in BOOLEAN /\ worker \in BOOLEAN
      /\ session \in Codes \cup {None} /\ visible \in BOOLEAN /\ mixed \in BOOLEAN
      /\ claimed \in [Nonces -> Codes \cup {None, "open", "spent"}]
  BY <1>1 DEF TInv, TypeOK
<1>3. World
  <2>1. CASE Hide
    BY <1>0, <2>1 DEF Hide, instance
  <2>2. CASE Publish
    BY <1>0, <2>2 DEF Publish, screen, Lists
  <2>3. CASE Age
    BY <1>0, <2>3 DEF Age, screen, Lists
  <2>4. CASE Network
    BY <1>0, <2>4 DEF Network, screen
  <2>5. ASSUME NEW n \in Nonces, NEW c \in Codes, Wallet(n, c) PROVE World
    BY <1>0, <2>5 DEF Wallet, screen, instance
  <2>6. ASSUME NEW c \in Codes \cup {None}, Elsewhere(c) PROVE World
    BY <1>0, <2>6 DEF Elsewhere, screen, instance
  <2> QED BY <2>1, <2>2, <2>3, <2>4, <2>5, <2>6
<1>4. TInv'
  <2>1. Good(task')
    BY <1>1, <1>2 DEF TInv
  <2> QED BY <1>1, <1>2, <1>3, <2>1 DEF Aside, TInv, TypeOK, Kept
<1>5. Loaded'
  BY <1>1, <1>2 DEF Aside, Loaded
<1>6. Polled'
  BY <1>1, <1>2 DEF Polled, Aside
<1>7. Own'
  BY <1>1, <1>2, <1>3 DEF Own, Sane, Leaving, Aside
<1> QED BY <1>4, <1>5, <1>6, <1>7 DEF PInv

\* An answer is made; session is touched by a sign-out's only, which goes on.
LEMMA AnswerStep == ASSUME PInv, NEW t \in Tasks, NEW lost \in BOOLEAN, Answer(t, lost) PROVE PInv'
<1> DEFINE what == task[t].do
<1>1. TInv /\ Loaded /\ Polled /\ Own
  BY DEF PInv
<1>2. Good(task) /\ task[t] \in Records /\ Fits(task[t]) /\ Kept
  BY <1>1, GoodParts DEF TInv
<1>3. /\ instance' = instance /\ screen' = screen /\ shown' = shown /\ body' = body
      /\ panel' = panel /\ mixed' = mixed
  BY DEF Answer
<1>4. \E x \in Gots : /\ task' = [task EXCEPT ![t].got = x] /\ Fits([task[t] EXCEPT !.got = x])
                      /\ Kept' /\ session' \in Codes \cup {None}
                      /\ claimed' \in [Nonces -> Codes \cup {None, "open", "spent"}]
                      /\ session' # session => session' = None /\ what = "logout"
  <2>1. \A x \in Gots : [task[t] EXCEPT !.got = x].got = x /\ [task[t] EXCEPT !.got = x].do = what
                          /\ [task[t] EXCEPT !.got = x].nonce = task[t].nonce
    BY <1>2 DEF Records
  <2>2. /\ session \in Codes \cup {None} /\ claimed \in [Nonces -> Codes \cup {None, "open", "spent"}]
        /\ published \in Lists
    BY <1>1 DEF TInv, TypeOK
  <2>3. CASE what \in {"boot", "refresh"}
    <3>1. Fetched(t, lost, "list", published)
      BY <2>3 DEF Answer
    <3> QED BY <1>2, <2>1, <2>2, <2>3, <3>1 DEF Fetched, Kept, Gots, Fits
  <2>4. CASE what \in {"backend", "me", "left"}
    <3>1. Fetched(t, lost, "me", session)
      BY <2>4 DEF Answer
    <3> QED BY ZenonT(40), <1>2, <2>1, <2>2, <2>4, <3>1 DEF Fetched, Kept, Gots, Fits
  <2>5. CASE what \in {"domain", "changed"}
    <3>1. Fetched(t, lost, "domain", session)
      BY <2>5 DEF Answer
    <3> QED BY <1>2, <2>1, <2>2, <2>5, <3>1 DEF Fetched, Kept, Gots, Fits
  <2>6. CASE what = "challenge"
    <3>1. PICK x \in Nonces \cup {Error} : /\ task' = [task EXCEPT ![t].got = x]
                                           /\ claimed' \in {claimed, [claimed EXCEPT ![x] = "open"]}
                                           /\ UNCHANGED <<session, kept>>
      BY <2>6 DEF Answer
    <3>2. x \in Gots /\ Fits([task[t] EXCEPT !.got = x])
      BY <2>1, <2>6 DEF Gots, Fits
    <3> QED BY <1>2, <2>2, <3>1, <3>2 DEF Kept
  <2>7. CASE what = "poll"
    <3>1. PICK x \in Codes \cup {Error} : /\ task' = [task EXCEPT ![t].got = x]
                                          /\ claimed' \in {claimed, [claimed EXCEPT ![task[t].nonce] = "spent"]}
                                          /\ UNCHANGED <<session, kept>>
      BY <2>7 DEF Answer
    <3>2. x \in Gots /\ Fits([task[t] EXCEPT !.got = x])
      BY <1>2, <2>1, <2>7 DEF Gots, Fits
    <3> QED BY ZenonT(40), <1>2, <2>2, <3>1, <3>2 DEF Kept
  <2>8. CASE what = "logout"
    <3>1. PICK x \in {None, Error} : /\ task' = [task EXCEPT ![t].got = x] /\ session' \in {session, None}
                                     /\ UNCHANGED <<claimed, kept>>
      BY <2>8 DEF Answer
    <3>2. x \in Gots /\ Fits([task[t] EXCEPT !.got = x])
      BY <2>1, <2>8 DEF Gots, Fits
    <3> QED BY <1>2, <2>2, <2>8, <3>1, <3>2 DEF Kept
  <2>9. CASE what \notin {"boot", "refresh", "backend", "me", "left", "domain", "changed", "challenge",
                          "poll", "logout"}
    <3>1. PICK x \in {None, Error} : task' = [task EXCEPT ![t].got = x] /\ UNCHANGED <<session, claimed, kept>>
      BY <2>9 DEF Answer
    <3>2. x \in Gots /\ Fits([task[t] EXCEPT !.got = x])
      BY <2>1, <2>9 DEF Gots, Fits
    <3> QED BY <1>2, <2>2, <3>1, <3>2 DEF Kept
  <2> QED BY <2>3, <2>4, <2>5, <2>6, <2>7, <2>8, <2>9
<1>5. PICK x \in Gots : /\ task' = [task EXCEPT ![t].got = x] /\ Fits([task[t] EXCEPT !.got = x])
                        /\ Kept' /\ session' \in Codes \cup {None}
                        /\ claimed' \in [Nonces -> Codes \cup {None, "open", "spent"}]
                        /\ session' # session => session' = None /\ what = "logout"
  BY <1>4
<1>8. Good(task') /\ \A u \in Tasks : task'[u].do = task[u].do /\ task'[u].in = task[u].in
  BY <1>2, <1>5, GotParts
<1>9. TInv'
  BY <1>1, <1>3, <1>5, <1>8 DEF TInv, TypeOK, instance, screen, panel
<1>10. Loaded'
  BY <1>1, <1>3, LoadedStays DEF screen
<1>11. Polled'
  BY <1>1, <1>3, <1>8 DEF Polled, Rewrites, panel
<1>12. Own'
  BY <1>1, <1>3, <1>5, <1>8 DEF Own, Sane, Leaving, panel
<1> QED BY <1>9, <1>10, <1>11, <1>12 DEF PInv

-----------------------------------------------------------------------------
\* Steps that may build the document anew.
LEMMA RedrawStep ==
    ASSUME PInv, Still, NEW d \in Lists, NEW b \in BOOLEAN, NEW f \in SUBSET Footers,
           NEW tasks, Good(tasks),
           drawn' = Drawing(d, b, f), shown' = FALSE, body' = [is |-> "empty"],
           task' = Forgetting(tasks), dojos' = d, backend' = b, footer' = f,
           {visible', timer', pending', mixed'} \subseteq BOOLEAN,
           me' \in Codes \cup {None}, UNCHANGED <<domain, polling, last>>, ~mixed' => Sane'
    PROVE  PInv'
<1>1. TInv
  BY DEF PInv
<1>2. /\ drawn' \in Pictures /\ drawn'.dojos = d /\ drawn'.backend = b /\ drawn'.footer = f
      /\ body' \in Bodies /\ Good(task')
  BY RenderParts
<1>3. TInv'
  <2>1. domain \in Domains /\ polling \subseteq Nonces /\ last \in Nonces \cup {None}
    BY <1>1 DEF TInv, TypeOK
  <2> QED BY <1>1, <1>2, <2>1, ShapeOf
<1>4. d # None
  BY DEF Lists
<1>5. Loaded'
  BY <1>2, <1>4 DEF Loaded
<1>6. Polled'
  BY NoChallenge
<1>7. Own'
  BY DEF Own
<1> QED BY <1>3, <1>5, <1>6, <1>7 DEF PInv

\* What a redraw leaves of a sign-out.
LEMMA ForgettingLasts ==
    ASSUME NEW t, t \in Tasks => task[t].do \notin {"logout", "left"},
           NEW tasks, Good(tasks), \A u \in Tasks : u # t => tasks[u] = task[u], task' = Forgetting(tasks)
    PROVE  Leaving => Leaving'
<1>1. \A u \in Tasks : u # t => task'[u].do = task[u].do
  BY ForgettingGood
<1> QED BY <1>1 DEF Leaving

LEMMA SaneQuiet == ASSUME Own, UNCHANGED <<me, domain, session>>, mixed => mixed', Leaving => Leaving'
                   PROVE  ~mixed' => Sane'
BY DEF Own, Sane

LEMMA OpenStep == ASSUME PInv, NEW t \in Tasks, OpenText(t) \/ OpenManage(t) PROVE PInv'
<1>1. TInv /\ Loaded /\ Own
  BY DEF PInv
<1>2. /\ Still /\ ~shown /\ shown' = TRUE /\ body' \in {[is |-> "text"], [is |-> "loading"]}
      /\ UNCHANGED <<dojos, backend, footer, drawn, visible, timer, pending, me, domain, polling, last, mixed>>
  BY DEF OpenText, OpenManage, Still, instance, screen, panel
<1>3. dojos # None
  BY <1>1 DEF OpenText, OpenManage, Loaded
<1>4. Good(task)
  BY <1>1 DEF TInv
<1>5. Good(task') /\ (Leaving => Leaving')
  <2>1. CASE task' = task
    <3>1. Good(task')
      BY <1>4, <2>1, Zenon
    <3> QED BY <2>1, <3>1 DEF Leaving
  <2>2. ASSUME NEW do \in {"text", "verify"}, Free(t), task' = [task EXCEPT ![t] = Asked(do, TRUE, None)]
        PROVE  Good(task') /\ (Leaving => Leaving')
    <3>1. Asked(do, TRUE, None) \in Records /\ Fits(Asked(do, TRUE, None))
      BY DEF Asked, Records, Fits, Gots, Doings
    <3>2. Good(task') /\ \A u \in Tasks : u # t => task'[u] = task[u]
      BY <1>4, <2>2, <3>1, SetParts
    <3> QED BY <2>2, <3>2, FreeIsQuiet DEF Leaving
  <2>3. CASE OpenManage(t)
    <3>1. Good(task') /\ \A u \in Tasks : u # t => task'[u] = task[u]
      BY <1>4, <2>3, AsksParts DEF OpenManage, Doings
    <3> QED BY <2>3, <3>1, FreeIsQuiet DEF Leaving, OpenManage
  <2> QED BY <2>1, <2>2, <2>3 DEF OpenText
<1>6. TInv'
  <2>1. body' \in Bodies
    BY <1>2, BodyKinds
  <2> QED BY <1>1, <1>2, <1>5, <2>1, ShapeOf DEF TInv, TypeOK, Pictures
<1>7. Loaded'
  BY <1>1, <1>2, <1>3 DEF Loaded
<1>8. Polled'
  BY <1>2, NoChallenge
<1>9. Own'
  <2>1. body'.is # "panel"
    BY <1>2
  <2> QED BY <1>1, <1>2, <1>5, <2>1, OwnQuiet DEF Still
<1> QED BY <1>6, <1>7, <1>8, <1>9 DEF PInv

LEMMA BootStep == ASSUME PInv, NEW t \in Tasks, LandBoot(t) PROVE PInv'
<1>1. TInv /\ Loaded /\ Own /\ Good(task) /\ {visible, timer, pending, mixed} \subseteq BOOLEAN
      /\ backend \in BOOLEAN /\ footer \in SUBSET Footers /\ me \in Codes \cup {None}
  BY DEF PInv, TInv, TypeOK
<1>2. /\ Still /\ UNCHANGED <<backend, footer, visible, pending, me, domain, polling, last, mixed>>
      /\ task[t].do = "boot" /\ Landing(t)
  BY DEF LandBoot, Still, instance, panel
<1>3. ~Rewrites(task[t], me) /\ task[t].do \notin {"logout", "left"}
  BY <1>2 DEF Rewrites
<1>4. CASE task[t].got = Error
  <2>1. task' = [task EXCEPT ![t] = Idle] /\ UNCHANGED <<dojos, timer, drawn, shown, body>>
    BY <1>4 DEF LandBoot, NotDrawn
  <2>2. Good(task') /\ \A u \in Tasks : u # t => task'[u] = task[u]
    BY <1>1, <2>1, IdleGood, SetParts
  <2> QED BY <1>1, <1>2, <1>3, <2>1, <2>2, AsideStep DEF Aside
<1>5. CASE task[t].got # Error
  <2> DEFINE new == [task EXCEPT ![t] = Asked("both", FALSE, None)]
  <2>1. /\ dojos' = task[t].got /\ timer' = TRUE
        /\ drawn' = Drawing(task[t].got, backend, footer) /\ shown' = FALSE /\ body' = [is |-> "empty"]
        /\ task' = Forgetting(new)
    BY <1>5 DEF LandBoot, Render
  <2>2. Good(new) /\ \A u \in Tasks : u # t => new[u] = task[u]
    <3> DEFINE r == Asked("both", FALSE, None)
    <3>1. new = [task EXCEPT ![t] = r]
      OBVIOUS
    <3>2. r \in Records /\ Fits(r)
      BY DEF Asked, Records, Fits, Gots, Doings
    <3>3. LET now == [task EXCEPT ![t] = r] IN Good(now) /\ \A u \in Tasks : u # t => now[u] = task[u]
      <4> HIDE DEF r
      <4> QED BY <1>1, <3>2, SetGood
    <3> HIDE DEF new, r
    <3> QED BY <3>1, <3>3
  <2> HIDE DEF new
  <2>3. task[t].got \in Lists
    BY <1>1, <1>2, <1>5, Answers
  <2>4. Leaving => Leaving'
    BY <1>3, <2>1, <2>2, ForgettingLasts
  <2>5. ~mixed' => Sane'
    BY <1>1, <1>2, <2>4, SaneQuiet DEF Still
  <2> QED BY <1>1, <1>2, <2>1, <2>2, <2>3, <2>5, RedrawStep
<1> QED BY <1>4, <1>5

LEMMA LandRefreshStep == ASSUME PInv, NEW t \in Tasks, LandRefresh(t) PROVE PInv'
<1>1. TInv /\ Loaded /\ Polled /\ Own /\ Good(task) /\ {visible, timer, pending, mixed, shown} \subseteq BOOLEAN
      /\ backend \in BOOLEAN /\ footer \in SUBSET Footers /\ me \in Codes \cup {None}
      /\ drawn \in Pictures /\ body \in Bodies
      /\ domain \in Domains /\ polling \subseteq Nonces /\ last \in Nonces \cup {None}
  BY DEF PInv, TInv, TypeOK, Pictures
<1>2. /\ Still /\ UNCHANGED <<backend, footer, visible, timer, me, domain, polling, last, mixed>>
      /\ task[t].do = "refresh" /\ Landing(t)
  BY DEF LandRefresh, Still, instance, panel
<1>3. ~Rewrites(task[t], me) /\ task[t].do \notin {"logout", "left"}
  BY <1>2 DEF Rewrites
<1>4. CASE task[t].got = Error
  <2>1. task' = [task EXCEPT ![t] = Idle] /\ UNCHANGED <<dojos, pending, drawn, shown, body>>
    BY <1>4 DEF LandRefresh, NotDrawn
  <2>2. Good(task') /\ \A u \in Tasks : u # t => task'[u] = task[u]
    BY <1>1, <2>1, IdleGood, SetParts
  <2> QED BY <1>1, <1>2, <1>3, <2>1, <2>2, AsideStep DEF Aside
<1>5. task[t].got # Error => task[t].got \in Lists /\ task[t].got # None
  BY <1>1, <1>2, Answers DEF Lists
<1>6. CASE task[t].got # Error /\ shown
  <2>1. /\ task' = [task EXCEPT ![t] = Idle] /\ UNCHANGED <<drawn, shown, body>>
        /\ dojos' = task[t].got /\ pending' = TRUE
    BY <1>6 DEF LandRefresh, NotDrawn
  <2>2. Good(task') /\ \A u \in Tasks : u # t => task'[u] = task[u]
    BY <1>1, <2>1, IdleGood, SetParts
  <2>3. TInv'
    BY <1>1, <1>2, <1>5, <1>6, <2>1, <2>2, ShapeOf
  <2>4. Loaded'
    BY <1>1, <1>2, <1>5, <1>6, <2>1 DEF Loaded
  <2>5. Polled'
    BY <1>1, <1>2, <1>3, <2>1, <2>2, OthersRewrite
  <2>6. Own'
    <3>1. Leaving => Leaving'
      BY <1>3, <2>2 DEF Leaving
    <3> QED BY <1>1, <1>2, <2>1, <3>1, OwnQuiet DEF Still
  <2> QED BY <2>3, <2>4, <2>5, <2>6 DEF PInv
<1>7. CASE task[t].got # Error /\ ~shown
  <2> DEFINE new == [task EXCEPT ![t] = Idle]
  <2>1. /\ dojos' = task[t].got /\ UNCHANGED pending
        /\ drawn' = Drawing(task[t].got, backend, footer) /\ shown' = FALSE /\ body' = [is |-> "empty"]
        /\ task' = Forgetting(new)
    BY <1>7 DEF LandRefresh, Render
  <2>2. Good(new) /\ \A u \in Tasks : u # t => new[u] = task[u]
    BY <1>1, FreedGood
  <2> HIDE DEF new
  <2>4. Leaving => Leaving'
    BY <1>3, <2>1, <2>2, ForgettingLasts
  <2>5. ~mixed' => Sane'
    BY <1>1, <1>2, <2>4, SaneQuiet DEF Still
  <2> QED BY <1>1, <1>2, <1>5, <1>7, <2>1, <2>2, <2>5, RedrawStep
<1> QED BY <1>1, <1>4, <1>6, <1>7

LEMMA FooterStep == ASSUME PInv, NEW t \in Tasks, LandFooter(t) PROVE PInv'
<1>1. TInv /\ Loaded /\ Own /\ Good(task) /\ {visible, timer, pending, mixed} \subseteq BOOLEAN
      /\ backend \in BOOLEAN /\ footer \in SUBSET Footers /\ me \in Codes \cup {None}
      /\ dojos \in Lists \cup {None}
  BY DEF PInv, TInv, TypeOK
<1>2. /\ Still /\ UNCHANGED <<dojos, backend, visible, timer, pending, me, domain, polling, last, mixed>>
      /\ task[t].do \in {"both"} \cup Footers /\ Landing(t)
  BY DEF LandFooter, Still, instance, panel
<1>3. ~Rewrites(task[t], me) /\ task[t].do \notin {"logout", "left"}
  BY <1>2 DEF Rewrites, Footers
<1>4. PICK it \in Footers, r \in {Idle} \cup {Asked(x, FALSE, None) : x \in Footers} :
         IF task[t].got = Error
           THEN NotDrawn([task EXCEPT ![t] = r]) /\ UNCHANGED footer
           ELSE footer' = footer \cup {it} /\ RenderIfLoaded(backend, footer', [task EXCEPT ![t] = r])
  <2>1. PICK it \in Footers :
           LET rest  == {x \in Footers : task[t].do = "both" /\ x # it}
               tasks == [task EXCEPT ![t] = IF rest = {} THEN Idle
                                            ELSE Asked(CHOOSE x \in rest : TRUE, FALSE, None)]
           IN  IF task[t].got = Error
                 THEN NotDrawn(tasks) /\ UNCHANGED footer
                 ELSE footer' = footer \cup {it} /\ RenderIfLoaded(backend, footer', tasks)
    BY DEF LandFooter
  <2> DEFINE rest == {x \in Footers : task[t].do = "both" /\ x # it}
             r == IF rest = {} THEN Idle ELSE Asked(CHOOSE x \in rest : TRUE, FALSE, None)
  <2>2. r \in {Idle} \cup {Asked(x, FALSE, None) : x \in Footers}
    <3>1. rest # {} => (CHOOSE x \in rest : TRUE) \in Footers
      OBVIOUS
    <3> QED BY <3>1
  <2>3. IF task[t].got = Error
          THEN NotDrawn([task EXCEPT ![t] = r]) /\ UNCHANGED footer
          ELSE footer' = footer \cup {it} /\ RenderIfLoaded(backend, footer', [task EXCEPT ![t] = r])
    BY <2>1
  <2> HIDE DEF r
  <2> QED BY <2>2, <2>3
<1>5. r \in Records /\ Fits(r)
  <2>1. \A x \in Footers : Asked(x, FALSE, None) \in Records /\ Fits(Asked(x, FALSE, None))
    BY DEF Asked, Records, Fits, Gots, Doings, Footers
  <2> QED BY <2>1, IdleGood
<1> DEFINE new == [task EXCEPT ![t] = r]
<1>6. Good(new) /\ \A u \in Tasks : u # t => new[u] = task[u]
  BY <1>1, <1>5, SetGood
<1>7. CASE task[t].got = Error
  <2>1. task' = [task EXCEPT ![t] = r] /\ UNCHANGED <<footer, drawn, shown, body>>
    BY <1>4, <1>7 DEF NotDrawn
  <2>2. Good(task') /\ \A u \in Tasks : u # t => task'[u] = task[u]
    BY <1>1, <1>5, <2>1, SetParts
  <2> QED BY <1>1, <1>2, <1>3, <2>1, <2>2, AsideStep DEF Aside
<1>8. CASE task[t].got # Error /\ dojos = None
  <2>1. task' = [task EXCEPT ![t] = r] /\ footer' = footer \cup {it} /\ UNCHANGED <<drawn, shown, body>>
    BY <1>4, <1>8 DEF RenderIfLoaded, NotDrawn
  <2>2. Good(task') /\ \A u \in Tasks : u # t => task'[u] = task[u]
    BY <1>1, <1>5, <2>1, SetParts
  <2>3. footer' \subseteq Footers
    BY <1>1, <2>1
  <2> QED BY <1>1, <1>2, <1>3, <1>8, <2>1, <2>2, <2>3, AsideStep DEF Aside
<1>9. CASE task[t].got # Error /\ dojos # None
  <2> DEFINE f == footer \cup {it}
  <2>1. /\ footer' = f
        /\ drawn' = Drawing(dojos, backend, f) /\ shown' = FALSE /\ body' = [is |-> "empty"]
        /\ task' = Forgetting(new)
    BY <1>4, <1>9 DEF RenderIfLoaded, Render
  <2>2. f \in SUBSET Footers
    BY <1>1
  <2> HIDE DEF new, f
  <2>3. Leaving => Leaving'
    BY <1>3, <1>6, <2>1, ForgettingLasts
  <2>4. ~mixed' => Sane'
    BY <1>1, <1>2, <2>3, SaneQuiet DEF Still
  <2>5. dojos \in Lists
    BY <1>1, <1>9
  <2> QED BY <1>1, <1>2, <1>6, <2>1, <2>2, <2>4, <2>5, RedrawStep
<1> QED BY <1>7, <1>8, <1>9

\* ME as the cookie has it: what was known of ME and DOMAIN fits it.
LEMMA SaneMe ==
    ASSUME Sane, NEW m, m = session
    PROVE  /\ m # None => domain \in {m, "nothing", "unknown"}
           /\ m = None /\ domain \notin {"nothing", "unknown"} => session \in {None, domain} /\ Leaving
BY DEF Sane

LEMMA BackendStep == ASSUME PInv, NEW t \in Tasks, LandBackend(t) PROVE PInv'
<1>1. TInv /\ Loaded /\ Polled /\ Own /\ Good(task) /\ {visible, timer, pending, mixed, shown} \subseteq BOOLEAN
      /\ backend \in BOOLEAN /\ footer \in SUBSET Footers /\ me \in Codes \cup {None}
      /\ dojos \in Lists \cup {None} /\ drawn \in Pictures /\ body \in Bodies
      /\ domain \in Domains /\ polling \subseteq Nonces /\ last \in Nonces \cup {None}
  BY DEF PInv, TInv, TypeOK, Pictures
<1>2. /\ Still /\ UNCHANGED <<dojos, footer, visible, timer, pending, domain, polling, last>>
      /\ task[t].do = "backend" /\ Landing(t) /\ mixed' = (mixed \/ task[t].got \notin {Error, session})
  BY DEF LandBackend, Still, instance
<1>3. ~Rewrites(task[t], me) /\ task[t].do \notin {"logout", "left"}
  BY <1>2 DEF Rewrites
<1>4. mixed' \in BOOLEAN /\ (mixed => mixed')
  BY <1>1, <1>2
<1>5. CASE task[t].got = Error
  <2>1. task' = [task EXCEPT ![t] = Idle] /\ UNCHANGED <<backend, me, drawn, shown, body>>
    BY <1>5 DEF LandBackend, NotDrawn
  <2>2. Good(task') /\ \A u \in Tasks : u # t => task'[u] = task[u]
    BY <1>1, <2>1, IdleGood, SetParts
  <2> QED BY <1>1, <1>2, <1>3, <1>4, <2>1, <2>2, AsideStep DEF Aside
<1>6. CASE task[t].got # Error
  <2> DEFINE new == [task EXCEPT ![t] = Idle]
  <2>1. /\ me' = task[t].got /\ backend' = TRUE
        /\ RenderIfLoaded(TRUE, footer, new)
    BY <1>6 DEF LandBackend
  <2>2. Good(new) /\ \A u \in Tasks : u # t => new[u] = task[u]
    BY <1>1, FreedGood
  <2>3. me' \in Codes \cup {None}
    BY <1>1, <1>2, <1>6, <2>1, Answers
  <2>4. ASSUME Leaving => Leaving', ~mixed' PROVE Sane'
    <3>1. Sane /\ me' = session /\ session' = session /\ domain' = domain
      BY <1>1, <1>2, <1>4, <1>6, <2>1, <2>4 DEF Own, Still
    <3>2. /\ me' # None => domain \in {me', "nothing", "unknown"}
          /\ me' = None /\ domain \notin {"nothing", "unknown"} => session \in {None, domain} /\ Leaving
      BY <3>1 DEF Sane
    <3> QED BY <2>4, <3>1, <3>2 DEF Sane
  <2>5. CASE dojos # None
    <3>1. /\ drawn' = Drawing(dojos, TRUE, footer) /\ shown' = FALSE /\ body' = [is |-> "empty"]
          /\ task' = Forgetting(new)
      BY <2>1, <2>5 DEF RenderIfLoaded, Render
    <3> HIDE DEF new
    <3>2. Leaving => Leaving'
      BY <1>3, <2>2, <3>1, ForgettingLasts
    <3>3. dojos \in Lists
      BY <1>1, <2>5
    <3> QED BY <1>1, <1>2, <1>4, <2>1, <2>2, <2>3, <2>4, <3>1, <3>2, <3>3, RedrawStep
  <2>6. CASE dojos = None
    <3>1. task' = [task EXCEPT ![t] = Idle] /\ UNCHANGED <<drawn, shown, body>>
      BY <2>1, <2>6 DEF RenderIfLoaded, NotDrawn
    <3>2. Good(task') /\ \A u \in Tasks : u # t => task'[u] = task[u]
      BY <1>1, <3>1, IdleGood, SetParts
    <3>3. TInv'
      BY <1>1, <1>2, <1>4, <2>1, <2>3, <3>1, <3>2, ShapeOf
    <3>4. ~shown /\ Loaded'
      BY <1>1, <1>2, <2>1, <2>6, <3>1 DEF Loaded
    <3>5. Polled'
      BY <3>1, <3>4, NoChallenge
    <3>6. Leaving => Leaving'
      BY <1>3, <3>2 DEF Leaving
    <3>7. Own'
      BY <1>1, <1>4, <2>4, <3>1, <3>6 DEF Own
    <3> QED BY <3>3, <3>4, <3>5, <3>7 DEF PInv
  <2> QED BY <2>5, <2>6
<1> QED BY <1>5, <1>6

LEMMA TextStep == ASSUME PInv, NEW t \in Tasks, LandText(t) PROVE PInv'
<1>1. TInv /\ Loaded /\ Polled /\ Own /\ Good(task) /\ footer \subseteq Footers
      /\ {visible, timer, pending, mixed, shown, backend} \subseteq BOOLEAN
      /\ me \in Codes \cup {None}
      /\ dojos \in Lists \cup {None} /\ drawn \in Pictures /\ body \in Bodies
      /\ domain \in Domains /\ polling \subseteq Nonces /\ last \in Nonces \cup {None}
  BY DEF PInv, TInv, TypeOK, Pictures
<1>2. /\ Still /\ UNCHANGED <<dojos, backend, drawn, visible, timer, pending, shown, me, domain, polling, last, mixed>>
      /\ task[t].do \in {"text", "verify"} /\ task' = [task EXCEPT ![t] = Idle]
      /\ body' = body \/ body' = [is |-> "text"]
      /\ footer' = footer \/ footer' = footer \cup {"operator"}
  BY DEF LandText, Still, instance, panel
<1>3. ~Rewrites(task[t], me) /\ task[t].do \notin {"logout", "left"}
  BY <1>2 DEF Rewrites
<1>4. Good(task') /\ \A u \in Tasks : u # t => task'[u] = task[u]
  BY <1>1, <1>2, IdleGood, SetParts
<1>5. TInv'
  <2>1. body' \in Bodies /\ footer' \subseteq Footers
    BY <1>1, <1>2, BodyKinds DEF Footers
  <2> QED BY <1>1, <1>2, <1>4, <2>1, ShapeOf
<1>6. Loaded'
  BY <1>1, <1>2, LoadedStays
<1>7. Polled'
  <2>1. CASE body' = body
    BY <1>1, <1>2, <1>3, <1>4, <2>1, OthersRewrite
  <2>2. CASE body' = [is |-> "text"]
    BY <2>2, NoChallenge
  <2> QED BY <1>2, <2>1, <2>2
<1>8. Own'
  <2>1. Leaving => Leaving'
    BY <1>3, <1>4 DEF Leaving
  <2>2. body' = body \/ body'.is # "panel"
    BY <1>2
  <2> QED BY <1>1, <1>2, <2>1, <2>2, OwnQuiet DEF Still
<1> QED BY <1>5, <1>6, <1>7, <1>8 DEF PInv

-----------------------------------------------------------------------------
(***************************************************************************)
(* The panel, action by action.                                            *)
(***************************************************************************)
LEMMA PanelTypes ==
    ASSUME PInv
    PROVE  /\ TInv /\ Loaded /\ Polled /\ Own /\ Good(task)
           /\ {visible, timer, pending, mixed, shown, backend} \subseteq BOOLEAN
           /\ me \in Codes \cup {None} /\ session \in Codes \cup {None}
           /\ dojos \in Lists \cup {None} /\ drawn \in Pictures /\ body \in Bodies
           /\ footer \subseteq Footers
           /\ domain \in Domains /\ polling \subseteq Nonces /\ last \in Nonces \cup {None}
BY DEF PInv, TInv, TypeOK, Pictures

LEMMA MeStep == ASSUME PInv, NEW t \in Tasks, LandMe(t) PROVE PInv'
<1>1. \E m, d : /\ m = (IF task[t].got = Error THEN me ELSE task[t].got) /\ d = domain
                /\ RenderManage(t, m, d)
  BY DEF LandMe, RenderManage
<1>2. PICK m, d : /\ m = (IF task[t].got = Error THEN me ELSE task[t].got) /\ d = domain
                  /\ RenderManage(t, m, d)
  BY <1>1
<1>3. /\ UNCHANGED <<instance, kept, session, claimed, screen, shown>>
      /\ mixed' = (mixed \/ task[t].got \notin {Error, session})
      /\ task[t].do = "me" /\ Landing(t)
  BY DEF LandMe
<1>4. m \in Codes \cup {None} /\ d \in Domains
  BY <1>2, <1>3, PanelTypes, Answers
<1>5. mixed' \in BOOLEAN /\ (mixed => mixed')
  BY <1>3, PanelTypes
<1>6. ASSUME ~mixed'
      PROVE  /\ m # None => d \in {m, "nothing", "unknown"}
             /\ m = None /\ d \notin {"nothing", "unknown"} => session \in {None, d} /\ Leaving
             /\ m # None /\ session # None => m = session
             /\ m # None /\ session = None => Leaving
  <2>1. Sane /\ m \in {me, session}
    BY <1>2, <1>3, <1>6, PanelTypes DEF Own
  <2> QED BY <1>2, <2>1 DEF Sane
<1> QED BY <1>2, <1>3, <1>4, <1>5, <1>6, ManageKeeps

LEMMA DomainStep == ASSUME PInv, NEW t \in Tasks, LandDomain(t) PROVE PInv'
<1> DEFINE d == IF task[t].got \in {Error, None} THEN "nothing" ELSE task[t].got
<1>1. /\ Still /\ UNCHANGED <<dojos, backend, footer, drawn, visible, timer, pending, shown>>
      /\ mixed' = (mixed \/ task[t].got \notin {Error, session} \/ task[t].got \notin {Error, None, me})
      /\ task[t].do \in {"domain", "changed"} /\ Landing(t)
      /\ UNCHANGED <<instance, kept, session, claimed, screen, shown>>
  BY DEF LandDomain, Still, instance, screen
<1>2. mixed' \in BOOLEAN /\ (mixed => mixed')
  BY <1>1, PanelTypes
<1>3. d \in Domains
  BY <1>1, PanelTypes, Answers DEF Domains
<1>4. ~mixed' => Sane /\ d \in {"nothing", me} /\ (d # "nothing" => me # None)
  BY <1>1, PanelTypes DEF Own
<1>5. ASSUME Leaving => Leaving', ~mixed', UNCHANGED me, domain' = d PROVE Sane'
  <2>1. session' = session
    BY <1>1
  <2> QED BY <1>4, <1>5, <2>1 DEF Sane
<1>6. CASE task[t].do = "changed" /\ RenderManage(t, me, d)
  <2>1. \E m, x : m = me /\ x = d /\ RenderManage(t, m, x)
    BY <1>6 DEF RenderManage
  <2>2. PICK m, x : m = me /\ x = d /\ RenderManage(t, m, x)
    BY <2>1
  <2>3. m \in Codes \cup {None} /\ x \in Domains
    BY <1>3, <2>2, PanelTypes
  <2>4. ASSUME ~mixed'
        PROVE  /\ m # None => x \in {m, "nothing", "unknown"}
               /\ m = None /\ x \notin {"nothing", "unknown"} => FALSE
               /\ m # None /\ session # None => m = session
               /\ m # None /\ session = None => Leaving
    <3> HIDE DEF d
    <3> QED BY <1>4, <2>2, <2>4 DEF Sane
  <2> QED BY <1>1, <1>2, <1>6, <2>2, <2>3, <2>4, ManageKeeps
<1>7. CASE /\ task[t].do = "changed" /\ domain' = d /\ Asks(t, "me")
           /\ UNCHANGED <<body, me, polling, last>>
  <2> HIDE DEF d
  <2>1. Good(task') /\ task'[t].do = "me" /\ \A u \in Tasks : u # t => task'[u] = task[u]
    BY <1>7, PanelTypes, AsksParts DEF Doings
  <2>2. TInv'
    BY <1>1, <1>2, <1>3, <1>7, <2>1, PanelTypes, ShapeOf
  <2>3. Loaded'
    BY <1>1, PanelTypes, LoadedStays
  <2>4. Polled'
    BY <2>1 DEF Polled, Rewrites
  <2>5. Leaving => Leaving'
    BY <1>7, <2>1 DEF Leaving
  <2>6. Own'
    BY <1>2, <1>5, <1>7, <2>5, PanelTypes DEF Own
  <2> QED BY <2>2, <2>3, <2>4, <2>6 DEF PInv
<1>8. CASE task[t].do = "domain"
  <2>1. /\ domain' = d /\ task' = [task EXCEPT ![t] = Idle] /\ UNCHANGED <<me, polling, last>>
        /\ body' = IF task[t].in /\ me # None THEN [is |-> "panel", me |-> me, domain |-> d] ELSE body
    BY <1>8 DEF LandDomain
  <2> HIDE DEF d
  <2>2. Good(task') /\ \A u \in Tasks : u # t => task'[u] = task[u]
    BY <2>1, PanelTypes, IdleGood, SetParts
  <2>3. CASE task[t].in /\ me # None
    <3>1. body' = [is |-> "panel", me |-> me, domain |-> d]
      BY <2>1, <2>3
    <3>2. body' \in Bodies
      BY <1>3, <2>3, <3>1, PanelTypes, BodyKinds
    <3>3. TInv'
      BY <1>1, <1>2, <1>3, <2>1, <2>2, <3>2, PanelTypes, ShapeOf
    <3>4. Loaded'
      BY <1>1, PanelTypes, LoadedStays
    <3>5. Polled'
      BY <3>1, NoChallenge
    <3>6. Leaving => Leaving'
      BY <1>8, <2>2 DEF Leaving
    <3>7. body'.me = me /\ body'.domain = d
      BY <3>1
    <3>8. Own'
      BY <1>4, <1>5, <2>1, <3>6, <3>7, <1>2 DEF Own
    <3> QED BY <3>3, <3>4, <3>5, <3>8 DEF PInv
  <2>4. CASE ~(task[t].in /\ me # None)
    <3>1. body' = body
      BY <2>1, <2>4
    <3>2. TInv'
      BY <1>1, <1>2, <1>3, <2>1, <2>2, <3>1, PanelTypes, ShapeOf
    <3>3. Loaded'
      BY <1>1, PanelTypes, LoadedStays
    <3>4. ~Rewrites(task[t], me)
      BY <1>8, <2>4 DEF Rewrites
    <3>5. Polled'
      BY <1>1, <2>1, <2>2, <3>1, <3>4, PanelTypes, OthersRewrite
    <3>6. Leaving => Leaving'
      BY <1>8, <2>2 DEF Leaving
    <3>7. Own'
      BY <1>2, <1>5, <2>1, <3>1, <3>6, PanelTypes DEF Own
    <3> QED BY <3>2, <3>3, <3>5, <3>7 DEF PInv
  <2> QED BY <2>3, <2>4
<1> QED BY <1>1, <1>6, <1>7, <1>8 DEF LandDomain

LEMMA ChallengeStep == ASSUME PInv, NEW t \in Tasks, LandChallenge(t) PROVE PInv'
<1>1. /\ Still /\ UNCHANGED <<dojos, backend, footer, drawn, visible, timer, pending, shown, me, domain, mixed>>
      /\ task[t].do = "challenge" /\ Landing(t) /\ task' = [task EXCEPT ![t] = Idle]
  BY DEF LandChallenge, Still, instance, screen
<1>2. ~Rewrites(task[t], me) /\ task[t].do \notin {"logout", "left"}
  BY <1>1 DEF Rewrites
<1>3. Good(task') /\ \A u \in Tasks : u # t => task'[u] = task[u]
  BY <1>1, PanelTypes, IdleGood, SetParts
<1>4. CASE task[t].got = Error
  <2>1. UNCHANGED <<body, polling, last>>
    BY <1>4 DEF LandChallenge
  <2> QED BY <1>1, <1>2, <1>3, <2>1, PanelTypes, AsideStep DEF Aside
<1>5. CASE task[t].got # Error
  <2>1. PICK n \in Nonces : n = task[t].got
    BY <1>1, <1>5, PanelTypes, Answers
  <2>2. /\ body' = IF body.is \in {"login", "challenge"} THEN [is |-> "challenge", nonce |-> n] ELSE body
        /\ polling' = polling \cup {n} /\ last' = n
    BY <1>5, <2>1 DEF LandChallenge
  <2>3. body' \in Bodies /\ polling' \subseteq Nonces /\ last' \in Nonces \cup {None}
    BY <2>2, PanelTypes, BodyKinds
  <2>4. TInv'
    BY <1>1, <1>3, <2>3, PanelTypes, ShapeOf
  <2>5. Loaded'
    BY <1>1, PanelTypes, LoadedStays
  <2>6. Polled'
    BY <2>2 DEF Polled
  <2>7. Leaving => Leaving'
    BY <1>2, <1>3 DEF Leaving
  <2>8. body' = body \/ body'.is # "panel"
    BY <2>2
  <2>9. Own'
    BY <1>1, <2>7, <2>8, PanelTypes, OwnQuiet DEF Still
  <2> QED BY <2>4, <2>5, <2>6, <2>9 DEF PInv
<1> QED BY <1>4, <1>5

LEMMA LandPollStep == ASSUME PInv, NEW t \in Tasks, LandPoll(t) PROVE PInv'
<1>1. /\ UNCHANGED <<instance, kept, claimed, screen, shown, body, me, domain>>
      /\ UNCHANGED <<dojos, backend, footer, drawn, visible, timer, pending>>
      /\ task[t].do = "poll" /\ Landing(t)
      /\ mixed' = (mixed \/ (task[t].got # Error /\ (me \notin {None, task[t].got} \/ Leaving)))
  BY DEF LandPoll, screen
<1>2. ~Rewrites(task[t], me) /\ task[t].do \notin {"logout", "left"}
  BY <1>1 DEF Rewrites
<1>3. mixed' \in BOOLEAN /\ (mixed => mixed')
  BY <1>1, PanelTypes
<1>4. CASE task[t].got = Error
  <2>1. task' = [task EXCEPT ![t] = Idle] /\ UNCHANGED <<session, polling, last>>
    BY <1>4 DEF LandPoll
  <2>2. Good(task') /\ \A u \in Tasks : u # t => task'[u] = task[u]
    BY <2>1, PanelTypes, IdleGood, SetParts
  <2>3. Still /\ Aside
    BY <1>1, <2>1 DEF Still, Aside, instance
  <2> QED BY <1>1, <1>2, <1>3, <2>2, <2>3, PanelTypes, AsideStep
<1>5. CASE task[t].got # Error
  <2>1. PICK c \in Codes : c = task[t].got
    BY <1>1, <1>5, PanelTypes, Answers
  <2>2. session' = c /\ polling' = polling \ {last} /\ last' = None /\ Asks(t, "me")
    BY <1>5, <2>1 DEF LandPoll
  <2>3. Good(task') /\ task'[t].do = "me" /\ \A u \in Tasks : u # t => task'[u] = task[u]
    BY <2>2, PanelTypes, AsksParts DEF Doings
  <2>4. TInv'
    BY <1>1, <1>3, <2>2, <2>3, PanelTypes DEF TInv, TypeOK, Kept, instance
  <2>5. Loaded'
    BY <1>1, PanelTypes, LoadedStays
  <2>6. Polled'
    BY <2>3 DEF Polled, Rewrites
  <2>7. Own'
    <3>1. ~mixed' => ~mixed /\ me \in {None, c} /\ ~Leaving
      BY <1>1, <1>5, <2>1
    <3>2. ~mixed' => Sane'
      <4>1. c # None
        OBVIOUS
      <4> QED BY <1>1, <2>2, <3>1, <4>1, PanelTypes DEF Own, Sane
    <3> QED BY <1>1, <3>1, <3>2, PanelTypes DEF Own
  <2> QED BY <2>4, <2>5, <2>6, <2>7 DEF PInv
<1> QED BY <1>4, <1>5

LEMMA LogoutStep == ASSUME PInv, NEW t \in Tasks, LandLogout(t) PROVE PInv'
<1>1. /\ Still /\ UNCHANGED <<dojos, backend, footer, drawn, visible, timer, pending, shown, body, me, domain, mixed>>
      /\ task[t].do = "logout" /\ Landing(t)
      /\ polling' = polling \ {last} /\ last' = None /\ Asks(t, "left")
  BY DEF LandLogout, Still, instance, screen
<1>2. Good(task') /\ task'[t].do = "left" /\ \A u \in Tasks : u # t => task'[u] = task[u]
  BY <1>1, PanelTypes, AsksParts DEF Doings
<1>3. TInv'
  BY <1>1, <1>2, PanelTypes, ShapeOf
<1>4. Loaded'
  BY <1>1, PanelTypes, LoadedStays
<1>5. Polled'
  BY <1>2 DEF Polled, Rewrites
<1>6. Leaving => Leaving'
  BY <1>2 DEF Leaving
<1>7. Own'
  BY <1>1, <1>6, PanelTypes, OwnQuiet DEF Still
<1> QED BY <1>3, <1>4, <1>5, <1>7 DEF PInv

LEMMA LeftStep == ASSUME PInv, NEW t \in Tasks, LandLeft(t) PROVE PInv'
<1>1. \E m, d : m = None /\ d = "unknown" /\ RenderManage(t, m, d)
  BY DEF LandLeft, RenderManage
<1>2. PICK m, d : m = None /\ d = "unknown" /\ RenderManage(t, m, d)
  BY <1>1
<1>3. UNCHANGED <<instance, kept, session, claimed, screen, shown, mixed>> /\ task[t].do = "left"
  BY DEF LandLeft
<1>4. m \in Codes \cup {None} /\ d \in Domains
  BY <1>2 DEF Domains
<1>5. mixed' \in BOOLEAN /\ (mixed => mixed')
  BY <1>3, PanelTypes
<1> QED BY <1>2, <1>3, <1>4, <1>5, ManageKeeps

\* The panel drawn again for who is signed in, with what is known of the domain
\* or with nothing.
LEMMA AgainKeeps ==
    ASSUME PInv, NEW t \in Tasks, task[t].do \notin {"logout", "left"},
           NEW m, m = me, NEW d \in {domain, "nothing"}, RenderManage(t, m, d),
           UNCHANGED <<instance, kept, session, claimed, screen, shown, mixed>>
    PROVE  PInv'
<1>1. m \in Codes \cup {None} /\ d \in Domains
  BY PanelTypes DEF Domains
<1>2. mixed' \in BOOLEAN /\ (mixed => mixed')
  BY PanelTypes
<1>3. ASSUME ~mixed'
      PROVE  /\ m # None => d \in {m, "nothing", "unknown"}
             /\ m = None /\ d \notin {"nothing", "unknown"} => session \in {None, d} /\ Leaving
             /\ m # None /\ session # None => m = session
             /\ m # None /\ session = None => Leaving
  BY <1>3, PanelTypes DEF Own, Sane
<1> QED BY <1>1, <1>2, <1>3, ManageKeeps

LEMMA LandActStep == ASSUME PInv, NEW t \in Tasks, LandAct(t) PROVE PInv'
<1>1. /\ task[t].do \in {"edit", "act"}
      /\ UNCHANGED <<instance, kept, session, claimed, screen, shown, mixed>>
  BY DEF LandAct
<1>2. ~Rewrites(task[t], me) /\ task[t].do \notin {"logout", "left"}
  BY <1>1 DEF Rewrites
<1>3. CASE RenderManage(t, me, domain)
  <2>1. \E m, d : m = me /\ d = domain /\ RenderManage(t, m, d)
    BY <1>3 DEF RenderManage
  <2>2. PICK m, d : m = me /\ d = domain /\ RenderManage(t, m, d)
    BY <2>1
  <2>3. d \in {domain, "nothing"}
    BY <2>2
  <2> QED BY <1>1, <1>2, <2>2, <2>3, AgainKeeps
<1>4. CASE /\ UNCHANGED <<body, me, domain, polling, last>>
           /\ Asks(t, "me") \/ Asks(t, "changed") \/ task' = [task EXCEPT ![t] = Idle]
  <2>1. Good(task') /\ \A u \in Tasks : u # t => task'[u] = task[u]
    BY <1>4, PanelTypes, AsksParts, SetParts, IdleGood DEF Doings
  <2>2. Still /\ Aside /\ UNCHANGED <<visible, timer, mixed>>
    BY <1>1, <1>4 DEF Still, Aside, instance, screen
  <2> QED BY <1>2, <2>1, <2>2, PanelTypes, AsideStep
<1> QED BY <1>3, <1>4 DEF LandAct

LEMMA RewriteStep == ASSUME PInv, NEW t \in Tasks, Rewrite(t) PROVE PInv'
<1>1. Free(t) /\ UNCHANGED <<instance, kept, session, claimed, screen, shown, mixed>>
  BY DEF Rewrite
<1>2. \E d \in {domain, "nothing"} : \E m : m = me /\ RenderManage(t, m, d)
  BY DEF Rewrite, RenderManage
<1>3. PICK d \in {domain, "nothing"} : \E m : m = me /\ RenderManage(t, m, d)
  BY <1>2
<1>4. PICK m : m = me /\ RenderManage(t, m, d)
  BY <1>3
<1> QED BY <1>1, <1>4, FreeIsQuiet, AgainKeeps

-----------------------------------------------------------------------------
LEMMA PageStart == Init => PInv
<1> SUFFICES ASSUME Init PROVE PInv
  OBVIOUS
<1>1. TInv
  BY StartShape
<1>2. drawn.dojos = None /\ drawn.backend = FALSE
  <2>1. drawn = Drawing(None, FALSE, {})
    BY DEF Init
  <2>2. \A b \in BOOLEAN : Drawing(None, b, {}).dojos = None /\ Drawing(None, b, {}).backend = b
    BY DrawingType
  <2> QED BY <2>1, <2>2, Zenon
<1> QED BY <1>1, <1>2 DEF Init, PInv, Loaded, Polled, Own, Sane

LEMMA PageStep == PInv /\ [Next]_vars => PInv'
<1> SUFFICES ASSUME PInv, [Next]_vars PROVE PInv'
  OBVIOUS
<1>1. CASE UNCHANGED vars
  <2>1. Still /\ UNCHANGED <<dojos, backend, footer, drawn, visible, timer, pending, shown, body, me, domain,
                             polling, last, task, mixed>>
    BY <1>1 DEF vars, Still, instance, screen, panel
  <2> QED BY <2>1 DEF Still, PInv, TInv, TypeOK, Kept, Good, Loaded, Polled, Rewrites, Own, Sane, Leaving
<1>2. ASSUME NEW t \in Tasks, Land(t) PROVE PInv'
  BY <1>2, BootStep, LandRefreshStep, FooterStep, BackendStep, TextStep, MeStep, DomainStep,
     ChallengeStep, LandPollStep, LogoutStep, LeftStep, LandActStep DEF Land
<1>3. ASSUME NEW t \in Tasks,
             \/ OpenText(t) \/ OpenManage(t) \/ Logout(t) \/ Act(t, "edit") \/ Act(t, "act")
             \/ Rewrite(t) \/ Interval(t) \/ Return(t)
             \/ \E lost \in BOOLEAN : Answer(t, lost)
             \/ \E n \in Nonces : Poll(t, n)
      PROVE  PInv'
  BY <1>3, OpenStep, ActStep, RewriteStep, RefreshStep, AnswerStep, PollStep
<1> QED BY <1>1, <1>2, <1>3, CloseStep, ToggleStep, OutsideStep DEF Next

LEMMA PageAlways == Spec => []PInv
BY PageStart, PageStep, PTL DEF Spec

\* The shapes of the page, and what may answer what: a list, a session, a
\* challenge, whatever the service worker kept and whenever it arrives.
THEOREM PageTypes == Spec => [](TypeOK /\ Good(task))
<1>1. PInv => TypeOK /\ Good(task)
  BY DEF PInv, TInv
<1> QED BY <1>1, PageAlways, PTL

\* With no dialog open the document shows the list, the Manage button and the
\* build hash that the page has by then, for every order in which refreshes,
\* /api/me, version.json and clicks arrive (app.js render, refreshData,
\* closeModal).
THEOREM ScreenIsCurrent == Spec => []ScreenCurrent
<1>1. PInv => ScreenCurrent
  BY DEF PInv, Loaded, ScreenCurrent
<1> QED BY <1>1, PageAlways, PTL

\* A challenge on the screen is asked for or about to be replaced, and the
\* domain shown is of the code that is shown as signed in (app.js renderManage,
\* refreshMe, refreshDomain, startAuth47, stopPoll, logout).
THEOREM PanelIsHonest == Spec => []PanelHonest
<1>1. PInv => PanelHonest
  BY DEF PInv, Polled, Own, PanelHonest, ChallengePolled, OwnDomain, Rewrites
<1> QED BY <1>1, PageAlways, PTL

-----------------------------------------------------------------------------
(***************************************************************************)
(* Cards: the order. Facts about any length are shown by the least number  *)
(* for which they would fail.                                              *)
(***************************************************************************)
LEMMA LeastNumber ==
    ASSUME NEW T \in SUBSET Nat, T # {}
    PROVE  \E m \in T : \A n \in T : m <= n
<1> DEFINE R == OpToRel(<, Nat)
<1>1. IsWellFoundedOn(R, Nat) BY NatLessThanWellFounded
<1>2. \A m, n \in Nat : n < m => <<n, m>> \in R BY DEF OpToRel
<1> HIDE DEF R
<1>3. PICK m \in T : \A n \in T : ~ (<<n, m>> \in R) BY <1>1, WFMin
<1>4. ASSUME NEW n \in T PROVE m <= n
  <2>1. ~(n < m) BY <1>2, <1>3
  <2> QED BY <2>1
<1> QED BY <1>4

LEMMA EveryNumber ==
    ASSUME NEW S, 0 \in S, \A n \in Nat : n \in S => n + 1 \in S
    PROVE  Nat \subseteq S
<1> DEFINE T == {n \in Nat : n \notin S}
<1>1. SUFFICES ASSUME T # {} PROVE FALSE BY DEF T
<1>2. PICK m \in T : \A n \in T : m <= n BY <1>1, LeastNumber
<1>3. m \in Nat /\ m # 0 BY <1>2
<1>4. m - 1 \in Nat /\ m - 1 \notin T BY <1>2, <1>3
<1> QED BY <1>2, <1>3, <1>4, (m - 1) + 1 = m

\* The sums of the beginnings of a sequence exist.
LEMMA SumsExist ==
    ASSUME NEW s \in Seq(Int)
    PROVE  \E f : f = [k \in 0..Len(s) |-> IF k = 0 THEN 0 ELSE f[k - 1] + s[k]]
<1> DEFINE E(f, n) == f = [k \in 0..n |-> IF k = 0 THEN 0 ELSE f[k - 1] + s[k]]
           S == {n \in Nat : \E f : E(f, n)}
<1>1. 0 \in S
  <2> DEFINE g == [k \in 0..0 |-> 0]
  <2>1. E(g, 0)
    <3>1. \A k \in 0..0 : g[k] = IF k = 0 THEN 0 ELSE g[k - 1] + s[k] OBVIOUS
    <3> QED BY <3>1
  <2> QED BY <2>1
<1>2. ASSUME NEW n \in Nat, n \in S PROVE n + 1 \in S
  <2>1. PICK f : E(f, n) BY <1>2
  <2> DEFINE g == [k \in 0..(n + 1) |-> IF k = n + 1 THEN f[n] + s[k] ELSE f[k]]
  <2>2. ASSUME NEW k \in 0..(n + 1)
        PROVE  g[k] = IF k = 0 THEN 0 ELSE g[k - 1] + s[k]
    <3>1. CASE k = n + 1
      <4>1. g[k] = f[n] + s[k] BY <3>1
      <4>2. g[k - 1] = f[n] BY <3>1
      <4>3. k # 0 BY <3>1
      <4> HIDE DEF g
      <4> QED BY <4>1, <4>2, <4>3
    <3>2. CASE k # n + 1
      <4>1. k \in 0..n BY <3>2
      <4>2. g[k] = f[k] BY <3>2
      <4>3. f[k] = IF k = 0 THEN 0 ELSE f[k - 1] + s[k] BY <2>1, <4>1
      <4>4. k # 0 => g[k - 1] = f[k - 1] BY <4>1
      <4> HIDE DEF g
      <4> QED BY <4>2, <4>3, <4>4
    <3> QED BY <3>1, <3>2
  <2>3. E(g, n + 1)
    <3> DEFINE h == [k \in 0..(n + 1) |-> IF k = 0 THEN 0 ELSE g[k - 1] + s[k]]
    <3>1. \A k \in 0..(n + 1) : g[k] = h[k]
      <4> HIDE DEF g
      <4> QED BY <2>2
    <3>2. DOMAIN g = 0..(n + 1) /\ DOMAIN h = 0..(n + 1) OBVIOUS
    <3>3. g = h BY <3>1, <3>2
    <3> HIDE DEF g
    <3> QED BY <3>3
  <2>4. \E f1 : E(f1, n + 1)
    <3> HIDE DEF g, E
    <3> QED BY <2>3
  <2> HIDE DEF E
  <2> QED BY <2>4
<1>3. Nat \subseteq S
  <2> HIDE DEF S
  <2> QED BY <1>1, <1>2, EveryNumber
<1>4. Len(s) \in S
  <2> HIDE DEF S
  <2> QED BY <1>3
<1> QED BY <1>4

LEMMA SumType ==
    ASSUME NEW s \in Seq(Int)
    PROVE  Sum(s) \in Int
<1> DEFINE f == CHOOSE f : f = [k \in 0..Len(s) |-> IF k = 0 THEN 0 ELSE f[k - 1] + s[k]]
<1>1. f = [k \in 0..Len(s) |-> IF k = 0 THEN 0 ELSE f[k - 1] + s[k]]
  BY SumsExist
<1>2. Sum(s) = f[Len(s)] BY DEF Sum
<1> HIDE DEF f
<1> DEFINE S == {n \in Nat : n <= Len(s) => f[n] \in Int}
<1>3. 0 \in S BY <1>1
<1>4. ASSUME NEW n \in Nat, n \in S PROVE n + 1 \in S
  <2>1. SUFFICES ASSUME n + 1 <= Len(s) PROVE f[n + 1] \in Int OBVIOUS
  <2>2. n + 1 \in 0..Len(s) /\ n + 1 # 0 /\ (n + 1) - 1 = n /\ n + 1 \in 1..Len(s) BY <2>1
  <2>3. f[n + 1] = f[n] + s[n + 1] BY <1>1, <2>2
  <2>4. f[n] \in Int BY <1>4, <2>1
  <2>5. s[n + 1] \in Int BY <2>2
  <2> QED BY <2>3, <2>4, <2>5
<1>5. Nat \subseteq S
  <2> HIDE DEF S
  <2> QED BY <1>3, <1>4, EveryNumber
<1> QED BY <1>2, <1>5

LEMMA MeanType ==
    ASSUME NEW s \in Seq(Int)
    PROVE  Mean(s) \in Int
<1>1. CASE s = <<>> BY <1>1 DEF Mean, NoHistory
<1>2. CASE s # <<>>
  <2>1. Len(s) \in Nat /\ Len(s) > 0 BY <1>2
  <2>2. 1000 * Sum(s) \in Int BY SumType
  <2>3. (1000 * Sum(s)) \div Len(s) \in Int BY <2>1, <2>2
  <2> QED BY <1>2, <2>3 DEF Mean
<1> QED BY <1>1, <1>2

LEMMA WeekType ==
    ASSUME NEW d \in Cycles \cup {Nil}, NEW x \in Nodes
    PROVE  Week(d, x) \in Int
<1>1. CASE d = Nil BY <1>1 DEF Week, NoHistory
<1>2. CASE d # Nil
  <2> DEFINE s == DaysOf[d][x]
  <2>1. s \in Seq(0..100) BY <1>2, CardsAssumption
  <2>3. Week(d, x) = Mean(Last7(s)) BY <1>2 DEF Week
  <2> HIDE DEF s
  <2>2. s \in Seq(Int)
    <3>1. 0..100 \subseteq Int OBVIOUS
    <3>2. PICK R : R = 0..100 OBVIOUS
    <3>3. s \in Seq(R) /\ R \subseteq Int BY <2>1, <3>1, <3>2
    <3> QED BY <3>3, SeqMonotonic
  <2>4. Last7(s) \in Seq(Int)
    <3> DEFINE m == IF Len(s) > 7 THEN Len(s) - 6 ELSE 1
    <3>1. m \in 1..(Len(s) + 1) /\ Len(s) \in Nat BY <2>2
    <3>2. Last7(s) = SubSeq(s, m, Len(s)) BY DEF Last7
    <3> HIDE DEF m
    <3> QED BY <2>2, <3>1, <3>2
  <2> QED BY <2>3, <2>4, MeanType
<1> QED BY <1>1, <1>2

LEMMA TodayType ==
    ASSUME NEW c \in Cycles, NEW x \in Nodes
    PROVE  Today(c, x) \in Int
<1> DEFINE s == ChecksOf[c][x]
           t == [i \in DOMAIN s |-> IF s[i] THEN 100 ELSE 0]
<1>1. s \in Seq(BOOLEAN) BY CardsAssumption
<1>2. Today(c, x) = Mean(t) BY DEF Today
<1> HIDE DEF s
<1>3. t \in Seq(Int)
  <2>1. DOMAIN s = 1..Len(s) /\ Len(s) \in Nat BY <1>1
  <2>2. t \in [1..Len(s) -> Int] BY <2>1
  <2> HIDE DEF t
  <2> QED BY <2>1, <2>2
<1> HIDE DEF t
<1> QED BY <1>2, <1>3, MeanType

-----------------------------------------------------------------------------
\* byUptime compares numbers: it is irreflexive, and what does not come before
\* something does not come before what comes after that.
LEMMA UptimeOrders ==
    ASSUME NEW c \in Cycles, NEW d \in Cycles \cup {Nil},
           NEW x \in Nodes, NEW y \in Nodes, NEW z \in Nodes
    PROVE  /\ ~ByUptime(c, d, x, x)
           /\ ByUptime(c, d, x, y) => ~ByUptime(c, d, y, x)
           /\ ~ByUptime(c, d, x, y) /\ ~ByUptime(c, d, y, z) => ~ByUptime(c, d, x, z)
<1>1. Week(d, x) \in Int /\ Week(d, y) \in Int /\ Week(d, z) \in Int BY WeekType
<1>2. Today(c, x) \in Int /\ Today(c, y) \in Int /\ Today(c, z) \in Int BY TodayType
<1>3. NameOf[x] \in Nat /\ NameOf[y] \in Nat /\ NameOf[z] \in Nat BY CardsAssumption
<1> QED BY <1>1, <1>2, <1>3 DEF ByUptime

\* Of the nodes of a list there is one that may come last.
LEMMA OneIsLast ==
    ASSUME NEW c \in Cycles, NEW d \in Cycles \cup {Nil}, NEW S \in SUBSET Nodes, S # {}
    PROVE  \E x \in S : \A y \in S : ~ByUptime(c, d, x, y)
<1> DEFINE Ends(U) == \E x \in U : \A y \in U : ~ByUptime(c, d, x, y)
           P == {n \in Nat : \A U \in SUBSET Nodes : Cardinality(U) = n + 1 => Ends(U)}
<1>f. \A U \in SUBSET Nodes : IsFiniteSet(U) BY CardsAssumption, FS_Subset
<1>1. 0 \in P
  <2>1. ASSUME NEW U \in SUBSET Nodes, Cardinality(U) = 0 + 1 PROVE Ends(U)
    <3>1. PICK x : U = {x}
      <4>1. Cardinality(U) = 1 BY <2>1
      <4> QED BY <1>f, <4>1, FS_Singleton
    <3>2. x \in Nodes BY <3>1
    <3> QED BY <3>1, <3>2, UptimeOrders
  <2> HIDE DEF Ends
  <2> QED BY <2>1
<1>2. ASSUME NEW n \in Nat, n \in P PROVE n + 1 \in P
  <2>1. ASSUME NEW U \in SUBSET Nodes, Cardinality(U) = (n + 1) + 1 PROVE Ends(U)
    <3>1. U # {} BY <1>f, <2>1, FS_EmptySet
    <3>2. PICK y \in U : TRUE BY <3>1
    <3> DEFINE V == U \ {y}
    <3>3. V \in SUBSET Nodes /\ Cardinality(V) = n + 1
      <4>1. Cardinality(V) = Cardinality(U) - 1 BY <1>f, <3>2, FS_RemoveElement
      <4> QED BY <4>1, <2>1
    <3>4. Ends(V)
      <4> HIDE DEF V, Ends
      <4> QED BY <1>2, <3>3
    <3>5. PICK x \in V : \A z \in V : ~ByUptime(c, d, x, z) BY <3>4
    <3>6. x \in U /\ x \in Nodes /\ y \in Nodes BY <3>2, <3>5
    <3>7. CASE ByUptime(c, d, x, y)
      <4>1. ~ByUptime(c, d, y, x) /\ ~ByUptime(c, d, y, y) BY <3>6, <3>7, UptimeOrders
      <4>2. ASSUME NEW z \in U PROVE ~ByUptime(c, d, y, z)
        <5>1. CASE z = y BY <4>1, <5>1
        <5>2. CASE z # y
          <6>1. ~ByUptime(c, d, x, z) /\ z \in Nodes BY <3>5, <5>2
          <6> QED BY <3>6, <4>1, <6>1, UptimeOrders
        <5> QED BY <5>1, <5>2
      <4> QED BY <3>2, <4>2
    <3>8. CASE ~ByUptime(c, d, x, y)
      <4>1. \A z \in U : ~ByUptime(c, d, x, z) BY <3>5, <3>8
      <4> QED BY <3>6, <4>1
    <3> QED BY <3>7, <3>8
  <2> HIDE DEF Ends
  <2> QED BY <2>1
<1>3. Nat \subseteq P
  <2> HIDE DEF P
  <2> QED BY <1>1, <1>2, EveryNumber
<1>4. Cardinality(S) - 1 \in Nat /\ (Cardinality(S) - 1) + 1 = Cardinality(S)
  <2>1. Cardinality(S) \in Nat /\ Cardinality(S) # 0 BY <1>f, FS_CardinalityType, FS_EmptySet
  <2> QED BY <2>1
<1>5. \A U \in SUBSET Nodes : Cardinality(U) = Cardinality(S) => Ends(U)
  <2>1. Cardinality(S) - 1 \in P BY <1>3, <1>4
  <2> HIDE DEF Ends
  <2> QED BY <1>4, <2>1
<1> QED BY <1>5

\* So the nodes of a list can be put in order: render finds its row.
LEMMA RowExists ==
    ASSUME NEW c \in Cycles, NEW d \in Cycles \cup {Nil}, NEW S \in SUBSET Nodes
    PROVE  \E row \in Rows(S) : Sorted(c, d, row)
<1> DEFINE Has(U) == \E row \in Rows(U) : Sorted(c, d, row)
           P == {n \in Nat : \A U \in SUBSET Nodes : Cardinality(U) = n => Has(U)}
<1>f. \A U \in SUBSET Nodes : IsFiniteSet(U) BY CardsAssumption, FS_Subset
<1>1. 0 \in P
  <2>1. ASSUME NEW U \in SUBSET Nodes, Cardinality(U) = 0 PROVE Has(U)
    <3> DEFINE row == [i \in 1..0 |-> 0]
    <3>1. row \in [1..Cardinality(U) -> U] /\ DOMAIN row = {} BY <2>1
    <3> HIDE DEF row
    <3>2. row \in Rows(U) /\ Sorted(c, d, row) BY <3>1 DEF Rows, Sorted
    <3> QED BY <3>2
  <2> HIDE DEF Has
  <2> QED BY <2>1
<1>2. ASSUME NEW n \in Nat, n \in P PROVE n + 1 \in P
  <2>1. ASSUME NEW U \in SUBSET Nodes, Cardinality(U) = n + 1 PROVE Has(U)
    <3>1. U # {} BY <1>f, <2>1, FS_EmptySet
    <3>2. PICK x \in U : \A y \in U : ~ByUptime(c, d, x, y) BY <3>1, OneIsLast
    <3> DEFINE V == U \ {x}
    <3>3. V \in SUBSET Nodes /\ Cardinality(V) = n
      <4>1. Cardinality(V) = Cardinality(U) - 1 BY <1>f, <3>2, FS_RemoveElement
      <4> QED BY <4>1, <2>1
    <3>4. Has(V)
      <4> HIDE DEF V, Has
      <4> QED BY <1>2, <3>3
    <3>5. PICK q \in Rows(V) : Sorted(c, d, q) BY <3>4
    <3>6. /\ q \in [1..n -> V] /\ \A i, j \in 1..n : q[i] = q[j] => i = j
          /\ \A i, j \in 1..n : i < j => ~ByUptime(c, d, q[j], q[i])
      BY <3>3, <3>5 DEF Rows, Sorted
    <3> DEFINE row == [i \in 1..(n + 1) |-> IF i = n + 1 THEN x ELSE q[i]]
    <3>7. /\ row \in [1..(n + 1) -> U] /\ row[n + 1] = x
          /\ \A i \in 1..n : row[i] = q[i] /\ row[i] \in V
      BY <3>2, <3>6
    <3> HIDE DEF row
    <3>8. row \in Rows(U)
      <4>1. ASSUME NEW i \in 1..(n + 1), NEW j \in 1..(n + 1), row[i] = row[j] PROVE i = j
        <5>1. CASE i \in 1..n /\ j \in 1..n BY <3>6, <3>7, <4>1, <5>1
        <5>2. CASE i = n + 1 /\ j # n + 1
          <6>1. j \in 1..n BY <5>2
          <6> QED BY <3>7, <4>1, <5>2, <6>1
        <5>3. CASE j = n + 1 /\ i # n + 1
          <6>1. i \in 1..n BY <5>3
          <6> QED BY <3>7, <4>1, <5>3, <6>1
        <5> QED BY <5>1, <5>2, <5>3
      <4> QED BY <2>1, <3>7, <4>1 DEF Rows
    <3>9. ASSUME NEW i \in 1..(n + 1), NEW j \in 1..(n + 1), i < j
          PROVE  ~ByUptime(c, d, row[j], row[i])
      <4>1. i \in 1..n /\ row[i] = q[i] /\ row[i] \in U BY <3>7, <3>9
      <4>2. CASE j = n + 1 BY <3>2, <3>7, <4>1, <4>2
      <4>3. CASE j # n + 1
        <5>1. j \in 1..n BY <4>3
        <5> QED BY <3>6, <3>7, <3>9, <4>1, <5>1
      <4> QED BY <4>2, <4>3
    <3>10. Sorted(c, d, row) BY <3>7, <3>9 DEF Sorted
    <3> QED BY <3>8, <3>10
  <2> HIDE DEF Has
  <2> QED BY <2>1
<1>3. Nat \subseteq P
  <2> HIDE DEF P
  <2> QED BY <1>1, <1>2, EveryNumber
<1>4. Cardinality(S) \in P BY <1>3, <1>f, FS_CardinalityType
<1> QED BY <1>4

LEMMA RowSorted ==
    ASSUME NEW v \in Cycles, NEW c \in Cycles, NEW d \in Cycles \cup {Nil}, NEW n \in Nets
    PROVE  Row(v, c, d, n) \in Rows(Listed[v][n]) /\ Sorted(c, d, Row(v, c, d, n))
<1>1. Listed[v][n] \in SUBSET Nodes BY CardsAssumption
<1>2. \E row \in Rows(Listed[v][n]) : Sorted(c, d, row) BY <1>1, RowExists
<1> QED BY <1>2 DEF Row

\* What is in order is in the order of the week's uptime.
LEMMA SortedByWeek ==
    ASSUME NEW c \in Cycles, NEW d \in Cycles \cup {Nil}, NEW S \in SUBSET Nodes,
           NEW row \in Rows(S), Sorted(c, d, row)
    PROVE  \A i, j \in DOMAIN row : i < j => Week(d, row[i]) >= Week(d, row[j])
<1> SUFFICES ASSUME NEW i \in DOMAIN row, NEW j \in DOMAIN row, i < j
             PROVE  Week(d, row[i]) >= Week(d, row[j])
  OBVIOUS
<1>1. row[i] \in Nodes /\ row[j] \in Nodes BY DEF Rows
<1>2. Week(d, row[i]) \in Int /\ Week(d, row[j]) \in Int BY <1>1, WeekType
<1>3. ~(Week(d, row[j]) > Week(d, row[i])) BY DEF Sorted, ByUptime
<1> QED BY <1>2, <1>3

-----------------------------------------------------------------------------
(***************************************************************************)
(* Cards: any nodes, cycles, histories and clicks.                         *)
(***************************************************************************)
Load   == [days: Cycles \cup {Pending, Nil}, poll: 1..MaxPolls]
Shown  == Commands \cup {"pair", "domproof"}

\* The first refresh lands on a page that has drawn nothing.
FirstOfAll ==
    polls = 1 /\ poll # Nil =>
        cards = Nil /\ popup = Nil /\ HIST90 = 1 /\ Len(loads) = 1 /\ loads[1].poll = 1

\* What is drawn comes of the list the page has, unless a redraw was put off; so
\* does the load that is cached.
CardsCurrent ==
    /\ cards # Nil => cards.of = DOJOS.of \/ (deferred /\ popup # Nil)
    /\ cards # Nil /\ HIST90 # 0 => loads[HIST90].poll = DOJOS.poll
    /\ cards # Nil => DOJOS \in [of: Cycles, poll: 1..MaxPolls]

StripsOwn == cards # Nil /\ cards.strips # 0 => loads[cards.strips].poll = cards.poll

\* A dialog is what its button wrote for the node of its title; the picker will
\* write it again for the same node and the same cycle.
DialogKept ==
    popup # Nil =>
        LET b == popup.body IN
        /\ cards # Nil /\ b = HTML(b.is, popup.title, b.of, b.port)
        /\ ~b.empty
        /\ b.is \in Commands =>
             b.port = PORT /\ REOPEN = [is |-> b.is, node |-> popup.title, of |-> b.of]
        /\ b.is = "pair" => b.of = DOJOS.of \/ deferred

ClipKept ==
    clip # Nil =>
        /\ clip.what.node = clip.from.title
        /\ clip.what = clip.from.body \/ clip.late

CardsInv ==
    /\ CardsTypeOK /\ FirstOfAll /\ CardsCurrent /\ StripsOwn /\ DialogKept /\ ClipKept

-----------------------------------------------------------------------------
\* What HTML writes.
Written(b, is, x, v, p) ==
    /\ b \in [is: Shown, node: Nodes, of: Cycles, port: Ports, empty: BOOLEAN]
    /\ b.is = is /\ b.node = x /\ b.of = v /\ b.port = p
    /\ is \in Commands => b.empty = ("apikey" \notin Signed[v][x])
    /\ is = "domproof" => b.empty = ("proof" \notin Signed[v][x])
    /\ is = "pair"     => ~b.empty

LEMMA HTMLParts ==
    ASSUME NEW is \in Shown, NEW x \in Nodes, NEW v \in Cycles, NEW p \in Ports
    PROVE  Written(HTML(is, x, v, p), is, x, v, p)
<1> USE DEF Written
<1>1. CASE is = "checkself"
  BY <1>1 DEF HTML, CheckSelfHTML, Shown, Commands
<1>2. CASE is = "rescan"
  BY <1>2 DEF HTML, RescanHTML, CheckSelfHTML, Shown, Commands
<1>3. CASE is = "domproof"
  BY <1>3 DEF HTML, DomainProofHTML, Shown, Commands
<1>4. CASE is = "pair"
  BY <1>4 DEF HTML, PairHTML, Shown, Commands
<1> QED BY <1>1, <1>2, <1>3, <1>4 DEF Shown, Commands

\* What is drawn of a list with a load that is cached or a new one.
LEMMA DrawParts ==
    ASSUME NEW l \in [of: Cycles, poll: 1..MaxPolls], NEW c, NEW d, NEW n, NEW h \in 0..Len(loads),
           loads \in Seq(Load), h # 0 => loads[h].poll = l.poll,
           Draw(l, c, d, n, h)
    PROVE  /\ cards'.of = l.of /\ cards'.strips \in 0..Len(loads') /\ HIST90' \in 0..Len(loads')
           /\ loads' \in Seq(Load)
           /\ cards'.strips # 0 => loads'[cards'.strips].poll = cards'.poll
           /\ HIST90' # 0 => loads'[HIST90'].poll = l.poll
<1> DEFINE row == Row(l.of, c, d, n)
           use == IF row = <<>> THEN [h90 |-> h, loads |-> loads] ELSE Cached(h, loads, l.poll)
<1>1. /\ cards'.of = l.of /\ cards'.poll = l.poll
      /\ cards'.strips = IF row = <<>> THEN 0 ELSE use.h90
      /\ HIST90' = use.h90 /\ loads' = use.loads
  BY Zenon DEF Draw
<1>2. CASE row = <<>>
  <2>1. HIST90' = h /\ loads' = loads /\ cards'.strips = 0
    BY <1>1, <1>2
  <2> QED BY <1>1, <2>1
<1>3. CASE row # <<>> /\ h # 0
  <2>1. HIST90' = h /\ loads' = loads /\ cards'.strips = h
    BY <1>1, <1>3 DEF Cached
  <2> QED BY <1>1, <1>3, <2>1
<1>4. CASE row # <<>> /\ h = 0
  <2> DEFINE x == [days |-> Pending, poll |-> l.poll]
  <2>1. HIST90' = Len(loads) + 1 /\ loads' = Append(loads, x) /\ cards'.strips = Len(loads) + 1
    BY <1>1, <1>4 DEF Cached
  <2>2. x \in Load /\ x.poll = l.poll
    BY DEF Load
  <2> HIDE DEF x
  <2>3. loads' \in Seq(Load) /\ Len(loads') = Len(loads) + 1 /\ loads'[Len(loads) + 1] = x
    BY <2>1, <2>2
  <2> QED BY <1>1, <2>1, <2>2, <2>3
<1> QED BY <1>2, <1>3, <1>4

-----------------------------------------------------------------------------
(***************************************************************************)
(* The refreshes.                                                          *)
(***************************************************************************)
\* What the visitor has before them stays.
LEMMA ScreenStays ==
    ASSUME CardsInv, UNCHANGED <<DOJOS, HIST90, cards, popup, REOPEN, PORT, deferred, clip>>,
           Len(loads') = Len(loads), \A i \in 1..Len(loads) : loads'[i].poll = loads[i].poll,
           CardsTypeOK', FirstOfAll'
    PROVE  CardsInv'
<1>1. HIST90 \in 0..Len(loads) /\ (cards # Nil => cards.strips \in 0..Len(loads)) /\ Len(loads) \in Nat
  BY DEF CardsInv, CardsTypeOK
<1>2. CardsCurrent'
  BY <1>1 DEF CardsInv, CardsCurrent
<1>3. StripsOwn'
  BY <1>1 DEF CardsInv, StripsOwn
<1>4. DialogKept'
  BY DEF CardsInv, DialogKept
<1>5. ClipKept'
  BY DEF CardsInv, ClipKept
<1> QED BY <1>2, <1>3, <1>4, <1>5 DEF CardsInv

LEMMA FilesKeep ==
    ASSUME CardsInv, Update \/ Refresh \/ FileAnswers \/ PollFails
    PROVE  CardsInv'
<1> USE DEF CardsInv
<1>1. CASE Update
  <2>1. UNCHANGED <<poll, polls, DOJOS, HIST, HIST90, loads, DAILY, cards, overtaken,
                    net, popup, REOPEN, PORT, deferred, clip, turns, unsigned>>
    BY <1>1 DEF Update, reader
  <2>2. news' \in [list: Cycles, checks: Cycles, days: Cycles]
    BY <1>1 DEF Update, CardsTypeOK
  <2>3. CardsTypeOK' /\ FirstOfAll'
    BY <2>1, <2>2 DEF CardsTypeOK, FirstOfAll
  <2> QED BY <2>1, <2>3, ScreenStays
<1>2. CASE Refresh
  <2>1. /\ UNCHANGED <<news, DOJOS, HIST, HIST90, loads, DAILY, cards, overtaken,
                       net, popup, REOPEN, PORT, deferred, clip, turns, unsigned>>
        /\ polls < MaxPolls /\ polls' = polls + 1 /\ poll' = [list |-> Pending, checks |-> Pending]
    BY <1>2 DEF Refresh, reader
  <2>2. polls' \in 1..MaxPolls /\ polls' # 1
    BY <2>1, CardsAssumption DEF CardsTypeOK
  <2>3. CardsTypeOK' /\ FirstOfAll'
    BY <2>1, <2>2 DEF CardsTypeOK, FirstOfAll
  <2> QED BY <2>1, <2>3, ScreenStays
<1>3. CASE FileAnswers
  <2>1. UNCHANGED <<news, polls, DOJOS, HIST, HIST90, loads, DAILY, cards, overtaken,
                    net, popup, REOPEN, PORT, deferred, clip, turns, unsigned>>
    BY <1>3 DEF FileAnswers, reader
  <2>2. poll # Nil /\ poll' \in [list: Cycles \cup {Pending, Failed}, checks: Cycles \cup {Pending, Failed}]
    BY <1>3 DEF FileAnswers, CardsTypeOK
  <2>3. CardsTypeOK' /\ FirstOfAll'
    BY <2>1, <2>2 DEF CardsTypeOK, FirstOfAll
  <2> QED BY <2>1, <2>3, ScreenStays
<1>4. CASE PollFails
  <2>1. /\ UNCHANGED <<news, polls, DOJOS, HIST, HIST90, loads, DAILY, cards, overtaken,
                       net, popup, REOPEN, PORT, deferred, clip, turns, unsigned>>
        /\ poll' = Nil
    BY <1>4 DEF PollFails, reader
  <2>2. CardsTypeOK' /\ FirstOfAll'
    BY <2>1 DEF CardsTypeOK, FirstOfAll
  <2> QED BY <2>1, <2>2, ScreenStays
<1> QED BY <1>1, <1>2, <1>3, <1>4

LEMMA DaysKeep == ASSUME CardsInv, NEW k \in DOMAIN loads, DaysLand(k) PROVE CardsInv'
<1>1. /\ UNCHANGED <<news, poll, polls, DOJOS, HIST, HIST90, cards,
                     net, popup, REOPEN, PORT, deferred, clip, turns, unsigned>>
      /\ overtaken' = (overtaken \/ k # HIST90)
  BY DEF DaysLand, reader
<1>2. PICK a \in {news.days, Nil} : loads' = [loads EXCEPT ![k].days = a] /\ DAILY' = a
  BY DEF DaysLand
<1>3. loads \in Seq(Load) /\ a \in Cycles \cup {Nil} /\ k \in 1..Len(loads)
  BY <1>2 DEF CardsInv, CardsTypeOK, Load
<1>4. loads[k] \in Load
  BY <1>3
<1> DEFINE x == [loads[k] EXCEPT !.days = a]
<1>5. x \in Load /\ x.poll = loads[k].poll
  BY <1>3, <1>4 DEF Load
<1>6. loads' = [loads EXCEPT ![k] = x]
  BY <1>2
<1> HIDE DEF x
<1>7. loads' \in Seq(Load) /\ Len(loads') = Len(loads) /\ \A i \in 1..Len(loads) : loads'[i].poll = loads[i].poll
  BY <1>3, <1>5, <1>6
<1>8. overtaken' \in BOOLEAN
  BY <1>1
<1>9. CardsTypeOK'
  BY <1>1, <1>2, <1>3, <1>7, <1>8 DEF CardsInv, CardsTypeOK, Load
<1>10. FirstOfAll'
  BY <1>1, <1>7 DEF CardsInv, FirstOfAll
<1> QED BY <1>1, <1>7, <1>9, <1>10, ScreenStays

\* The refresh that lands: drawn at once, or put off under an open dialog.
LEMMA GotKeeps == ASSUME CardsInv, FirstLands \/ PollLands PROVE CardsInv'
<1>1. PICK d \in Cycles \cup {Nil}, h \in {0, HIST90} :
         Got(d, h) /\ (h = 0 \/ (h = HIST90 /\ polls = 1))
  BY DEF FirstLands, PollLands, CardsInv, CardsTypeOK
<1> DEFINE l == [of |-> poll.list, poll |-> polls]
<1>2. /\ poll # Nil /\ poll.list \in Cycles /\ poll.checks \in Cycles /\ polls \in 1..MaxPolls
      /\ poll' = Nil /\ HIST' = poll.checks /\ DAILY' = d /\ DOJOS' = l
      /\ deferred' = (deferred \/ popup # Nil)
      /\ UNCHANGED <<news, polls, overtaken, net, popup, REOPEN, PORT, clip, turns, unsigned>>
  BY <1>1 DEF Got, Answered, CardsInv, CardsTypeOK
<1>3. l \in [of: Cycles, poll: 1..MaxPolls]
  BY <1>2
<1>4. loads \in Seq(Load) /\ h \in 0..Len(loads) /\ (h # 0 => loads[h].poll = l.poll)
  <2>1. loads \in Seq(Load) /\ HIST90 \in 0..Len(loads) /\ Len(loads) \in Nat
    BY DEF CardsInv, CardsTypeOK, Load
  <2>2. h # 0 => h = 1 /\ loads[1].poll = 1 /\ polls = 1
    BY <1>1, <1>2 DEF CardsInv, FirstOfAll
  <2> QED BY <1>1, <2>1, <2>2
<1> HIDE DEF l
<1>5. l.of \in Cycles /\ l.poll \in 1..MaxPolls
  BY <1>3
<1>6. FirstOfAll'
  BY <1>2 DEF FirstOfAll
<1>7. ClipKept'
  BY <1>2 DEF CardsInv, ClipKept
<1>8. deferred' \in BOOLEAN
  BY <1>2
<1>9. CASE popup # Nil
  <2>1. HIST90' = h /\ UNCHANGED <<loads, cards>> /\ deferred'
    BY <1>1, <1>2, <1>9 DEF Got
  <2>2. cards # Nil /\ h = 0
    BY <1>1, <1>2, <1>9 DEF CardsInv, DialogKept, FirstOfAll
  <2>3. CardsTypeOK'
    BY <1>2, <1>3, <1>4, <1>8, <2>1 DEF CardsInv, CardsTypeOK
  <2>4. CardsCurrent'
    BY <1>2, <1>3, <1>9, <2>1, <2>2 DEF CardsCurrent
  <2>5. StripsOwn'
    BY <2>1 DEF CardsInv, StripsOwn
  <2>6. DialogKept'
    BY <1>2, <2>1, <2>2 DEF CardsInv, DialogKept
  <2> QED BY <1>6, <1>7, <2>3, <2>4, <2>5, <2>6 DEF CardsInv
<1>10. CASE popup = Nil
  <2>1. Draw(DOJOS', poll.checks, d, net, h)
    BY <1>1, <1>10, Zenon DEF Got
  <2>2. /\ cards'.of = l.of /\ cards'.strips \in 0..Len(loads') /\ HIST90' \in 0..Len(loads')
        /\ loads' \in Seq(Load)
        /\ cards'.strips # 0 => loads'[cards'.strips].poll = cards'.poll
        /\ HIST90' # 0 => loads'[HIST90'].poll = l.poll
    BY <1>2, <1>3, <1>4, <2>1, DrawParts
  <2>3. CardsTypeOK'
    BY <1>2, <1>3, <1>5, <1>8, <2>2 DEF CardsInv, CardsTypeOK, Load
  <2>4. CardsCurrent'
    BY <1>2, <1>3, <2>2 DEF CardsCurrent
  <2>5. StripsOwn'
    BY <2>2 DEF StripsOwn
  <2>6. DialogKept'
    BY <1>2, <1>10 DEF DialogKept
  <2> QED BY <1>6, <1>7, <2>3, <2>4, <2>5, <2>6 DEF CardsInv
<1> QED BY <1>9, <1>10

-----------------------------------------------------------------------------
(***************************************************************************)
(* The visitor.                                                            *)
(***************************************************************************)
LEMMA RedrawKeeps ==
    ASSUME CardsInv, cards # Nil, NEW n \in Nets, Draw(DOJOS, HIST, DAILY, n, HIST90),
           popup' = Nil, net' \in Nets, turns' \in 0..MaxTurns,
           deferred' \in BOOLEAN, unsigned' \in BOOLEAN,
           UNCHANGED <<news, poll, polls, DOJOS, HIST, DAILY, overtaken, PORT, clip>>
    PROVE  CardsInv'
<1>1. /\ DOJOS \in [of: Cycles, poll: 1..MaxPolls] /\ loads \in Seq(Load)
      /\ HIST90 \in 0..Len(loads) /\ (HIST90 # 0 => loads[HIST90].poll = DOJOS.poll)
  BY DEF CardsInv, CardsCurrent, CardsTypeOK, Load
<1>2. /\ cards'.of = DOJOS.of /\ cards'.strips \in 0..Len(loads') /\ HIST90' \in 0..Len(loads')
      /\ loads' \in Seq(Load)
      /\ cards'.strips # 0 => loads'[cards'.strips].poll = cards'.poll
      /\ HIST90' # 0 => loads'[HIST90'].poll = DOJOS.poll
  BY <1>1, DrawParts
<1>3. DOJOS.of \in Cycles
  BY <1>1
<1>4. CardsTypeOK'
  BY <1>2, <1>3 DEF CardsInv, CardsTypeOK, Load
<1>5. FirstOfAll'
  BY DEF CardsInv, FirstOfAll
<1>6. CardsCurrent'
  BY <1>1, <1>2 DEF CardsCurrent
<1>7. StripsOwn' /\ DialogKept'
  BY <1>2 DEF StripsOwn, DialogKept
<1>8. ClipKept'
  BY DEF CardsInv, ClipKept
<1> QED BY <1>4, <1>5, <1>6, <1>7, <1>8 DEF CardsInv

LEMMA RedrawsKeep ==
    ASSUME CardsInv, FooterLands \/ (\E n \in Nets : ShowNet(n)) \/ (Close /\ deferred)
    PROVE  CardsInv'
<1>1. turns \in 0..MaxTurns /\ net \in Nets /\ deferred \in BOOLEAN /\ unsigned \in BOOLEAN /\ MaxTurns \in Nat
  BY CardsAssumption DEF CardsInv, CardsTypeOK
<1>2. CASE FooterLands
  BY <1>1, <1>2, RedrawKeeps DEF FooterLands
<1>3. ASSUME NEW n \in Nets, ShowNet(n) PROVE CardsInv'
  <2>1. turns' \in 0..MaxTurns
    BY <1>1, <1>3 DEF ShowNet, Turn
  <2> QED BY <1>1, <1>3, <2>1, RedrawKeeps DEF ShowNet
<1>4. CASE Close /\ deferred
  <2>1. turns' \in 0..MaxTurns
    BY <1>1, <1>4 DEF Close, Turn
  <2> QED BY <1>1, <1>4, <2>1, RedrawKeeps DEF Close
<1> QED BY <1>2, <1>3, <1>4

LEMMA OpenKeeps ==
    ASSUME CardsInv, NEW is \in Shown, NEW x \in Nodes, Open(is, x)
    PROVE  CardsInv'
<1> DEFINE v == DOJOS.of
           b == HTML(is, x, v, PORT)
           p == [title |-> x, body |-> b]
<1>0. turns' \in 0..MaxTurns
  <2>1. turns \in 0..MaxTurns /\ MaxTurns \in Nat /\ turns < MaxTurns /\ turns' = turns + 1
    BY CardsAssumption DEF Open, Turn, CardsInv, CardsTypeOK
  <2> QED BY <2>1
<1>1. /\ cards # Nil /\ popup = Nil /\ is \in Offered(cards.of, x)
      /\ popup' = p
      /\ is \in Commands => REOPEN' = [is |-> is, node |-> x, of |-> v]
      /\ UNCHANGED <<news, poll, polls, DOJOS, HIST, HIST90, loads, DAILY, cards, overtaken,
                     net, PORT, deferred, clip, unsigned>>
  BY DEF Open, reader
<1>2. v \in Cycles /\ cards.of = v /\ PORT \in Ports
  BY <1>1 DEF CardsInv, CardsCurrent, CardsTypeOK
<1>3. Written(b, is, x, v, PORT)
  BY <1>2, HTMLParts
<1>4. ~b.empty
  <2>1. CASE is \in Commands
    <3>1. "apikey" \in Signed[v][x]
      BY <1>1, <1>2, <2>1, Zenon DEF Offered, Commands
    <3> QED BY <1>3, <2>1, <3>1 DEF Written
  <2>2. CASE is = "domproof"
    <3>1. "proof" \in Signed[v][x]
      BY <1>1, <1>2, <2>2 DEF Offered, Commands
    <3> QED BY <1>3, <2>2, <3>1 DEF Written
  <2>3. CASE is = "pair"
    BY <1>3, <2>3 DEF Written
  <2> QED BY <2>1, <2>2, <2>3 DEF Shown
<1>5. b = HTML(b.is, x, b.of, b.port)
  BY <1>3 DEF Written
<1> HIDE DEF b
<1>6. p \in Dialogs
  BY <1>3 DEF Dialogs, Shown, Written
<1>7. p.title = x /\ p.body = b
  OBVIOUS
<1> HIDE DEF p
<1>8. CardsTypeOK'
  BY <1>0, <1>1, <1>6 DEF CardsInv, CardsTypeOK
<1>9. FirstOfAll'
  BY <1>1 DEF CardsInv, FirstOfAll
<1>10. CardsCurrent' /\ StripsOwn' /\ ClipKept'
  BY <1>1 DEF CardsInv, CardsCurrent, StripsOwn, ClipKept
<1>11. DialogKept'
  BY <1>1, <1>3, <1>4, <1>5, <1>7 DEF DialogKept, Written
<1> QED BY <1>8, <1>9, <1>10, <1>11 DEF CardsInv

LEMMA PickKeeps == ASSUME CardsInv, NEW p \in Ports, PickPort(p) PROVE CardsInv'
<1> DEFINE b == popup.body
           c == HTML(b.is, popup.title, b.of, p)
<1>1. /\ popup # Nil /\ b.is \in Commands /\ turns' \in 0..MaxTurns /\ PORT' = p
      /\ REOPEN = [is |-> b.is, node |-> popup.title, of |-> b.of]
      /\ UNCHANGED <<news, poll, polls, DOJOS, HIST, HIST90, loads, DAILY, cards, overtaken,
                     net, REOPEN, deferred, clip, unsigned>>
  BY CardsAssumption DEF PickPort, Turn, CardsInv, CardsTypeOK, DialogKept
<1>2. /\ popup \in Dialogs /\ popup.title \in Nodes /\ b.is \in Shown /\ b.of \in Cycles
      /\ b.port \in Ports /\ ~b.empty /\ cards # Nil /\ b = HTML(b.is, popup.title, b.of, b.port)
      /\ b.is # "pair"
  BY <1>1 DEF CardsInv, CardsTypeOK, Dialogs, Shown, DialogKept, Commands
<1>4. Written(c, b.is, popup.title, b.of, p)
  BY <1>2, HTMLParts
<1>5. Written(b, b.is, popup.title, b.of, b.port)
  <2>1. Written(HTML(b.is, popup.title, b.of, b.port), b.is, popup.title, b.of, b.port)
    BY <1>2, HTMLParts
  <2> QED BY <1>2, <2>1
<1>6. c = HTML(c.is, popup.title, c.of, c.port)
  BY <1>4 DEF Written
<1>7. REOPEN # Nil
  BY <1>1, <1>2, CardsAssumption DEF Reopens
<1>12. popup' = [popup EXCEPT !.body = c]
  BY <1>1, <1>7 DEF PickPort
<1> HIDE DEF c
<1>8. popup' \in Dialogs
  BY <1>2, <1>4, <1>12 DEF Dialogs, Shown, Written
<1>9. CardsTypeOK'
  BY <1>1, <1>8 DEF CardsInv, CardsTypeOK
<1>10. FirstOfAll'
  BY <1>1 DEF CardsInv, FirstOfAll
<1>11. CardsCurrent' /\ StripsOwn' /\ ClipKept'
  <2>1. popup' # Nil
    BY <1>8, CardsAssumption
  <2>2. cards # Nil => cards.of = DOJOS.of \/ (deferred /\ popup' # Nil)
    BY <1>1, <2>1 DEF CardsInv, CardsCurrent
  <2> QED BY <1>1, <2>2 DEF CardsInv, CardsCurrent, StripsOwn, ClipKept
<1>13. popup'.title = popup.title /\ popup'.body = c
  BY <1>2, <1>12 DEF Dialogs
<1>14. DialogKept'
  BY <1>1, <1>2, <1>4, <1>5, <1>6, <1>13 DEF DialogKept, Written
<1> QED BY <1>9, <1>10, <1>11, <1>14 DEF CardsInv

LEMMA CopyKeeps == ASSUME CardsInv, Copy PROVE CardsInv'
<1> DEFINE b == popup.body
           v == IF b.is = "pair" THEN DOJOS.of ELSE b.of
           w == HTML(b.is, b.node, v, b.port)
           k == [what |-> w, from |-> popup, late |-> deferred]
<1>1. /\ popup # Nil /\ turns' = turns + 1 /\ turns < MaxTurns /\ clip' = k
      /\ UNCHANGED <<news, poll, polls, DOJOS, HIST, HIST90, loads, DAILY, cards, overtaken,
                     net, popup, REOPEN, PORT, deferred, unsigned>>
  BY DEF Copy, Turn
<1>2. turns' \in 0..MaxTurns
  <2>1. turns \in 0..MaxTurns /\ MaxTurns \in Nat
    BY CardsAssumption DEF CardsInv, CardsTypeOK
  <2> QED BY <1>1, <2>1
<1>3. /\ popup.title \in Nodes /\ b.is \in Shown /\ b.of \in Cycles /\ b.port \in Ports
      /\ b = HTML(b.is, popup.title, b.of, b.port) /\ cards # Nil
      /\ b.is = "pair" => b.of = DOJOS.of \/ deferred
  BY <1>1 DEF CardsInv, CardsTypeOK, Dialogs, Shown, DialogKept
<1>4. b.node = popup.title
  <2>1. Written(HTML(b.is, popup.title, b.of, b.port), b.is, popup.title, b.of, b.port)
    BY <1>3, HTMLParts
  <2> QED BY <1>3, <2>1 DEF Written
<1>5. v \in Cycles
  BY <1>3 DEF CardsInv, CardsCurrent
<1>6. w.node = popup.title
  <2>1. Written(w, b.is, b.node, v, b.port)
    BY <1>3, <1>4, <1>5, HTMLParts
  <2> QED BY <1>4, <2>1 DEF Written
<1>7. w = b \/ deferred
  BY <1>3, <1>4
<1> HIDE DEF w
<1>8. k.what = w /\ k.from = popup /\ k.late = deferred
  OBVIOUS
<1> HIDE DEF k
<1>9. ClipKept'
  BY <1>1, <1>6, <1>7, <1>8 DEF ClipKept
<1>10. CardsTypeOK'
  BY <1>1, <1>2 DEF CardsInv, CardsTypeOK
<1>11. FirstOfAll' /\ CardsCurrent' /\ StripsOwn' /\ DialogKept'
  BY <1>1 DEF CardsInv, FirstOfAll, CardsCurrent, StripsOwn, DialogKept
<1> QED BY <1>9, <1>10, <1>11 DEF CardsInv

LEMMA CloseKeeps == ASSUME CardsInv, Close, ~deferred PROVE CardsInv'
<1>1. /\ turns' = turns + 1 /\ turns < MaxTurns /\ popup' = Nil /\ deferred' = FALSE
      /\ UNCHANGED <<news, poll, polls, DOJOS, HIST, HIST90, loads, DAILY, cards, overtaken,
                     net, PORT, clip, unsigned>>
  BY DEF Close, Turn
<1>2. turns' \in 0..MaxTurns
  <2>1. turns \in 0..MaxTurns /\ MaxTurns \in Nat
    BY CardsAssumption DEF CardsInv, CardsTypeOK
  <2> QED BY <1>1, <2>1
<1>3. CardsTypeOK'
  BY <1>1, <1>2 DEF CardsInv, CardsTypeOK
<1>4. FirstOfAll' /\ CardsCurrent' /\ StripsOwn' /\ DialogKept' /\ ClipKept'
  BY <1>1 DEF CardsInv, FirstOfAll, CardsCurrent, StripsOwn, DialogKept, ClipKept
<1> QED BY <1>3, <1>4 DEF CardsInv

-----------------------------------------------------------------------------
(***************************************************************************)
(* The cards' specification.                                               *)
(***************************************************************************)
LEMMA CardsStart == CardsInit => CardsInv
<1> SUFFICES ASSUME CardsInit PROVE CardsInv
  OBVIOUS
<1> DEFINE x == [days |-> Pending, poll |-> 1]
<1>1. 0 \in Cycles /\ 1 \in 1..MaxPolls /\ 0 \in 0..MaxTurns
  BY CardsAssumption
<1>2. x \in Load /\ x.poll = 1
  BY <1>1 DEF Load
<1>3. loads = <<x>>
  BY DEF CardsInit
<1> HIDE DEF x
<1>4. loads \in Seq(Load) /\ Len(loads) = 1 /\ loads[1] = x
  BY <1>2, <1>3
<1>5. CardsTypeOK
  <2>1. /\ news = [list |-> 0, checks |-> 0, days |-> 0] /\ polls = 1 /\ turns = 0
        /\ poll = [list |-> Pending, checks |-> Pending] /\ DOJOS = Nil /\ HIST = Nil
        /\ HIST90 = 1 /\ DAILY = Nil /\ cards = Nil /\ popup = Nil /\ net = "mainnet" /\ PORT = 9150
        /\ deferred = FALSE /\ overtaken = FALSE /\ unsigned = TRUE
    BY DEF CardsInit
  <2>2. news \in [list: Cycles, checks: Cycles, days: Cycles]
    BY <1>1, <2>1
  <2>3. poll \in [list: Cycles \cup {Pending, Failed}, checks: Cycles \cup {Pending, Failed}]
    BY <2>1
  <2>4. HIST90 \in 0..Len(loads)
    BY <1>4, <2>1
  <2>5. net \in Nets /\ PORT \in Ports
    BY <2>1 DEF Nets, Ports
  <2>6. loads \in Seq([days: Cycles \cup {Pending, Nil}, poll: 1..MaxPolls])
    BY <1>4 DEF Load
  <2>7. {deferred, overtaken, unsigned} \subseteq BOOLEAN
    <3>1. deferred = FALSE /\ overtaken = FALSE /\ unsigned = TRUE
      BY <2>1
    <3>2. deferred \in BOOLEAN /\ overtaken \in BOOLEAN /\ unsigned \in BOOLEAN
      BY <3>1, Zenon
    <3> QED BY <3>2, Zenon
  <2>8. polls \in 1..MaxPolls /\ turns \in 0..MaxTurns
    BY <1>1, <2>1
  <2> HIDE DEF x
  <2> QED BY <2>1, <2>2, <2>3, <2>4, <2>5, <2>6, <2>7, <2>8 DEF CardsTypeOK
<1>6. FirstOfAll
  BY <1>2, <1>4 DEF CardsInit, FirstOfAll
<1>7. CardsCurrent /\ StripsOwn /\ DialogKept /\ ClipKept
  BY DEF CardsInit, CardsCurrent, StripsOwn, DialogKept, ClipKept
<1> QED BY <1>5, <1>6, <1>7 DEF CardsInv

LEMMA CardsStep == CardsInv /\ [CardsNext]_table => CardsInv'
<1> SUFFICES ASSUME CardsInv, [CardsNext]_table PROVE CardsInv'
  OBVIOUS
<1>1. CASE UNCHANGED table
  <2>1. UNCHANGED <<news, poll, polls, DOJOS, HIST, HIST90, loads, DAILY, cards, overtaken,
                    net, popup, REOPEN, PORT, deferred, clip, turns, unsigned>>
    BY <1>1 DEF table, reader
  <2>2. CardsTypeOK'
    BY <2>1 DEF CardsInv, CardsTypeOK
  <2>3. FirstOfAll' /\ CardsCurrent' /\ StripsOwn' /\ DialogKept' /\ ClipKept'
    BY <2>1 DEF CardsInv, FirstOfAll, CardsCurrent, StripsOwn, DialogKept, ClipKept
  <2> QED BY <2>2, <2>3 DEF CardsInv
<1>2. CASE Update \/ Refresh \/ FileAnswers \/ PollFails
  BY <1>2, FilesKeep
<1>3. CASE FirstLands \/ PollLands
  BY <1>3, GotKeeps
<1>4. ASSUME NEW k \in DOMAIN loads, DaysLand(k) PROVE CardsInv'
  BY <1>4, DaysKeep
<1>5. ASSUME NEW is \in Commands \cup {"pair", "domproof"}, NEW x \in Nodes, Open(is, x)
      PROVE  CardsInv'
  BY <1>5, OpenKeeps DEF Shown
<1>6. ASSUME NEW p \in Ports, PickPort(p) PROVE CardsInv'
  BY <1>6, PickKeeps
<1>7. CASE Copy
  BY <1>7, CopyKeeps
<1>8. CASE Close
  BY <1>8, CloseKeeps, RedrawsKeep
<1>9. CASE FooterLands \/ \E n \in Nets : ShowNet(n)
  BY <1>9, RedrawsKeep
<1> QED BY <1>1, <1>2, <1>3, <1>4, <1>5, <1>6, <1>7, <1>8, <1>9 DEF CardsNext

LEMMA CardsAlways == CardsInit /\ [][CardsNext]_table => []CardsInv
BY CardsStart, CardsStep, PTL

(***************************************************************************)
(* The page's data keep their shapes.                                      *)
(***************************************************************************)
THEOREM CardsTypes == CardsInit /\ [][CardsNext]_table => []CardsTypeOK
<1>1. CardsInv => CardsTypeOK
  BY DEF CardsInv
<1> QED BY <1>1, CardsAlways, PTL

-----------------------------------------------------------------------------
(***************************************************************************)
(* The order of the cards: what is drawn was in order by the history the   *)
(* page had, and unless a load was overtaken that history is the cached    *)
(* load's, and still the one the strips are of.                            *)
(***************************************************************************)
InOrder(row, d) == \E c \in Cycles, S \in SUBSET Nodes : row \in Rows(S) /\ Sorted(c, d, row)

Ordered ==
    cards # Nil =>
        HIST \in Cycles /\ cards.knew \in Cycles \cup {Nil} /\ InOrder(cards.row, cards.knew)

DaysKnown ==
    ~overtaken =>
        /\ DAILY # Nil => HIST90 # 0 /\ loads[HIST90].days = DAILY
        /\ cards # Nil /\ cards.strips # 0 /\ cards.knew # Nil
             => loads[cards.strips].days = cards.knew

LEMMA DrawOrders ==
    ASSUME NEW l \in [of: Cycles, poll: 1..MaxPolls], NEW c \in Cycles, NEW d \in Cycles \cup {Nil},
           NEW n \in Nets, NEW h \in 0..Len(loads), Draw(l, c, d, n, h)
    PROVE  /\ cards'.knew = d /\ InOrder(cards'.row, d)
           /\ h # 0 => HIST90' = h /\ loads' = loads /\ cards'.strips \in {0, h}
<1> DEFINE row == Row(l.of, c, d, n)
           use == IF row = <<>> THEN [h90 |-> h, loads |-> loads] ELSE Cached(h, loads, l.poll)
<1>1. /\ cards'.knew = d /\ cards'.row = row
      /\ cards'.strips = IF row = <<>> THEN 0 ELSE use.h90
      /\ HIST90' = use.h90 /\ loads' = use.loads
  BY Zenon DEF Draw
<1>2. InOrder(row, d)
  <2>1. l.of \in Cycles /\ Listed[l.of][n] \in SUBSET Nodes
    BY CardsAssumption
  <2>2. row \in Rows(Listed[l.of][n]) /\ Sorted(c, d, row)
    BY <2>1, RowSorted
  <2> HIDE DEF row
  <2> QED BY <2>1, <2>2 DEF InOrder
<1>3. h # 0 => HIST90' = h /\ loads' = loads /\ cards'.strips \in {0, h}
  BY <1>1 DEF Cached
<1> QED BY <1>1, <1>2, <1>3

LEMMA DaysOrder ==
    ASSUME CardsInv, Ordered, DaysKnown, NEW k \in DOMAIN loads, DaysLand(k)
    PROVE  Ordered' /\ DaysKnown'
<1>1. UNCHANGED <<HIST, HIST90, cards>> /\ overtaken' = (overtaken \/ k # HIST90)
      /\ loads[k].days = Pending
  BY DEF DaysLand
<1>2. PICK a \in {news.days, Nil} : loads' = [loads EXCEPT ![k].days = a] /\ DAILY' = a
  BY DEF DaysLand
<1>3. loads \in Seq(Load)
  BY DEF CardsInv, CardsTypeOK, Load
<1>4. loads[k] \in Load /\ k \in 1..Len(loads)
  BY <1>3
<1>5. loads'[k].days = a /\ \A i \in 1..Len(loads) : i # k => loads'[i] = loads[i]
  BY <1>2, <1>3, <1>4 DEF Load
<1>6. Ordered'
  BY <1>1 DEF Ordered
<1>7. ASSUME ~overtaken', DAILY' # Nil PROVE HIST90' # 0 /\ loads'[HIST90'].days = DAILY'
  <2>1. k = HIST90 /\ HIST90' = HIST90
    BY <1>1, <1>7
  <2>2. k # 0
    BY <1>4
  <2> QED BY <1>2, <1>5, <2>1, <2>2
<1>8. ASSUME ~overtaken', cards # Nil, cards.strips # 0, cards.knew # Nil
      PROVE  loads'[cards.strips].days = cards.knew
  <2>1. loads[cards.strips].days = cards.knew /\ cards.knew \in Cycles
    BY <1>1, <1>8 DEF DaysKnown, Ordered
  <2>2. cards.strips # k
    BY <1>1, <2>1, CardsAssumption
  <2>3. cards.strips \in 1..Len(loads)
    BY <1>3, <1>8 DEF CardsInv, CardsTypeOK
  <2> QED BY <1>5, <2>1, <2>2, <2>3
<1> QED BY <1>1, <1>6, <1>7, <1>8 DEF DaysKnown

LEMMA GotOrders ==
    ASSUME CardsInv, Ordered, DaysKnown, FirstLands \/ PollLands
    PROVE  Ordered' /\ DaysKnown'
<1>1. PICK d \in Cycles \cup {Nil}, h \in 0..Len(loads) :
         /\ Got(d, h) /\ ((d = Nil /\ h = 0) \/ (d = DAILY /\ h = HIST90 /\ polls = 1))
         /\ Len(loads) \in Nat
  <2>1. DAILY \in Cycles \cup {Nil} /\ HIST90 \in 0..Len(loads) /\ Len(loads) \in Nat
    BY DEF CardsInv, CardsTypeOK
  <2>2. CASE FirstLands BY <2>1, <2>2 DEF FirstLands
  <2>3. CASE PollLands BY <2>1, <2>3 DEF PollLands
  <2> QED BY <2>2, <2>3
<1> DEFINE l == [of |-> poll.list, poll |-> polls]
<1>2. /\ poll # Nil /\ poll.list \in Cycles /\ poll.checks \in Cycles /\ polls \in 1..MaxPolls
      /\ HIST' = poll.checks /\ DAILY' = d /\ DOJOS' = l /\ UNCHANGED overtaken /\ net \in Nets
  BY <1>1 DEF Got, Answered, CardsInv, CardsTypeOK
<1>3. l \in [of: Cycles, poll: 1..MaxPolls]
  BY <1>2
<1> HIDE DEF l
<1>4. ~overtaken /\ d # Nil => h # 0 /\ loads[h].days = d
  BY <1>1 DEF DaysKnown
<1>5. CASE popup # Nil
  <2>1. HIST90' = h /\ UNCHANGED <<loads, cards>>
    BY <1>1, <1>5 DEF Got
  <2> QED BY <1>2, <1>4, <2>1 DEF Ordered, DaysKnown
<1>6. CASE popup = Nil
  <2>1. Draw(DOJOS', poll.checks, d, net, h)
    BY <1>1, <1>6, Zenon DEF Got
  <2>2. /\ cards'.knew = d /\ InOrder(cards'.row, d)
        /\ h # 0 => HIST90' = h /\ loads' = loads /\ cards'.strips \in {0, h}
    BY <1>2, <1>3, <2>1, DrawOrders
  <2>3. Ordered'
    BY <1>2, <2>2 DEF Ordered
  <2> QED BY <1>2, <1>4, <2>2, <2>3 DEF DaysKnown
<1> QED BY <1>5, <1>6

LEMMA RedrawOrders ==
    ASSUME CardsInv, Ordered, DaysKnown, cards # Nil, NEW n \in Nets,
           Draw(DOJOS, HIST, DAILY, n, HIST90), UNCHANGED <<HIST, DAILY, overtaken>>
    PROVE  Ordered' /\ DaysKnown'
<1>1. /\ DOJOS \in [of: Cycles, poll: 1..MaxPolls] /\ HIST90 \in 0..Len(loads)
      /\ HIST \in Cycles /\ DAILY \in Cycles \cup {Nil}
  BY DEF CardsInv, CardsCurrent, CardsTypeOK, Ordered
<1>2. /\ cards'.knew = DAILY /\ InOrder(cards'.row, DAILY)
      /\ HIST90 # 0 => HIST90' = HIST90 /\ loads' = loads /\ cards'.strips \in {0, HIST90}
  BY <1>1, DrawOrders
<1>3. Ordered'
  BY <1>1, <1>2 DEF Ordered
<1>4. DaysKnown'
  BY <1>2 DEF DaysKnown
<1> QED BY <1>3, <1>4

LEMMA OrderStep == CardsInv /\ Ordered /\ DaysKnown /\ [CardsNext]_table => Ordered' /\ DaysKnown'
<1> SUFFICES ASSUME CardsInv, Ordered, DaysKnown, [CardsNext]_table PROVE Ordered' /\ DaysKnown'
  OBVIOUS
<1>0. ASSUME UNCHANGED <<HIST, HIST90, loads, DAILY, cards, overtaken>> PROVE Ordered' /\ DaysKnown'
  BY <1>0 DEF Ordered, DaysKnown
<1>n. net \in Nets
  BY DEF CardsInv, CardsTypeOK
<1>1. CASE UNCHANGED table
  BY <1>0, <1>1 DEF table
<1>2. CASE Update \/ Refresh \/ FileAnswers \/ PollFails
  BY <1>0, <1>2 DEF Update, Refresh, FileAnswers, PollFails
<1>3. CASE FirstLands \/ PollLands
  BY <1>3, GotOrders
<1>4. ASSUME NEW k \in DOMAIN loads, DaysLand(k) PROVE Ordered' /\ DaysKnown'
  BY <1>4, DaysOrder
<1>5. ASSUME NEW is \in Commands \cup {"pair", "domproof"}, NEW x \in Nodes, Open(is, x)
      PROVE  Ordered' /\ DaysKnown'
  BY <1>0, <1>5 DEF Open
<1>6. ASSUME NEW p \in Ports, PickPort(p) PROVE Ordered' /\ DaysKnown'
  BY <1>0, <1>6 DEF PickPort
<1>7. CASE Copy
  BY <1>0, <1>7 DEF Copy
<1>8. CASE Close
  <2>1. CASE deferred
    <3>1. cards # Nil /\ Draw(DOJOS, HIST, DAILY, net, HIST90) /\ UNCHANGED <<HIST, DAILY, overtaken>>
      BY <1>8, <2>1, Zenon DEF Close
    <3> QED BY <1>n, <3>1, RedrawOrders
  <2>2. CASE ~deferred
    BY <1>0, <1>8, <2>2 DEF Close
  <2> QED BY <2>1, <2>2
<1>9. CASE FooterLands
  <2>1. cards # Nil /\ Draw(DOJOS, HIST, DAILY, net, HIST90) /\ UNCHANGED <<HIST, DAILY, overtaken>>
    BY <1>9, Zenon DEF FooterLands
  <2> QED BY <1>n, <2>1, RedrawOrders
<1>10. ASSUME NEW n \in Nets, ShowNet(n) PROVE Ordered' /\ DaysKnown'
  <2>1. cards # Nil /\ Draw(DOJOS, HIST, DAILY, n, HIST90) /\ UNCHANGED <<HIST, DAILY, overtaken>>
    BY <1>10, Zenon DEF ShowNet
  <2> QED BY <2>1, RedrawOrders
<1> QED BY <1>1, <1>2, <1>3, <1>4, <1>5, <1>6, <1>7, <1>8, <1>9, <1>10 DEF CardsNext

LEMMA CardsOrdered == CardsInit /\ [][CardsNext]_table => [](CardsInv /\ Ordered /\ DaysKnown)
<1> DEFINE I == CardsInv /\ Ordered /\ DaysKnown
<1>1. CardsInit => I
  BY CardsStart DEF CardsInit, Ordered, DaysKnown
<1>2. I /\ [CardsNext]_table => I'
  BY CardsStep, OrderStep
<1> QED BY <1>1, <1>2, PTL

-----------------------------------------------------------------------------
\* A strip paints green as many days as its label counts.
LEMMA LabelsCount ==
    ASSUME NEW s
    PROVE  Cardinality({k \in DOMAIN Bars(s) : Bars(s)[k] = "up"}) = UpDays(s)
<1>1. \A k \in DOMAIN View(s) : Bar(View(s)[k]) = "up" <=> View(s)[k] >= 95
  BY DEF Bar
<1>2. DOMAIN Bars(s) = DOMAIN View(s) /\ \A k \in DOMAIN View(s) : Bars(s)[k] = Bar(View(s)[k])
  BY DEF Bars
<1>3. {k \in DOMAIN Bars(s) : Bars(s)[k] = "up"} = {k \in DOMAIN View(s) : View(s)[k] >= 95}
  BY <1>1, <1>2
<1> QED BY <1>3 DEF UpDays

LEMMA StripsAreTrue == CardsInv /\ Ordered /\ DaysKnown => StripsTrue
<1> SUFFICES ASSUME CardsInv, Ordered, DaysKnown PROVE StripsTrue
  OBVIOUS
<1>1. cards # Nil /\ cards.strips # 0 => loads[cards.strips].poll = cards.poll
  BY DEF CardsInv, StripsOwn
<1>2. ASSUME Landed, cards.knew # Nil, ~overtaken
      PROVE  \A i, j \in DOMAIN cards.row : i < j =>
                Week(loads[cards.strips].days, cards.row[i]) >= Week(loads[cards.strips].days, cards.row[j])
  <2>1. cards # Nil /\ loads[cards.strips].days = cards.knew
    BY <1>2 DEF Landed, DaysKnown
  <2>2. cards.knew \in Cycles \cup {Nil}
    BY <2>1 DEF Ordered
  <2>3. PICK c \in Cycles, S \in SUBSET Nodes : cards.row \in Rows(S) /\ Sorted(c, cards.knew, cards.row)
    BY <2>1 DEF Ordered, InOrder
  <2> QED BY <2>1, <2>2, <2>3, SortedByWeek
<1> QED BY <1>1, <1>2, LabelsCount DEF StripsTrue

LEMMA DialogsAreTrue == CardsInv => DialogTrue
<1> SUFFICES ASSUME CardsInv PROVE DialogTrue
  OBVIOUS
<1>1. ASSUME popup # Nil
      PROVE  /\ popup.body.node = popup.title /\ ~popup.body.empty
             /\ popup.body.is \in Commands => popup.body.port = PORT
  <2> DEFINE b == popup.body
  <2>1. /\ popup.title \in Nodes /\ b.is \in Shown /\ b.of \in Cycles /\ b.port \in Ports
        /\ b = HTML(b.is, popup.title, b.of, b.port) /\ ~b.empty
        /\ b.is \in Commands => b.port = PORT
    BY <1>1 DEF CardsInv, CardsTypeOK, Dialogs, Shown, DialogKept
  <2>2. Written(HTML(b.is, popup.title, b.of, b.port), b.is, popup.title, b.of, b.port)
    BY <2>1, HTMLParts
  <2> QED BY <2>1, <2>2 DEF Written
<1> QED BY <1>1 DEF CardsInv, ClipKept, DialogTrue

(***************************************************************************)
(* For any lists, histories, keys, refreshes, redraws and clicks, in       *)
(* whatever order the loads land (render, loadHist90, refreshData and the  *)
(* dialogs of app.js): the strips under the cards were loaded for the      *)
(* refresh the cards come from, and what put the cards in order is what    *)
(* the strips show, unless an older load landed last; a strip paints green *)
(* as many days as its label counts; a dialog shows what its button        *)
(* promised, of the node in its title, for the Tor port that is picked;    *)
(* and what is copied is what is read there, unless a new list came in     *)
(* under the dialog.                                                       *)
(***************************************************************************)
THEOREM CardsAreTrue == CardsInit /\ [][CardsNext]_table => []CardsTrue
<1>1. CardsInv /\ Ordered /\ DaysKnown => CardsTrue
  BY StripsAreTrue, DialogsAreTrue DEF CardsTrue
<1> QED BY <1>1, CardsOrdered, PTL
=============================================================================
