------------------------------- MODULE MCPage -------------------------------
(***************************************************************************)
(* The page of a visitor, for TLC. What the page does with its cards shares*)
(* with the rest of the page only what Cards repeats of it, and is followed*)
(* while the rest is as it was loaded. Of two nodes, x has the better last *)
(* day and y the better week; x goes, or is all that stays.                *)
(***************************************************************************)
EXTENDS Page, Cards, TLC

CONSTANTS x, y

On(m, t)  == ("mainnet" :> m) @@ ("testnet" :> t)
Of(a, b)  == (x :> a) @@ (y :> b)
MCListed  == (0 :> On({}, {})) @@ (1 :> On({x, y}, {})) @@ (2 :> On({x}, {y}))
MCChecks  == (0 :> Of(<<>>, <<>>)) @@ (1 :> Of(<<TRUE>>, <<FALSE>>)) @@ (2 :> Of(<<TRUE>>, <<>>))
MCDays    == (0 :> Of(<<>>, <<>>)) @@ (1 :> Of(<<97, 20, 60>>, <<99, 100>>))
               @@ (2 :> Of(<<97, 20, 60>>, <<10, 20, 30>>))
MCSigned  == (0 :> Of({}, {})) @@ (1 :> Of({"apikey"}, {"proof"})) @@ (2 :> Of({"proof"}, {}))
MCName    == Of(1, 2)

\* New lists, old lists, outages and the service worker meet a visitor who
\* reads and does two things, one if there is an outage; the panel meets one
\* list: list and panel share only the dialog.
Reading ==
    /\ session = None /\ me = None /\ switches = 0 /\ clicks + outages <= 2
    /\ body.is \in {"empty", "loading", "text"}
    /\ \A t \in Tasks : task[t].do \notin {"me", "challenge"}

Managing == published = 1 /\ aged = 0 /\ outages = 0 /\ ~worker /\ visible /\ footer = {}

Apart == Reading \/ Managing

\* One of the initial states of Page is enough for the cards.
Loaded == Init /\ ~worker /\ session = None /\ task[CHOOSE t \in Tasks : TRUE].do = "boot"

MCInit == Init /\ CardsInit

MCNext ==
    \/ CardsInit /\ Next /\ UNCHANGED table
    \/ Loaded /\ CardsNext /\ UNCHANGED vars

MCSpec == MCInit /\ [][MCNext]_<<vars, table>> /\ Fairness
=============================================================================
