-------------------------------- MODULE Desk ---------------------------------
(***************************************************************************)
(* The shop's card in the operator's console (assets/js/app.js), the       *)
(* routes of server/index.ts that relay its requests, and the gateway they *)
(* are relayed to (Gateway).                                               *)
(*                                                                         *)
(* The page keeps what it was told of the shop and the network it looks    *)
(* at. A redraw takes both as they are when its session check is answered, *)
(* so the card on the screen may be older than they are. A request that    *)
(* changes the shop is answered when the gateway has saved it, which is    *)
(* one step here (Gateway has its details); on an error of the proxy or of *)
(* the socket api.call sends it again, although it may have been done.     *)
(*                                                                         *)
(* Whoever signs in is an administrator. The seed words, the notices and   *)
(* the other parts of the console are left out.                            *)
(***************************************************************************)
EXTENDS Gateway

CONSTANTS
    Slots,      \* bound: requests of the page under way at once
    MaxRedraws, \* bound: session checks under way at once
    Tries,      \* attempts of api.call
    MaxClicks   \* bound: what people do at the card, and restarts meanwhile

ASSUME DeskAssumption == {MaxRedraws, MaxClicks} \subseteq Nat /\ Tries \in Nat \ {0}

VARIABLES
    page,    \* SHOP, SHOP_ERROR, SHOP_NET, and whether ME is signed in
    screen,  \* what the card shows
    checks,  \* redraws that wait for their session check
    asks,    \* requests of the page under way
    clicks,
    \* history
    meant,   \* receivers asked for, with the network they were meant for
    hasty,   \* the card of one network was used for another, just chosen
    moved,   \* the shop was changed by somebody else, or restarted, since it was read
    late     \* an answer about the shop was overtaken by a newer one

desk == <<page, screen, checks, asks, clicks, meant, hasty, moved, late>>

Page == [in: BOOLEAN, shop: State \cup {None}, error: BOOLEAN, net: Networks \cup {None}]

Plain(at) == [at |-> at, net |-> None, live |-> None, free |-> FALSE]

Free == [op |-> "none"]
Load == [op |-> "load", at |-> "sent", got |-> None, old |-> FALSE]
Post == [op: {"post"}, at: {"sent", "saving", "answer"}, req: Requests,
         text: State \cup {None}, tries: 1..Tries]

DeskInit ==
    /\ Init
    /\ page = [in |-> FALSE, shop |-> None, error |-> FALSE, net |-> None]
    /\ screen = Plain("closed") /\ checks = 0
    /\ asks = [s \in Slots |-> Free]
    /\ clicks = 0 /\ meant = {} /\ hasty = FALSE /\ moved = FALSE /\ late = FALSE

-----------------------------------------------------------------------------
(***************************************************************************)
(* renderAdminPanel and shopCard.                                          *)
(***************************************************************************)
\* The page becomes p and is drawn again, with as the requests under way. One
\* that has neither the shop nor an error asks for it.
Rendering(p, as) ==
    /\ page' = p
    /\ IF ~p.in THEN screen' = Plain("login") /\ asks' = as /\ UNCHANGED checks
       ELSE /\ checks < MaxRedraws /\ checks' = checks + 1 /\ UNCHANGED screen
            /\ IF p.shop = None /\ ~p.error
                 THEN \E s \in Slots : as[s] = Free /\ asks' = [as EXCEPT ![s] = Load]
                 ELSE asks' = as

\* shopCard.
Card(p) ==
    IF p.error THEN Plain("error")
    ELSE IF p.shop = None THEN Plain("asking")
    ELSE [at |-> "card", net |-> p.net, live |-> p.shop.active,
          free |-> p.shop.receiver[p.net] = None]

\* A redraw that is answered after a sign-out fails on the missing code.
Redraw ==
    /\ checks > 0 /\ checks' = checks - 1
    /\ \/ screen' = (IF page.in THEN Card(page) ELSE screen) /\ UNCHANGED page
       \/ screen' = Plain("down") /\ UNCHANGED page
       \/ screen' = Plain("login") /\ page' = [page EXCEPT !.in = FALSE]
    /\ UNCHANGED <<vars, asks, meant, hasty, moved, late, clicks>>

\* Signing in ends in a redraw.
SignIn ==
    /\ clicks < MaxClicks /\ clicks' = clicks + 1
    /\ screen.at \in {"closed", "login"} /\ ~page.in
    /\ Rendering([page EXCEPT !.in = TRUE], asks)
    /\ UNCHANGED <<vars, meant, hasty, moved, late>>

Logout ==
    /\ clicks < MaxClicks /\ clicks' = clicks + 1
    /\ screen.at \in {"asking", "error", "card"}
    /\ Rendering([page EXCEPT !.in = FALSE], asks)
    /\ UNCHANGED <<vars, meant, hasty, moved, late>>

-----------------------------------------------------------------------------
(***************************************************************************)
(* loadShop and GET /api/admin/store-identity.                             *)
(***************************************************************************)
\* The gateway answers with its state, or cannot be reached.
Read(s) ==
    /\ asks[s].op = "load" /\ asks[s].at = "sent"
    /\ \E x \in {current, None} :
         asks' = [t \in Slots |->
                    IF t = s THEN [asks[s] EXCEPT !.at = "answer", !.got = x]
                    ELSE IF asks[t].op = "load" /\ asks[t].at = "answer"
                    THEN [asks[t] EXCEPT !.old = TRUE] ELSE asks[t]]
    /\ moved' = FALSE
    /\ UNCHANGED <<vars, page, screen, checks, meant, hasty, late, clicks>>

\* What the page knows of the shop after an answer.
Told(p, x) ==
    IF x = None THEN [p EXCEPT !.shop = None, !.error = TRUE]
    ELSE [p EXCEPT !.shop = x, !.error = FALSE, !.net = IF @ = None THEN x.active ELSE @]

LandLoad(s) ==
    /\ asks[s].op = "load" /\ asks[s].at = "answer"
    /\ Rendering(Told(page, asks[s].got), [asks EXCEPT ![s] = Free])
    /\ late' = asks[s].old
    /\ UNCHANGED <<vars, meant, hasty, moved, clicks>>

-----------------------------------------------------------------------------
(***************************************************************************)
(* The card's controls.                                                    *)
(***************************************************************************)
ClickTab(n) ==
    /\ clicks < MaxClicks /\ clicks' = clicks + 1
    /\ screen.at = "card"
    /\ Rendering([page EXCEPT !.net = n], asks)
    /\ UNCHANGED <<vars, meant, hasty, moved, late>>

Send(r) ==
    \E s \in Slots :
        /\ asks[s] = Free
        /\ asks' = [asks EXCEPT ![s] = [op |-> "post", at |-> "sent", req |-> r,
                                        text |-> None, tries |-> Tries]]

\* "Trade on", on the card of a network the shop does not trade on.
ClickSwitch ==
    /\ clicks < MaxClicks /\ clicks' = clicks + 1
    /\ screen.at = "card" /\ screen.net # screen.live
    /\ Send([op |-> "set-active", net |-> page.net])
    /\ hasty' = (hasty \/ screen.net # page.net)
    /\ UNCHANGED <<vars, page, screen, checks, meant, moved, late>>

\* Bug: the receiver is bound for the network the shop trades on.
ClickBindLive(code) ==
    /\ clicks < MaxClicks /\ clicks' = clicks + 1
    /\ screen.at = "card" /\ screen.free
    /\ Send([op |-> "bind-receiver", net |-> screen.live, code |-> code])
    /\ meant' = meant \cup {<<screen.net, code>>}
    /\ hasty' = (hasty \/ screen.net # page.net)
    /\ UNCHANGED <<vars, page, screen, checks, moved, late>>

\* "Bind receiver", on the card of a network that has none.
ClickBind(code) ==
    /\ clicks < MaxClicks /\ clicks' = clicks + 1
    /\ screen.at = "card" /\ screen.free
    /\ Send([op |-> "bind-receiver", net |-> page.net, code |-> code])
    /\ meant' = meant \cup {<<screen.net, code>>}
    /\ hasty' = (hasty \/ screen.net # page.net)
    /\ UNCHANGED <<vars, page, screen, checks, moved, late>>

\* Whatever the answer is, the shop is asked for again.
LandPost(s) ==
    /\ asks[s].op = "post" /\ asks[s].at = "answer"
    /\ asks' = [asks EXCEPT ![s] = Load]
    /\ UNCHANGED <<vars, page, screen, checks, meant, hasty, moved, late, clicks>>

-----------------------------------------------------------------------------
(***************************************************************************)
(* The relay: viaGateway and the gateway's socket.                         *)
(***************************************************************************)
Relay(s) ==
    /\ asks[s].op = "post" /\ asks[s].at = "sent"
    /\ LET r == asks[s].req IN
       /\ current' = Applied(current, r)
       /\ bound' = IF r.op = "bind-receiver" THEN bound \cup {<<r.net, r.code>>} ELSE bound
    /\ asks' = [asks EXCEPT ![s].at = "saving", ![s].text = current']
    /\ UNCHANGED <<file, temp, call, store, order, crashes, told, overlapped, strayed>>
    /\ UNCHANGED <<page, screen, checks, meant, hasty, moved, late, clicks>>

\* The state is saved, or cannot be: the change stays in memory all the same.
Saved(s) ==
    /\ asks[s].op = "post" /\ asks[s].at = "saving"
    /\ file' \in {file, asks[s].text}
    /\ asks' = [asks EXCEPT ![s].at = "answer", ![s].text = None]
    /\ UNCHANGED <<current, temp, call, store, order, crashes, bound, told, overlapped, strayed>>
    /\ UNCHANGED <<page, screen, checks, meant, hasty, moved, late, clicks>>

\* The session has ended, or the gateway refuses the code.
Refused(s) ==
    /\ asks[s].op = "post" /\ asks[s].at = "sent"
    /\ asks' = [asks EXCEPT ![s].at = "answer"]
    /\ UNCHANGED <<vars, page, screen, checks, meant, hasty, moved, late, clicks>>

\* api.call after an error of the proxy or of the socket.
Again(a) ==
    IF a.tries > 1 THEN [a EXCEPT !.at = "sent", !.text = None, !.tries = @ - 1]
    ELSE [a EXCEPT !.at = "answer", !.text = None]

\* The gateway is away, or not done in time, or the answer is lost. What it has
\* begun to save it saves.
Unanswered(s) ==
    /\ asks[s].op = "post" /\ asks[s].at \in {"sent", "saving"}
    /\ asks' = [asks EXCEPT ![s] = Again(@)]
    /\ file' \in {file} \cup ({asks[s].text} \ {None})
    /\ UNCHANGED <<current, temp, call, store, order, crashes, bound, told, overlapped, strayed>>
    /\ UNCHANGED <<page, screen, checks, meant, hasty, moved, late, clicks>>

\* A request of somebody else, who means what it says.
Foreign(r) ==
    /\ clicks < MaxClicks /\ clicks' = clicks + 1
    /\ current' = Applied(current, r) /\ file' = current'
    /\ IF r.op = "bind-receiver"
         THEN bound' = bound \cup {<<r.net, r.code>>} /\ meant' = meant \cup {<<r.net, r.code>>}
         ELSE UNCHANGED <<bound, meant>>
    /\ moved' = TRUE
    /\ UNCHANGED <<temp, call, store, order, crashes, told, overlapped, strayed>>
    /\ UNCHANGED <<page, screen, checks, asks, hasty, late>>

\* The gateway is restarted; what it was saving is not saved.
Restart ==
    /\ clicks < MaxClicks /\ clicks' = clicks + 1
    /\ current' = file /\ moved' = TRUE
    /\ asks' = [s \in Slots |-> IF asks[s].op = "post" /\ asks[s].at = "saving"
                               THEN Again(asks[s]) ELSE asks[s]]
    /\ UNCHANGED <<file, temp, call, store, order, crashes, bound, told, overlapped, strayed>>
    /\ UNCHANGED <<page, screen, checks, meant, hasty, late>>

\* The page is open, and the gateway saves nothing but what it is asked here.
Opened == current # None /\ Working = {} /\ file = current

DeskNext ==
    \/ /\ screen.at = "closed" /\ checks = 0 /\ Next
       /\ meant' = meant \cup (bound' \ bound)
       /\ UNCHANGED <<page, screen, checks, asks, clicks, hasty, moved, late>>
    \/ Opened /\ SignIn
    \/ Redraw \/ Logout \/ ClickSwitch
    \/ \E n \in Networks : ClickTab(n)
    \/ \E c \in Codes : ClickBind(c)
    \/ \E s \in Slots :
         Read(s) \/ LandLoad(s) \/ LandPost(s) \/ Relay(s) \/ Saved(s) \/ Refused(s) \/ Unanswered(s)
    \/ screen.at # "closed" /\ Restart
    \/ screen.at # "closed" /\ \E r \in Requests : Foreign(r)
    \/ screen.at # "closed" /\ (\E o \in Orders : Quote(o)) /\ UNCHANGED desk

DeskSpec == DeskInit /\ [][DeskNext]_<<vars, desk>>

-----------------------------------------------------------------------------
(***************************************************************************)
(* DeskTypeOK: the shapes of the page, its card and its requests.          *)
(***************************************************************************)
DeskTypeOK ==
    /\ page \in Page /\ checks \in 0..MaxRedraws /\ clicks \in 0..MaxClicks
    /\ screen \in [at: {"closed", "login", "down", "asking", "error", "card"},
                   net: Networks \cup {None}, live: Networks \cup {None}, free: BOOLEAN]
    /\ asks \in [Slots -> {Free} \cup Post
          \cup [op: {"load"}, at: {"sent", "answer"}, got: State \cup {None}, old: BOOLEAN]]
    /\ meant \subseteq Networks \X Codes
    /\ {hasty, moved, late} \subseteq BOOLEAN

(***************************************************************************)
(* A receiver is only ever bound for the network of the card it was typed  *)
(* into, through redraws, tabs, repeated requests and sign-ins, as long as *)
(* no card was used while another was on its way to the screen. With       *)
(* QuotedAsBound, what the operator meant is what a customer is quoted.    *)
(***************************************************************************)
BoundAsMeant == ~hasty => bound \subseteq meant

Quiet == checks = 0 /\ \A s \in Slots : asks[s] = Free

(***************************************************************************)
(* A card that waits for nothing tells which chain customers are quoted    *)
(* on, and whether its network has a receiver, as the gateway has it,      *)
(* unless somebody else has changed the shop or answers were overtaken.    *)
(***************************************************************************)
CardTrue ==
    Quiet /\ screen.at = "card" /\ ~moved /\ ~late =>
        /\ screen.live = current.active
        /\ screen.free = (current.receiver[screen.net] = None)

(***************************************************************************)
(* The console neither sends the shop's receipts elsewhere than its        *)
(* operator meant, nor leaves him in the dark about where they go.         *)
(***************************************************************************)
DeskHonest == BoundAsMeant /\ CardTrue
=============================================================================
