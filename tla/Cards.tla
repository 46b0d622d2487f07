------------------------------- MODULE Cards --------------------------------
(***************************************************************************)
(* What the public page shows of its lists (assets/js/app.js): the cards   *)
(* in their order, the 90-day strips that are filled in later, and the     *)
(* dialogs of one card, with the commands and the copies they offer. The   *)
(* list, the checks and the daily history are three files that an updater  *)
(* writes one after the other and the page fetches one by one; a visitor   *)
(* reads and clicks meanwhile. Page has the refreshes of several timers,   *)
(* the worker, the panel and the texts; here one refresh is under way at a *)
(* time and the other dialogs are closed.                                  *)
(*                                                                         *)
(* A file is the number of the cycle that wrote it, 0 the one that is      *)
(* shipped. Histories are short and percentages whole.                     *)
(***************************************************************************)
EXTENDS Integers, Sequences, FiniteSets

CONSTANTS
    Nodes,
    Listed,     \* of each cycle and network: the nodes on its list
    ChecksOf,   \* of each cycle and node: its checks of 24 hours
    DaysOf,     \* of each cycle and node: its days, in percent
    Signed,     \* of each cycle and node: whether it has an API key, a proof of its domain
    NameOf,     \* the place of each node's name in the alphabet
    Window,     \* bound: days in a strip, 90 in the code
    MaxPolls,   \* bound: refreshes
    MaxTurns,   \* bound: clicks
    Nil,        \* nothing there
    Pending,    \* no answer yet
    Failed      \* an error for an answer

Nets   == {"mainnet", "testnet"}
Cycles == DOMAIN Listed
Ports  == {9050, 9150}
Commands == {"checkself", "rescan"}

Dialogs == [title: Nodes, body: [is: Commands \cup {"pair", "domproof"}, node: Nodes, of: Cycles,
                                 port: Ports, empty: BOOLEAN]]
Reopens == [is: Commands, node: Nodes, of: Cycles]

ASSUME CardsAssumption ==
    /\ Cycles = 0..(Cardinality(Cycles) - 1) /\ 0 \in Cycles
    /\ Listed \in [Cycles -> [Nets -> SUBSET Nodes]]
    /\ Listed[0] = [n \in Nets |-> {}]
    /\ ChecksOf \in [Cycles -> [Nodes -> Seq(BOOLEAN)]]
    /\ DaysOf \in [Cycles -> [Nodes -> Seq(0..100)]]
    /\ Signed \in [Cycles -> [Nodes -> SUBSET {"apikey", "proof"}]]
    /\ NameOf \in [Nodes -> Nat]
    /\ {Window, MaxTurns} \subseteq Nat /\ MaxPolls \in Nat \ {0}
    /\ IsFiniteSet(Nodes)
    /\ Nil \notin Dialogs \cup Reopens /\ Pending \notin Cycles \cup {Nil}

VARIABLES
    news,      \* the three files: the cycle that wrote each
    poll,      \* the refresh that is under way: its number, and its two answers
    polls,     \* refreshes begun
    DOJOS,     \* the list the page has, and the refresh that brought it
    HIST,      \* its checks
    net,       \* the network that is shown
    HIST90,    \* the load of the daily history that is cached, 0 for none
    loads,     \* every load: its answer, and the refresh it belongs to
    DAILY,     \* what the last load that landed has brought
    cards,     \* what is drawn
    popup,     \* the dialog of a card
    REOPEN,    \* MODAL_REOPEN
    PORT,      \* TOR_PORT
    deferred,  \* PENDING_RENDER
    clip,      \* history: what was copied last, and what the dialog showed
    turns,
    overtaken, \* history: a load has landed after a newer list
    unsigned   \* the build hash has not come yet

reader == <<net, popup, REOPEN, PORT, deferred, clip, turns, unsigned>>
table  == <<news, poll, polls, DOJOS, HIST, HIST90, loads, DAILY, cards, overtaken, reader>>

-----------------------------------------------------------------------------
(***************************************************************************)
(* The cards: their order, and the strip under each.                       *)
(***************************************************************************)
Sum(s) ==
    LET upTo[k \in 0..Len(s)] == IF k = 0 THEN 0 ELSE upTo[k - 1] + s[k] IN upTo[Len(s)]
Last7(s) == SubSeq(s, IF Len(s) > 7 THEN Len(s) - 6 ELSE 1, Len(s))

\* Averages in thousandths. NO_HISTORY_PCT is between the dead and the living.
NoHistory == 500
Mean(s) == IF s = <<>> THEN NoHistory ELSE (1000 * Sum(s)) \div Len(s)

\* pct7: of the history that has landed. pct24: of the checks.
Week(d, x)  == IF d = Nil THEN NoHistory ELSE Mean(Last7(DaysOf[d][x]))
Today(c, x) ==
    LET s == ChecksOf[c][x]
    IN  Mean([i \in DOMAIN s |-> IF s[i] THEN 100 ELSE 0])

ByUptime(c, d, x, y) ==
    \/ Week(d, x) > Week(d, y)
    \/ Week(d, x) = Week(d, y) /\ Today(c, x) > Today(c, y)
    \/ /\ Week(d, x) = Week(d, y) /\ Today(c, x) = Today(c, y)
       /\ NameOf[x] < NameOf[y]

\* Entries that compare as equal stay as the list has them; here, in any order.
Rows(S) == {row \in [1..Cardinality(S) -> S] : \A i, j \in DOMAIN row : row[i] = row[j] => i = j}
Sorted(c, d, row) == \A i, j \in DOMAIN row : i < j => ~ByUptime(c, d, row[j], row[i])
Row(v, c, d, n) == CHOOSE row \in Rows(Listed[v][n]) : Sorted(c, d, row)

\* emptyState.
Says(v, n) ==
    IF Listed[v][n] # {} THEN "cards"
    ELSE IF v = 0 THEN "nothing yet"
    ELSE IF \E m \in Nets : Listed[v][m] # {} THEN "switch" ELSE "none"

\* renderHist90: a bar for each of the last days, and what is printed below.
View(days) == SubSeq(days, IF Len(days) > Window THEN Len(days) - Window + 1 ELSE 1, Len(days))
Bar(pct) == IF pct >= 95 THEN "up" ELSE IF pct >= 50 THEN "mid" ELSE "down"
Bars(days) == LET view == View(days) IN [i \in DOMAIN view |-> Bar(view[i])]
UpDays(days) == Cardinality({i \in DOMAIN View(days) : View(days)[i] >= 95})

\* loadHist90: the load that is cached, or a new one.
Cached(h90, l, p) ==
    IF h90 # 0 THEN [h90 |-> h90, loads |-> l]
    ELSE [h90 |-> Len(l) + 1, loads |-> Append(l, [days |-> Pending, poll |-> p])]

\* render. Only cards ask for the daily history.
Draw(l, c, d, n, h90) ==
    LET row == Row(l.of, c, d, n)
        use == IF row = <<>> THEN [h90 |-> h90, loads |-> loads] ELSE Cached(h90, loads, l.poll)
    IN  /\ cards' = [of |-> l.of, poll |-> l.poll, net |-> n, row |-> row, says |-> Says(l.of, n),
                     knew |-> d, strips |-> IF row = <<>> THEN 0 ELSE use.h90]
        /\ HIST90' = use.h90 /\ loads' = use.loads

-----------------------------------------------------------------------------
\* The page is loaded, and asks for the three files at once.
CardsInit ==
    /\ news = [list |-> 0, checks |-> 0, days |-> 0]
    /\ polls = 1 /\ poll = [list |-> Pending, checks |-> Pending]
    /\ DOJOS = Nil /\ HIST = Nil /\ net = "mainnet"
    /\ HIST90 = 1 /\ loads = <<[days |-> Pending, poll |-> 1]>> /\ DAILY = Nil
    /\ cards = Nil /\ popup = Nil /\ REOPEN = Nil /\ PORT = 9150
    /\ deferred = FALSE /\ clip = Nil /\ turns = 0
    /\ overtaken = FALSE /\ unsigned = TRUE

\* A cycle of the updater writes the list, the checks, the daily history.
Update ==
    /\ news' = CASE news.list = news.days -> [news EXCEPT !.list = @ + 1]
                 [] news.list > news.checks -> [news EXCEPT !.checks = news.list]
                 [] OTHER -> [news EXCEPT !.days = news.list]
    /\ news'.list \in Cycles
    /\ UNCHANGED <<poll, polls, DOJOS, HIST, HIST90, loads, DAILY, cards, overtaken, reader>>

\* refreshData, by the timer or by a tab that is looked at again.
Refresh ==
    /\ poll = Nil /\ polls < MaxPolls
    /\ polls' = polls + 1 /\ poll' = [list |-> Pending, checks |-> Pending]
    /\ UNCHANGED <<news, DOJOS, HIST, HIST90, loads, DAILY, cards, overtaken, reader>>

FileAnswers ==
    /\ poll # Nil
    /\ \E f \in {"list", "checks"} :
         poll[f] = Pending /\ \E a \in {news[f], Failed} : poll' = [poll EXCEPT ![f] = a]
    /\ UNCHANGED <<news, polls, DOJOS, HIST, HIST90, loads, DAILY, cards, overtaken, reader>>

Answered == poll # Nil /\ poll.list # Pending /\ poll.checks # Pending

\* One of the two could not be had: the last good data stay.
PollFails ==
    /\ Answered /\ Failed \in {poll.list, poll.checks}
    /\ poll' = Nil
    /\ UNCHANGED <<news, polls, DOJOS, HIST, HIST90, loads, DAILY, cards, overtaken, reader>>

Got(d, h90) ==
    /\ Answered /\ Failed \notin {poll.list, poll.checks}
    /\ poll' = Nil
    /\ DOJOS' = [of |-> poll.list, poll |-> polls] /\ HIST' = poll.checks /\ DAILY' = d
    /\ deferred' = (deferred \/ popup # Nil)
    /\ IF popup # Nil THEN HIST90' = h90 /\ UNCHANGED <<loads, cards>>
       ELSE Draw(DOJOS', poll.checks, d, net, h90)
    /\ UNCHANGED <<news, polls, overtaken, net, popup, REOPEN, PORT, clip, turns, unsigned>>

\* The first of all waits for the daily history, and keeps it.
FirstLands == polls = 1 /\ loads[1].days # Pending /\ Got(DAILY, HIST90)

\* Bug: the strips are never loaded again.
PollKeepsDays == polls > 1 /\ Got(DAILY, HIST90)

\* Under an open dialog the data are taken and the redraw is put off.
PollLands == polls > 1 /\ Got(Nil, 0)

\* The answer is kept whichever load it is of; an error is an empty history.
DaysLand(k) ==
    /\ loads[k].days = Pending
    /\ \E a \in {news.days, Nil} :
         /\ loads' = [loads EXCEPT ![k].days = a]
         /\ DAILY' = a
    /\ overtaken' = (overtaken \/ k # HIST90)
    /\ UNCHANGED <<news, poll, polls, DOJOS, HIST, HIST90, cards, reader>>

-----------------------------------------------------------------------------
(***************************************************************************)
(* The visitor.                                                            *)
(***************************************************************************)
Turn == turns < MaxTurns /\ turns' = turns + 1

\* The network switch; the menu redraws as well.
ShowNet(n) ==
    /\ cards # Nil /\ popup = Nil /\ Turn
    /\ net' = n /\ Draw(DOJOS, HIST, DAILY, n, HIST90)
    /\ UNCHANGED <<news, poll, polls, DOJOS, HIST, DAILY, overtaken, popup, REOPEN, PORT, deferred,
                   clip, unsigned>>

\* The buttons of a card.
Offered(v, x) ==
    {"pair"} \cup (IF "proof" \in Signed[v][x] THEN {"domproof"} ELSE {})
             \cup (IF "apikey" \in Signed[v][x] THEN Commands ELSE {})

\* Without a key or a proof there is a sentence that says so.
CheckSelfHTML(x, v, p) ==
    [is |-> "checkself", node |-> x, of |-> v, port |-> p, empty |-> "apikey" \notin Signed[v][x]]
RescanHTML(x, v, p) == [CheckSelfHTML(x, v, p) EXCEPT !.is = "rescan"]
DomainProofHTML(x, v, p) ==
    [is |-> "domproof", node |-> x, of |-> v, port |-> p, empty |-> "proof" \notin Signed[v][x]]
PairHTML(x, v, p) == [is |-> "pair", node |-> x, of |-> v, port |-> p, empty |-> FALSE]

HTML(is, x, v, p) == CASE is = "checkself" -> CheckSelfHTML(x, v, p)
                       [] is = "rescan"    -> RescanHTML(x, v, p)
                       [] is = "domproof"  -> DomainProofHTML(x, v, p)
                       [] is = "pair"      -> PairHTML(x, v, p)

\* openPair, openDomainProof, openCheckSelf, openRescan: of the node of the card.
Open(is, x) ==
    /\ cards # Nil /\ popup = Nil /\ x \in {cards.row[i] : i \in DOMAIN cards.row} /\ Turn
    /\ is \in Offered(cards.of, x)
    /\ popup' = [title |-> x, body |-> HTML(is, x, DOJOS.of, PORT)]
    /\ REOPEN' = IF is \in Commands THEN [is |-> is, node |-> x, of |-> DOJOS.of] ELSE REOPEN
    /\ UNCHANGED <<news, poll, polls, DOJOS, HIST, HIST90, loads, DAILY, cards, overtaken,
                   net, PORT, deferred, clip, unsigned>>

\* The picker of a dialog with commands writes the dialog again.
PickPort(p) ==
    /\ popup # Nil /\ popup.body.is \in Commands /\ Turn
    /\ PORT' = p
    /\ popup' = IF REOPEN = Nil THEN popup
                ELSE [popup EXCEPT !.body = HTML(REOPEN.is, REOPEN.node, REOPEN.of, p)]
    /\ UNCHANGED <<news, poll, polls, DOJOS, HIST, HIST90, loads, DAILY, cards, overtaken,
                   net, REOPEN, deferred, clip, unsigned>>

\* A command is copied as it is shown; the pairing is looked up again.
Copy ==
    /\ popup # Nil /\ ~popup.body.empty /\ Turn
    /\ LET b == popup.body
           v == IF b.is = "pair" THEN DOJOS.of ELSE b.of
       IN  /\ b.is = "pair" => b.node \in UNION {Listed[v][n] : n \in Nets}
           /\ clip' = [what |-> HTML(b.is, b.node, v, b.port), from |-> popup, late |-> deferred]
    /\ UNCHANGED <<news, poll, polls, DOJOS, HIST, HIST90, loads, DAILY, cards, overtaken,
                   net, popup, REOPEN, PORT, deferred, unsigned>>

\* closeModal, of the Escape key too, which needs no dialog.
Close ==
    /\ cards # Nil /\ Turn
    /\ popup' = Nil /\ REOPEN' = Nil /\ deferred' = FALSE
    /\ IF deferred THEN Draw(DOJOS, HIST, DAILY, net, HIST90)
       ELSE UNCHANGED <<cards, HIST90, loads>>
    /\ UNCHANGED <<news, poll, polls, DOJOS, HIST, DAILY, overtaken, net, PORT, clip, unsigned>>

\* loadVersion, loadOperator or detectBackend redraws the page, and any dialog
\* is gone; PENDING_RENDER and MODAL_REOPEN stay.
FooterLands ==
    /\ unsigned /\ cards # Nil /\ unsigned' = FALSE
    /\ popup' = Nil /\ Draw(DOJOS, HIST, DAILY, net, HIST90)
    /\ UNCHANGED <<news, poll, polls, DOJOS, HIST, DAILY, overtaken, net, REOPEN, PORT, deferred,
                   clip, turns>>

CardsNext ==
    \/ Update \/ Refresh \/ FileAnswers \/ PollFails \/ FirstLands \/ PollLands \/ FooterLands
    \/ \E k \in DOMAIN loads : DaysLand(k)
    \/ \E n \in Nets : ShowNet(n)
    \/ \E is \in Commands \cup {"pair", "domproof"}, x \in Nodes : Open(is, x)
    \/ \E p \in Ports : PickPort(p)
    \/ Copy \/ Close

-----------------------------------------------------------------------------
(***************************************************************************)
(* CardsTypeOK: the shapes of what the page has loaded, drawn and opened.  *)
(***************************************************************************)
CardsTypeOK ==
    /\ news \in [list: Cycles, checks: Cycles, days: Cycles]
    /\ polls \in 1..MaxPolls /\ turns \in 0..MaxTurns
    /\ poll \in {Nil} \cup [list: Cycles \cup {Pending, Failed},
                           checks: Cycles \cup {Pending, Failed}]
    /\ DOJOS \in [of: Cycles, poll: 1..MaxPolls] \cup {Nil} /\ HIST \in Cycles \cup {Nil}
    /\ loads \in Seq([days: Cycles \cup {Pending, Nil}, poll: 1..MaxPolls])
    /\ HIST90 \in 0..Len(loads) /\ DAILY \in Cycles \cup {Nil}
    /\ cards # Nil => cards.strips \in 0..Len(loads) /\ cards.of \in Cycles
    /\ popup \in Dialogs \cup {Nil} /\ net \in Nets /\ PORT \in Ports
    /\ {deferred, overtaken, unsigned} \subseteq BOOLEAN

Landed == cards # Nil /\ cards.strips # 0 /\ loads[cards.strips].days \notin {Pending, Nil}

(***************************************************************************)
(* A cached history never outlives its list: the strips under the cards    *)
(* were loaded for the very refresh the cards come from. Where the cards   *)
(* were put in order by a history, the order is that of the strips (unless *)
(* an older load landed last); and the days a strip paints green are the   *)
(* days its label counts.                                                  *)
(***************************************************************************)
StripsTrue ==
    /\ cards # Nil /\ cards.strips # 0 => loads[cards.strips].poll = cards.poll
    /\ Landed =>
         LET days == loads[cards.strips].days
             row  == cards.row
         IN  /\ cards.knew # Nil /\ ~overtaken
                  => \A i, j \in DOMAIN row : i < j => Week(days, row[i]) >= Week(days, row[j])
             /\ \A i \in DOMAIN row :
                  LET all == DaysOf[days][row[i]] IN
                    Cardinality({k \in DOMAIN Bars(all) : Bars(all)[k] = "up"}) = UpDays(all)

(***************************************************************************)
(* A dialog has what its button promised, of the node in its title and for *)
(* the port that is picked; and what is copied is what is read there,      *)
(* unless a new list came in under the open dialog.                        *)
(***************************************************************************)
DialogTrue ==
    /\ popup # Nil =>
         /\ popup.body.node = popup.title /\ ~popup.body.empty
         /\ popup.body.is \in Commands => popup.body.port = PORT
    /\ clip # Nil =>
         /\ clip.what.node = clip.from.title
         /\ clip.what = clip.from.body \/ clip.late

(***************************************************************************)
(* The page that asks readers to trust a figure, or to run a command, has  *)
(* it right, whatever arrived late or under their hands.                   *)
(***************************************************************************)
CardsTrue == StripsTrue /\ DialogTrue
=============================================================================
