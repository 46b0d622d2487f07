-------------------------------- MODULE Probe --------------------------------
(***************************************************************************)
(* One probe cycle of scripts/update.mjs from the inside: the pool of      *)
(* workers, the conversation of each probe with Tor's SOCKS proxy and with *)
(* the node (socks5Connect, httpOverTor, probeHeight and the plain probe), *)
(* their timers, and what the results make of the list, of the rolling     *)
(* checks, of the daily rollup and of pending-probe.json. Publish.tla has  *)
(* the same cycle from the outside, against the rebuilds of the backend.   *)
(*                                                                         *)
(* Time is left out: a timer may fire whenever its wait is on, and fires   *)
(* at last. What a node has sent so far is one of five: nothing, bytes     *)
(* that are not HTTP, a reply with another status than 200, a 200 whose    *)
(* body is not (or not yet) the one asked for, and a good reply. A version *)
(* is a value that passed normaliseVersion, and an indexer a URL that      *)
(* passed normaliseIndexerUrl; a reply may carry any or none.              *)
(***************************************************************************)
EXTENDS Naturals, Sequences, FiniteSets

CONSTANTS
    Nodes,      \* listed and pending nodes
    Keyed,      \* those whose pairing payload has an apikey
    Tls,        \* those whose URL is https, for which a Tor stream is enough
    Broken,     \* imported ones whose URL does not parse
    Lists,      \* what dojos.json may list when a cycle reads it
    Queues,     \* what may be pending when the cycle comes to it
    Workers,    \* CONCURRENCY of them
    Heights, Versions, Indexers, \* values a node may report
    Window,     \* WINDOW_CHECKS
    Retention,  \* RETENTION_DAYS
    MaxCycles,  \* bound: probe cycles
    MaxDays,    \* bound: days
    MaxCrashes, \* bound: cycles killed
    None        \* nothing reported

\* What a probe finds.
Result == [up: BOOLEAN, height: Heights \cup {None}, version: Versions \cup {None},
           indexer: Indexers \cup {None}]

ASSUME ProbeAssumption ==
    /\ Lists \subseteq Seq(Nodes) /\ Queues \subseteq Seq(Nodes)
    \* An entry has its own id, and a pending one is not listed yet.
    /\ \A s \in Lists \cup Queues : \A i, j \in DOMAIN s : s[i] = s[j] => i = j
    /\ \A s \in Lists, q \in Queues : \A i \in DOMAIN s, j \in DOMAIN q : s[i] # q[j]
    /\ {Window, Retention, MaxDays} \subseteq Nat \ {0}
    /\ {MaxCycles, MaxCrashes} \subseteq Nat
    /\ None \notin Heights \cup Versions \cup Indexers \cup Result

VARIABLES
    phase,   \* what the cycle is at
    today,   \* the day the cycle began on
    items,   \* the nodes the pool works on, in order
    next,    \* the pool's index
    work,    \* what each worker waits for
    results, \* what the probes found, by index
    cards,   \* what dojos.json, or pending-probe.json, says of each node
    checks,  \* the rolling checks of each node
    daily,   \* history-daily.json
    day,     \* the date
    cycles, crashes,
    said     \* history: what each node has told its own probe this cycle

probe == <<phase, today, items, next, work, results, cards, checks, daily, day,
           cycles, crashes, said>>
Pool  == <<next, work, results>>
Files == <<cards, checks, daily>>

Idle  == [at |-> "idle"]
Heard == {"nothing", "noise", "error", "head", "good"}
Steps == {"plain", "login", "wallet", "services"}

Task   == [at: {"greet", "reply", "read"}, idx: Nat \ {0}, step: Steps, heard: Heard,
           height: Heights \cup {None}, version: Versions \cup {None}]
Card   == [status: {"active", "inactive", None}, height: Heights \cup {None},
           version: Versions \cup {None}, indexer: Indexers \cup {None}]
Check  == [d: Nat, up: BOOLEAN]
DayRec == [d: Nat, up: Nat, total: Nat, close: Heights \cup {None}]

Node(w)  == items[work[w].idx]
Busy     == {w \in Workers : work[w] # Idle}
Probing  == phase \in {"public", "pending", "leaving"}

ProbeTypeOK ==
    /\ phase \in {"rest", "public", "history", "daily", "turn", "pending", "leaving"}
    /\ items \in {<<>>} \cup Lists \cup Queues /\ next \in Nat \ {0}
    /\ work \in [Workers -> {Idle} \cup Task]
    /\ \A i \in DOMAIN results : results[i] \in Result \cup {None}
    /\ cards \in [Nodes -> Card]
    /\ \A n \in Nodes : /\ checks[n] \in Seq(Check) /\ Len(checks[n]) <= Window
                        /\ daily[n] \in Seq(DayRec) /\ Len(daily[n]) <= Retention
    /\ {today, day} \subseteq 0..MaxDays
    /\ cycles \in 0..MaxCycles /\ crashes \in 0..MaxCrashes

-----------------------------------------------------------------------------

ProbeInit ==
    /\ phase = "rest" /\ today = 0 /\ items = <<>>
    /\ next = 1 /\ work = [w \in Workers |-> Idle] /\ results = <<>>
    /\ cards = [n \in Nodes |-> [status |-> None, height |-> None, version |-> None,
                                 indexer |-> None]]
    /\ checks = [n \in Nodes |-> <<>>] /\ daily = [n \in Nodes |-> <<>>]
    /\ day = 0 /\ cycles = 0 /\ crashes = 0
    /\ said = [n \in Nodes |-> {}]

\* pool(): the items, the index and the results of one call.
PoolOver(list) ==
    /\ items' = list /\ next' = 1
    /\ results' = [i \in DOMAIN list |-> None]

NoPool == PoolOver(<<>>) /\ work' = [w \in Workers |-> Idle]

\* main(), up to the probes.
BeginCycle(list) ==
    /\ phase = "rest" /\ cycles < MaxCycles
    /\ phase' = "public" /\ cycles' = cycles + 1 /\ today' = day
    /\ PoolOver(list)
    /\ said' = [n \in Nodes |-> {}]
    /\ UNCHANGED <<work, Files, day, crashes>>

-----------------------------------------------------------------------------
(***************************************************************************)
(* A worker and its probe.                                                 *)
(***************************************************************************)
Greeting(idx, step, height, version) ==
    [at |-> "greet", idx |-> idx, step |-> step, heard |-> "nothing",
     height |-> height, version |-> version]

Finish(w, r) ==
    /\ results' = [results EXCEPT ![work[w].idx] = r]
    /\ work' = [work EXCEPT ![w] = Idle]
    /\ UNCHANGED <<phase, today, items, next, Files, day, cycles, crashes>>

Outcome(up, height, version, indexer) ==
    [up |-> up, height |-> height, version |-> version, indexer |-> indexer]
Down(version) == Outcome(FALSE, None, version, None)

\* The worker takes the next item. A URL that does not parse throws, out of the
\* pool: for a listed node that ends the process, for a pending one the pending
\* part is skipped, while what the other workers have begun runs to its end.
Take(w) ==
    /\ phase \in {"public", "pending"}
    /\ work[w] = Idle /\ next <= Len(items)
    /\ IF items[next] \in Broken
         THEN /\ IF phase = "public"
                   THEN phase' = "rest" /\ NoPool
                   ELSE phase' = "leaving" /\ UNCHANGED <<items, Pool>>
         ELSE /\ work' = [work EXCEPT ![w] =
                    Greeting(next, IF items[next] \in Keyed THEN "login" ELSE "plain", None, None)]
              /\ next' = next + 1
              /\ UNCHANGED <<phase, items, results>>
    /\ UNCHANGED <<today, Files, day, cycles, crashes, said>>

\* parseDojoVersion and parseIndexerUrl: what may be read from what has come so
\* far, whatever it is, and from a good reply about the services.
VersionsIn(t) == IF t.at = "read" /\ t.heard # "nothing" THEN Versions \cup {None} ELSE {None}
IndexersIn(t) == IF t.heard = "good" THEN Indexers \cup {None} ELSE {None}

Says(n, facts) == said' = [said EXCEPT ![n] = @ \cup facts]

\* The connection fails, breaks or is given up, at any stage. The plain probe
\* takes any byte for an answer; httpOverTor rejects, and drops what had come.
Lost(w) ==
    LET t == work[w] IN
    CASE t.step = "plain" ->
           \E v \in VersionsIn(t) :
             /\ Finish(w, Outcome(t.at = "read" /\ t.heard # "nothing", None, v, None))
             /\ Says(Node(w), {<<"version", v>>})
      [] t.step \in {"login", "wallet"} -> Finish(w, Down(t.version)) /\ UNCHANGED said
      [] t.step = "services" ->
           Finish(w, Outcome(TRUE, t.height, t.version, None)) /\ UNCHANGED said

\* The proxy accepts the greeting; then it answers the CONNECT request.
Greeted(w) ==
    /\ Probing /\ work[w].at = "greet"
    /\ work' = [work EXCEPT ![w].at = "reply"]
    /\ UNCHANGED <<phase, today, items, next, results, Files, day, cycles, crashes, said>>

Connected(w) ==
    /\ Probing /\ work[w].at = "reply"
    /\ IF Node(w) \in Tls /\ work[w].step = "plain"
         THEN /\ Finish(w, Outcome(TRUE, None, None, None))
              /\ Says(Node(w), {<<"up", None>>})
         ELSE /\ work' = [work EXCEPT ![w].at = "read"]
              /\ UNCHANGED <<phase, today, items, next, results, Files, day, cycles, crashes, said>>

\* The proxy refuses, the stream has an error, or the proxy closes it.
Cut(w) == Probing /\ work[w] # Idle /\ Lost(w)

\* Bug: no timer during the SOCKS handshake.
TimeoutReading(w) == Probing /\ work[w].at = "read" /\ Lost(w)

\* The timer of socks5Connect, of httpOverTor or of the plain probe.
Timeout(w) == Probing /\ work[w] # Idle /\ Lost(w)

\* More than MAX_RESPONSE_BYTES, or MAX_STATUS_LINE_BYTES without a status line.
Flooded(w) ==
    /\ Probing /\ work[w].at = "read" /\ work[w].heard # "nothing"
    /\ IF work[w].step = "plain"
         THEN \E v \in VersionsIn(work[w]) :
                Finish(w, Down(v)) /\ Says(Node(w), {<<"version", v>>})
         ELSE Lost(w)

\* Bytes arrive. The plain probe is over as soon as they begin a status line.
Data(w, h) ==
    /\ Probing /\ work[w].at = "read"
    /\ \/ work[w].heard = "nothing" /\ h # "nothing"
       \/ work[w].heard = "head" /\ h = "good"
    /\ IF work[w].step = "plain" /\ h # "noise"
         THEN \E v \in Versions \cup {None} :
                /\ Finish(w, Outcome(TRUE, None, v, None))
                /\ Says(Node(w), {<<"up", None>>, <<"version", v>>})
         ELSE /\ work' = [work EXCEPT ![w].heard = h]
              /\ UNCHANGED <<phase, today, items, next, results, Files, day, cycles, crashes, said>>

\* The next request, over a connection of its own.
Request(w, step, height, version) ==
    /\ work' = [work EXCEPT ![w] = Greeting(@.idx, step, height, version)]
    /\ UNCHANGED <<phase, today, items, next, results, Files, day, cycles, crashes>>

\* probeHeight, with an answer to a request: its status, its body, and the
\* version known by now. The steps that follow the login need its token.
AnswerServicesStrict(w, ok, version, ix) ==
    IF ok THEN Finish(w, Outcome(TRUE, work[w].height, version, ix)) ELSE Finish(w, Down(version))

AnswerServices(w, ok, version, ix) ==
    Finish(w, Outcome(TRUE, work[w].height, version, ix))

AnswerWallet(w, ok, version, tip) ==
    IF ok THEN Request(w, "services", tip, version) ELSE Finish(w, Down(version))

AnswerLogin(w, ok, version) ==
    IF ok THEN Request(w, "wallet", None, version) ELSE Finish(w, Down(version))

\* The node closes the connection, which ends its reply. A reply that is not
\* HTTP, or has another status, or no token or tip in it, is a node that is down.
Closed(w) ==
    LET t == work[w]  ok == t.heard = "good" IN
    /\ Probing /\ t.at = "read" /\ t.step # "plain" /\ t.heard # "nothing"
    /\ \E v \in VersionsIn(t), tip \in Heights, ix \in IndexersIn(t) :
         LET version == IF t.version = None THEN v ELSE t.version IN
         /\ CASE t.step = "login"    -> AnswerLogin(w, ok, version)
              [] t.step = "wallet"   -> AnswerWallet(w, ok, version, tip)
              [] t.step = "services" -> AnswerServices(w, ok, version, ix)
         /\ Says(Node(w), {<<"version", v>>}
              \cup (IF ok /\ t.step = "wallet" THEN {<<"up", None>>, <<"height", tip>>} ELSE {})
              \cup (IF ok /\ t.step = "services" THEN {<<"indexer", ix>>} ELSE {}))

-----------------------------------------------------------------------------
(***************************************************************************)
(* What the results lead to.                                               *)
(***************************************************************************)
Gathered == next > Len(items) /\ Busy = {}

Of(n)     == CHOOSE i \in DOMAIN items : items[i] = n
InPool    == {items[i] : i \in DOMAIN items}
Last(s, m) == SubSeq(s, (IF Len(s) > m THEN Len(s) - m + 1 ELSE 1), Len(s))

\* Bug: a cycle that read no height, version or indexer clears the last one.
FreshCard(c, r) ==
    [status |-> IF r.up THEN "active" ELSE "inactive",
     height |-> r.height, version |-> r.version, indexer |-> r.indexer]

\* The last known height, version and indexer stay until new ones are read.
NewCard(c, r) ==
    [status  |-> IF r.up THEN "active" ELSE "inactive",
     height  |-> IF r.height # None THEN r.height ELSE c.height,
     version |-> IF r.version # None THEN r.version ELSE c.version,
     indexer |-> IF r.indexer # None THEN r.indexer ELSE c.indexer]

NewChecks(n) == Last(Append(checks[n], [d |-> today, up |-> results[Of(n)].up]), Window)

\* Bug: the last record goes on whatever its date.
NewDaysUndated(n) ==
    LET r    == results[Of(n)]
        days == daily[n]
        rec  == IF Len(days) > 0 THEN days[Len(days)]
                ELSE [d |-> today, up |-> 0, total |-> 0, close |-> None]
    IN  <<[rec EXCEPT !.total = @ + 1, !.up = IF r.up THEN @ + 1 ELSE @]>>

\* The last record of the rollup is today's, or a new one begins.
NewDays(n) ==
    LET r     == results[Of(n)]
        days  == daily[n]
        open  == Len(days) > 0 /\ days[Len(days)].d = today
        rec   == IF open THEN days[Len(days)] ELSE [d |-> today, up |-> 0, total |-> 0, close |-> None]
        new   == [rec EXCEPT !.total = @ + 1, !.up = IF r.up THEN @ + 1 ELSE @,
                             !.close = IF r.height # None THEN r.height ELSE @]
    IN  Last((IF open THEN SubSeq(days, 1, Len(days) - 1) ELSE days) \o <<new>>, Retention)

AllFailed == Len(items) > 0 /\ \A i \in DOMAIN items : ~results[i].up

\* A cycle in which every node failed is a fault of this machine: no status, no
\* check and no rollup is recorded, and the pending ones are not probed.
Fault ==
    /\ phase = "public" /\ Gathered /\ AllFailed
    /\ phase' = "rest" /\ NoPool
    /\ UNCHANGED <<today, Files, day, cycles, crashes, said>>

WriteList ==
    /\ phase = "public" /\ Gathered /\ ~AllFailed
    /\ phase' = "history"
    /\ cards' = [n \in Nodes |-> IF n \in InPool THEN NewCard(cards[n], results[Of(n)]) ELSE cards[n]]
    /\ UNCHANGED <<today, items, Pool, checks, daily, day, cycles, crashes, said>>

WriteHistory ==
    /\ phase = "history"
    /\ phase' = "daily"
    /\ checks' = [n \in Nodes |-> IF n \in InPool THEN NewChecks(n) ELSE checks[n]]
    /\ UNCHANGED <<today, items, Pool, cards, daily, day, cycles, crashes, said>>

WriteDaily ==
    /\ phase = "daily"
    /\ phase' = "turn"
    /\ daily' = [n \in Nodes |-> IF n \in InPool THEN NewDays(n) ELSE daily[n]]
    /\ UNCHANGED <<today, items, Pool, cards, checks, day, cycles, crashes, said>>

\* The pending submissions are read only now, and probed by a pool of their own.
TurnToPending(queue) ==
    /\ phase = "turn"
    /\ phase' = "pending"
    /\ PoolOver(queue)
    /\ UNCHANGED <<today, work, Files, day, cycles, crashes, said>>

WritePending ==
    /\ phase = "pending" /\ Gathered
    /\ phase' = "rest" /\ NoPool
    /\ cards' = [n \in Nodes |-> IF n \in InPool THEN NewCard(cards[n], results[Of(n)]) ELSE cards[n]]
    /\ checks' = [n \in Nodes |-> IF n \in InPool THEN NewChecks(n) ELSE checks[n]]
    /\ UNCHANGED <<today, daily, day, cycles, crashes, said>>

Leave ==
    /\ phase = "leaving" /\ Busy = {}
    /\ phase' = "rest" /\ NoPool
    /\ UNCHANGED <<today, Files, day, cycles, crashes, said>>

Crash ==
    /\ phase # "rest" /\ crashes < MaxCrashes
    /\ crashes' = crashes + 1
    /\ phase' = "rest" /\ NoPool
    /\ UNCHANGED <<today, Files, day, cycles, said>>

Midnight ==
    /\ day + 1 < MaxDays
    /\ day' = day + 1
    /\ UNCHANGED <<phase, today, items, Pool, Files, cycles, crashes, said>>

-----------------------------------------------------------------------------

Recording == Fault \/ WriteList \/ WriteHistory \/ WriteDaily \/ WritePending \/ Leave

ProbeNext ==
    \/ \E list \in Lists : BeginCycle(list)
    \/ \E queue \in Queues : TurnToPending(queue)
    \/ \E w \in Workers :
         \/ Take(w) \/ Greeted(w) \/ Connected(w) \/ Cut(w)
         \/ Timeout(w) \/ Flooded(w) \/ Closed(w)
         \/ \E h \in Heard : Data(w, h)
    \/ Recording \/ Crash \/ Midnight

\* The process runs and its timers fire; nothing is assumed of Tor and the nodes.
Fairness ==
    /\ \A w \in Workers : WF_probe(Take(w)) /\ WF_probe(Timeout(w))
    /\ WF_probe(\E queue \in Queues : TurnToPending(queue))
    /\ WF_probe(Recording)

ProbeSpec == ProbeInit /\ [][ProbeNext]_probe /\ Fairness

-----------------------------------------------------------------------------
(***************************************************************************)
(* What is published of a node was earned in the cycle that publishes it,  *)
(* by that node: a node with an apikey becomes active only if it logged    *)
(* this directory in and gave a chain tip, any value of a card that changes*)
(* is one the node itself reported, and none is lost once it is known. The *)
(* results travel through a pool of workers by index, and come of up to    *)
(* three connections that may each end in any way.                         *)
(***************************************************************************)
CardsEarned ==
    [][\A n \in Nodes : LET old == cards[n]  new == cards'[n] IN
         /\ old # new /\ new.status = "active" /\ n \in Keyed => <<"up", None>> \in said[n]
         /\ old.height  # new.height  => <<"height", new.height>> \in said[n]
         /\ old.version # new.version => <<"version", new.version>> \in said[n] /\ new.version # None
         /\ old.indexer # new.indexer => <<"indexer", new.indexer>> \in said[n] /\ new.indexer # None
      ]_cards

(***************************************************************************)
(* A node that answered is not put down for what comes after its tip: a    *)
(* node that is found down in a cycle gave no chain tip in it. (The third  *)
(* request of probeHeight is "strictly additive".)                         *)
(***************************************************************************)
TipMeansUp ==
    \A i \in DOMAIN results :
        results[i] # None /\ ~results[i].up => <<"up", None>> \notin said[items[i]]

(***************************************************************************)
(* What a probe found is what is published: nothing that was not earned,   *)
(* and no node down that gave a tip.                                       *)
(***************************************************************************)
ProbesHonest == []TipMeansUp /\ CardsEarned

(***************************************************************************)
(* The daily rollup and the rolling checks count the same cycles: the      *)
(* rollup never counts one the history does not have, whatever was killed  *)
(* between the two writes, and misses at most the cycles that were. (Until *)
(* the window is full: the rollup outlives the checks.)                    *)
(***************************************************************************)
RollupAgrees ==
    \A n \in Nodes : cycles <= Window =>
        \A i \in DOMAIN daily[n] :
            LET rec  == daily[n][i]
                seen == {j \in DOMAIN checks[n] : checks[n][j].d = rec.d}
                ups  == {j \in seen : checks[n][j].up}
                open == crashes + (IF phase = "daily" THEN 1 ELSE 0)
            IN  /\ rec.total \in (Cardinality(seen) - open)..Cardinality(seen)
                /\ rec.up \in (Cardinality(ups) - open)..Cardinality(ups)

(***************************************************************************)
(* Every cycle ends, whatever the nodes and Tor do or leave undone: the    *)
(* unit is started again by its timer only when it is over.                *)
(***************************************************************************)
EveryCycleEnds == phase # "rest" ~> phase = "rest"
=============================================================================
