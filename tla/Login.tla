-------------------------------- MODULE Login --------------------------------
(***************************************************************************)
(* Signing in with a wallet (Auth47): the challenge, the wallet's callback,*)
(* the browser's poll, the logout and the look-up of a session in          *)
(* server/index.ts, with the nonces and the sessions of server/store.ts    *)
(* and the file they are saved to.                                         *)
(*                                                                         *)
(* A handler is a chain of store operations. Each mutates the object in    *)
(* memory and serialises it in one step, and awaits the rename of that     *)
(* snapshot before the handler goes on with the next; other handlers run   *)
(* meanwhile, and the renames may complete in any order. After a start the *)
(* first operation awaits the read of the file. The store is loaded and    *)
(* saved as a whole: any handler that writes saves the nonces of all.      *)
(*                                                                         *)
(* A challenge stands for its nonce and the page that shows it, and a      *)
(* session for its id; both are random in the code and are used again here *)
(* when nothing refers to them any more. The code that signed travels with *)
(* the session and is left out.                                            *)
(***************************************************************************)
EXTENDS Naturals

CONSTANTS
    Challenges, \* nonces, each on a page of its own
    Sids,       \* session ids
    Calls,      \* bound: handlers at work at once
    MaxCrashes, \* bound: times the backend is killed
    None,      \* no session, no challenge followed here
    NoStore     \* the store's cache before the first load

ASSUME LoginAssumption ==
    /\ MaxCrashes \in Nat /\ None \notin Sids \cup Challenges
    /\ {"none", "waiting", "closed"} \cap Sids = {}

VARIABLES
    mem,       \* the store's cache
    disk,      \* store.json
    call,      \* what each handler is doing
    newer,     \* for each call whose snapshot waits for its rename, the calls that
               \* wait with a newer one
    late,      \* the waiting calls whose rename would replace a newer snapshot
    page,      \* each page: none, waiting for its wallet, closed, or its cookie
    lapsed,    \* nonces, claims and sessions whose time is over
    crashes,
    made,      \* history: how many sessions were made from a challenge
    handed,    \* history: how many polls were answered with a session
    leaving,   \* history: sessions a logout has reached
    out,       \* history: sessions dropped by a logout that was confirmed
    overwrote, \* history: a load replaced a store that was in memory
    reordered  \* history: a rename put an older snapshot over a newer one

vars    == <<mem, disk, call, newer, late, page, lapsed, crashes, made, handed,
             leaving, out, overwrote, reordered>>
History == <<made, handed, leaving, out>>

-----------------------------------------------------------------------------
(***************************************************************************)
(* The content of the store, and the operations on it.                     *)
(***************************************************************************)
Nonce(c)   == <<"nonce", c>>
Claimed(c) == <<"claimed", c>>
Session(i) == <<"session", i>>

Content == [nonces: SUBSET Challenges,
            claims: [Challenges -> Sids \cup {None}],
            sessions: SUBSET Sids]

ASSUME NoStoreAssumption == NoStore \notin Content

Blank == [nonces |-> {}, claims |-> [c \in Challenges |-> None], sessions |-> {}]

\* gcNonces.
Pruned(s) ==
    [s EXCEPT !.nonces = {c \in @ : Nonce(c) \notin lapsed},
              !.claims = [c \in Challenges |->
                            IF Claimed(c) \in lapsed THEN None ELSE s.claims[c]]]

PutNonce(s, c)       == [s EXCEPT !.nonces = @ \cup {c}]
PutSession(s, i)     == [s EXCEPT !.sessions = @ \cup {i}]
PutClaim(s, c, i)    == [s EXCEPT !.claims[c] = i]
TakeClaim(s, c)      == [s EXCEPT !.claims[c] = None]
DropSession(s, i)    == [s EXCEPT !.sessions = @ \ {i}]

\* Bug: the nonce is only looked up, and left for gcNonces.
LookUpNonce(s, c) == s

TakeNonce(s, c) == [s EXCEPT !.nonces = @ \ {c}]

-----------------------------------------------------------------------------
(***************************************************************************)
(* Handlers. A call is idle, or at an operation: about to read the file    *)
(* for it ("load"), having read it ("loaded"), or waiting for the rename   *)
(* of the snapshot it led to ("save").                                     *)
(***************************************************************************)
Idle == [at |-> "idle"]
Ops  == {"gc", "nonce", "take", "session", "claim", "pick", "drop", "look", "other"}

Working  == {k \in Calls : call[k] # Idle}
Contents == {disk} \cup (IF mem = NoStore THEN {} ELSE {mem})
              \cup {call[k].buf : k \in Working}

\* The call k ends, with s for the store in memory.
End(k, s) ==
    /\ mem' = s
    /\ call' = [call EXCEPT ![k] = Idle]
    /\ newer' = [j \in Calls |-> IF j = k THEN {} ELSE newer[j] \ {k}]

\* The operation o of call k has made s of the store, which is being saved.
Save(k, o, c, i, s) ==
    /\ mem' = s
    /\ call' = [call EXCEPT ![k] = [at |-> "save", op |-> o, c |-> c, sid |-> i, buf |-> s]]
    /\ newer' = [j \in Calls |-> IF j = k THEN {}
                               ELSE IF call[j].at = "save" THEN newer[j] \cup {k}
                               ELSE newer[j]]

FreshSids == {i \in Sids :
    /\ \A s \in Contents : i \notin s.sessions /\ \A c \in Challenges : s.claims[c] # i
    /\ \A k \in Working : call[k].sid # i
    /\ \A c \in Challenges : page[c] # i}

\* store.putNonce: the answer carries the nonce and its QR code.
RunNonce(k, c, s) ==
    /\ Save(k, "nonce", c, None, PutNonce(s, c))
    /\ UNCHANGED <<page, lapsed, History>>

RunGc(k, c, s) ==
    IF Pruned(s) # s
      THEN Save(k, "gc", c, None, Pruned(s)) /\ UNCHANGED <<page, lapsed, History>>
      ELSE RunNonce(k, c, s)

\* A nonce that is not there is answered with "unknown or expired nonce".
RunTake(k, c, s) ==
    /\ IF c \in s.nonces THEN Save(k, "take", c, None, TakeNonce(s, c)) ELSE End(k, s)
    /\ UNCHANGED <<page, lapsed, History>>

RunSession(k, c, s) ==
    /\ \E i \in FreshSids :
         /\ Save(k, "session", c, i, PutSession(s, i))
         /\ lapsed' = lapsed \ {Session(i)}
         /\ handed' = [handed EXCEPT ![i] = 0]
         /\ leaving' = leaving \ {i} /\ out' = out \ {i}
    /\ made' = [made EXCEPT ![c] = @ + 1]
    /\ UNCHANGED page

RunClaim(k, c, i, s) ==
    /\ Save(k, "claim", c, i, PutClaim(s, c, i))
    /\ lapsed' = lapsed \ {Claimed(c)}
    /\ UNCHANGED <<page, History>>

\* Bug: the poll does not look whether there was a claim.
RunPickUnchecked(k, c, s) ==
    /\ Save(k, "pick", c, s.claims[c], TakeClaim(s, c))
    /\ UNCHANGED <<page, lapsed, History>>

RunPick(k, c, s) ==
    /\ IF s.claims[c] # None THEN Save(k, "pick", c, s.claims[c], TakeClaim(s, c))
       ELSE End(k, s)
    /\ UNCHANGED <<page, lapsed, History>>

SignedOut(c, i) == page' = [page EXCEPT ![c] = IF @ = i THEN "closed" ELSE @]

\* Bug: the session is dropped from memory, and nothing is saved.
RunDropUnsaved(k, c, i, s) ==
    /\ End(k, DropSession(s, i))
    /\ SignedOut(c, i)
    /\ leaving' = leaving \cup {i} /\ out' = out \cup {i}
    /\ UNCHANGED <<lapsed, made, handed>>

\* A session that is not in memory any more needs no saving, and the logout is
\* confirmed at once, even if the one that dropped it has not been saved yet,
\* or has failed.
RunDrop(k, c, i, s) ==
    /\ \/ i \in s.sessions /\ Save(k, "drop", c, i, DropSession(s, i)) /\ UNCHANGED page
       \/ i \notin s.sessions /\ End(k, s) /\ SignedOut(c, i)
    /\ leaving' = leaving \cup {i}
    /\ UNCHANGED <<lapsed, made, handed, out>>

\* store.getSession, before anything a signed-in visitor asks for.
RunLook(k, c, i, s) ==
    /\ IF i \in s.sessions /\ Session(i) \in lapsed
         THEN Save(k, "look", c, i, DropSession(s, i))
         ELSE End(k, s)
    /\ UNCHANGED <<page, lapsed, History>>

\* Any other handler that writes saves the whole store; a challenge that is
\* not followed here prunes it.
RunOther(k, s) ==
    /\ \E t \in {s, Pruned(s)} : Save(k, "other", None, None, t)
    /\ UNCHANGED <<page, lapsed, History>>

Run(k, o, c, i, s) ==
    CASE o = "gc"      -> RunGc(k, c, s)
      [] o = "nonce"   -> RunNonce(k, c, s)
      [] o = "take"    -> RunTake(k, c, s)
      [] o = "session" -> RunSession(k, c, s)
      [] o = "claim"   -> RunClaim(k, c, i, s)
      [] o = "pick"    -> RunPick(k, c, s)
      [] o = "drop"    -> RunDrop(k, c, i, s)
      [] o = "look"    -> RunLook(k, c, i, s)
      [] o = "other"   -> RunOther(k, s)

\* What a handler does next once its snapshot is saved.
NextOp(o) ==
    CASE o = "gc" -> "nonce" [] o = "take" -> "session" [] o = "session" -> "claim"
      [] OTHER -> "none"

-----------------------------------------------------------------------------

Init ==
    /\ mem = NoStore /\ disk = Blank
    /\ call = [k \in Calls |-> Idle] /\ newer = [k \in Calls |-> {}] /\ late = {}
    /\ page = [c \in Challenges |-> "none"]
    /\ lapsed = {} /\ crashes = 0
    /\ made = [c \in Challenges |-> 0] /\ handed = [i \in Sids |-> 0]
    /\ leaving = {} /\ out = {}
    /\ overwrote = FALSE /\ reordered = FALSE

\* A request arrives. With a store in memory load() returns it at once.
Arrive(k, o, c, i) ==
    /\ call[k] = Idle
    /\ \/ /\ mem = NoStore
          /\ call' = [call EXCEPT ![k] = [at |-> "load", op |-> o, c |-> c, sid |-> i, buf |-> Blank]]
          /\ UNCHANGED <<mem, newer, page, lapsed, History>>
       \/ mem # NoStore /\ Run(k, o, c, i, mem)
    /\ UNCHANGED <<disk, late, crashes, overwrote, reordered>>

Unused(c) ==
    /\ page[c] \in {"none", "closed"}
    /\ \A s \in Contents : c \notin s.nonces /\ s.claims[c] = None
    /\ \A k \in Working : call[k].c # c

\* POST /api/auth47/challenge, for a nonce nobody has seen.
Challenge(k, c) ==
    /\ Unused(c) /\ page[c] = "none" /\ made[c] = 0
    /\ Arrive(k, "gc", c, None)

\* A nonce that is nowhere any more stands for a new one from now on.
Renew(c) ==
    /\ Unused(c) /\ (page[c] = "closed" \/ made[c] # 0)
    /\ page' = [page EXCEPT ![c] = "none"]
    /\ made' = [made EXCEPT ![c] = 0]
    /\ lapsed' = lapsed \ {Nonce(c), Claimed(c)}
    /\ UNCHANGED <<mem, disk, call, newer, late, crashes, handed, leaving, out, overwrote, reordered>>

\* POST /api/auth47/callback, with a proof that verifies. The wallet may send
\* it again, and late.
Callback(k, c) ==
    /\ page[c] # "none"
    /\ Arrive(k, "take", c, None)

\* GET /api/auth47/poll.
Poll(k, c) ==
    /\ page[c] = "waiting"
    /\ Arrive(k, "pick", c, None)

\* POST /api/logout.
Logout(k, c) ==
    /\ page[c] \in Sids
    /\ Arrive(k, "drop", c, page[c])

\* Any other request with a cookie.
Visit(k, c) ==
    /\ page[c] \in Sids
    /\ Arrive(k, "look", c, page[c])

Other(k) == Arrive(k, "other", None, None)

Close(c) ==
    /\ page[c] \notin {"none", "closed"}
    /\ page' = [page EXCEPT ![c] = "closed"]
    /\ UNCHANGED <<mem, disk, call, newer, late, lapsed, crashes, History, overwrote, reordered>>

\* Bug: a file that could not be read is taken for a first start.
ReadFileOrBlank(k) ==
    /\ call[k].at = "load"
    /\ \E s \in {disk, Blank} :
         call' = [call EXCEPT ![k].at = "loaded", ![k].buf = s]
    /\ UNCHANGED <<mem, disk, newer, late, page, lapsed, crashes, History, overwrote, reordered>>

ReadFile(k) ==
    /\ call[k].at = "load"
    /\ call' = [call EXCEPT ![k].at = "loaded", ![k].buf = disk]
    /\ UNCHANGED <<mem, disk, newer, late, page, lapsed, crashes, History, overwrote, reordered>>

\* load() assigns the cache, whatever it holds by now, and the handler goes on.
Resume(k) ==
    /\ call[k].at = "loaded"
    /\ Run(k, call[k].op, call[k].c, call[k].sid, call[k].buf)
    /\ overwrote' = (overwrote \/ mem # NoStore)
    /\ UNCHANGED <<disk, late, crashes, reordered>>

\* The snapshot of a call is renamed over the file.
Renamed(k) ==
    LET ahead == {j \in Calls : k \in newer[j]}
    IN  /\ call[k].at = "save"
        /\ disk' = call[k].buf
        /\ late' = (late \cup ahead) \ {k}
        /\ reordered' = (reordered \/ k \in late)
        /\ UNCHANGED <<crashes, overwrote>>

\* The handler has more to do. The callback looks at the expiry of the nonce it
\* took only now.
Proceed(k) ==
    /\ Renamed(k)
    /\ NextOp(call[k].op) # "none"
    /\ ~(call[k].op = "take" /\ Nonce(call[k].c) \in lapsed)
    /\ Run(k, NextOp(call[k].op), call[k].c, call[k].sid, mem)

\* The handler's answer arrives.
Answer(k) ==
    /\ Renamed(k)
    /\ End(k, mem)
    /\ LET c == call[k].c  i == call[k].sid IN
         CASE call[k].op = "nonce" ->
                page' = [page EXCEPT ![c] = "waiting"] /\ UNCHANGED <<handed, out>>
           [] call[k].op = "pick" ->
                /\ page' = [page EXCEPT ![c] = IF @ = "waiting" THEN i ELSE @]
                /\ handed' = [handed EXCEPT ![i] = @ + 1]
                /\ UNCHANGED out
           [] call[k].op = "drop" -> SignedOut(c, i) /\ out' = out \cup {i} /\ UNCHANGED handed
           [] OTHER -> UNCHANGED <<page, handed, out>>
    /\ NextOp(call[k].op) = "none" \/ (call[k].op = "take" /\ Nonce(call[k].c) \in lapsed)
    /\ UNCHANGED <<lapsed, made, leaving>>

\* It is lost on its way.
AnswerLost(k) ==
    /\ Renamed(k)
    /\ NextOp(call[k].op) = "none"
    /\ End(k, mem)
    /\ UNCHANGED <<page, lapsed, History>>

\* The file cannot be read or written. What was done in memory stays.
Fail(k) ==
    /\ call[k].at \in {"loaded", "save"}
    /\ End(k, mem)
    /\ late' = late \ {k}
    /\ UNCHANGED <<disk, page, lapsed, crashes, History, overwrote, reordered>>

Crash ==
    /\ crashes < MaxCrashes
    /\ crashes' = crashes + 1
    /\ mem' = NoStore /\ late' = {} /\ newer' = [k \in Calls |-> {}]
    /\ call' = [k \in Calls |-> Idle]
    /\ UNCHANGED <<disk, page, lapsed, History, overwrote, reordered>>

\* The time of a nonce, a claim or a session is over.
Lapse ==
    /\ mem # NoStore
    /\ \E x \in {Nonce(c) : c \in mem.nonces}
             \cup {Claimed(c) : c \in {d \in Challenges : mem.claims[d] # None}}
             \cup {Session(i) : i \in mem.sessions} : x \notin lapsed /\ lapsed' = lapsed \cup {x}
    /\ UNCHANGED <<mem, disk, call, newer, late, page, crashes, History, overwrote, reordered>>

Next ==
    \/ \E c \in Challenges :
         \/ Renew(c) \/ Close(c)
         \/ \E k \in Calls :
              Challenge(k, c) \/ Callback(k, c) \/ Poll(k, c) \/ Logout(k, c) \/ Visit(k, c)
    \/ \E k \in Calls :
         Other(k) \/ ReadFile(k) \/ Resume(k) \/ Proceed(k) \/ Answer(k) \/ AnswerLost(k) \/ Fail(k)
    \/ Crash \/ Lapse

Spec == Init /\ [][Next]_vars

-----------------------------------------------------------------------------
(***************************************************************************)
(* TypeOK: the shapes of the store, the handlers and the pages.            *)
(***************************************************************************)
TypeOK ==
    /\ mem \in Content \cup {NoStore} /\ disk \in Content
    /\ call \in [Calls -> {Idle} \cup
          [at: {"load", "loaded", "save"}, op: Ops, c: Challenges \cup {None},
           sid: Sids \cup {None}, buf: Content]]
    /\ newer \in [Calls -> SUBSET Calls] /\ late \subseteq Calls
    /\ page \in [Challenges -> {"none", "waiting", "closed"} \cup Sids]
    /\ lapsed \subseteq {Nonce(c) : c \in Challenges} \cup {Claimed(c) : c \in Challenges}
                    \cup {Session(i) : i \in Sids}
    /\ made \in [Challenges -> Nat] /\ handed \in [Sids -> Nat]
    /\ out \subseteq leaving /\ leaving \subseteq Sids /\ crashes \in 0..MaxCrashes
    /\ overwrote \in BOOLEAN /\ reordered \in BOOLEAN

(***************************************************************************)
(* Nonces are single-use (store.ts): whatever the wallet and the page      *)
(* repeat, overlap or lose, and whatever fails or is killed, a challenge   *)
(* leads to one session at most, and a session is given to one poll.       *)
(***************************************************************************)
SingleUse ==
    ~overwrote /\ ~reordered =>
        /\ \A c \in Challenges : made[c] <= 1
        /\ \A i \in Sids : handed[i] <= 1

(***************************************************************************)
(* A logout that dropped the session and was confirmed lasts: the session  *)
(* is in no store that is or will be read, a restart right after the       *)
(* answer included.                                                        *)
(***************************************************************************)
LogoutSticks ==
    ~overwrote /\ ~reordered =>
        \A i \in out : i \notin disk.sessions /\ (mem # NoStore => i \notin mem.sessions)

(***************************************************************************)
(* A page that holds a cookie stays signed in: its session is in the store *)
(* and in the file, through a restart, until it lapses or a logout reaches *)
(* the store.                                                              *)
(***************************************************************************)
CookieLives ==
    ~overwrote /\ ~reordered =>
        \A c \in Challenges :
            page[c] \in Sids \ leaving /\ Session(page[c]) \notin lapsed
            => page[c] \in disk.sessions

(***************************************************************************)
(* Sessions end when, and only when, they are ended: neither a crash nor a *)
(* second reader of the file brings back what was logged out or drops what *)
(* was not.                                                                *)
(***************************************************************************)
SessionsHold == LogoutSticks /\ CookieLives
=============================================================================
