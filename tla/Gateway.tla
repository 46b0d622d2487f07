------------------------------ MODULE Gateway ------------------------------
(***************************************************************************)
(* The shop behind the gateway's socket: its identity per network          *)
(* (gateway/bootstrap.ts), the requests that change or use it              *)
(* (gateway/gateway.mjs) and the file it is kept in.                       *)
(*                                                                         *)
(* A request changes the state in memory and takes its text in one step,   *)
(* and then saves the text: it writes a temporary file and renames it.     *)
(* Other requests run meanwhile, and all of one process write the same     *)
(* temporary file. A file is what it holds; a descriptor follows it        *)
(* through a rename.                                                       *)
(*                                                                         *)
(* There is an index counter for each network. IndexStore has its details; *)
(* here an operation on it is one step and its quarantine is left open.    *)
(* The seed is constant and its identities are derived from it; both are   *)
(* left out, and so is the guard on a notification transaction, which      *)
(* nothing in the code records yet.                                        *)
(***************************************************************************)
EXTENDS Naturals, FiniteSets

CONSTANTS
    Networks,   \* the chains a shop keeps an identity for
    Home,       \* the one a new shop trades on
    Codes,      \* payment codes of operators
    Dojos,      \* nodes a network's chain work may go through
    Personal,   \* the code in the environment, or None
    Orders,     \* customers' orders
    Calls,      \* bound: saves under way at once
    MaxIndex,   \* bound: indexes taken on a network
    MaxCrashes, \* bound: times the gateway is killed
    None,       \* no code, no order, no file, no process
    Blank,      \* a file that was opened for writing and holds nothing yet
    Garbled     \* a file that two writers wrote into each other

ASSUME GatewayAssumption ==
    /\ Home \in Networks /\ None \notin Codes \cup Dojos
    /\ Personal \in Codes \cup {None}
    /\ MaxIndex \in Nat /\ MaxCrashes \in Nat

VARIABLES
    current,    \* the state in memory, None while the process is down
    file,       \* store-identity.json
    temp,       \* its temporary file
    call,       \* the request each save belongs to
    store,      \* the index counter of each network
    order,      \* what each order was quoted
    crashes,
    bound,      \* history: receivers asked for, with their network
    told,       \* history: a confirmed request that nothing has replaced since, or None
    overlapped, \* history: two saves were under way at once
    strayed     \* history: an index was given back while another network was active

vars   == <<current, file, temp, call, store, order, crashes, bound, told, overlapped, strayed>>
Saving == <<current, file, temp, call, bound, told, overlapped>>

-----------------------------------------------------------------------------

State == [active: Networks,
          receiver: [Networks -> Codes \cup {None}],
          dojo: [Networks -> Dojos \cup {None}]]

ASSUME FilesAssumption == \A x \in {None, Blank, Garbled} : x \notin State

\* loadOrCreate's first state.
NewState == [active   |-> Home,
             receiver |-> [n \in Networks |-> None],
             dojo     |-> [n \in Networks |-> None]]

Requests ==
    [op: {"set-active"}, net: Networks]
    \cup [op: {"bind-receiver"}, net: Networks, code: Codes]
    \cup [op: {"set-dojo"}, net: Networks, dojo: Dojos \cup {None}]

SetActive(s, n)  == [s EXCEPT !.active = n]
SetDojo(s, n, d) == [s EXCEPT !.dojo[n] = d]

\* Bug: the code is bound to the network the shop trades on.
BindReceiverActive(s, n, c) == [s EXCEPT !.receiver[s.active] = c]

BindReceiver(s, n, c) == [s EXCEPT !.receiver[n] = c]

Applied(s, r) ==
    CASE r.op = "set-active"    -> SetActive(s, r.net)
      [] r.op = "bind-receiver" -> BindReceiver(s, r.net, r.code)
      [] r.op = "set-dojo"      -> SetDojo(s, r.net, r.dojo)

\* p and r set the same thing.
SameField(p, r) == p.op = r.op /\ (p.op = "set-active" \/ p.net = r.net)

Idle    == [at |-> "idle"]
Working == {k \in Calls : call[k] # Idle}

-----------------------------------------------------------------------------

Init ==
    /\ current = None /\ file = None /\ temp = None
    /\ call = [k \in Calls |-> Idle]
    /\ store = [n \in Networks |-> [next |-> 0, free |-> {}]]
    /\ order = [o \in Orders |-> None]
    /\ crashes = 0 /\ bound = {} /\ told = None
    /\ overlapped = FALSE /\ strayed = FALSE

(***************************************************************************)
(* The identity and its file.                                              *)
(***************************************************************************)

\* Bug: the shop begins anew when its state was edited.
StartAfresh ==
    /\ current = None /\ file \in State \cup {None}
    /\ current' = NewState /\ file' = NewState
    /\ UNCHANGED <<temp, call, store, order, crashes, bound, told, overlapped, strayed>>

\* loadOrCreate. A file that does not parse ends the process again.
Start ==
    /\ current = None /\ file \in State \cup {None}
    /\ current' = IF file = None THEN NewState ELSE file
    /\ file' = current'
    /\ UNCHANGED <<temp, call, store, order, crashes, bound, told, overlapped, strayed>>

Ask(k, r) ==
    /\ current # None /\ call[k] = Idle
    /\ current' = Applied(current, r)
    /\ call' = [call EXCEPT ![k] =
                  [at |-> "open", req |-> r, text |-> current', into |-> "temp"]]
    /\ bound' = IF r.op = "bind-receiver" THEN bound \cup {<<r.net, r.code>>} ELSE bound
    /\ told' = IF told # None /\ SameField(told, r) THEN None ELSE told
    /\ overlapped' = (overlapped \/ Working # {})
    /\ UNCHANGED <<file, temp, store, order, crashes, strayed>>

\* Bug: the file is written in its place.
OpenInPlace(k) ==
    /\ call[k].at = "open"
    /\ temp' = Blank /\ file' = Blank
    /\ call' = [call EXCEPT ![k].at = "write"]
    /\ UNCHANGED <<current, store, order, crashes, bound, told, overlapped, strayed>>

\* The temporary file is made, or the one that is there is emptied.
Open(k) ==
    /\ call[k].at = "open"
    /\ temp' = Blank
    /\ call' = [call EXCEPT ![k].at = "write"]
    /\ UNCHANGED <<current, file, store, order, crashes, bound, told, overlapped, strayed>>

\* What a file may hold once t is written over what it held.
Written(was, t) == {t} \cup (IF was \in {Blank, t} THEN {} ELSE {Garbled})

\* The text goes into the file that was opened, wherever it is by now.
Write(k) ==
    /\ call[k].at = "write"
    /\ call' = [call EXCEPT ![k].at = "rename"]
    /\ \/ call[k].into = "temp" /\ temp' \in Written(temp, call[k].text) /\ UNCHANGED file
       \/ call[k].into = "file" /\ file' \in Written(file, call[k].text) /\ UNCHANGED temp
       \/ call[k].into = "gone" /\ UNCHANGED <<file, temp>>
    /\ UNCHANGED <<current, store, order, crashes, bound, told, overlapped, strayed>>

\* Descriptors after a rename of the temporary file.
Moved(into) == CASE into = "temp" -> "file" [] OTHER -> "gone"

\* The temporary file is renamed and the request is confirmed.
Rename(k) ==
    /\ call[k].at = "rename" /\ temp # None
    /\ file' = temp /\ temp' = None
    /\ call' = [j \in Calls |->
                  IF j = k THEN Idle
                  ELSE IF call[j].at \in {"write", "rename"} THEN [call[j] EXCEPT !.into = Moved(@)]
                  ELSE call[j]]
    /\ told' \in {told, call[k].req}
    /\ UNCHANGED <<current, store, order, crashes, bound, overlapped, strayed>>

\* A step of a save fails; a rename does when another save has renamed the
\* file. The request is answered with an error and its change stays in memory.
Fail(k) ==
    /\ call[k] # Idle
    /\ call' = [call EXCEPT ![k] = Idle]
    /\ UNCHANGED <<current, file, temp, store, order, crashes, bound, told, overlapped, strayed>>

\* The next process writes a temporary file of another name.
Crash ==
    /\ current # None /\ crashes < MaxCrashes
    /\ crashes' = crashes + 1
    /\ current' = None /\ temp' = None
    /\ call' = [k \in Calls |-> Idle]
    /\ UNCHANGED <<file, store, order, bound, told, overlapped, strayed>>

(***************************************************************************)
(* Orders: the requests next, release and settle.                          *)
(***************************************************************************)
Receiver(n) == IF current.receiver[n] # None THEN current.receiver[n] ELSE Personal

\* Without a receiver the request is refused.
Quote(o) ==
    /\ current # None /\ order[o] = None
    /\ LET n == current.active IN
       /\ Receiver(n) # None
       /\ \E i \in store[n].free \cup {j \in {store[n].next} : j <= MaxIndex} :
            /\ store' = [store EXCEPT ![n].free = @ \ {i},
                                      ![n].next = IF i = @ THEN i + 1 ELSE @]
            /\ order' = [order EXCEPT ![o] =
                           [net |-> n, index |-> i, code |-> Receiver(n), paid |-> FALSE]]
    /\ UNCHANGED <<Saving, crashes, strayed>>

\* Bug: the counter is that of the network the shop was made for.
CounterAtBoot(o) == Home

\* The counter a request about an index acts on.
Counter(o) == current.active

\* An order that was never paid is over.
Release(o) ==
    /\ current # None /\ order[o] # None /\ ~order[o].paid
    /\ LET n == Counter(o)  i == order[o].index IN
         store' = [store EXCEPT ![n].free = IF i < store[n].next THEN @ \cup {i} ELSE @]
    /\ order' = [order EXCEPT ![o] = None]
    /\ strayed' = (strayed \/ current.active # order[o].net)
    /\ UNCHANGED <<Saving, crashes>>

Settle(o) ==
    /\ current # None /\ order[o] # None /\ ~order[o].paid
    /\ store' = [store EXCEPT ![Counter(o)].free = @ \ {order[o].index}]
    /\ order' = [order EXCEPT ![o].paid = TRUE]
    /\ strayed' = (strayed \/ current.active # order[o].net)
    /\ UNCHANGED <<Saving, crashes>>

Next ==
    \/ Start \/ Crash
    \/ \E k \in Calls :
         Open(k) \/ Write(k) \/ Rename(k) \/ Fail(k) \/ \E r \in Requests : Ask(k, r)
    \/ \E o \in Orders : Quote(o) \/ Release(o) \/ Settle(o)

Spec == Init /\ [][Next]_vars

-----------------------------------------------------------------------------
(***************************************************************************)
(* TypeOK: the shapes of the state, its files, its saves and the orders.   *)
(***************************************************************************)
TypeOK ==
    /\ current \in State \cup {None}
    /\ file \in State \cup {None, Blank, Garbled}
    /\ temp \in State \cup {None, Blank, Garbled}
    /\ call \in [Calls -> {Idle} \cup
          [at: {"open", "write", "rename"}, req: Requests, text: State,
           into: {"temp", "file", "gone"}]]
    /\ store \in [Networks -> [next: 0..(MaxIndex + 1), free: SUBSET (0..MaxIndex)]]
    /\ order \in [Orders -> {None} \cup
          [net: Networks, index: 0..MaxIndex, code: Codes, paid: BOOLEAN]]
    /\ crashes \in 0..MaxCrashes
    /\ bound \subseteq Networks \X Codes /\ told \in Requests \cup {None}
    /\ overlapped \in BOOLEAN /\ strayed \in BOOLEAN

(***************************************************************************)
(* The state is saved as a whole or not at all: unless two saves have      *)
(* overlapped, a gateway that is killed at any moment can start again.     *)
(***************************************************************************)
StartsAgain == ~overlapped => file \in State \cup {None}

(***************************************************************************)
(* What was confirmed lasts: unless two saves have overlapped, every       *)
(* confirmed request that no later one replaced is in the file the next    *)
(* start reads, whatever failed or was killed in between.                  *)
(***************************************************************************)
ConfirmedLasts ==
    ~overlapped /\ told # None => file \in State /\ Applied(file, told) = file

(***************************************************************************)
(* No order is quoted to a receiver on a chain the operator did not name   *)
(* with it: a code bound for one network is never paid on the other,       *)
(* whatever is switched, saved, lost or restarted.                         *)
(***************************************************************************)
QuotedAsBound ==
    \A o \in Orders : order[o] # None =>
        \/ <<order[o].net, order[o].code>> \in bound
        \/ order[o].code = Personal

(***************************************************************************)
(* As long as every index is given back while its own network is active,   *)
(* no two orders of one network, live or paid, have the same index.        *)
(***************************************************************************)
OrdersApart ==
    ~strayed => \A o, p \in Orders :
        order[o] # None /\ order[p] # None /\ o # p
        => <<order[o].net, order[o].index>> # <<order[p].net, order[p].index>>
=============================================================================
