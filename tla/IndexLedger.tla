---------------------------- MODULE IndexLedger -----------------------------
(***************************************************************************)
(* What the index store promises its callers, without files, memory or     *)
(* calls: an index is on at most one live invoice, a paid one is never     *)
(* issued again, and one given back rests for the quarantine first.        *)
(***************************************************************************)
EXTENDS Naturals

CONSTANTS Orders, Quarantine

VARIABLES
    holder, \* the index each order holds, once it holds or has held one
    phase,  \* none, live, resting (given back) or paid
    since,  \* when an index was given back
    now

lvars == <<holder, phase, since, now>>

Init ==
    /\ holder = [o \in Orders |-> 0]
    /\ phase = [o \in Orders |-> "none"]
    /\ since = [o \in Orders |-> 0]
    /\ now = 0

\* The index i may go on an invoice: nobody has it, or has paid it, and whoever
\* gave it back did so a quarantine ago.
Free(i) ==
    \A p \in Orders : holder[p] = i =>
        /\ phase[p] \notin {"live", "paid"}
        /\ phase[p] = "resting" => since[p] + Quarantine <= now

Issue(o) ==
    /\ phase[o] = "none"
    /\ phase' = [phase EXCEPT ![o] = "live"]
    /\ holder'[o] \in Nat /\ Free(holder'[o])
    /\ holder' = [holder EXCEPT ![o] = holder'[o]]
    /\ UNCHANGED <<since, now>>

Expire(o) ==
    /\ phase[o] = "live"
    /\ phase' = [phase EXCEPT ![o] = "resting"]
    /\ since' = [since EXCEPT ![o] = now]
    /\ UNCHANGED <<holder, now>>

Pay(o) ==
    /\ phase[o] = "live"
    /\ phase' = [phase EXCEPT ![o] = "paid"]
    /\ UNCHANGED <<holder, since, now>>

Tick ==
    /\ now' = now + 1
    /\ UNCHANGED <<holder, phase, since>>

Next == Tick \/ \E o \in Orders : Issue(o) \/ Expire(o) \/ Pay(o)

Spec == Init /\ [][Next]_lvars
=============================================================================
