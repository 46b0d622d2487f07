--------------------------- MODULE Gateway_proofs ---------------------------
(***************************************************************************)
(* Proofs about Gateway and Desk: types, that no order is quoted to a      *)
(* receiver that was bound for another network, that the file can be       *)
(* started from and keeps what was confirmed, however requests, saves,     *)
(* failures and restarts overlap; and that the console's card binds what   *)
(* its operator meant and shows the shop as it is.                         *)
(***************************************************************************)
EXTENDS Desk, TLAPS

\* Every receiver of the state x was bound for its own network.
Named(x) == x \in State =>
    \A n \in Networks : x.receiver[n] # None => <<n, x.receiver[n]>> \in bound

\* Any of these may become the state that addresses are derived from.
AllNamed ==
    /\ Named(current) /\ Named(file) /\ Named(temp)
    /\ \A k \in Calls : call[k] # Idle => Named(call[k].text)

IInv == TypeOK /\ AllNamed /\ QuotedAsBound

-----------------------------------------------------------------------------
\* A request makes a state of a state.
LEMMA AppliedState ==
    ASSUME NEW s \in State, NEW r \in Requests
    PROVE  Applied(s, r) \in State
<1>1. CASE r.op = "set-active"
  <2>1. r.net \in Networks
    BY <1>1 DEF Requests
  <2> QED BY <1>1, <2>1 DEF Applied, SetActive, State
<1>2. CASE r.op = "bind-receiver"
  <2>1. r.net \in Networks /\ r.code \in Codes
    BY <1>2 DEF Requests
  <2> QED BY <1>2, <2>1 DEF Applied, BindReceiver, State
<1>3. CASE r.op = "set-dojo"
  <2>1. r.net \in Networks /\ r.dojo \in Dojos \cup {None}
    BY <1>3 DEF Requests
  <2> QED BY <1>3, <2>1 DEF Applied, SetDojo, State
<1> QED BY <1>1, <1>2, <1>3 DEF Requests

\* The receivers after a request are those before it and the one it names.
LEMMA AppliedReceivers ==
    ASSUME NEW s \in State, NEW r \in Requests, NEW n \in Networks
    PROVE  \/ Applied(s, r).receiver[n] = s.receiver[n]
           \/ r.op = "bind-receiver" /\ r.net = n /\ Applied(s, r).receiver[n] = r.code
<1>1. CASE r.op = "set-active"
  BY <1>1 DEF Applied, SetActive, State
<1>2. CASE r.op = "bind-receiver"
  <2>1. r.net \in Networks /\ r.code \in Codes
    BY <1>2 DEF Requests
  <2>2. Applied(s, r) = [s EXCEPT !.receiver[r.net] = r.code]
    BY <1>2 DEF Applied, BindReceiver
  <2> QED BY <1>2, <2>1, <2>2 DEF State
<1>3. CASE r.op = "set-dojo"
  BY <1>3 DEF Applied, SetDojo, State
<1> QED BY <1>1, <1>2, <1>3 DEF Requests

-----------------------------------------------------------------------------
LEMMA InitHolds == Init => IInv
<1> SUFFICES ASSUME Init PROVE IInv
  OBVIOUS
<1> USE DEF Init
<1>1. TypeOK
  <2>1. call \in [Calls -> {Idle}]
    OBVIOUS
  <2>2. store \in [Networks -> [next: 0..(MaxIndex + 1), free: SUBSET (0..MaxIndex)]]
    BY GatewayAssumption
  <2>3. crashes \in 0..MaxCrashes
    BY GatewayAssumption
  <2> QED BY <2>1, <2>2, <2>3 DEF TypeOK
<1>2. AllNamed
  BY FilesAssumption DEF AllNamed, Named
<1>3. QuotedAsBound
  BY DEF QuotedAsBound
<1> QED BY <1>1, <1>2, <1>3 DEF IInv

LEMMA StepHolds == IInv /\ [Next]_vars => IInv'
<1> SUFFICES ASSUME IInv, [Next]_vars PROVE IInv'
  OBVIOUS
<1>a. TypeOK /\ AllNamed /\ QuotedAsBound
  BY DEF IInv
<1>1. CASE Start
  <2>1. TypeOK'
    <3>1. current' \in State
      BY <1>a, <1>1, GatewayAssumption DEF Start, NewState, State
    <3> QED BY <1>a, <1>1, <3>1 DEF Start, TypeOK
  <2>2. AllNamed'
    <3>1. Named(current)'
      BY <1>a, <1>1 DEF Start, NewState, State, AllNamed, Named
    <3> QED BY <1>a, <1>1, <3>1 DEF Start, AllNamed, Named
  <2>3. QuotedAsBound'
    BY <1>a, <1>1 DEF Start, QuotedAsBound
  <2> QED BY <2>1, <2>2, <2>3 DEF IInv
<1>2. CASE Crash
  <2>1. TypeOK'
    BY <1>a, <1>2, GatewayAssumption DEF Crash, TypeOK
  <2>2. AllNamed'
    BY <1>a, <1>2, FilesAssumption DEF Crash, AllNamed, Named
  <2>3. QuotedAsBound'
    BY <1>a, <1>2 DEF Crash, QuotedAsBound
  <2> QED BY <2>1, <2>2, <2>3 DEF IInv
<1>3. ASSUME NEW k \in Calls, NEW r \in Requests, Ask(k, r) PROVE IInv'
  <2>1. current \in State /\ current' = Applied(current, r)
    BY <1>a, <1>3 DEF Ask, TypeOK
  <2>2. current' \in State
    BY <2>1, AppliedState
  <2>3. bound \subseteq bound' /\ bound' \subseteq Networks \X Codes
    <3>1. CASE r.op = "bind-receiver"
      <4>1. r.net \in Networks /\ r.code \in Codes
        BY <3>1 DEF Requests
      <4> QED BY <1>a, <1>3, <3>1, <4>1 DEF Ask, TypeOK
    <3>2. CASE r.op # "bind-receiver"
      BY <1>a, <1>3, <3>2 DEF Ask, TypeOK
    <3> QED BY <3>1, <3>2
  <2>4. call' = [call EXCEPT ![k] =
                   [at |-> "open", req |-> r, text |-> current', into |-> "temp"]]
    BY <1>3 DEF Ask
  <2>5. TypeOK'
    <3>1. call' \in [Calls -> {Idle} \cup
             [at: {"open", "write", "rename"}, req: Requests, text: State,
              into: {"temp", "file", "gone"}]]
      BY <1>a, <2>2, <2>4 DEF TypeOK
    <3>2. told' \in Requests \cup {None}
      BY <1>a, <1>3 DEF Ask, TypeOK
    <3>3. overlapped' \in BOOLEAN
      BY <1>a, <1>3 DEF Ask, TypeOK
    <3> QED BY <1>a, <1>3, <2>2, <2>3, <3>1, <3>2, <3>3 DEF Ask, TypeOK
  <2>6. Named(current)'
    <3> SUFFICES ASSUME NEW n \in Networks, current'.receiver[n] # None
                 PROVE  <<n, current'.receiver[n]>> \in bound'
      BY DEF Named
    <3>1. CASE current'.receiver[n] = current.receiver[n]
      BY <1>a, <2>1, <2>3, <3>1 DEF AllNamed, Named
    <3>2. CASE r.op = "bind-receiver" /\ r.net = n /\ current'.receiver[n] = r.code
      BY <1>3, <3>2 DEF Ask
    <3> QED BY <2>1, <3>1, <3>2, AppliedReceivers
  <2>7. \A j \in Calls : call'[j] # Idle => Named(call[j].text)'
    <3> SUFFICES ASSUME NEW j \in Calls, call'[j] # Idle PROVE Named(call[j].text)'
      OBVIOUS
    <3>1. CASE j = k
      <4>1. call'[k].text = current'
        BY <1>a, <2>4 DEF TypeOK
      <4> QED BY <2>6, <3>1, <4>1 DEF Named
    <3>2. CASE j # k
      <4>1. call'[j] = call[j]
        BY <1>a, <2>4, <3>2 DEF TypeOK
      <4> QED BY <1>a, <2>3, <4>1 DEF AllNamed, Named
    <3> QED BY <3>1, <3>2
  <2>8. AllNamed'
    BY <1>a, <1>3, <2>3, <2>6, <2>7 DEF Ask, AllNamed, Named
  <2>9. QuotedAsBound'
    BY <1>a, <1>3, <2>3 DEF Ask, QuotedAsBound
  <2> QED BY <2>5, <2>8, <2>9 DEF IInv
<1>4. ASSUME NEW k \in Calls, Open(k) PROVE IInv'
  <2>1. call[k] # Idle
    BY <1>4 DEF Open, Idle
  <2>2. call' = [call EXCEPT ![k].at = "write"]
    BY <1>4 DEF Open
  <2>3. TypeOK'
    BY <1>a, <1>4, <2>1, <2>2 DEF Open, TypeOK
  <2>4. \A j \in Calls : call'[j] # Idle => Named(call[j].text)'
    BY <1>a, <1>4, <2>1, <2>2 DEF Open, TypeOK, AllNamed, Named
  <2>5. AllNamed'
    BY <1>a, <1>4, <2>4, FilesAssumption DEF Open, AllNamed, Named
  <2>6. QuotedAsBound'
    BY <1>a, <1>4 DEF Open, QuotedAsBound
  <2> QED BY <2>3, <2>5, <2>6 DEF IInv
<1>5. ASSUME NEW k \in Calls, Write(k) PROVE IInv'
  <2>1. call[k] # Idle
    BY <1>5 DEF Write, Idle
  <2>2. call' = [call EXCEPT ![k].at = "rename"]
    BY <1>5 DEF Write
  <2>3. call[k].text \in State /\ Named(call[k].text)
    BY <1>a, <2>1 DEF TypeOK, AllNamed
  <2>4. /\ file' \in {file, call[k].text, Garbled}
        /\ temp' \in {temp, call[k].text, Garbled}
    BY <1>5 DEF Write, Written
  <2>5. UNCHANGED <<current, store, order, crashes, bound, told, overlapped, strayed>>
    BY <1>5 DEF Write
  <2>6. TypeOK'
    BY <1>a, <2>1, <2>2, <2>3, <2>4, <2>5 DEF TypeOK
  <2>7. \A j \in Calls : call'[j] # Idle => Named(call[j].text)'
    BY <1>a, <2>1, <2>2, <2>5 DEF TypeOK, AllNamed, Named
  <2>8. Named(file)' /\ Named(temp)'
    BY <1>a, <2>3, <2>4, <2>5, FilesAssumption DEF AllNamed, Named
  <2>9. AllNamed'
    BY <1>a, <2>5, <2>7, <2>8 DEF AllNamed, Named
  <2>10. QuotedAsBound'
    BY <1>a, <2>5 DEF QuotedAsBound
  <2> QED BY <2>6, <2>9, <2>10 DEF IInv
<1>6. ASSUME NEW k \in Calls, Rename(k) PROVE IInv'
  <2>1. call[k] # Idle /\ call[k].req \in Requests
    BY <1>a, <1>6 DEF Rename, Idle, TypeOK
  <2>2. /\ UNCHANGED <<current, store, order, crashes, bound, overlapped, strayed>>
        /\ file' = temp /\ temp' = None /\ told' \in {told, call[k].req}
    BY <1>6 DEF Rename
  <2>3. \A j \in Calls :
           /\ call'[j] \in {Idle} \cup
                [at: {"open", "write", "rename"}, req: Requests, text: State,
                 into: {"temp", "file", "gone"}]
           /\ call'[j] # Idle => call[j] # Idle /\ call'[j].text = call[j].text
    <3> SUFFICES ASSUME NEW j \in Calls
                 PROVE  /\ call'[j] \in {Idle} \cup
                             [at: {"open", "write", "rename"}, req: Requests, text: State,
                              into: {"temp", "file", "gone"}]
                        /\ call'[j] # Idle => call[j] # Idle /\ call'[j].text = call[j].text
      OBVIOUS
    <3>1. call'[j] = IF j = k THEN Idle
                     ELSE IF call[j].at \in {"write", "rename"}
                       THEN [call[j] EXCEPT !.into = Moved(@)]
                     ELSE call[j]
      BY <1>6 DEF Rename
    <3>2. CASE j # k /\ call[j].at \in {"write", "rename"}
      <4>1. call[j] # Idle
        BY <3>2 DEF Idle
      <4>2. Moved(call[j].into) \in {"file", "gone"}
        BY DEF Moved
      <4> QED BY <1>a, <3>1, <3>2, <4>1, <4>2 DEF TypeOK
    <3>3. CASE ~(j # k /\ call[j].at \in {"write", "rename"})
      BY <1>a, <3>1, <3>3 DEF TypeOK
    <3> QED BY <3>2, <3>3
  <2>4. TypeOK'
    <3>1. call' \in [Calls -> {Idle} \cup
             [at: {"open", "write", "rename"}, req: Requests, text: State,
              into: {"temp", "file", "gone"}]]
      BY <1>6, <2>3 DEF Rename
    <3> QED BY <1>a, <2>1, <2>2, <3>1 DEF TypeOK
  <2>5. AllNamed'
    BY <1>a, <2>2, <2>3, FilesAssumption DEF AllNamed, Named
  <2>6. QuotedAsBound'
    BY <1>a, <2>2 DEF QuotedAsBound
  <2> QED BY <2>4, <2>5, <2>6 DEF IInv
<1>7. ASSUME NEW k \in Calls, Fail(k) PROVE IInv'
  <2>1. TypeOK'
    BY <1>a, <1>7 DEF Fail, TypeOK
  <2>2. AllNamed'
    BY <1>a, <1>7 DEF Fail, TypeOK, AllNamed, Named
  <2>3. QuotedAsBound'
    BY <1>a, <1>7 DEF Fail, QuotedAsBound
  <2> QED BY <2>1, <2>2, <2>3 DEF IInv
<1>8. ASSUME NEW o \in Orders, Quote(o) PROVE IInv'
  <2> DEFINE n == current.active
  <2>1. current \in State /\ n \in Networks
    BY <1>a, <1>8 DEF Quote, TypeOK, State
  <2>2. PICK i \in store[n].free \cup {j \in {store[n].next} : j <= MaxIndex} :
           /\ store' = [store EXCEPT ![n].free = @ \ {i},
                                     ![n].next = IF i = @ THEN i + 1 ELSE @]
           /\ order' = [order EXCEPT ![o] =
                          [net |-> n, index |-> i, code |-> Receiver(n), paid |-> FALSE]]
    BY <1>8 DEF Quote
  <2>3. UNCHANGED <<Saving, crashes, strayed>> /\ Receiver(n) # None
    BY <1>8 DEF Quote
  <2>4. /\ store[n].next \in 0..(MaxIndex + 1) /\ store[n].free \subseteq 0..MaxIndex
        /\ i \in 0..MaxIndex
    BY <1>a, <2>1, <2>2, GatewayAssumption DEF TypeOK
  <2>5. Receiver(n) \in Codes
    BY <2>1, <2>3, GatewayAssumption DEF Receiver, State
  <2>6. <<n, Receiver(n)>> \in bound \/ Receiver(n) = Personal
    BY <1>a, <2>1 DEF Receiver, AllNamed, Named
  <2>7. TypeOK'
    <3>1. store' \in [Networks -> [next: 0..(MaxIndex + 1), free: SUBSET (0..MaxIndex)]]
      BY <1>a, <2>1, <2>2, <2>4, GatewayAssumption DEF TypeOK
    <3>2. order' \in [Orders -> {None} \cup
             [net: Networks, index: 0..MaxIndex, code: Codes, paid: BOOLEAN]]
      BY <1>a, <2>1, <2>2, <2>4, <2>5 DEF TypeOK
    <3> QED BY <1>a, <2>3, <3>1, <3>2 DEF TypeOK, Saving
  <2>8. AllNamed'
    BY <1>a, <2>3 DEF AllNamed, Named, Saving
  <2>9. QuotedAsBound'
    BY <1>a, <2>2, <2>3, <2>6 DEF QuotedAsBound, Saving, TypeOK
  <2> QED BY <2>7, <2>8, <2>9 DEF IInv
<1>9. ASSUME NEW o \in Orders, Release(o) \/ Settle(o) PROVE IInv'
  <2>1. UNCHANGED <<Saving, crashes>> /\ strayed' \in BOOLEAN
    BY <1>a, <1>9 DEF Release, Settle, TypeOK
  <2>2. current \in State /\ current.active \in Networks
    BY <1>a, <1>9 DEF Release, Settle, TypeOK, State
  <2>3. /\ order[o] # None /\ order[o].index \in 0..MaxIndex
        /\ order[o] \in [net: Networks, index: 0..MaxIndex, code: Codes, paid: BOOLEAN]
    BY <1>a, <1>9 DEF Release, Settle, TypeOK
  <2>4. store' \in [Networks -> [next: 0..(MaxIndex + 1), free: SUBSET (0..MaxIndex)]]
    <3>1. PICK f \in SUBSET (0..MaxIndex) :
             store' = [store EXCEPT ![current.active].free = f]
      <4>1. store[current.active].free \in SUBSET (0..MaxIndex)
        BY <1>a, <2>2 DEF TypeOK
      <4>2. CASE Release(o)
        BY <1>a, <2>2, <2>3, <4>1, <4>2 DEF Release, Counter, TypeOK
      <4>3. CASE Settle(o)
        BY <1>a, <2>2, <2>3, <4>1, <4>3 DEF Settle, Counter, TypeOK
      <4> QED BY <1>9, <4>2, <4>3
    <3> QED BY <1>a, <2>2, <3>1 DEF TypeOK
  <2>5. order' = [order EXCEPT ![o] = None] \/ order' = [order EXCEPT ![o].paid = TRUE]
    BY <1>9 DEF Release, Settle
  <2>6. order' \in [Orders -> {None} \cup
             [net: Networks, index: 0..MaxIndex, code: Codes, paid: BOOLEAN]]
    <3>1. CASE order' = [order EXCEPT ![o] = None]
      BY <1>a, <3>1 DEF TypeOK
    <3>2. CASE order' = [order EXCEPT ![o].paid = TRUE]
      <4>1. [order[o] EXCEPT !.paid = TRUE]
              \in [net: Networks, index: 0..MaxIndex, code: Codes, paid: BOOLEAN]
        BY <2>3
      <4> QED BY <1>a, <3>2, <4>1 DEF TypeOK
    <3> QED BY <2>5, <3>1, <3>2
  <2>7. TypeOK'
    BY <1>a, <2>1, <2>4, <2>6 DEF TypeOK, Saving
  <2>8. AllNamed'
    BY <1>a, <2>1 DEF AllNamed, Named, Saving
  <2>9. QuotedAsBound'
    BY <1>a, <2>1, <2>3, <2>5 DEF QuotedAsBound, Saving, TypeOK
  <2> QED BY <2>7, <2>8, <2>9 DEF IInv
<1>10. CASE UNCHANGED vars
  BY <1>a, <1>10 DEF vars, IInv, TypeOK, AllNamed, Named, QuotedAsBound
<1> QED BY <1>1, <1>2, <1>3, <1>4, <1>5, <1>6, <1>7, <1>8, <1>9, <1>10 DEF Next

-----------------------------------------------------------------------------
(***************************************************************************)
(* The types of Gateway hold for any networks, codes, orders and numbers   *)
(* of saves under way.                                                     *)
(***************************************************************************)
THEOREM TypesHold == Spec => []TypeOK
<1>1. IInv => TypeOK
  BY DEF IInv
<1> QED BY <1>1, InitHolds, StepHolds, PTL DEF Spec

(***************************************************************************)
(* An order is only ever quoted to a receiver that was bound for its own   *)
(* network, or to the one of the environment: handle's "next" reads the    *)
(* network and its receiver in one step, and every state a save, a failure *)
(* or a restart can bring back keeps receivers under their own network.    *)
(***************************************************************************)
THEOREM QuotesAreBound == Spec => []QuotedAsBound
<1>1. IInv => QuotedAsBound
  BY DEF IInv
<1> QED BY <1>1, InitHolds, StepHolds, PTL DEF Spec

-----------------------------------------------------------------------------
(***************************************************************************)
(* One save at a time: what a save has written is the state in memory, and *)
(* a confirmed request shows in memory and in the file.                    *)
(***************************************************************************)
Lone ==
    /\ \A j, k \in Calls : call[j] # Idle /\ call[k] # Idle => j = k
    /\ \A k \in Calls : call[k] # Idle =>
         /\ call[k].into = "temp" /\ call[k].text = current
         /\ Applied(current, call[k].req) = current
         /\ call[k].at = "write" => temp = Blank
         /\ call[k].at = "rename" => temp = current

Lasting ==
    /\ file \in State \cup {None}
    /\ current # None => file \in State
    /\ told # None =>
         /\ file \in State /\ Applied(file, told) = file
         /\ current # None => Applied(current, told) = current

Orderly == ~overlapped => Lone /\ Lasting

\* A request done twice is a request done once.
LEMMA AppliedTwice ==
    ASSUME NEW s \in State, NEW r \in Requests
    PROVE  Applied(Applied(s, r), r) = Applied(s, r)
<1>1. CASE r.op = "set-active"
  BY <1>1 DEF Applied, SetActive, State
<1>2. CASE r.op = "bind-receiver"
  <2>1. r.net \in Networks /\ r.code \in Codes
    BY <1>2 DEF Requests
  <2> QED BY <1>2, <2>1 DEF Applied, BindReceiver, State
<1>3. CASE r.op = "set-dojo"
  <2>1. r.net \in Networks /\ r.dojo \in Dojos \cup {None}
    BY <1>3 DEF Requests
  <2> QED BY <1>3, <2>1 DEF Applied, SetDojo, State
<1> QED BY <1>1, <1>2, <1>3 DEF Requests

\* A request that has shown its effect still shows it after one of another field.
LEMMA AppliedBesides ==
    ASSUME NEW s \in State, NEW p \in Requests, NEW r \in Requests,
           ~SameField(p, r), Applied(s, p) = s
    PROVE  Applied(Applied(s, r), p) = Applied(s, r)
<1> DEFINE t == Applied(s, r)
<1>1. t \in State
  BY AppliedState
<1>2. CASE p.op = "set-active"
  <2>1. s.active = p.net /\ p.net \in Networks
    BY <1>2 DEF Applied, SetActive, State, Requests
  <2>2. t.active = s.active
    BY <1>2 DEF SameField, Applied, BindReceiver, SetDojo, State, Requests
  <2> QED BY <1>1, <1>2, <2>1, <2>2 DEF Applied, SetActive, State
<1>3. CASE p.op = "bind-receiver"
  <2>1. p.net \in Networks /\ p.code \in Codes
    BY <1>3 DEF Requests
  <2>2. s.receiver[p.net] = p.code
    BY <1>3, <2>1 DEF Applied, BindReceiver, State
  <2>3. t.receiver[p.net] = s.receiver[p.net]
    BY <1>3, <2>1, AppliedReceivers DEF SameField
  <2> HIDE DEF t
  <2>4. Applied(t, p) = [t EXCEPT !.receiver[p.net] = p.code]
    BY <1>3 DEF Applied, BindReceiver
  <2>5. Applied(t, p) = t
    BY <1>1, <2>1, <2>2, <2>3, <2>4 DEF State
  <2> QED BY <2>5 DEF t
<1>4. CASE p.op = "set-dojo"
  <2>1. p.net \in Networks /\ p.dojo \in Dojos \cup {None}
    BY <1>4 DEF Requests
  <2>2. s.dojo[p.net] = p.dojo
    BY <1>4, <2>1 DEF Applied, SetDojo, State
  <2>3. t.dojo[p.net] = s.dojo[p.net]
    BY <1>4, <2>1 DEF SameField, Applied, SetActive, BindReceiver, SetDojo, State, Requests
  <2> HIDE DEF t
  <2>4. Applied(t, p) = [t EXCEPT !.dojo[p.net] = p.dojo]
    BY <1>4 DEF Applied, SetDojo
  <2>5. Applied(t, p) = t
    BY <1>1, <2>1, <2>2, <2>3, <2>4 DEF State
  <2> QED BY <2>5 DEF t
<1> QED BY <1>2, <1>3, <1>4 DEF Requests

LEMMA InitOrderly == Init => Orderly
BY DEF Init, Orderly, Lone, Lasting

LEMMA StepOrderly == TypeOK /\ Orderly /\ [Next]_vars => Orderly'
<1> SUFFICES ASSUME TypeOK, Orderly, [Next]_vars, ~overlapped' PROVE Lone' /\ Lasting'
  BY DEF Orderly
<1>a. ~overlapped /\ Lone /\ Lasting
  <2>1. ~overlapped
    BY DEF Next, Start, Crash, Open, Write, Rename, Fail, Ask, Quote, Release, Settle,
           Saving, vars
  <2> QED BY <2>1 DEF Orderly
<1>1. CASE Start
  <2>1. current' \in State /\ file' = current'
    BY <1>1, GatewayAssumption DEF Start, NewState, State
  <2>2. told # None => file \in State
    BY <1>a DEF Lasting
  <2>3. \A k \in Calls : call[k] = Idle
    <3>1. \A k \in Calls : call[k] # Idle => call[k].text \in State
      BY DEF TypeOK
    <3> QED BY <1>a, <1>1, <3>1, FilesAssumption DEF Start, Lone
  <2>4. Lone'
    BY <1>1, <2>3 DEF Start, Lone
  <2>5. Lasting'
    BY <1>a, <1>1, <2>1, <2>2, FilesAssumption DEF Start, Lasting
  <2> QED BY <2>4, <2>5
<1>2. CASE Crash
  BY <1>a, <1>2 DEF Crash, Lone, Lasting
<1>3. ASSUME NEW k \in Calls, NEW r \in Requests, Ask(k, r) PROVE Lone' /\ Lasting'
  <2>1. Working = {} /\ \A j \in Calls : call[j] = Idle
    BY <1>3 DEF Ask, Working
  <2>2. current \in State /\ current' = Applied(current, r)
    BY <1>3 DEF Ask, TypeOK
  <2>3. Applied(current', r) = current'
    BY <2>2, AppliedTwice
  <2>4. call' = [call EXCEPT ![k] =
                   [at |-> "open", req |-> r, text |-> current', into |-> "temp"]]
    BY <1>3 DEF Ask
  <2>5. Lone'
    BY <2>1, <2>3, <2>4 DEF TypeOK, Lone
  <2>6. ASSUME told' # None PROVE told' = told /\ told \in Requests /\ ~SameField(told, r)
    BY <1>3, <2>6 DEF Ask, TypeOK
  <2>7. told' # None => Applied(current', told') = current'
    BY <1>a, <2>2, <2>6, AppliedBesides, FilesAssumption DEF Lasting
  <2>8. Lasting'
    BY <1>a, <1>3, <2>6, <2>7 DEF Ask, Lasting
  <2> QED BY <2>5, <2>8
<1>4. ASSUME NEW k \in Calls, Open(k) PROVE Lone' /\ Lasting'
  <2>1. call[k] # Idle
    BY <1>4 DEF Open, Idle
  <2>2. call' = [call EXCEPT ![k].at = "write"] /\ temp' = Blank
        /\ UNCHANGED <<current, file, told>>
    BY <1>4 DEF Open
  <2>3. \A j \in Calls \ {k} : call'[j] = Idle
    BY <1>a, <2>1, <2>2 DEF Lone, TypeOK
  <2>4. call'[k] = [call[k] EXCEPT !.at = "write"]
    BY <2>2 DEF TypeOK
  <2>5. Lone'
    BY <1>a, <2>1, <2>2, <2>3, <2>4 DEF Lone, TypeOK
  <2> QED BY <1>a, <2>2, <2>5 DEF Lasting
<1>5. ASSUME NEW k \in Calls, Write(k) PROVE Lone' /\ Lasting'
  <2>1. call[k] # Idle
    BY <1>5 DEF Write, Idle
  <2>2. call[k].into = "temp" /\ temp = Blank /\ call[k].text = current
    BY <1>a, <1>5, <2>1 DEF Lone, Write
  <2>3. call' = [call EXCEPT ![k].at = "rename"] /\ temp' = current
        /\ UNCHANGED <<current, file, told>>
    BY <1>5, <2>2 DEF Write, Written
  <2>4. \A j \in Calls \ {k} : call'[j] = Idle
    BY <1>a, <2>1, <2>3 DEF Lone, TypeOK
  <2>5. call'[k] = [call[k] EXCEPT !.at = "rename"]
    BY <2>3 DEF TypeOK
  <2>6. Lone'
    BY <1>a, <2>1, <2>3, <2>4, <2>5 DEF Lone, TypeOK
  <2> QED BY <1>a, <2>3, <2>6 DEF Lasting
<1>6. ASSUME NEW k \in Calls, Rename(k) PROVE Lone' /\ Lasting'
  <2>1. call[k] # Idle /\ call[k].at = "rename"
    BY <1>6 DEF Rename, Idle
  <2>2. /\ call[k].text = current /\ temp = current
        /\ Applied(current, call[k].req) = current
    BY <1>a, <2>1 DEF Lone
  <2>3. current \in State
    BY <2>1, <2>2 DEF TypeOK
  <2>4. file' = current /\ told' \in {told, call[k].req} /\ UNCHANGED current
    BY <1>6, <2>2 DEF Rename
  <2>5. \A j \in Calls : call'[j] = Idle
    <3> SUFFICES ASSUME NEW j \in Calls PROVE call'[j] = Idle
      OBVIOUS
    <3>1. j # k => call[j] = Idle
      BY <1>a, <2>1 DEF Lone
    <3> QED BY <1>6, <3>1 DEF Rename, Idle
  <2>6. Lone'
    BY <2>5 DEF Lone
  <2>7. Lasting'
    BY <1>a, <2>2, <2>3, <2>4, FilesAssumption DEF Lasting
  <2> QED BY <2>6, <2>7
<1>7. ASSUME NEW k \in Calls, Fail(k) PROVE Lone' /\ Lasting'
  BY <1>a, <1>7 DEF Fail, TypeOK, Lone, Lasting
<1>8. ASSUME NEW o \in Orders, Quote(o) \/ Release(o) \/ Settle(o) PROVE Lone' /\ Lasting'
  <2>1. UNCHANGED Saving
    BY <1>8 DEF Quote, Release, Settle
  <2> QED BY <1>a, <2>1 DEF Saving, Lone, Lasting
<1>9. CASE UNCHANGED vars
  BY <1>a, <1>9 DEF vars, Lone, Lasting
<1> QED BY <1>1, <1>2, <1>3, <1>4, <1>5, <1>6, <1>7, <1>8, <1>9 DEF Next

(***************************************************************************)
(* As long as no two saves overlap, the gateway can start again after a    *)
(* kill at any moment: writeAtomic never leaves half a state behind.       *)
(***************************************************************************)
THEOREM CanStartAgain == Spec => []StartsAgain
<1>1. Orderly => StartsAgain
  BY DEF Orderly, Lasting, StartsAgain
<1> QED BY <1>1, TypesHold, InitOrderly, StepOrderly, PTL DEF Spec

(***************************************************************************)
(* As long as no two saves overlap, a confirmed request that no later one  *)
(* replaced is in the file, whatever failed or was killed since.           *)
(***************************************************************************)
THEOREM ConfirmedStays == Spec => []ConfirmedLasts
<1>1. Orderly => ConfirmedLasts
  BY DEF Orderly, Lasting, ConfirmedLasts
<1> QED BY <1>1, TypesHold, InitOrderly, StepOrderly, PTL DEF Spec

-----------------------------------------------------------------------------
(***************************************************************************)
(* The index of an order is taken, and not free to be given to another.    *)
(***************************************************************************)
Kept ==
    /\ \A n \in Networks : \A i \in store[n].free : i < store[n].next
    /\ \A o \in Orders : order[o] # None =>
         LET c == store[order[o].net] IN order[o].index < c.next /\ order[o].index \notin c.free
    /\ \A o, p \in Orders :
         order[o] # None /\ order[p] # None /\ o # p
         => <<order[o].net, order[o].index>> # <<order[p].net, order[p].index>>

KeptApart == ~strayed => Kept

LEMMA InitKept == Init => KeptApart
BY DEF Init, KeptApart, Kept

LEMMA StepKept == TypeOK /\ KeptApart /\ [Next]_vars => KeptApart'
<1> SUFFICES ASSUME TypeOK, KeptApart, [Next]_vars, ~strayed' PROVE Kept'
  BY DEF KeptApart
<1>a. ~strayed /\ Kept
  <2>1. ~strayed
    BY DEF Next, Start, Crash, Open, Write, Rename, Fail, Ask, Quote, Release, Settle, vars
  <2> QED BY <2>1 DEF KeptApart
<1>b. /\ \A n \in Networks : /\ store[n].next \in 0..(MaxIndex + 1)
                            /\ store[n].free \subseteq 0..MaxIndex
                            /\ store[n] \in [next: 0..(MaxIndex + 1), free: SUBSET (0..MaxIndex)]
      /\ \A o \in Orders : order[o] # None => order[o].net \in Networks /\ order[o].index \in Nat
      /\ MaxIndex \in Nat
  BY GatewayAssumption DEF TypeOK
<1>1. ASSUME NEW o \in Orders, Quote(o) PROVE Kept'
  <2> DEFINE n == current.active
  <2>1. current # None /\ order[o] = None /\ n \in Networks
    BY <1>1 DEF Quote, TypeOK, State
  <2>2. PICK i \in store[n].free \cup {j \in {store[n].next} : j <= MaxIndex} :
           /\ store' = [store EXCEPT ![n].free = @ \ {i},
                                     ![n].next = IF i = @ THEN i + 1 ELSE @]
           /\ order' = [order EXCEPT ![o] =
                          [net |-> n, index |-> i, code |-> Receiver(n), paid |-> FALSE]]
    BY <1>1 DEF Quote
  <2> HIDE DEF n
  <2>3. i \in Nat /\ (i \in store[n].free \/ i = store[n].next)
    BY <1>b, <2>1, <2>2
  <2>4. /\ store'[n].free = store[n].free \ {i}
        /\ i < store'[n].next /\ store[n].next <= store'[n].next
        /\ store'[n].next \in Nat
        /\ \A m \in Networks \ {n} : store'[m] = store[m]
    <3>1. store'[n] = [store[n] EXCEPT !.free = @ \ {i},
                                       !.next = IF i = @ THEN i + 1 ELSE @]
      BY <2>1, <2>2 DEF TypeOK
    <3>2. store'[n].next = IF i = store[n].next THEN i + 1 ELSE store[n].next
      BY <1>b, <2>1, <3>1
    <3>3. store'[n].free = store[n].free \ {i}
      BY <1>b, <2>1, <3>1
    <3>4. i \in store[n].free => i < store[n].next
      BY <1>a, <2>1 DEF Kept
    <3>5. \A m \in Networks \ {n} : store'[m] = store[m]
      BY <2>2 DEF TypeOK
    <3> QED BY <1>b, <2>1, <2>3, <3>2, <3>3, <3>4, <3>5
  <2>5. /\ order'[o].net = n /\ order'[o].index = i
        /\ \A p \in Orders \ {o} : order'[p] = order[p]
    BY <2>2 DEF TypeOK
  <2>6. ASSUME NEW p \in Orders \ {o}, order[p] # None, order[p].net = n
        PROVE  order[p].index # i
    BY <1>a, <1>b, <2>3, <2>6 DEF Kept
  <2>7. \A m \in Networks : \A j \in store'[m].free : j < store'[m].next
    <3> SUFFICES ASSUME NEW m \in Networks, NEW j \in store'[m].free
                 PROVE  j < store'[m].next
      OBVIOUS
    <3>1. CASE m = n
      <4>1. j \in store[n].free /\ j < store[n].next /\ j \in Nat
        BY <1>a, <1>b, <2>1, <2>4, <3>1 DEF Kept
      <4> QED BY <1>b, <2>1, <2>4, <3>1, <4>1
    <3>2. CASE m # n
      BY <1>a, <2>4, <3>2 DEF Kept
    <3> QED BY <3>1, <3>2
  <2>8. ASSUME NEW p \in Orders, order'[p] # None
        PROVE  /\ order'[p].index < store'[order'[p].net].next
               /\ order'[p].index \notin store'[order'[p].net].free
    <3>1. CASE p = o
      BY <2>4, <2>5, <3>1
    <3>2. CASE p # o
      <4>1. /\ order'[p] = order[p] /\ order[p].net \in Networks
            /\ order[p].index < store[order[p].net].next
            /\ order[p].index \notin store[order[p].net].free
            /\ order[p].index \in Nat
        BY <1>a, <1>b, <2>5, <2>8, <3>2 DEF Kept
      <4>2. CASE order[p].net = n
        BY <1>b, <2>1, <2>4, <4>1, <4>2
      <4>3. CASE order[p].net # n
        BY <2>4, <4>1, <4>3
      <4> QED BY <4>2, <4>3
    <3> QED BY <3>1, <3>2
  <2>9. ASSUME NEW p \in Orders, NEW q \in Orders,
               order'[p] # None, order'[q] # None, p # q
        PROVE  <<order'[p].net, order'[p].index>> # <<order'[q].net, order'[q].index>>
    <3>1. CASE p = o
      BY <2>5, <2>6, <2>9, <3>1
    <3>2. CASE q = o
      BY <2>5, <2>6, <2>9, <3>2
    <3>3. CASE p # o /\ q # o
      BY <1>a, <2>5, <2>9, <3>3 DEF Kept
    <3> QED BY <3>1, <3>2, <3>3
  <2> QED BY <2>7, <2>8, <2>9 DEF Kept
<1>2. ASSUME NEW o \in Orders, Release(o) PROVE Kept'
  <2> DEFINE n == order[o].net
  <2>1. order[o] # None /\ n \in Networks /\ current.active = n
    BY <1>a, <1>b, <1>2 DEF Release
  <2>2. order[o].index < store[n].next /\ order[o].index \in Nat
    BY <1>a, <1>b, <2>1 DEF Kept
  <2>3. store' = [store EXCEPT ![n].free = @ \cup {order[o].index}]
    BY <1>2, <2>1, <2>2 DEF Release, Counter, TypeOK
  <2>4. order' = [order EXCEPT ![o] = None]
    BY <1>2 DEF Release
  <2>5. /\ store'[n].free = store[n].free \cup {order[o].index}
        /\ store'[n].next = store[n].next
        /\ \A m \in Networks \ {n} : store'[m] = store[m]
    BY <1>b, <2>1, <2>3 DEF TypeOK
  <2>6. order'[o] = None /\ \A p \in Orders \ {o} : order'[p] = order[p]
    BY <2>4 DEF TypeOK
  <2>7. \A p \in Orders \ {o} : order[p] # None /\ order[p].net = n => order[p].index # order[o].index
    BY <1>a, <2>1 DEF Kept
  <2> HIDE DEF n
  <2>8. \A m \in Networks : \A j \in store'[m].free : j < store'[m].next
    BY <1>a, <2>1, <2>2, <2>5 DEF Kept, n
  <2>9. ASSUME NEW p \in Orders, order'[p] # None
        PROVE  /\ order'[p].index < store'[order'[p].net].next
               /\ order'[p].index \notin store'[order'[p].net].free
    <3>1. p # o /\ order'[p] = order[p] /\ order[p] # None
      BY <2>6, <2>9
    <3>2. /\ order[p].net \in Networks /\ order[p].index < store[order[p].net].next
          /\ order[p].index \notin store[order[p].net].free
      BY <1>a, <1>b, <3>1 DEF Kept
    <3> QED BY <2>5, <2>7, <3>1, <3>2
  <2>10. ASSUME NEW p \in Orders, NEW q \in Orders,
                order'[p] # None, order'[q] # None, p # q
         PROVE  <<order'[p].net, order'[p].index>> # <<order'[q].net, order'[q].index>>
    BY <1>a, <2>6, <2>10 DEF Kept
  <2> QED BY <2>8, <2>9, <2>10 DEF Kept
<1>3. ASSUME NEW o \in Orders, Settle(o) PROVE Kept'
  <2> DEFINE n == order[o].net
  <2>1. order[o] # None /\ n \in Networks /\ current.active = n
    BY <1>a, <1>b, <1>3 DEF Settle
  <2>2. order[o].index \notin store[n].free
    BY <1>a, <2>1 DEF Kept
  <2>3. \A m \in Networks : store'[m].next = store[m].next /\ store'[m].free = store[m].free
    <3> SUFFICES ASSUME NEW m \in Networks
                 PROVE  store'[m].next = store[m].next /\ store'[m].free = store[m].free
      OBVIOUS
    <3>1. store' = [store EXCEPT ![n].free = @ \ {order[o].index}]
      BY <1>3, <2>1 DEF Settle, Counter
    <3>2. CASE m = n
      <4>1. store'[n] = [store[n] EXCEPT !.free = @ \ {order[o].index}]
        BY <2>1, <3>1 DEF TypeOK
      <4>2. store[n].free \ {order[o].index} = store[n].free
        BY <2>2
      <4> HIDE DEF n
      <4> QED BY <1>b, <2>1, <3>2, <4>1, <4>2
    <3>3. CASE m # n
      BY <3>1, <3>3 DEF TypeOK
    <3> QED BY <3>2, <3>3
  <2>4. order' = [order EXCEPT ![o].paid = TRUE]
    BY <1>3 DEF Settle
  <2>5. \A p \in Orders : order'[p] # None =>
           /\ order[p] # None
           /\ order'[p].net = order[p].net /\ order'[p].index = order[p].index
    BY <2>1, <2>4 DEF TypeOK
  <2> QED BY <1>a, <1>b, <2>3, <2>5 DEF Kept
<1>4. CASE UNCHANGED <<store, order>>
  BY <1>a, <1>4 DEF Kept
<1> QED
  BY <1>1, <1>2, <1>3, <1>4 DEF Next, Start, Crash, Open, Write, Rename, Fail, Ask, vars

(***************************************************************************)
(* As long as every index is given back while its own network is active,   *)
(* no two orders of one network, live or paid, have one index: this is     *)
(* what one counter per network gives a shop that switches between them.   *)
(***************************************************************************)
THEOREM OrdersStayApart == Spec => []OrdersApart
<1>1. KeptApart => OrdersApart
  BY DEF KeptApart, Kept, OrdersApart
<1> QED BY <1>1, TypesHold, InitKept, StepKept, PTL DEF Spec

-----------------------------------------------------------------------------
(***************************************************************************)
(* The desk. The shapes of what the page asks, and of the page.            *)
(***************************************************************************)
AskOK(a) ==
    \/ a = Free
    \/ /\ a = [op |-> "load", at |-> a.at, got |-> a.got, old |-> a.old]
       /\ a.at \in {"sent", "answer"} /\ a.old \in BOOLEAN /\ (a.at = "sent" => ~a.old)
    \/ /\ a = [op |-> "post", at |-> a.at, req |-> a.req, text |-> a.text, tries |-> a.tries]
       /\ a.at \in {"sent", "saving", "answer"}

AsksOK(as) == as = [s \in Slots |-> as[s]] /\ \A s \in Slots : AskOK(as[s])

PageFields(i, h, e, n) == [in |-> i, shop |-> h, error |-> e, net |-> n]

PageOK(p) == \E h, n : \E i, e \in BOOLEAN : p = PageFields(i, h, e, n)

Shapes == AsksOK(asks) /\ PageOK(page) /\ checks \in Nat

\* What the screen shows is the page as it was when the last redraw was answered.
Shown ==
    /\ screen.at = "closed" /\ checks = 0 => page.shop = None /\ ~page.in /\ \A s \in Slots : asks[s] = Free
    /\ screen.at = "closed" /\ checks # 0 => page.in
    /\ ~page.in => screen.at \notin {"asking", "error", "card"}
    /\ checks = 0 /\ screen.at = "card" => screen = Card(page)

Binds(a, n, c) == a.op = "post" /\ a.req.op = "bind-receiver" /\ a.req.net = n /\ a.req.code = c

\* What was bound, and what is asked to be, was meant.
Meant ==
    ~hasty => /\ bound \subseteq meant
              /\ \A s \in Slots : asks[s].op = "post" /\ asks[s].req.op = "bind-receiver" =>
                    <<asks[s].req.net, asks[s].req.code>> \in meant

\* An answer about the shop that no later one has overtaken.
Newest(a) == a.op = "load" /\ a.at = "answer" /\ ~a.old

Waits(as) == \E s \in Slots : as[s].op = "post" \/ (as[s].op = "load" /\ as[s].at = "sent")

\* Unless something is still to be asked, the answer on its way tells of the
\* shop as it is, and so does the page when there is none.
Fresh ==
    ~moved /\ ~Waits(asks) =>
      /\ \A s \in Slots : Newest(asks[s]) => asks[s].got \in {None, current}
      /\ ~late /\ (\A s \in Slots : ~Newest(asks[s])) => page.shop \in {None, current}

DeskInv == Shapes /\ Shown /\ Meant /\ Fresh

LEMMA SmallAsks == AskOK(Free) /\ AskOK(Load) /\ Free.op = "none" /\ Load.op = "load" /\ Load.at = "sent"
  BY DEF AskOK, Free, Load

\* A request that goes on keeps what it asks for.
GoesOn(a, b) == AskOK(b) /\ b.op = "post" /\ b.req = a.req

LEMMA PostAt ==
    ASSUME NEW a, AskOK(a), a.op = "post", NEW v \in {"sent", "saving", "answer"}
    PROVE  GoesOn(a, [a EXCEPT !.at = v])
<1>1. a = [op |-> "post", at |-> a.at, req |-> a.req, text |-> a.text, tries |-> a.tries]
  BY DEF AskOK, Free
<1> DEFINE b == [a EXCEPT !.at = v]
<1>2. b = [op |-> "post", at |-> v, req |-> a.req, text |-> a.text, tries |-> a.tries] BY <1>1
<1> HIDE DEF b
<1>3. GoesOn(a, b) BY <1>2 DEF AskOK, GoesOn
<1> QED BY <1>3 DEF b

LEMMA PostText ==
    ASSUME NEW a, AskOK(a), a.op = "post", NEW v \in {"sent", "saving", "answer"}, NEW x
    PROVE  GoesOn(a, [a EXCEPT !.at = v, !.text = x])
<1>1. a = [op |-> "post", at |-> a.at, req |-> a.req, text |-> a.text, tries |-> a.tries]
  BY DEF AskOK, Free
<1> DEFINE b == [a EXCEPT !.at = v]
           c == [b EXCEPT !.text = x]
<1>2. b = [op |-> "post", at |-> v, req |-> a.req, text |-> a.text, tries |-> a.tries] BY <1>1
<1> HIDE DEF b
<1>3. c = [op |-> "post", at |-> v, req |-> a.req, text |-> x, tries |-> a.tries] BY <1>2
<1> HIDE DEF c
<1>4. GoesOn(a, c) BY <1>3 DEF AskOK, GoesOn
<1> QED BY <1>4 DEF c, b

LEMMA PostTries ==
    ASSUME NEW a, AskOK(a), a.op = "post", NEW v \in {"sent", "saving", "answer"}, NEW x, NEW n
    PROVE  GoesOn(a, [a EXCEPT !.at = v, !.text = x, !.tries = n])
<1>1. a = [op |-> "post", at |-> a.at, req |-> a.req, text |-> a.text, tries |-> a.tries]
  BY DEF AskOK, Free
<1> DEFINE b == [a EXCEPT !.at = v]
           c == [b EXCEPT !.text = x]
           d == [c EXCEPT !.tries = n]
<1>2. b = [op |-> "post", at |-> v, req |-> a.req, text |-> a.text, tries |-> a.tries] BY <1>1
<1> HIDE DEF b
<1>3. c = [op |-> "post", at |-> v, req |-> a.req, text |-> x, tries |-> a.tries] BY <1>2
<1> HIDE DEF c
<1>4. d = [op |-> "post", at |-> v, req |-> a.req, text |-> x, tries |-> n] BY <1>3
<1> HIDE DEF d
<1>5. GoesOn(a, d) BY <1>4 DEF AskOK, GoesOn
<1> QED BY <1>5 DEF d, c, b

LEMMA AgainGoesOn ==
    ASSUME NEW a, AskOK(a), a.op = "post"
    PROVE  GoesOn(a, Again(a))
<1>1. CASE a.tries > 1
  <2>1. Again(a) = [a EXCEPT !.at = "sent", !.text = None, !.tries = a.tries - 1]
    BY <1>1 DEF Again
  <2>2. GoesOn(a, [a EXCEPT !.at = "sent", !.text = None, !.tries = a.tries - 1]) BY PostTries
  <2> QED BY <2>1, <2>2, Zenon
<1>2. CASE ~(a.tries > 1)
  <2>1. Again(a) = [a EXCEPT !.at = "answer", !.text = None] BY <1>2 DEF Again
  <2>2. GoesOn(a, [a EXCEPT !.at = "answer", !.text = None]) BY PostText
  <2> QED BY <2>1, <2>2, Zenon
<1> QED BY <1>1, <1>2

SetTo(bs, as, s, a) == AsksOK(bs) /\ bs[s] = a /\ \A t \in Slots : t # s => bs[t] = as[t]

LEMMA AskSet ==
    ASSUME NEW as, AsksOK(as), NEW s \in Slots, NEW a, AskOK(a)
    PROVE  SetTo([as EXCEPT ![s] = a], as, s, a)
<1> DEFINE bs == [as EXCEPT ![s] = a]
<1>1. bs = [t \in Slots |-> IF t = s THEN a ELSE as[t]] BY DEF AsksOK
<1>2. \A t \in Slots : bs[t] = IF t = s THEN a ELSE as[t] BY <1>1
<1>3. bs = [t \in Slots |-> bs[t]] BY <1>1, <1>2
<1> HIDE DEF bs
<1>4. \A t \in Slots : AskOK(bs[t]) BY <1>2 DEF AsksOK
<1>5. AsksOK(bs) BY <1>3, <1>4 DEF AsksOK
<1>6. SetTo(bs, as, s, a) BY <1>2, <1>5 DEF SetTo
<1> QED BY <1>6 DEF bs

LEMMA RenderingStep ==
    ASSUME Shapes, NEW p, PageOK(p), NEW as, AsksOK(as), Rendering(p, as)
    PROVE  /\ page' = p /\ Shapes' /\ Shown'
           /\ \A t \in Slots : asks'[t] = as[t] \/ asks'[t] = Load
<1>1. page' = p BY DEF Rendering
<1>2. CASE ~p.in
  <2>1. screen' = Plain("login") /\ asks' = as /\ checks' = checks BY <1>2 DEF Rendering
  <2>2. screen'.at = "login" BY <2>1 DEF Plain
  <2> QED BY <1>1, <2>1, <2>2 DEF Shapes, Shown
<1>3. CASE p.in
  <2>1. checks' = checks + 1 /\ screen' = screen /\ checks \in Nat BY <1>3 DEF Rendering, Shapes
  <2>2. checks' \in Nat /\ checks' # 0 BY <2>1
  <2>3. AsksOK(asks') /\ \A t \in Slots : asks'[t] = as[t] \/ asks'[t] = Load
    <3>1. CASE asks' = as BY <3>1
    <3>2. CASE asks' # as
      <4>1. PICK s \in Slots : as[s] = Free /\ asks' = [as EXCEPT ![s] = Load]
        BY <1>3, <3>2 DEF Rendering
      <4>2. SetTo([as EXCEPT ![s] = Load], as, s, Load) BY AskSet, SmallAsks, Zenon
      <4>3. SetTo(asks', as, s, Load) BY <4>1, <4>2, Zenon
      <4> QED BY <4>3 DEF SetTo
    <3> QED BY <3>1, <3>2
  <2> QED BY <1>1, <1>3, <2>2, <2>3 DEF Shapes, Shown
<1> QED BY <1>2, <1>3

SetIn(p, v)    == [p EXCEPT !.in = v]
SetShop(p, v)  == [p EXCEPT !.shop = v]
SetError(p, v) == [p EXCEPT !.error = v]
SetNet(p, v)   == [p EXCEPT !.net = v]

LEMMA FieldsSet ==
    ASSUME NEW i, NEW h, NEW e, NEW n, NEW v
    PROVE  /\ SetIn(PageFields(i, h, e, n), v) = PageFields(v, h, e, n)
           /\ SetShop(PageFields(i, h, e, n), v) = PageFields(i, v, e, n)
           /\ SetError(PageFields(i, h, e, n), v) = PageFields(i, h, v, n)
           /\ SetNet(PageFields(i, h, e, n), v) = PageFields(i, h, e, v)
           /\ PageFields(i, h, e, n).in = i /\ PageFields(i, h, e, n).shop = h
           /\ PageFields(i, h, e, n).error = e /\ PageFields(i, h, e, n).net = n
  BY DEF PageFields, SetIn, SetShop, SetError, SetNet

Like(q, h, b) == PageOK(q) /\ q.shop = h /\ q.in = b

LEMMA FieldsLike ==
    ASSUME NEW i \in BOOLEAN, NEW h, NEW e \in BOOLEAN, NEW n
    PROVE  Like(PageFields(i, h, e, n), h, i)
<1> DEFINE q == PageFields(i, h, e, n)
<1>1. q.shop = h /\ q.in = i BY DEF PageFields
<1>2. PageOK(q) BY DEF PageOK
<1> HIDE DEF q
<1>3. Like(q, h, i) BY <1>1, <1>2 DEF Like
<1> QED BY <1>3 DEF q

LEMMA SignedIn ==
    ASSUME NEW p, PageOK(p), NEW b \in BOOLEAN
    PROVE  Like([p EXCEPT !.in = b], p.shop, b)
<1>1. PICK h, n : \E i, e \in BOOLEAN : p = PageFields(i, h, e, n) BY DEF PageOK
<1>b. PICK i \in BOOLEAN, e \in BOOLEAN : p = PageFields(i, h, e, n) BY <1>1
<1>2. SetIn(p, b) = PageFields(b, h, e, n) /\ p.shop = h BY <1>b, FieldsSet
<1>3. Like(SetIn(p, b), p.shop, b) BY <1>2, FieldsLike
<1> QED BY <1>3 DEF SetIn

LEMMA Turned ==
    ASSUME NEW p, PageOK(p), NEW v
    PROVE  Like([p EXCEPT !.net = v], p.shop, p.in)
<1>1. PICK h, n : \E i, e \in BOOLEAN : p = PageFields(i, h, e, n) BY DEF PageOK
<1>b. PICK i \in BOOLEAN, e \in BOOLEAN : p = PageFields(i, h, e, n) BY <1>1
<1>2. SetNet(p, v) = PageFields(i, h, e, v) /\ p.shop = h /\ p.in = i BY <1>b, FieldsSet
<1>3. Like(SetNet(p, v), p.shop, p.in) BY <1>2, FieldsLike
<1> QED BY <1>3 DEF SetNet

LEMMA ToldPage ==
    ASSUME NEW p, PageOK(p), NEW x
    PROVE  Like(Told(p, x), x, p.in)
<1>1. PICK h, n : \E i, e \in BOOLEAN : p = PageFields(i, h, e, n) BY DEF PageOK
<1>b. PICK i \in BOOLEAN, e \in BOOLEAN : p = PageFields(i, h, e, n) BY <1>1
<1>2. SetShop(p, x) = PageFields(i, x, e, n) /\ p.in = i /\ p.net = n BY <1>b, FieldsSet
<1>3. CASE x = None
  <2> DEFINE yes == TRUE
  <2>1. Told(p, x) = SetError(SetShop(p, x), yes) BY <1>3 DEF Told, SetError, SetShop
  <2>a. yes \in BOOLEAN OBVIOUS
  <2> HIDE DEF yes
  <2>2. SetError(SetShop(p, x), yes) = PageFields(i, x, yes, n) BY <1>2, FieldsSet
  <2>3. Like(PageFields(i, x, yes, n), x, i) BY <2>a, FieldsLike
  <2> QED BY <1>2, <2>1, <2>2, <2>3, Zenon
<1>4. CASE x # None
  <2> DEFINE no == FALSE
             r == SetError(SetShop(p, x), no)
             m == IF r.net = None THEN x.active ELSE r.net
  <2>1. Told(p, x) = SetNet(r, m) BY <1>4 DEF Told, SetError, SetShop, SetNet
  <2>a. no \in BOOLEAN OBVIOUS
  <2> HIDE DEF m, no
  <2>2. r = PageFields(i, x, no, n) BY <1>2, FieldsSet
  <2> HIDE DEF r
  <2>3. SetNet(r, m) = PageFields(i, x, no, m) BY <2>2, FieldsSet
  <2>4. Like(PageFields(i, x, no, m), x, i) BY <2>a, FieldsLike
  <2> QED BY <1>2, <2>1, <2>3, <2>4, Zenon
<1> QED BY <1>3, <1>4

LEMMA NewestApart == ~Newest(Load) /\ ~Newest(Free) /\ \A a : a.op = "post" => ~Newest(a) /\ a # Free
  BY DEF Newest, Load, Free

(***************************************************************************)
(* Requests on their way, and somebody else's.                             *)
(***************************************************************************)
LEMMA OnTheWay ==
    ASSUME DeskInv, AsksOK(asks'),
           \A t \in Slots : asks'[t] = asks[t] \/ (asks[t].op = "post" /\ GoesOn(asks[t], asks'[t])),
           UNCHANGED <<page, screen, checks, hasty, meant>>,
           ~hasty => bound' \subseteq meant,
           moved' \/ \E s \in Slots : asks[s].op = "post"
    PROVE  DeskInv'
<1> USE DEF DeskInv
<1>1. Shapes' BY DEF Shapes
<1>2. Shown'
  <2>1. Card(page)' = Card(page) BY DEF Card
  <2>2. \A t \in Slots : asks[t] = Free => asks'[t] = Free BY NewestApart
  <2> QED BY <2>1, <2>2 DEF Shown
<1>3. Meant' BY DEF Meant, GoesOn
<1>4. Fresh'
  <2>1. CASE moved' BY <2>1 DEF Fresh
  <2>2. ASSUME NEW s \in Slots, asks[s].op = "post" PROVE Fresh'
    <3>1. asks'[s].op = "post" BY <2>2 DEF GoesOn
    <3>2. Waits(asks') BY <3>1, Zenon DEF Waits
    <3> QED BY <3>2 DEF Fresh
  <2> QED BY <2>1, <2>2
<1> QED BY <1>1, <1>2, <1>3, <1>4

\* One request of the page goes on.
LEMMA OneGoesOn ==
    ASSUME AsksOK(asks), NEW s \in Slots, asks[s].op = "post", NEW a, GoesOn(asks[s], a),
           asks' = [asks EXCEPT ![s] = a]
    PROVE  /\ AsksOK(asks')
           /\ \A t \in Slots : asks'[t] = asks[t] \/ (asks[t].op = "post" /\ GoesOn(asks[t], asks'[t]))
<1>1. SetTo([asks EXCEPT ![s] = a], asks, s, a) BY AskSet, Zenon DEF GoesOn
<1>2. SetTo(asks', asks, s, a) BY <1>1, Zenon
<1>3. AsksOK(asks') /\ asks'[s] = a /\ \A t \in Slots : t # s => asks'[t] = asks[t] BY <1>2 DEF SetTo
<1>4. ASSUME NEW t \in Slots, asks'[t] # asks[t] PROVE asks[t].op = "post" /\ GoesOn(asks[t], asks'[t])
  <2>1. t = s BY <1>3, <1>4
  <2> QED BY <1>3, <2>1, Zenon
<1> QED BY <1>3, <1>4

LEMMA RelayStep == ASSUME DeskInv, NEW s \in Slots, Relay(s) PROVE DeskInv'
<1>1. asks[s].op = "post" /\ AskOK(asks[s]) /\ AsksOK(asks) BY DEF Relay, DeskInv, Shapes, AsksOK
<1> DEFINE a == [asks[s] EXCEPT !.at = "saving", !.text = current']
<1>2. asks' = [asks EXCEPT ![s] = a]
  BY <1>1 DEF Relay, AsksOK
<1>3. GoesOn(asks[s], a) BY <1>1, PostText
<1> HIDE DEF a
<1>4. /\ AsksOK(asks')
      /\ \A t \in Slots : asks'[t] = asks[t] \/ (asks[t].op = "post" /\ GoesOn(asks[t], asks'[t]))
  BY <1>1, <1>2, <1>3, OneGoesOn
<1>5. ~hasty => bound' \subseteq meant
  BY <1>1 DEF Relay, DeskInv, Meant
<1>6. UNCHANGED <<page, screen, checks, hasty, meant>> BY DEF Relay
<1> QED BY <1>1, <1>4, <1>5, <1>6, OnTheWay

LEMMA SavedStep == ASSUME DeskInv, NEW s \in Slots, Saved(s) PROVE DeskInv'
<1>1. asks[s].op = "post" /\ AskOK(asks[s]) /\ AsksOK(asks) BY DEF Saved, DeskInv, Shapes, AsksOK
<1> DEFINE a == [asks[s] EXCEPT !.at = "answer", !.text = None]
<1>2. asks' = [asks EXCEPT ![s] = a] BY <1>1 DEF Saved, AsksOK
<1>3. GoesOn(asks[s], a) BY <1>1, PostText
<1> HIDE DEF a
<1>4. /\ AsksOK(asks')
      /\ \A t \in Slots : asks'[t] = asks[t] \/ (asks[t].op = "post" /\ GoesOn(asks[t], asks'[t]))
  BY <1>1, <1>2, <1>3, OneGoesOn
<1>5. ~hasty => bound' \subseteq meant BY DEF Saved, DeskInv, Meant
<1>6. UNCHANGED <<page, screen, checks, hasty, meant>> BY DEF Saved
<1> QED BY <1>1, <1>4, <1>5, <1>6, OnTheWay

LEMMA RefusedStep == ASSUME DeskInv, NEW s \in Slots, Refused(s) PROVE DeskInv'
<1>1. asks[s].op = "post" /\ AskOK(asks[s]) /\ AsksOK(asks) BY DEF Refused, DeskInv, Shapes, AsksOK
<1> DEFINE a == [asks[s] EXCEPT !.at = "answer"]
<1>2. asks' = [asks EXCEPT ![s] = a] BY <1>1 DEF Refused, AsksOK
<1>3. GoesOn(asks[s], a) BY <1>1, PostAt
<1> HIDE DEF a
<1>4. /\ AsksOK(asks')
      /\ \A t \in Slots : asks'[t] = asks[t] \/ (asks[t].op = "post" /\ GoesOn(asks[t], asks'[t]))
  BY <1>1, <1>2, <1>3, OneGoesOn
<1>5. ~hasty => bound' \subseteq meant BY DEF Refused, vars, DeskInv, Meant
<1>6. UNCHANGED <<page, screen, checks, hasty, meant>> BY DEF Refused
<1> QED BY <1>1, <1>4, <1>5, <1>6, OnTheWay

LEMMA UnansweredStep == ASSUME DeskInv, NEW s \in Slots, Unanswered(s) PROVE DeskInv'
<1>1. asks[s].op = "post" /\ AskOK(asks[s]) /\ AsksOK(asks) BY DEF Unanswered, DeskInv, Shapes, AsksOK
<1> DEFINE a == Again(asks[s])
<1>2. asks' = [asks EXCEPT ![s] = a] BY <1>1 DEF Unanswered, AsksOK
<1>3. GoesOn(asks[s], a) BY <1>1, AgainGoesOn
<1> HIDE DEF a
<1>4. /\ AsksOK(asks')
      /\ \A t \in Slots : asks'[t] = asks[t] \/ (asks[t].op = "post" /\ GoesOn(asks[t], asks'[t]))
  BY <1>1, <1>2, <1>3, OneGoesOn
<1>5. ~hasty => bound' \subseteq meant BY DEF Unanswered, DeskInv, Meant
<1>6. UNCHANGED <<page, screen, checks, hasty, meant>> BY DEF Unanswered
<1> QED BY <1>1, <1>4, <1>5, <1>6, OnTheWay

LEMMA RestartStep == ASSUME DeskInv, Restart PROVE DeskInv'
<1>1. AsksOK(asks) BY DEF DeskInv, Shapes
<1> DEFINE ends(t) == asks[t].op = "post" /\ asks[t].at = "saving"
<1>2. asks' = [t \in Slots |-> IF ends(t) THEN Again(asks[t]) ELSE asks[t]] BY DEF Restart
<1>3. \A t \in Slots : asks'[t] = IF ends(t) THEN Again(asks[t]) ELSE asks[t] BY <1>2
<1>4. asks' = [t \in Slots |-> asks'[t]] BY <1>2, <1>3
<1>5. \A t \in Slots : ends(t) => GoesOn(asks[t], Again(asks[t]))
  BY <1>1, AgainGoesOn DEF AsksOK
<1>6. \A t \in Slots : AskOK(asks[t]) BY <1>1 DEF AsksOK
<1>7. ASSUME NEW t \in Slots
      PROVE  /\ AskOK(asks'[t])
             /\ asks'[t] = asks[t] \/ (asks[t].op = "post" /\ GoesOn(asks[t], asks'[t]))
  <2>1. CASE ends(t)
    <3>1. asks'[t] = Again(asks[t]) /\ asks[t].op = "post" BY <1>3, <2>1
    <3>2. GoesOn(asks[t], asks'[t]) BY <1>5, <2>1, <3>1
    <3> QED BY <3>1, <3>2 DEF GoesOn
  <2>2. CASE ~ends(t)
    <3>1. asks'[t] = asks[t] BY <1>3, <2>2
    <3> QED BY <1>6, <3>1
  <2> QED BY <2>1, <2>2
<1>8. AsksOK(asks') BY <1>4, <1>7 DEF AsksOK
<1>9. ~hasty => bound' \subseteq meant BY DEF Restart, DeskInv, Meant
<1>10. UNCHANGED <<page, screen, checks, hasty, meant>> /\ moved' BY DEF Restart
<1> QED BY <1>7, <1>8, <1>9, <1>10, OnTheWay

LEMMA ForeignStep == ASSUME DeskInv, NEW r \in Requests, Foreign(r) PROVE DeskInv'
<1> USE DEF DeskInv
<1>1. moved' /\ UNCHANGED <<page, screen, checks, asks, hasty>> BY DEF Foreign
<1>2. Shapes' BY <1>1 DEF Shapes
<1>3. Shown'
  <2>1. Card(page)' = Card(page) BY <1>1 DEF Card
  <2> QED BY <1>1, <2>1 DEF Shown
<1>4. meant \subseteq meant' /\ (bound' = bound \/ (bound' = bound \cup {<<r.net, r.code>>} /\ <<r.net, r.code>> \in meant'))
  BY DEF Foreign
<1>5. Meant' BY <1>1, <1>4 DEF Meant
<1>6. Fresh' BY <1>1 DEF Fresh
<1> QED BY <1>2, <1>3, <1>5, <1>6

LEMMA LandPostStep == ASSUME DeskInv, NEW s \in Slots, LandPost(s) PROVE DeskInv'
<1> USE DEF DeskInv
<1>1. AsksOK(asks) /\ asks[s] # Free BY NewestApart DEF LandPost, Shapes
<1>2. SetTo([asks EXCEPT ![s] = Load], asks, s, Load) BY <1>1, AskSet, SmallAsks, Zenon
<1>3. asks' = [asks EXCEPT ![s] = Load] BY DEF LandPost
<1>4. SetTo(asks', asks, s, Load) BY <1>2, <1>3, Zenon
<1>5. AsksOK(asks') /\ asks'[s] = Load /\ \A t \in Slots : t # s => asks'[t] = asks[t] BY <1>4 DEF SetTo
<1>6. UNCHANGED <<vars, page, screen, checks, hasty, meant, moved, late>> BY DEF LandPost
<1>7. Shapes' BY <1>5, <1>6 DEF Shapes
<1>8. Shown'
  <2>1. Card(page)' = Card(page) BY <1>6 DEF Card
  <2>2. screen.at = "closed" => checks # 0 BY <1>1 DEF Shown
  <2> QED BY <1>6, <2>1, <2>2 DEF Shown
<1>9. Meant'
  <2>1. \A t \in Slots : asks'[t].op = "post" => asks'[t] = asks[t] BY <1>5, SmallAsks
  <2> QED BY <1>6, <2>1 DEF Meant, vars
<1>10. Fresh'
  <2>1. Waits(asks') BY <1>5, SmallAsks DEF Waits
  <2> QED BY <2>1 DEF Fresh
<1> QED BY <1>7, <1>8, <1>9, <1>10

(***************************************************************************)
(* Redraws, and the answers of the gateway.                                *)
(***************************************************************************)
LEMMA Redrawn ==
    ASSUME DeskInv, NEW p, PageOK(p), NEW as, AsksOK(as), Rendering(p, as),
           \A t \in Slots : as[t] = asks[t] \/ as[t] = Free,
           UNCHANGED <<current, bound, meant, hasty, moved>>,
           ~moved /\ ~Waits(as) =>
             /\ \A t \in Slots : Newest(as[t]) => as[t].got \in {None, current}
             /\ ~late' /\ (\A t \in Slots : ~Newest(as[t])) => p.shop \in {None, current}
    PROVE  DeskInv'
<1> USE DEF DeskInv
<1>1. /\ page' = p /\ Shapes' /\ Shown'
      /\ \A t \in Slots : asks'[t] = as[t] \/ asks'[t] = Load
  BY RenderingStep
<1>2. Meant'
  <2>1. \A t \in Slots : asks'[t].op = "post" => asks'[t] = asks[t] BY <1>1, SmallAsks
  <2> QED BY <2>1 DEF Meant
<1>3. Fresh'
  <2>1. CASE \E t \in Slots : asks'[t] = Load
    <3>1. Waits(asks') BY <2>1, SmallAsks DEF Waits
    <3> QED BY <3>1 DEF Fresh
  <2>2. CASE ~\E t \in Slots : asks'[t] = Load
    <3>1. \A t \in Slots : asks'[t] = as[t] BY <1>1, <2>2
    <3>2. Waits(asks') <=> Waits(as) BY <3>1 DEF Waits
    <3> QED BY <1>1, <3>1, <3>2 DEF Fresh
  <2> QED BY <2>1, <2>2
<1> QED BY <1>1, <1>2, <1>3

LEMMA ClicksStep == ASSUME DeskInv, SignIn \/ Logout \/ (\E n \in Networks : ClickTab(n)) PROVE DeskInv'
<1>1. PageOK(page) /\ AsksOK(asks) BY DEF DeskInv, Shapes
<1>2. UNCHANGED <<current, bound, meant, hasty, moved, late>> BY DEF SignIn, Logout, ClickTab, vars
<1>3. PICK p : Rendering(p, asks) /\ PageOK(p) /\ p.shop = page.shop
  <2>1. CASE SignIn
    <3>1. Like([page EXCEPT !.in = TRUE], page.shop, TRUE) BY <1>1, SignedIn
    <3>2. Rendering([page EXCEPT !.in = TRUE], asks) BY <2>1 DEF SignIn
    <3> QED BY <3>1, <3>2 DEF Like
  <2>2. CASE Logout
    <3>1. Like([page EXCEPT !.in = FALSE], page.shop, FALSE) BY <1>1, SignedIn
    <3>2. Rendering([page EXCEPT !.in = FALSE], asks) BY <2>2 DEF Logout
    <3> QED BY <3>1, <3>2 DEF Like
  <2>3. ASSUME NEW n \in Networks, ClickTab(n) PROVE \E p : Rendering(p, asks) /\ PageOK(p) /\ p.shop = page.shop
    <3>1. Like([page EXCEPT !.net = n], page.shop, page.in) BY <1>1, Turned
    <3>2. Rendering([page EXCEPT !.net = n], asks) BY <2>3 DEF ClickTab
    <3> QED BY <3>1, <3>2 DEF Like
  <2> QED BY <2>1, <2>2, <2>3
<1>4. ~moved /\ ~Waits(asks) =>
        /\ \A t \in Slots : Newest(asks[t]) => asks[t].got \in {None, current}
        /\ ~late' /\ (\A t \in Slots : ~Newest(asks[t])) => p.shop \in {None, current}
  BY <1>2, <1>3 DEF DeskInv, Fresh
<1> QED BY <1>1, <1>2, <1>3, <1>4, Redrawn

LEMMA LandLoadStep == ASSUME DeskInv, NEW s \in Slots, LandLoad(s) PROVE DeskInv'
<1>1. PageOK(page) /\ AsksOK(asks) BY DEF DeskInv, Shapes
<1> DEFINE as == [asks EXCEPT ![s] = Free]
           p  == Told(page, asks[s].got)
<1>2. /\ Rendering(p, as) /\ late' = asks[s].old /\ asks[s].op = "load" /\ asks[s].at = "answer"
      /\ UNCHANGED <<current, bound, meant, hasty, moved>>
  BY DEF LandLoad, vars
<1>3. PageOK(p) /\ p.shop = asks[s].got BY <1>1, ToldPage DEF Like
<1>4. SetTo(as, asks, s, Free) BY <1>1, AskSet, SmallAsks, Zenon
<1> HIDE DEF as, p
<1>5. AsksOK(as) /\ as[s] = Free /\ \A t \in Slots : t # s => as[t] = asks[t] BY <1>4 DEF SetTo
<1>6. Waits(asks) => Waits(as)
  <2>1. ASSUME NEW t \in Slots, asks[t].op = "post" \/ (asks[t].op = "load" /\ asks[t].at = "sent")
        PROVE  Waits(as)
    <3>1. t # s BY <1>2, <2>1
    <3> QED BY <1>5, <2>1, <3>1 DEF Waits
  <2> QED BY <2>1 DEF Waits
<1>7. \A t \in Slots : Newest(as[t]) => Newest(asks[t]) /\ as[t] = asks[t] BY <1>5, NewestApart
<1>8. asks[s].old \in BOOLEAN BY <1>1, <1>2 DEF AsksOK, AskOK, Free
<1>9. ~moved /\ ~Waits(as) =>
        /\ \A t \in Slots : Newest(as[t]) => as[t].got \in {None, current}
        /\ ~late' /\ (\A t \in Slots : ~Newest(as[t])) => p.shop \in {None, current}
  <2>1. SUFFICES ASSUME ~moved, ~Waits(as)
                 PROVE  /\ \A t \in Slots : Newest(as[t]) => as[t].got \in {None, current}
                        /\ ~late' => p.shop \in {None, current}
    OBVIOUS
  <2>2. \A t \in Slots : Newest(asks[t]) => asks[t].got \in {None, current}
    BY <2>1, <1>6 DEF DeskInv, Fresh
  <2>3. ~late' => Newest(asks[s]) BY <1>2, <1>8 DEF Newest
  <2> QED BY <2>2, <2>3, <1>3, <1>7
<1> QED BY <1>2, <1>3, <1>5, <1>9, Redrawn

Answered(a, x) == [a EXCEPT !.at = "answer", !.got = x]
Overtaken(a)   == [a EXCEPT !.old = TRUE]

LEMMA AnsweredIs ==
    ASSUME NEW a, NEW x, AskOK(a), a.op = "load"
    PROVE  /\ AskOK(Answered(a, x)) /\ Answered(a, x).op = "load" /\ Answered(a, x).got = x
           /\ Answered(a, x).at = "answer" /\ Answered(a, x).old = a.old
<1>1. /\ a = [op |-> "load", at |-> a.at, got |-> a.got, old |-> a.old]
      /\ a.at \in {"sent", "answer"} /\ a.old \in BOOLEAN
  BY DEF AskOK, Free
<1> DEFINE b == [a EXCEPT !.at = "answer"]
           c == [b EXCEPT !.got = x]
<1>2. b = [op |-> "load", at |-> "answer", got |-> a.got, old |-> a.old] BY <1>1
<1>3. Answered(a, x) = c BY DEF Answered
<1> HIDE DEF b
<1>4. c = [op |-> "load", at |-> "answer", got |-> x, old |-> a.old] BY <1>2
<1> HIDE DEF c
<1>5. AskOK(c) /\ c.op = "load" /\ c.got = x /\ c.at = "answer" /\ c.old = a.old
  BY <1>1, <1>4 DEF AskOK
<1> QED BY <1>3, <1>5, Zenon

LEMMA OvertakenIs ==
    ASSUME NEW a, AskOK(a), a.op = "load", a.at = "answer"
    PROVE  AskOK(Overtaken(a)) /\ Overtaken(a).op = "load" /\ ~Newest(Overtaken(a))
<1>1. a = [op |-> "load", at |-> a.at, got |-> a.got, old |-> a.old] BY DEF AskOK, Free
<1> DEFINE yes == TRUE
           d == [a EXCEPT !.old = yes]
<1>2. Overtaken(a) = d BY DEF Overtaken
<1>3. yes \in BOOLEAN /\ yes OBVIOUS
<1> HIDE DEF yes
<1>4. d = [op |-> "load", at |-> a.at, got |-> a.got, old |-> yes] BY <1>1
<1> HIDE DEF d
<1>5. AskOK(d) /\ d.op = "load" /\ ~Newest(d) BY <1>3, <1>4 DEF AskOK, Newest
<1> QED BY <1>2, <1>5, Zenon

LEMMA ReadStep == ASSUME DeskInv, NEW s \in Slots, Read(s) PROVE DeskInv'
<1> USE DEF DeskInv
<1>1. AsksOK(asks) /\ asks[s].op = "load" /\ asks[s].at = "sent" /\ AskOK(asks[s])
  BY DEF Read, Shapes, AsksOK
<1>2. PICK x \in {current, None} :
         asks' = [t \in Slots |->
                    IF t = s THEN Answered(asks[s], x)
                    ELSE IF asks[t].op = "load" /\ asks[t].at = "answer"
                    THEN Overtaken(asks[t]) ELSE asks[t]]
  BY DEF Read, Answered, Overtaken
<1>3. UNCHANGED <<vars, page, screen, checks, meant, hasty, late>> BY DEF Read
<1>4. /\ AskOK(asks'[s]) /\ asks'[s].op = "load" /\ asks'[s].at = "answer" /\ asks'[s].got = x
      /\ asks'[s].old = asks[s].old
  <2>1. asks'[s] = Answered(asks[s], x) BY <1>2
  <2>2. /\ AskOK(Answered(asks[s], x)) /\ Answered(asks[s], x).op = "load"
        /\ Answered(asks[s], x).got = x /\ Answered(asks[s], x).at = "answer"
        /\ Answered(asks[s], x).old = asks[s].old
    BY <1>1, AnsweredIs
  <2> QED BY <2>1, <2>2, Zenon
<1>5. ASSUME NEW t \in Slots, t # s
      PROVE  AskOK(asks'[t]) /\ ~Newest(asks'[t]) /\ asks'[t].op = asks[t].op
             /\ (asks[t].op # "load" => asks'[t] = asks[t])
  <2>1. AskOK(asks[t]) BY <1>1 DEF AsksOK
  <2>2. CASE asks[t].op = "load" /\ asks[t].at = "answer"
    <3>1. asks'[t] = Overtaken(asks[t]) BY <1>2, <1>5, <2>2
    <3>2. AskOK(Overtaken(asks[t])) /\ Overtaken(asks[t]).op = "load" /\ ~Newest(Overtaken(asks[t]))
      BY <2>1, <2>2, OvertakenIs
    <3> QED BY <2>2, <3>1, <3>2, Zenon
  <2>3. CASE ~(asks[t].op = "load" /\ asks[t].at = "answer")
    <3>1. asks'[t] = asks[t] BY <1>2, <1>5, <2>3
    <3> QED BY <2>1, <2>3, <3>1 DEF Newest
  <2> QED BY <2>2, <2>3
<1>6. AsksOK(asks')
  <2>1. asks' = [t \in Slots |-> asks'[t]] BY <1>2
  <2>2. \A t \in Slots : AskOK(asks'[t]) BY <1>4, <1>5
  <2> QED BY <2>1, <2>2 DEF AsksOK
<1>7. Shapes' BY <1>3, <1>6 DEF Shapes
<1>8. Shown'
  <2>1. Card(page)' = Card(page) BY <1>3 DEF Card
  <2>2. screen.at = "closed" => checks # 0 BY <1>1 DEF Shown, Free
  <2> QED BY <1>3, <2>1, <2>2 DEF Shown
<1>9. Meant'
  <2>1. \A t \in Slots : asks'[t].op = "post" => asks'[t] = asks[t] BY <1>4, <1>5
  <2> QED BY <1>3, <2>1 DEF Meant, vars
<1>10. Fresh'
  <2>1. \A t \in Slots : Newest(asks'[t]) => asks'[t].got \in {None, current} BY <1>4, <1>5
  <2>2. Newest(asks'[s]) BY <1>1, <1>4 DEF Newest, AskOK, Free
  <2> QED BY <2>1, <2>2, <1>3 DEF Fresh, vars
<1> QED BY <1>7, <1>8, <1>9, <1>10

LEMMA RedrawStep == ASSUME DeskInv, Redraw PROVE DeskInv'
<1> USE DEF DeskInv
<1>1. checks \in Nat /\ checks # 0 /\ checks' = checks - 1 BY DEF Redraw, Shapes
<1>2. UNCHANGED <<vars, asks, meant, hasty, moved, late>> BY DEF Redraw
<1>3. Meant' BY <1>2 DEF Meant, vars
<1>4. PageOK(page') /\ page'.shop = page.shop
  <2>1. PageOK(page) BY DEF Shapes
  <2>2. Like([page EXCEPT !.in = FALSE], page.shop, FALSE) BY <2>1, SignedIn
  <2> QED BY <2>1, <2>2 DEF Redraw, Like
<1>5. Shapes' BY <1>1, <1>2, <1>4 DEF Shapes
<1>6. Fresh' BY <1>2, <1>4 DEF Fresh, vars
<1>7. Shown'
  <2>1. screen.at = "closed" => page.in BY <1>1 DEF Shown
  <2>2. CASE screen' = (IF page.in THEN Card(page) ELSE screen) /\ page' = page
    <3>1. Card(page).at \in {"error", "asking", "card"} BY DEF Card, Plain
    <3>2. Card(page)' = Card(page) BY <2>2 DEF Card
    <3> QED BY <2>1, <2>2, <3>1, <3>2 DEF Shown
  <2>3. CASE screen' = Plain("down") BY <2>3 DEF Shown, Plain
  <2>4. CASE screen' = Plain("login") BY <2>4 DEF Shown, Plain
  <2> QED BY <2>2, <2>3, <2>4 DEF Redraw
<1> QED BY <1>3, <1>5, <1>6, <1>7

\* The controls of the card: a request is sent, and the card stays.
LEMMA SentStep ==
    ASSUME DeskInv, NEW r, Send(r), screen.at = "card",
           UNCHANGED <<bound, page, screen, checks>>,
           ~hasty' => /\ ~hasty /\ meant \subseteq meant'
                      /\ r.op = "bind-receiver" => <<r.net, r.code>> \in meant'
    PROVE  DeskInv'
<1> USE DEF DeskInv
<1>1. AsksOK(asks) BY DEF Shapes
<1> DEFINE a == [op |-> "post", at |-> "sent", req |-> r, text |-> None, tries |-> Tries]
<1>2. PICK s \in Slots : asks[s] = Free /\ asks' = [asks EXCEPT ![s] = a] BY DEF Send
<1>3. AskOK(a) /\ a.op = "post" /\ a.req = r BY DEF AskOK
<1> HIDE DEF a
<1>4. SetTo([asks EXCEPT ![s] = a], asks, s, a) BY <1>1, <1>3, AskSet, Zenon
<1>5. SetTo(asks', asks, s, a) BY <1>2, <1>4, Zenon
<1>6. AsksOK(asks') /\ asks'[s] = a /\ \A t \in Slots : t # s => asks'[t] = asks[t] BY <1>5 DEF SetTo
<1>7. Shapes' BY <1>6 DEF Shapes
<1>8. Shown'
  <2>1. Card(page)' = Card(page) BY DEF Card
  <2> QED BY <2>1 DEF Shown
<1>9. Meant' BY <1>3, <1>6 DEF Meant
<1>10. Fresh'
  <2>1. Waits(asks') BY <1>3, <1>6 DEF Waits
  <2> QED BY <2>1 DEF Fresh
<1> QED BY <1>7, <1>8, <1>9, <1>10

LEMMA SwitchStep == ASSUME DeskInv, ClickSwitch PROVE DeskInv'
<1>1. Send([op |-> "set-active", net |-> page.net]) /\ screen.at = "card" BY DEF ClickSwitch
<1>2. UNCHANGED <<bound, page, screen, checks, meant>> /\ hasty' = (hasty \/ screen.net # page.net)
  BY DEF ClickSwitch, vars
<1>3. [op |-> "set-active", net |-> page.net].op # "bind-receiver" OBVIOUS
<1> QED BY <1>1, <1>2, <1>3, SentStep

LEMMA BindStep == ASSUME DeskInv, NEW c \in Codes, ClickBind(c) PROVE DeskInv'
<1> DEFINE r == [op |-> "bind-receiver", net |-> page.net, code |-> c]
<1>1. Send(r) /\ screen.at = "card" BY DEF ClickBind
<1>2. UNCHANGED <<bound, page, screen, checks>> /\ hasty' = (hasty \/ screen.net # page.net)
      /\ meant' = meant \cup {<<screen.net, c>>}
  BY DEF ClickBind, vars
<1>3. r.net = page.net /\ r.code = c OBVIOUS
<1> HIDE DEF r
<1>4. ~hasty' => ~hasty /\ meant \subseteq meant' /\ <<r.net, r.code>> \in meant' BY <1>2, <1>3
<1> QED BY <1>1, <1>2, <1>4, SentStep

LEMMA DeskInitHolds == DeskInit => DeskInv
<1> SUFFICES ASSUME DeskInit PROVE DeskInv OBVIOUS
<1>1. /\ page = [in |-> FALSE, shop |-> None, error |-> FALSE, net |-> None]
      /\ screen = Plain("closed") /\ checks = 0 /\ asks = [s \in Slots |-> Free]
      /\ bound = {} /\ meant = {}
  BY DEF DeskInit, Init
<1>2. \A s \in Slots : asks[s] = Free BY <1>1
<1>3. asks = [s \in Slots |-> asks[s]] BY <1>1, <1>2
<1>4. AsksOK(asks) BY <1>2, <1>3, SmallAsks DEF AsksOK
<1>5. PageOK(page)
  <2> DEFINE no == FALSE
  <2>1. no \in BOOLEAN /\ page = PageFields(no, None, no, None) BY <1>1 DEF PageFields
  <2> HIDE DEF no
  <2> QED BY <2>1 DEF PageOK
<1>6. Shapes BY <1>1, <1>4, <1>5 DEF Shapes
<1>7. Shown BY <1>1, <1>2 DEF Shown, Plain
<1>8. Meant BY <1>1, <1>2, SmallAsks DEF Meant
<1>9. Fresh BY <1>1, <1>2, NewestApart DEF Fresh
<1> QED BY <1>6, <1>7, <1>8, <1>9 DEF DeskInv

LEMMA DeskStep == DeskInv /\ [DeskNext]_<<vars, desk>> => DeskInv'
<1> SUFFICES ASSUME DeskInv, [DeskNext]_<<vars, desk>> PROVE DeskInv' OBVIOUS
<1>1. ASSUME screen.at = "closed", checks = 0, Next, meant' = meant \cup (bound' \ bound),
             UNCHANGED <<page, screen, checks, asks, clicks, hasty, moved, late>>
      PROVE  DeskInv'
  <2> USE DEF DeskInv
  <2>1. page.shop = None /\ \A s \in Slots : asks[s] = Free BY <1>1 DEF Shown
  <2>2. Shapes' BY <1>1 DEF Shapes
  <2>3. Shown'
    <3>1. Card(page)' = Card(page) BY <1>1 DEF Card
    <3> QED BY <1>1, <3>1 DEF Shown
  <2>4. Meant' BY <1>1, <2>1, SmallAsks DEF Meant
  <2>5. Fresh' BY <1>1, <2>1, NewestApart DEF Fresh
  <2> QED BY <2>2, <2>3, <2>4, <2>5
<1>2. ASSUME UNCHANGED <<current, bound>>, UNCHANGED desk PROVE DeskInv'
  <2> USE DEF DeskInv, desk
  <2>1. Shapes' BY <1>2 DEF Shapes
  <2>2. Shown'
    <3>1. Card(page)' = Card(page) BY <1>2 DEF Card
    <3> QED BY <1>2, <3>1 DEF Shown
  <2>3. Meant' BY <1>2 DEF Meant
  <2>4. Fresh' BY <1>2 DEF Fresh, Waits
  <2> QED BY <2>1, <2>2, <2>3, <2>4
<1>3. ASSUME NEW o \in Orders, Quote(o), UNCHANGED desk PROVE DeskInv'
  BY <1>2, <1>3 DEF Quote, Saving
<1>4. CASE UNCHANGED <<vars, desk>> BY <1>2, <1>4 DEF vars
<1>5. CASE Opened /\ SignIn BY <1>5, ClicksStep
<1>6. CASE Redraw BY <1>6, RedrawStep
<1>7. CASE Logout BY <1>7, ClicksStep
<1>8. CASE ClickSwitch BY <1>8, SwitchStep
<1>9. CASE \E n \in Networks : ClickTab(n) BY <1>9, ClicksStep
<1>10. CASE \E c \in Codes : ClickBind(c) BY <1>10, BindStep
<1>11. ASSUME NEW s \in Slots,
              Read(s) \/ LandLoad(s) \/ LandPost(s) \/ Relay(s) \/ Saved(s) \/ Refused(s) \/ Unanswered(s)
       PROVE  DeskInv'
  BY <1>11, ReadStep, LandLoadStep, LandPostStep, RelayStep, SavedStep, RefusedStep, UnansweredStep
<1>12. CASE screen.at # "closed" /\ Restart BY <1>12, RestartStep
<1>13. CASE screen.at # "closed" /\ \E r \in Requests : Foreign(r) BY <1>13, ForeignStep
<1> QED
  BY <1>1, <1>3, <1>4, <1>5, <1>6, <1>7, <1>8, <1>9, <1>10, <1>11, <1>12, <1>13 DEF DeskNext

(***************************************************************************)
(* However redraws, loads, repeated requests, sign-ins and other people's  *)
(* requests overlap, and for any number of each: a receiver is bound only  *)
(* for the network of the card it was typed into, unless a card was used   *)
(* while another was on its way to the screen; and a card that waits for   *)
(* nothing tells the shop as the gateway has it, unless somebody else has  *)
(* changed it or an answer was overtaken (loadShop and shopCard).          *)
(***************************************************************************)
THEOREM DeskIsHonest == DeskSpec => []DeskHonest
<1>1. DeskInv => DeskHonest
  <2> SUFFICES ASSUME DeskInv PROVE DeskHonest OBVIOUS
  <2>1. BoundAsMeant BY DEF DeskInv, Meant, BoundAsMeant
  <2>2. CardTrue
    <3> SUFFICES ASSUME Quiet, screen.at = "card", ~moved, ~late
                 PROVE  /\ screen.live = current.active
                        /\ screen.free = (current.receiver[screen.net] = None)
      BY DEF CardTrue
    <3>1. \A s \in Slots : asks[s] = Free BY DEF Quiet
    <3>2. ~Waits(asks) /\ \A s \in Slots : ~Newest(asks[s]) BY <3>1, SmallAsks, NewestApart DEF Waits
    <3>3. page.shop \in {None, current} BY <3>2 DEF DeskInv, Fresh
    <3>4. screen = Card(page) BY DEF Quiet, DeskInv, Shown
    <3>5. page.shop # None /\ ~page.error BY <3>4 DEF Card, Plain
    <3>6. page.shop = current BY <3>3, <3>5
    <3>7. screen = [at |-> "card", net |-> page.net, live |-> page.shop.active,
                    free |-> page.shop.receiver[page.net] = None]
      BY <3>4, <3>5 DEF Card
    <3>8. /\ screen.net = page.net /\ screen.live = page.shop.active
          /\ screen.free = (page.shop.receiver[page.net] = None)
      BY <3>7
    <3> QED BY <3>6, <3>8
  <2> QED BY <2>1, <2>2 DEF DeskHonest
<1> QED BY <1>1, DeskInitHolds, DeskStep, PTL DEF DeskSpec
=============================================================================
