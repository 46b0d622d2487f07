----------------------------- MODULE Host_proofs -----------------------------
(***************************************************************************)
(* Proofs about Host: what an operator is told of the files under /etc,    *)
(* and what becomes of records and keys.                                   *)
(***************************************************************************)
EXTENDS Host, SequenceTheorems, WellFoundedInduction, TLAPS

-----------------------------------------------------------------------------
(***************************************************************************)
(* The invariants. A file that lags without the operator having been told  *)
(* is one that the steps the program has still to take put in force or     *)
(* tell of, but for the timer's as an installer left it in silence; after  *)
(* a daemon-reload systemd has read what is there of it.                   *)
(***************************************************************************)
Excused(f) == f = "timer" /\ etc[f] = unsaid

Untold == {f \in Lagging \ told : ~Excused(f)}

Rest == {"polkit", "import", "importing", "build", "chown", "writable", "start"}

Pending ==
    IF run = "install"
      THEN IF at \in {"files", "reload"} THEN {"nginx", "server", "update", "timer"}
           ELSE IF at \in Rest THEN {"nginx", "server", "timer"}
           ELSE IF at \in {"first", "timer"} THEN {"timer"} ELSE {}
      ELSE IF run = "reconcile"
             THEN IF at \in {"files", "reload"} THEN opt.ask \ {"polkit"}
                  ELSE IF at = "timers" THEN opt.ask \cap {"server", "gateway", "timer", "nginx"}
                  ELSE opt.ask \cap {"nginx"}
             ELSE {}

AfterReload == Rest \cup {"first", "timer", "timers"}

Deferred ==
    /\ Untold \subseteq Pending
    /\ at \in AfterReload => \A f \in Untold \cap Units : read[f] = etc[f]

\* What a program has still to write is what it was asked to.
Work ==
    /\ at = "files" => opt.todo # {}
    /\ run = "install" => opt.todo \subseteq ToSet(Installed)
    /\ run = "reconcile" => opt.todo \subseteq opt.ask

Option == [host : Keys \cup {None}, ask : SUBSET (Files \cup {"import", "data", "onion", "archive"}),
           todo : SUBSET Files, buf : SUBSET Records]

FilesOK ==
    /\ etc \in [Files -> File \cup {None}]
    /\ read \in [Files -> File \cup {None}]
    /\ inForce \in [Files -> File \cup {None}]
    /\ unsaid \in File \cup {None}

KeyTypes ==
    onion \in Keys \cup {None} /\ seed \in Keys \cup {None}

FlagTypes ==
    /\ account \in BOOLEAN /\ mine \in BOOLEAN /\ web \in BOOLEAN
    /\ timer \in BOOLEAN /\ fresh \in BOOLEAN /\ listed \in BOOLEAN

RecordTypes ==
    /\ disk \subseteq Records /\ backend \in (SUBSET Records) \cup {None}
    /\ kept \subseteq Records \cup Keys /\ acked \subseteq Records \cup Keys
    /\ overwritten \subseteq Records

WordTypes ==
    /\ waived \in BOOLEAN /\ sound \in BOOLEAN
    /\ boot \subseteq {"server", "timer"} /\ told \subseteq Files
    /\ run \in {"none", "install", "reconcile", "uninstall", "script"}

Types ==
    /\ FilesOK /\ ships \in 0..MaxShips /\ opt \in Option
    /\ KeyTypes /\ FlagTypes /\ RecordTypes /\ WordTypes

Safe == Types /\ Work /\ Deferred

-----------------------------------------------------------------------------
USE DEF Files, Units, Keys, KeyTypes, FlagTypes, RecordTypes, WordTypes

\* Every set of naturals has a least element.
LEMMA LeastNumber ==
    ASSUME NEW T \in SUBSET Nat, T # {}
    PROVE  \E x \in T : \A y \in T : x <= y
<1> DEFINE R == OpToRel(<, Nat)
<1>1. IsWellFoundedOn(R, Nat) BY NatLessThanWellFounded
<1>2. \A x, y \in Nat : y < x => <<y, x>> \in R BY DEF OpToRel
<1> HIDE DEF R
<1>3. PICK x \in T : \A y \in T : ~ (<<y, x>> \in R) BY <1>1, WFMin
<1>4. ASSUME NEW y \in T PROVE x <= y
  <2>1. x \in Nat /\ y \in Nat OBVIOUS
  <2>2. ~ (y < x) BY <1>2, <1>3, <2>1
  <2> QED BY <2>1, <2>2
<1> QED BY <1>4

\* The file that is written next is one of those still to be written.
LEMMA FirstIsOne ==
    ASSUME NEW order, DOMAIN order \subseteq Nat,
           \A i, j \in DOMAIN order : order[i] = order[j] => i = j,
           NEW todo, todo # {}, \A f \in todo : \E i \in DOMAIN order : order[i] = f
    PROVE  First(order, todo) \in todo
<1> DEFINE T == {i \in DOMAIN order : order[i] \in todo}
<1>1. T \subseteq Nat /\ T # {} OBVIOUS
<1>2. PICK n \in T : \A m \in T : n <= m
  <2> HIDE DEF T
  <2> QED BY <1>1, LeastNumber
<1>3. \A i, j \in DOMAIN order : order[i] = order[n] /\ order[j] \in todo => i <= j
  BY <1>2
<1> QED BY <1>2, <1>3 DEF First

LEMMA FirstInstalled ==
    ASSUME NEW todo \in SUBSET ToSet(Installed), todo # {}
    PROVE  First(Installed, todo) \in todo
<1>1. DOMAIN Installed = 1..4 BY DEF Installed
<1>2. \A i, j \in 1..4 : Installed[i] = Installed[j] => i = j BY DEF Installed
<1> QED BY <1>1, <1>2, FirstIsOne DEF ToSet

LEMMA FirstReconciled ==
    ASSUME NEW todo \in SUBSET Files, todo # {}
    PROVE  First(Reconciled, todo) \in todo
<1>1. DOMAIN Reconciled = 1..6 BY DEF Reconciled
<1>2. \A i, j \in 1..6 : Reconciled[i] = Reconciled[j] => i = j BY DEF Reconciled
<1>3. /\ Reconciled[1] = "server" /\ Reconciled[2] = "gateway" /\ Reconciled[3] = "update"
      /\ Reconciled[4] = "timer" /\ Reconciled[5] = "nginx" /\ Reconciled[6] = "polkit"
  BY DEF Reconciled
<1>4. \A f \in todo : \E i \in DOMAIN Reconciled : Reconciled[i] = f BY <1>1, <1>3
<1>5. DOMAIN Reconciled \subseteq Nat BY <1>1
<1>6. \A i, j \in DOMAIN Reconciled : Reconciled[i] = Reconciled[j] => i = j BY <1>1, <1>2
<1> HIDE DEF Files
<1> QED BY <1>4, <1>5, <1>6, FirstIsOne

LEMMA InstalledFiles == ToSet(Installed) = {"nginx", "server", "update", "timer"}
<1>1. DOMAIN Installed = 1..4 BY DEF Installed
<1>2. /\ Installed[1] = "nginx" /\ Installed[2] = "server"
      /\ Installed[3] = "update" /\ Installed[4] = "timer"
  BY DEF Installed
<1> QED BY <1>1, <1>2 DEF ToSet

-----------------------------------------------------------------------------
(***************************************************************************)
(* torrc. Foreign is a function defined by recursion over the lines; what  *)
(* it makes of a torrc that is put together from parts follows from two    *)
(* facts: the function exists, and it is the only one.                     *)
(***************************************************************************)
Own(l) == IF l \in {"option", "service"} THEN <<l>> ELSE <<>>

Counts(f, t) == f[0] = <<>> /\ \A i \in 1..Len(t) : f[i] = f[i - 1] \o Own(t[i])

LEMMA NatInductionSet ==
    ASSUME NEW S, 0 \in S, \A n \in Nat : n \in S => n + 1 \in S
    PROVE  Nat \subseteq S
<1> DEFINE T == {n \in Nat : n \notin S}
<1>1. SUFFICES ASSUME T # {} PROVE FALSE BY DEF T
<1>2. PICK x \in T : \A y \in T : x <= y BY <1>1, LeastNumber
<1>3. x \in Nat /\ x # 0 BY <1>2
<1>4. x - 1 \in Nat /\ x - 1 \notin T BY <1>2, <1>3
<1> QED BY <1>2, <1>3, <1>4, (x - 1) + 1 = x

LEMMA OwnType == ASSUME NEW l \in Line PROVE Own(l) \in Seq(Line)
<1> HIDE DEF Line
<1>1. <<>> \in Seq(Line) /\ <<l>> \in Seq(Line) OBVIOUS
<1> QED BY <1>1 DEF Own

LEMMA CountsExists ==
    ASSUME NEW t \in Seq(Line)
    PROVE  \E f : /\ f = [i \in 0..Len(t) |->
                           IF i = 0 THEN <<>> ELSE f[i - 1] \o Own(t[i])]
<1> DEFINE E(f, n) == f = [i \in 0..n |-> IF i = 0 THEN <<>> ELSE f[i - 1] \o Own(t[i])]
           S == {n \in Nat : \E f : E(f, n)}
<1>1. 0 \in S
  <2> DEFINE g == [i \in 0..0 |-> <<>>]
  <2>1. E(g, 0)
    <3>1. \A i \in 0..0 : g[i] = IF i = 0 THEN <<>> ELSE g[i - 1] \o Own(t[i]) OBVIOUS
    <3> QED BY <3>1
  <2> QED BY <2>1
<1>2. ASSUME NEW n \in Nat, n \in S PROVE n + 1 \in S
  <2>1. PICK f : E(f, n) BY <1>2
  <2> DEFINE g == [i \in 0..(n + 1) |-> IF i = n + 1 THEN f[n] \o Own(t[i]) ELSE f[i]]
  <2>2. ASSUME NEW i \in 0..(n + 1)
        PROVE  g[i] = IF i = 0 THEN <<>> ELSE g[i - 1] \o Own(t[i])
    <3>1. CASE i = n + 1
      <4>1. g[i] = f[n] \o Own(t[i]) BY <3>1
      <4>2. g[i - 1] = f[n] BY <3>1
      <4>3. i # 0 BY <3>1
      <4> HIDE DEF g
      <4> QED BY <4>1, <4>2, <4>3
    <3>2. CASE i # n + 1
      <4>1. i \in 0..n BY <3>2
      <4>2. g[i] = f[i] BY <3>2
      <4>3. f[i] = IF i = 0 THEN <<>> ELSE f[i - 1] \o Own(t[i]) BY <2>1, <4>1
      <4>4. i # 0 => g[i - 1] = f[i - 1] BY <4>1
      <4> QED BY <4>2, <4>3, <4>4
    <3> QED BY <3>1, <3>2
  <2>3. E(g, n + 1)
    <3> DEFINE h == [i \in 0..(n + 1) |-> IF i = 0 THEN <<>> ELSE g[i - 1] \o Own(t[i])]
    <3>1. \A i \in 0..(n + 1) : g[i] = h[i]
      <4> HIDE DEF g
      <4> QED BY <2>2
    <3>2. DOMAIN g = 0..(n + 1) /\ DOMAIN h = 0..(n + 1) OBVIOUS
    <3>3. g = h BY <3>1, <3>2
    <3> HIDE DEF g
    <3> QED BY <3>3
  <2>4. \E x : E(x, n + 1)
    <3> HIDE DEF g, E
    <3> QED BY <2>3
  <2> HIDE DEF E
  <2> QED BY <2>4
<1>3. Nat \subseteq S
  <2> HIDE DEF S
  <2> QED BY <1>1, <1>2, NatInductionSet
<1>4. Len(t) \in S
  <2> HIDE DEF S
  <2> QED BY <1>3
<1> QED BY <1>4

LEMMA ForeignCounts ==
    ASSUME NEW t \in Seq(Line)
    PROVE  \E f : Counts(f, t) /\ Foreign(t) = f[Len(t)]
<1> DEFINE upTo == CHOOSE f : f = [i \in 0..Len(t) |-> IF i = 0 THEN <<>> ELSE f[i - 1] \o Own(t[i])]
<1>1. upTo = [i \in 0..Len(t) |-> IF i = 0 THEN <<>> ELSE upTo[i - 1] \o Own(t[i])]
  BY CountsExists
<1>2. Foreign(t) = upTo[Len(t)] BY DEF Foreign, Own
<1> HIDE DEF upTo
<1>3. Counts(upTo, t)
  <2>1. upTo[0] = <<>> BY <1>1
  <2>2. ASSUME NEW i \in 1..Len(t) PROVE upTo[i] = upTo[i - 1] \o Own(t[i])
    <3>1. i \in 0..Len(t) /\ i # 0 OBVIOUS
    <3> QED BY <1>1, <3>1
  <2> QED BY <2>1, <2>2 DEF Counts
<1> QED BY <1>2, <1>3

LEMMA LinesAssociative ==
    \A a, b, c \in Seq(Line) : (a \o b) \o c = a \o (b \o c)
<1> TAKE a, b, c \in Seq(Line)
<1> QED BY ConcatAssociative

LEMMA CountsType ==
    ASSUME NEW t \in Seq(Line), NEW f, Counts(f, t)
    PROVE  \A i \in 0..Len(t) : f[i] \in Seq(Line)
<1> DEFINE S == {n \in Nat : n <= Len(t) => f[n] \in Seq(Line)}
<1>1. 0 \in S
  <2>1. f[0] = <<>> /\ <<>> \in Seq(Line) BY EmptySeq DEF Counts
  <2> QED BY <2>1
<1>2. ASSUME NEW n \in Nat, n \in S PROVE n + 1 \in S
  <2>1. SUFFICES ASSUME n + 1 <= Len(t) PROVE f[n + 1] \in Seq(Line) OBVIOUS
  <2>2. n + 1 \in 1..Len(t) /\ t[n + 1] \in Line /\ (n + 1) - 1 = n BY <2>1
  <2>3. f[n + 1] = f[n] \o Own(t[n + 1]) BY <2>2 DEF Counts
  <2>4. f[n] \in Seq(Line) BY <1>2, <2>1
  <2>5. Own(t[n + 1]) \in Seq(Line) BY <2>2, OwnType
  <2> QED BY <2>3, <2>4, <2>5, ConcatProperties
<1>3. Nat \subseteq S
  <2> HIDE DEF S
  <2> QED BY <1>1, <1>2, NatInductionSet
<1> QED BY <1>3

LEMMA CountsUnique ==
    ASSUME NEW t \in Seq(Line), NEW f, Counts(f, t)
    PROVE  Foreign(t) = f[Len(t)] /\ Foreign(t) \in Seq(Line)
<1>1. PICK g : Counts(g, t) /\ Foreign(t) = g[Len(t)] BY ForeignCounts
<1> DEFINE S == {n \in Nat : n <= Len(t) => f[n] = g[n]}
<1>2. 0 \in S BY <1>1 DEF Counts
<1>3. ASSUME NEW n \in Nat, n \in S PROVE n + 1 \in S
  <2>1. SUFFICES ASSUME n + 1 <= Len(t) PROVE f[n + 1] = g[n + 1] OBVIOUS
  <2>2. n + 1 \in 1..Len(t) /\ (n + 1) - 1 = n BY <2>1
  <2>3. f[n + 1] = f[n] \o Own(t[n + 1]) BY <2>2 DEF Counts
  <2>4. g[n + 1] = g[n] \o Own(t[n + 1]) BY <1>1, <2>2 DEF Counts
  <2>5. f[n] = g[n] BY <1>3, <2>1
  <2> QED BY <2>3, <2>4, <2>5
<1>4. Nat \subseteq S
  <2> HIDE DEF S
  <2> QED BY <1>2, <1>3, NatInductionSet
<1>5. Len(t) \in Nat OBVIOUS
<1>6. f[Len(t)] = g[Len(t)] BY <1>4, <1>5
<1>7. g[Len(t)] \in Seq(Line) BY <1>1, <1>5, CountsType
<1> QED BY <1>1, <1>6, <1>7

\* Of two parts, those of the one and then those of the other.
LEMMA ForeignConcat ==
    ASSUME NEW s \in Seq(Line), NEW t \in Seq(Line)
    PROVE  Foreign(s \o t) = Foreign(s) \o Foreign(t)
<1>1. PICK f : Counts(f, s) /\ Foreign(s) = f[Len(s)] BY ForeignCounts
<1>2. PICK g : Counts(g, t) /\ Foreign(t) = g[Len(t)] BY ForeignCounts
<1>3. \A i \in 0..Len(s) : f[i] \in Seq(Line) BY <1>1, CountsType
<1>4. \A i \in 0..Len(t) : g[i] \in Seq(Line) BY <1>2, CountsType
<1>5. /\ s \o t \in Seq(Line) /\ Len(s \o t) = Len(s) + Len(t)
      /\ \A i \in 1..Len(s) + Len(t) : (s \o t)[i] = IF i <= Len(s) THEN s[i] ELSE t[i - Len(s)]
  BY ConcatProperties
<1>l. Len(s) \in Nat /\ Len(t) \in Nat OBVIOUS
<1>f. f[Len(s)] \in Seq(Line) BY <1>3, <1>l
<1> DEFINE h == [i \in 0..Len(s) + Len(t) |-> IF i <= Len(s) THEN f[i] ELSE f[Len(s)] \o g[i - Len(s)]]
<1>6. \A i \in 0..Len(s) : h[i] = f[i] BY <1>l
<1>7. \A j \in 0..Len(t) : h[Len(s) + j] = f[Len(s)] \o g[j]
  <2> SUFFICES ASSUME NEW j \in 0..Len(t) PROVE h[Len(s) + j] = f[Len(s)] \o g[j] OBVIOUS
  <2>1. CASE j = 0
    <3>1. g[j] = <<>> BY <1>2, <2>1 DEF Counts
    <3>2. f[Len(s)] \o <<>> = f[Len(s)] BY <1>f, ConcatEmptySeq
    <3>3. h[Len(s)] = f[Len(s)] BY <1>6, <1>l
    <3>4. Len(s) + j = Len(s) BY <2>1, <1>l
    <3> HIDE DEF h
    <3> QED BY <3>1, <3>2, <3>3, <3>4
  <2>2. CASE j # 0
    <3>1. Len(s) + j \in 0..Len(s) + Len(t) /\ ~(Len(s) + j <= Len(s)) /\ (Len(s) + j) - Len(s) = j
      BY <2>2, <1>l
    <3> QED BY <3>1
  <2> QED BY <2>1, <2>2
<1> HIDE DEF h
<1>8. h[0] = <<>> BY <1>6, <1>1, <1>l DEF Counts
<1>9. ASSUME NEW i \in 1..Len(s) + Len(t) PROVE h[i] = h[i - 1] \o Own((s \o t)[i])
  <2>1. CASE i <= Len(s)
    <3>1. i \in 1..Len(s) /\ i \in 0..Len(s) /\ i - 1 \in 0..Len(s) BY <2>1, <1>l
    <3>2. f[i] = f[i - 1] \o Own(s[i]) BY <1>1, <3>1 DEF Counts
    <3>3. (s \o t)[i] = s[i] BY <1>5, <2>1
    <3> QED BY <3>1, <3>2, <3>3, <1>6
  <2>2. CASE ~(i <= Len(s))
    <3> DEFINE j == i - Len(s)
    <3>1. j \in 1..Len(t) /\ j - 1 \in 0..Len(t) /\ j \in 0..Len(t) /\ i = Len(s) + j
          /\ i - 1 = Len(s) + (j - 1)
      BY <2>2, <1>l
    <3>2. (s \o t)[i] = t[j] BY <1>5, <2>2
    <3> HIDE DEF j
    <3>3. g[j] = g[j - 1] \o Own(t[j]) BY <1>2, <3>1 DEF Counts
    <3>4. h[i] = f[Len(s)] \o g[j] /\ h[i - 1] = f[Len(s)] \o g[j - 1] BY <1>7, <3>1
    <3>5. t[j] \in Line BY <3>1
    <3>6. Own(t[j]) \in Seq(Line) /\ g[j - 1] \in Seq(Line) BY <3>5, <3>1, <1>4, OwnType
    <3>7. (f[Len(s)] \o g[j - 1]) \o Own(t[j]) = f[Len(s)] \o (g[j - 1] \o Own(t[j]))
      BY <1>f, <3>6, LinesAssociative
    <3> QED BY <3>2, <3>3, <3>4, <3>7
  <2> QED BY <2>1, <2>2
<1>10. Counts(h, s \o t) BY <1>5, <1>8, <1>9 DEF Counts
<1>11. Foreign(s \o t) = h[Len(s \o t)] BY <1>5, <1>10, CountsUnique
<1>12. h[Len(s \o t)] = f[Len(s)] \o g[Len(t)]
  <2>1. Len(t) \in 0..Len(t) BY <1>l
  <2>2. h[Len(s) + Len(t)] = f[Len(s)] \o g[Len(t)] BY <1>7, <2>1
  <2> QED BY <1>5, <2>2
<1> QED BY <1>1, <1>2, <1>11, <1>12

\* Of lines that are all the installer's, none.
LEMMA ForeignNone ==
    ASSUME NEW t \in Seq(Line), \A i \in 1..Len(t) : t[i] \notin {"option", "service"}
    PROVE  Foreign(t) = <<>>
<1> DEFINE f == [i \in 0..Len(t) |-> <<>>]
<1>1. Len(t) \in Nat OBVIOUS
<1>2. <<>> \o <<>> = <<>> BY ConcatEmptySeq, EmptySeq
<1>3. ASSUME NEW i \in 1..Len(t) PROVE f[i] = f[i - 1] \o Own(t[i])
  <2>1. Own(t[i]) = <<>> BY DEF Own
  <2>2. i \in 0..Len(t) /\ i - 1 \in 0..Len(t) BY <1>1
  <2>3. f[i] = <<>> /\ f[i - 1] = <<>> BY <2>2
  <2> HIDE DEF f
  <2> QED BY <2>1, <2>3, <1>2
<1>4. f[0] = <<>> /\ f[Len(t)] = <<>> BY <1>1
<1> HIDE DEF f
<1>5. Counts(f, t) BY <1>3, <1>4 DEF Counts
<1> QED BY <1>4, <1>5, CountsUnique

-----------------------------------------------------------------------------
(***************************************************************************)
(* The parts of a torrc: where the empty lines at its end begin, and where *)
(* the managed block ends.                                                 *)
(***************************************************************************)
LEMMA Parts ==
    ASSUME NEW t \in Seq(Line), NEW m \in 0..Len(t)
    PROVE  /\ SubSeq(t, 1, m) \in Seq(Line) /\ Len(SubSeq(t, 1, m)) = m
           /\ \A i \in 1..m : SubSeq(t, 1, m)[i] = t[i]
           /\ SubSeq(t, m + 1, Len(t)) \in Seq(Line) /\ Len(SubSeq(t, m + 1, Len(t))) = Len(t) - m
           /\ \A i \in 1..Len(t) - m : SubSeq(t, m + 1, Len(t))[i] = t[m + i]
           /\ t = SubSeq(t, 1, m) \o SubSeq(t, m + 1, Len(t))
           /\ Foreign(t) = Foreign(SubSeq(t, 1, m)) \o Foreign(SubSeq(t, m + 1, Len(t)))
<1>1. Len(t) \in Nat /\ m \in Int /\ m <= Len(t) /\ 0 <= m OBVIOUS
<1>2. \A i \in 1..Len(t) : t[i] \in Line OBVIOUS
<1>3. /\ SubSeq(t, 1, m) \in Seq(Line) /\ Len(SubSeq(t, 1, m)) = (IF 1 <= m THEN m - 1 + 1 ELSE 0)
      /\ \A i \in 1..(m - 1 + 1) : SubSeq(t, 1, m)[i] = t[1 + i - 1]
  <2>1. \A i \in 1..m : t[i] \in Line BY <1>1, <1>2
  <2> QED BY <2>1, <1>1, SubSeqProperties
<1>4. /\ SubSeq(t, m + 1, Len(t)) \in Seq(Line)
      /\ Len(SubSeq(t, m + 1, Len(t))) = (IF m + 1 <= Len(t) THEN Len(t) - (m + 1) + 1 ELSE 0)
      /\ \A i \in 1..(Len(t) - (m + 1) + 1) : SubSeq(t, m + 1, Len(t))[i] = t[(m + 1) + i - 1]
  <2>1. \A i \in (m + 1)..Len(t) : t[i] \in Line BY <1>1, <1>2
  <2>2. m + 1 \in Int /\ Len(t) \in Int BY <1>1
  <2> QED BY <2>1, <2>2, SubSeqProperties
<1>5. SubSeq(t, 1, m) \o SubSeq(t, m + 1, Len(t)) = SubSeq(t, 1, Len(t))
  <2>1. 1 \in 1..Len(t) + 1 /\ m \in (1 - 1)..Len(t) /\ Len(t) \in m..Len(t) BY <1>1
  <2> QED BY <2>1, ConcatAdjacentSubSeq
<1>6. t = SubSeq(t, 1, m) \o SubSeq(t, m + 1, Len(t)) BY <1>5, SubSeqFull
<1>7. Foreign(t) = Foreign(SubSeq(t, 1, m)) \o Foreign(SubSeq(t, m + 1, Len(t)))
  BY <1>3, <1>4, <1>6, ForeignConcat
<1>8. /\ Len(SubSeq(t, 1, m)) = m /\ Len(SubSeq(t, m + 1, Len(t))) = Len(t) - m BY <1>1, <1>3, <1>4
<1>9. \A i \in 1..m : SubSeq(t, 1, m)[i] = t[i] BY <1>1, <1>3
<1>10. \A i \in 1..Len(t) - m : SubSeq(t, m + 1, Len(t))[i] = t[m + i] BY <1>1, <1>4
<1> QED BY <1>3, <1>4, <1>6, <1>7, <1>8, <1>9, <1>10

LEMMA LastTextIs ==
    ASSUME NEW t \in Seq(Line)
    PROVE  /\ LastText(t) \in 0..Len(t)
           /\ LastText(t) = 0 \/ t[LastText(t)] # "gap"
           /\ \A k \in (LastText(t) + 1)..Len(t) : t[k] = "gap"
<1>1. Len(t) \in Nat OBVIOUS
<1> DEFINE D == {d \in 0..Len(t) : d = Len(t) \/ t[Len(t) - d] # "gap"}
<1>2. D \subseteq Nat /\ Len(t) \in D BY <1>1
<1>3. PICK d \in D : \A e \in D : d <= e
  <2> HIDE DEF D
  <2> QED BY <1>2, LeastNumber
<1> DEFINE j == Len(t) - d
<1>4. j \in 0..Len(t) /\ (j = 0 \/ t[j] # "gap") BY <1>1, <1>3
<1>5. ASSUME NEW k \in (j + 1)..Len(t) PROVE t[k] = "gap"
  <2>1. Len(t) - k \in 0..Len(t) /\ Len(t) - k < d /\ Len(t) - (Len(t) - k) = k BY <1>1, <1>3
  <2>2. Len(t) - k \notin D BY <1>3, <2>1
  <2> QED BY <2>1, <2>2
<1> HIDE DEF j, D
<1>6. \E n \in 0..Len(t) : /\ n = 0 \/ t[n] # "gap"
                          /\ \A k \in (n + 1)..Len(t) : t[k] = "gap"
  BY <1>4, <1>5
<1> QED BY <1>6 DEF LastText

LEMMA BlockEndIs ==
    ASSUME NEW t \in Seq(Line), NEW i \in 1..Len(t)
    PROVE  /\ BlockEnd(t, i) \in i..Len(t)
           /\ \A k \in (i + 1)..BlockEnd(t, i) : t[k] \in Hidden
           /\ BlockEnd(t, i) = Len(t) \/ t[BlockEnd(t, i) + 1] \notin Hidden
<1>1. Len(t) \in Nat /\ i \in Nat /\ i <= Len(t) OBVIOUS
<1> DEFINE D == {j \in i..Len(t) : j = Len(t) \/ t[j + 1] \notin Hidden}
<1>2. D \subseteq Nat /\ Len(t) \in D BY <1>1
<1>3. PICK j \in D : \A e \in D : j <= e
  <2> HIDE DEF D
  <2> QED BY <1>2, LeastNumber
<1>4. j \in i..Len(t) /\ j \in Nat OBVIOUS
<1>5. j = Len(t) \/ t[j + 1] \notin Hidden OBVIOUS
<1>6. \A e \in i..Len(t) : e = Len(t) \/ t[e + 1] \notin Hidden => j <= e
  <2> TAKE e \in i..Len(t)
  <2>1. e = Len(t) \/ t[e + 1] \notin Hidden => e \in D OBVIOUS
  <2> HIDE DEF D
  <2> QED BY <2>1, <1>3
<1>7. ASSUME NEW k \in (i + 1)..j PROVE t[k] \in Hidden
  <2> HIDE DEF D
  <2>1. k - 1 \in i..Len(t) /\ ~(j <= k - 1) /\ (k - 1) + 1 = k BY <1>1, <1>4
  <2>2. t[(k - 1) + 1] \in Hidden BY <1>6, <2>1
  <2> QED BY <2>1, <2>2
<1> HIDE DEF D
<1> DEFINE P(n) == /\ \A k \in (i + 1)..n : t[k] \in Hidden
                   /\ n = Len(t) \/ t[n + 1] \notin Hidden
<1>8. P(j) BY <1>5, <1>7
<1>9. BlockEnd(t, i) = CHOOSE n \in i..Len(t) : P(n)
  BY Zenon DEF BlockEnd
<1>10. BlockEnd(t, i) \in i..Len(t) /\ P(BlockEnd(t, i))
  <2> HIDE DEF P
  <2>1. \E n \in i..Len(t) : P(n) BY <1>4, <1>8
  <2> QED BY <2>1, <1>9, Zenon
<1> QED BY <1>10

LEMMA TrimEndIs ==
    ASSUME NEW t \in Seq(Line)
    PROVE  /\ TrimEnd(t) \in Seq(Line) /\ Len(TrimEnd(t)) \in 0..Len(t)
           /\ \A i \in 1..Len(TrimEnd(t)) : TrimEnd(t)[i] = t[i]
           /\ Foreign(TrimEnd(t)) = Foreign(t)
<1>1. Len(t) \in Nat OBVIOUS
<1> DEFINE n == LastText(t)
           rest == SubSeq(t, n + 1, Len(t))
<1>2. n \in 0..Len(t) /\ \A k \in (n + 1)..Len(t) : t[k] = "gap" BY LastTextIs
<1>3. TrimEnd(t) = SubSeq(t, 1, n) BY DEF TrimEnd
<1> HIDE DEF n
<1>4. /\ SubSeq(t, 1, n) \in Seq(Line) /\ Len(SubSeq(t, 1, n)) = n
      /\ \A i \in 1..n : SubSeq(t, 1, n)[i] = t[i]
      /\ rest \in Seq(Line) /\ Len(rest) = Len(t) - n
      /\ \A i \in 1..Len(t) - n : rest[i] = t[n + i]
      /\ Foreign(t) = Foreign(SubSeq(t, 1, n)) \o Foreign(rest)
  BY <1>2, Parts
<1> HIDE DEF rest
<1>5. \A i \in 1..Len(rest) : rest[i] = "gap" BY <1>1, <1>2, <1>4
<1>6. Foreign(rest) = <<>> BY <1>4, <1>5, ForeignNone
<1>7. Foreign(SubSeq(t, 1, n)) \in Seq(Line) BY <1>4, ForeignCounts, CountsUnique
<1>8. Foreign(SubSeq(t, 1, n)) \o <<>> = Foreign(SubSeq(t, 1, n)) BY <1>7, ConcatEmptySeq
<1> QED BY <1>2, <1>3, <1>4, <1>6, <1>8

-----------------------------------------------------------------------------
(***************************************************************************)
(* A torrc the programs leave: no mark and no line of the installer's, or  *)
(* one mark with its line, between lines that are neither.                 *)
(***************************************************************************)
Plain(t) == \A i \in 1..Len(t) : t[i] \notin {"mark", "ours"}

Block == <<"mark", "ours">>

Blocked(t, a, b) == Plain(a) /\ Plain(b) /\ t = (a \o Block) \o b

Neat(t) == Plain(t) \/ \E a, b \in Seq(Line) : Blocked(t, a, b)

LEMMA PlainConcat ==
    ASSUME NEW s \in Seq(Line), NEW t \in Seq(Line), Plain(s), Plain(t)
    PROVE  s \o t \in Seq(Line) /\ Plain(s \o t)
<1>1. /\ s \o t \in Seq(Line) /\ Len(s \o t) = Len(s) + Len(t) /\ Len(s) \in Nat /\ Len(t) \in Nat
      /\ \A i \in 1..Len(s) + Len(t) : (s \o t)[i] = IF i <= Len(s) THEN s[i] ELSE t[i - Len(s)]
  BY ConcatProperties
<1>2. ASSUME NEW i \in 1..Len(s) + Len(t) PROVE (s \o t)[i] \notin {"mark", "ours"}
  <2>1. CASE i <= Len(s)
    <3>1. i \in 1..Len(s) BY <1>1, <2>1
    <3>2. s[i] \notin {"mark", "ours"} BY <3>1 DEF Plain
    <3> QED BY <3>2, <1>1, <2>1
  <2>2. CASE ~(i <= Len(s))
    <3>1. i - Len(s) \in 1..Len(t) BY <1>1, <2>2
    <3>2. t[i - Len(s)] \notin {"mark", "ours"} BY <3>1 DEF Plain
    <3> QED BY <3>2, <1>1, <2>2
  <2> QED BY <2>1, <2>2
<1> QED BY <1>1, <1>2 DEF Plain

LEMMA PlainPart ==
    ASSUME NEW t \in Seq(Line), Plain(t), NEW m \in 0..Len(t)
    PROVE  Plain(SubSeq(t, 1, m)) /\ Plain(SubSeq(t, m + 1, Len(t)))
<1>1. Len(t) \in Nat /\ m \in Nat /\ m <= Len(t) OBVIOUS
<1>2. /\ Len(SubSeq(t, 1, m)) = m /\ \A i \in 1..m : SubSeq(t, 1, m)[i] = t[i]
      /\ Len(SubSeq(t, m + 1, Len(t))) = Len(t) - m
      /\ \A i \in 1..Len(t) - m : SubSeq(t, m + 1, Len(t))[i] = t[m + i]
  BY Parts
<1>3. \A i \in 1..m : i \in 1..Len(t) BY <1>1
<1>4. \A i \in 1..Len(t) - m : m + i \in 1..Len(t) BY <1>1
<1> QED BY <1>2, <1>3, <1>4 DEF Plain

\* The mark and its line have nothing of the operator's.
LEMMA BlockIs ==
    /\ Block \in Seq(Line) /\ Len(Block) = 2 /\ Block[1] = "mark" /\ Block[2] = "ours"
    /\ Foreign(Block) = <<>>
<1>1. /\ Block \in Seq(Line) /\ Len(Block) = 2 /\ Block[1] = "mark" /\ Block[2] = "ours"
  BY DEF Block, Line
<1>2. \A i \in 1..Len(Block) : Block[i] \notin {"option", "service"} BY <1>1
<1> QED BY <1>1, <1>2, ForeignNone

LEMMA SmallLines ==
    /\ <<"service">> \in Seq(Line) /\ Plain(<<"service">>)
    /\ <<"option">> \in Seq(Line) /\ Plain(<<"option">>)
    /\ <<"gap", "service">> \in Seq(Line) /\ Plain(<<"gap", "service">>)
    /\ <<"gap">> \in Seq(Line) /\ Plain(<<"gap">>) /\ Foreign(<<"gap">>) = <<>>
    /\ <<>> \in Seq(Line) /\ Plain(<<>>)
    /\ <<"gap", "mark", "ours">> = <<"gap">> \o Block
<1>1. <<"service">> \in Seq(Line) /\ Plain(<<"service">>) BY DEF Line, Plain
<1>2. <<"option">> \in Seq(Line) /\ Plain(<<"option">>) BY DEF Line, Plain
<1>3. <<"gap", "service">> \in Seq(Line) /\ Plain(<<"gap", "service">>) BY DEF Line, Plain
<1>4. <<"gap">> \in Seq(Line) /\ Plain(<<"gap">>) BY DEF Line, Plain
<1>5. Foreign(<<"gap">>) = <<>>
  <2>1. \A i \in 1..Len(<<"gap">>) : <<"gap">>[i] \notin {"option", "service"} OBVIOUS
  <2> QED BY <1>4, <2>1, ForeignNone
<1>6. <<>> \in Seq(Line) /\ Plain(<<>>) BY EmptySeq DEF Plain
<1>7. <<"gap", "mark", "ours">> = <<"gap">> \o Block BY DEF Block
<1> QED BY <1>1, <1>2, <1>3, <1>4, <1>5, <1>6, <1>7

LEMMA TwoParts ==
    ASSUME NEW s \in Seq(Line), NEW t \in Seq(Line)
    PROVE  /\ s \o t \in Seq(Line) /\ Len(s \o t) = Len(s) + Len(t) /\ Len(s) \in Nat /\ Len(t) \in Nat
           /\ \A i \in 1..Len(s) : (s \o t)[i] = s[i]
           /\ \A i \in 1..Len(t) : (s \o t)[Len(s) + i] = t[i]
<1>1. /\ s \o t \in Seq(Line) /\ Len(s \o t) = Len(s) + Len(t) /\ Len(s) \in Nat /\ Len(t) \in Nat
      /\ \A i \in 1..Len(s) + Len(t) : (s \o t)[i] = IF i <= Len(s) THEN s[i] ELSE t[i - Len(s)]
  BY ConcatProperties
<1>2. ASSUME NEW i \in 1..Len(s) PROVE (s \o t)[i] = s[i]
  <2>1. i \in 1..Len(s) + Len(t) /\ i <= Len(s) BY <1>1
  <2> QED BY <1>1, <2>1
<1>3. ASSUME NEW i \in 1..Len(t) PROVE (s \o t)[Len(s) + i] = t[i]
  <2>1. Len(s) + i \in 1..Len(s) + Len(t) /\ ~(Len(s) + i <= Len(s)) /\ (Len(s) + i) - Len(s) = i
    BY <1>1
  <2> QED BY <1>1, <2>1
<1> QED BY <1>1, <1>2, <1>3

Around(t, a, b) ==
    /\ Len(t) = Len(a) + 2 + Len(b) /\ Len(a) \in Nat /\ Len(b) \in Nat
    /\ \A i \in 1..Len(a) : t[i] = a[i]
    /\ t[Len(a) + 1] = "mark" /\ t[Len(a) + 2] = "ours"
    /\ \A i \in 1..Len(b) : t[Len(a) + 2 + i] = b[i]

LEMMA BlockAt ==
    ASSUME NEW a \in Seq(Line), NEW b \in Seq(Line)
    PROVE  (a \o Block) \o b \in Seq(Line) /\ Around((a \o Block) \o b, a, b)
<1> DEFINE c == a \o Block
           t == c \o b
<1>1. /\ c \in Seq(Line) /\ Len(c) = Len(a) + Len(Block) /\ Len(a) \in Nat
      /\ \A i \in 1..Len(a) : c[i] = a[i]
      /\ \A i \in 1..Len(Block) : c[Len(a) + i] = Block[i]
  BY BlockIs, TwoParts
<1>2. Len(c) = Len(a) + 2 /\ c[Len(a) + 1] = "mark" /\ c[Len(a) + 2] = "ours"
  BY <1>1, BlockIs
<1> HIDE DEF c
<1>3. /\ t \in Seq(Line) /\ Len(t) = Len(c) + Len(b) /\ Len(b) \in Nat
      /\ \A i \in 1..Len(c) : t[i] = c[i]
      /\ \A i \in 1..Len(b) : t[Len(c) + i] = b[i]
  <2>1. t = c \o b OBVIOUS
  <2>2. /\ c \o b \in Seq(Line) /\ Len(c \o b) = Len(c) + Len(b) /\ Len(b) \in Nat
        /\ \A i \in 1..Len(c) : (c \o b)[i] = c[i]
        /\ \A i \in 1..Len(b) : (c \o b)[Len(c) + i] = b[i]
    BY <1>1, TwoParts, Zenon
  <2> QED BY <2>1, <2>2, Zenon
<1> HIDE DEF t
<1>4. \A i \in 1..Len(a) : t[i] = a[i] BY <1>1, <1>2, <1>3
<1>5. t[Len(a) + 1] = "mark" /\ t[Len(a) + 2] = "ours" BY <1>1, <1>2, <1>3
<1>6. \A i \in 1..Len(b) : t[Len(a) + 2 + i] = b[i] BY <1>2, <1>3
<1>7. t \in Seq(Line) /\ Around(t, a, b) BY <1>1, <1>2, <1>3, <1>4, <1>5, <1>6 DEF Around
<1> QED BY <1>7 DEF t, c

LEMMA PlainMarks ==
    ASSUME NEW t \in Seq(Line)
    PROVE  /\ Plain(t) => Marks(t) = {}
           /\ Neat(t) /\ Marks(t) = {} => Plain(t)
<1>1. Plain(t) => Marks(t) = {} BY DEF Plain, Marks
<1>2. ASSUME NEW a \in Seq(Line), NEW b \in Seq(Line), t = (a \o Block) \o b
      PROVE  Marks(t) # {}
  <2>1. t[Len(a) + 1] = "mark" /\ Len(t) = Len(a) + 2 + Len(b) /\ Len(a) \in Nat /\ Len(b) \in Nat
    <3>1. Around(t, a, b) BY <1>2, BlockAt, Zenon
    <3> QED BY <3>1 DEF Around
  <2> QED BY <2>1 DEF Marks
<1> QED BY <1>1, <1>2 DEF Neat, Blocked

\* The lines before the mark, the managed block, and what is kept after it.
LEMMA Cut ==
    ASSUME NEW a \in Seq(Line), NEW b \in Seq(Line), NEW t \in Seq(Line),
           Blocked(t, a, b), NEW i \in Marks(t)
    PROVE  /\ i \in 1..Len(t) /\ i = Len(a) + 1 /\ SubSeq(t, 1, i - 1) = a
           /\ \E d \in 0..Len(b) :
                /\ SubSeq(t, BlockEnd(t, i) + 1, Len(t)) = SubSeq(b, d + 1, Len(b))
                /\ ~Adjoins(t) => d = 0
<1> USE DEF Blocked
<1>1. /\ Len(t) = Len(a) + 2 + Len(b) /\ Len(a) \in Nat /\ Len(b) \in Nat
      /\ \A k \in 1..Len(a) : t[k] = a[k]
      /\ t[Len(a) + 1] = "mark" /\ t[Len(a) + 2] = "ours"
      /\ \A k \in 1..Len(b) : t[Len(a) + 2 + k] = b[k]
  <2>1. Around(t, a, b) BY BlockAt, Zenon
  <2> QED BY <2>1 DEF Around
<1>2. i \in 1..Len(t) /\ t[i] = "mark" BY <1>1 DEF Marks
<1>3. i = Len(a) + 1
  <2>1. CASE i \in 1..Len(a)
    <3>1. a[i] = "mark" BY <1>1, <1>2, <2>1
    <3> QED BY <2>1, <3>1 DEF Plain
  <2>2. CASE i = Len(a) + 2 BY <1>1, <1>2, <2>2
  <2>3. CASE i > Len(a) + 2
    <3>1. i - (Len(a) + 2) \in 1..Len(b) /\ Len(a) + 2 + (i - (Len(a) + 2)) = i BY <1>1, <1>2, <2>3
    <3>2. b[i - (Len(a) + 2)] = "mark" BY <1>1, <1>2, <3>1
    <3> QED BY <3>1, <3>2 DEF Plain
  <2> QED BY <1>1, <1>2, <2>1, <2>2, <2>3
<1>4. SubSeq(t, 1, i - 1) = a
  <2>1. Len(a) \in 0..Len(t) BY <1>1
  <2>2. /\ SubSeq(t, 1, Len(a)) \in Seq(Line) /\ Len(SubSeq(t, 1, Len(a))) = Len(a)
        /\ \A k \in 1..Len(a) : SubSeq(t, 1, Len(a))[k] = t[k]
    BY <1>1, <2>1, Parts
  <2>3. SubSeq(t, 1, Len(a)) = a BY <1>1, <2>2, SeqEqual
  <2> QED BY <1>1, <1>3, <2>3
<1> DEFINE e == BlockEnd(t, i)
           d == e - (Len(a) + 2)
<1>5. /\ e \in i..Len(t)
      /\ \A k \in (i + 1)..e : t[k] \in Hidden
      /\ e = Len(t) \/ t[e + 1] \notin Hidden
  BY <1>1, <1>2, BlockEndIs
<1> HIDE DEF e
<1>6. e \in Nat /\ e # i
  <2>1. i + 1 <= Len(t) /\ t[i + 1] \in Hidden BY <1>1, <1>3 DEF Hidden
  <2> QED BY <1>1, <1>5, <1>2, <2>1
<1>7. d \in 0..Len(b) /\ e = Len(a) + 2 + d BY <1>1, <1>3, <1>5, <1>6
<1> HIDE DEF d
<1>8. SubSeq(t, e + 1, Len(t)) = SubSeq(b, d + 1, Len(b))
  <2>1. e \in 0..Len(t) /\ Len(t) - e = Len(b) - d BY <1>1, <1>5, <1>6, <1>7
  <2>2. /\ SubSeq(t, e + 1, Len(t)) \in Seq(Line) /\ Len(SubSeq(t, e + 1, Len(t))) = Len(t) - e
        /\ \A k \in 1..Len(t) - e : SubSeq(t, e + 1, Len(t))[k] = t[e + k]
    BY <1>1, <2>1, Parts
  <2>3. /\ SubSeq(b, d + 1, Len(b)) \in Seq(Line) /\ Len(SubSeq(b, d + 1, Len(b))) = Len(b) - d
        /\ \A k \in 1..Len(b) - d : SubSeq(b, d + 1, Len(b))[k] = b[d + k]
    BY <1>7, Parts
  <2>4. ASSUME NEW k \in 1..Len(b) - d PROVE t[e + k] = b[d + k]
    <3>1. d + k \in 1..Len(b) /\ Len(a) + 2 + (d + k) = e + k BY <1>1, <1>7
    <3> QED BY <1>1, <3>1
  <2>5. Len(SubSeq(t, e + 1, Len(t))) = Len(SubSeq(b, d + 1, Len(b))) BY <2>1, <2>2, <2>3
  <2>6. \A k \in 1..Len(SubSeq(t, e + 1, Len(t))) :
            SubSeq(t, e + 1, Len(t))[k] = SubSeq(b, d + 1, Len(b))[k]
    BY <2>1, <2>2, <2>3, <2>4
  <2> QED BY <2>2, <2>3, <2>5, <2>6, SeqEqual
<1>9. ASSUME d # 0 PROVE Adjoins(t)
  <2>1. i + 2 \in (i + 1)..e /\ i + 2 \in 3..Len(t) /\ Len(a) + 2 + 1 = i + 2 /\ 1 \in 1..Len(b)
    BY <1>1, <1>3, <1>5, <1>7, <1>9
  <2>2. t[i + 2] \in Hidden /\ t[i + 2] = b[1] BY <1>1, <1>5, <2>1
  <2>3. t[i + 2] = "service" BY <2>1, <2>2 DEF Hidden, Plain
  <2>4. t[(i + 2) - 2] = "mark" /\ t[(i + 2) - 1] = "ours"
    <3>1. (i + 2) - 2 = Len(a) + 1 /\ (i + 2) - 1 = Len(a) + 2 BY <1>1, <1>3
    <3> QED BY <1>1, <3>1
  <2> QED BY <2>1, <2>3, <2>4 DEF Adjoins
<1> QED BY <1>2, <1>3, <1>4, <1>7, <1>8, <1>9 DEF e
LEMMA FromTheEnd ==
    \A l, m, n, i \in Nat : m + n = l => (l - ((n - i) + 1)) + 1 = m + i
  OBVIOUS

LEMMA TrimEndPlain ==
    ASSUME NEW t \in Seq(Line), Plain(t)
    PROVE  TrimEnd(t) \in Seq(Line) /\ Plain(TrimEnd(t)) /\ Foreign(TrimEnd(t)) = Foreign(t)
<1>1. /\ TrimEnd(t) \in Seq(Line) /\ Len(TrimEnd(t)) \in 0..Len(t) /\ Len(t) \in Nat
      /\ \A i \in 1..Len(TrimEnd(t)) : TrimEnd(t)[i] = t[i]
      /\ Foreign(TrimEnd(t)) = Foreign(t)
  BY TrimEndIs
<1>2. \A i \in 1..Len(TrimEnd(t)) : i \in 1..Len(t) BY <1>1
<1> QED BY <1>1, <1>2 DEF Plain

LEMMA ReverseIs ==
    ASSUME NEW t \in Seq(Line)
    PROVE  /\ Reverse(t) \in Seq(Line) /\ Len(Reverse(t)) = Len(t)
           /\ \A i \in 1..Len(t) : Reverse(t)[i] = t[(Len(t) - i) + 1]
<1>1. Len(t) \in Nat OBVIOUS
<1>2. ASSUME NEW i \in 1..Len(t) PROVE t[(Len(t) - i) + 1] \in Line
  <2>1. (Len(t) - i) + 1 \in 1..Len(t) BY <1>1
  <2> QED BY <2>1
<1>3. Reverse(t) = [i \in 1..Len(t) |-> t[(Len(t) - i) + 1]] BY DEF Reverse
<1>4. Reverse(t) \in [1..Len(t) -> Line] BY <1>2, <1>3
<1>5. Reverse(t) \in Seq(Line) /\ Len(Reverse(t)) = Len(t) BY <1>1, <1>4
<1> QED BY <1>3, <1>5

\* The empty lines at the beginning, and the lines after them.
LEMMA TrimStartIs ==
    ASSUME NEW t \in Seq(Line), Plain(t)
    PROVE  TrimStart(t) \in Seq(Line) /\ Plain(TrimStart(t)) /\ Foreign(TrimStart(t)) = Foreign(t)
<1> DEFINE r == Reverse(t)
           n == LastText(r)
           u == TrimEnd(r)
           m == Len(t) - n
<1>1. /\ r \in Seq(Line) /\ Len(r) = Len(t) /\ Len(t) \in Nat
      /\ \A i \in 1..Len(t) : r[i] = t[(Len(t) - i) + 1]
  BY ReverseIs
<1> HIDE DEF r
<1>2. n \in 0..Len(t) /\ \A k \in (n + 1)..Len(t) : r[k] = "gap" BY <1>1, LastTextIs
<1>3. u = SubSeq(r, 1, n) BY DEF TrimEnd
<1> HIDE DEF n
<1>4. u \in Seq(Line) /\ Len(u) = n /\ \A i \in 1..n : u[i] = r[i]
  <2>1. n \in 0..Len(r) BY <1>1, <1>2
  <2>2. /\ SubSeq(r, 1, n) \in Seq(Line) /\ Len(SubSeq(r, 1, n)) = n
        /\ \A i \in 1..n : SubSeq(r, 1, n)[i] = r[i]
    BY <1>1, <2>1, Parts
  <2> QED BY <2>2, <1>3
<1>5. TrimStart(t) = Reverse(u) BY DEF TrimStart, r
<1> HIDE DEF u
<1>6. /\ Reverse(u) \in Seq(Line) /\ Len(Reverse(u)) = n
      /\ \A i \in 1..n : Reverse(u)[i] = u[(n - i) + 1]
  BY <1>4, ReverseIs
<1>7. m \in 0..Len(t) /\ Len(t) - m = n BY <1>1, <1>2
<1> HIDE DEF m
<1>8. /\ SubSeq(t, 1, m) \in Seq(Line) /\ Len(SubSeq(t, 1, m)) = m
      /\ \A i \in 1..m : SubSeq(t, 1, m)[i] = t[i]
      /\ SubSeq(t, m + 1, Len(t)) \in Seq(Line) /\ Len(SubSeq(t, m + 1, Len(t))) = Len(t) - m
      /\ \A i \in 1..Len(t) - m : SubSeq(t, m + 1, Len(t))[i] = t[m + i]
      /\ Foreign(t) = Foreign(SubSeq(t, 1, m)) \o Foreign(SubSeq(t, m + 1, Len(t)))
  BY <1>7, Parts
<1>9. ASSUME NEW i \in 1..n PROVE Reverse(u)[i] = t[m + i]
  <2>1. n \in Nat /\ n <= Len(t) BY <1>1, <1>2
  <2>2. (n - i) + 1 \in 1..n /\ (n - i) + 1 \in 1..Len(t)
        /\ (Len(t) - ((n - i) + 1)) + 1 = m + i
    <3>1. i \in Nat /\ 1 <= i /\ i <= n /\ m \in Nat /\ m + n = Len(t) BY <2>1, <1>1, <1>7
    <3>2. (n - i) + 1 \in Nat /\ 1 <= (n - i) + 1 /\ (n - i) + 1 <= n BY <3>1, <2>1
    <3>3. Len(t) \in Nat BY <1>1
    <3>4. (Len(t) - ((n - i) + 1)) + 1 = m + i BY <3>1, <3>3, <2>1, FromTheEnd
    <3> QED BY <3>2, <3>3, <3>4, <2>1
  <2>3. Reverse(u)[i] = u[(n - i) + 1] BY <1>6
  <2>4. u[(n - i) + 1] = r[(n - i) + 1] BY <1>4, <2>2
  <2>5. r[(n - i) + 1] = t[(Len(t) - ((n - i) + 1)) + 1] BY <1>1, <2>2
  <2> QED BY <2>2, <2>3, <2>4, <2>5
<1>10. Reverse(u) = SubSeq(t, m + 1, Len(t))
  <2>1. Len(Reverse(u)) = Len(SubSeq(t, m + 1, Len(t))) BY <1>6, <1>7, <1>8
  <2>2. \A i \in 1..Len(Reverse(u)) : Reverse(u)[i] = SubSeq(t, m + 1, Len(t))[i]
    BY <1>6, <1>7, <1>8, <1>9
  <2> QED BY <1>6, <1>8, <2>1, <2>2, SeqEqual
<1>11. ASSUME NEW i \in 1..m PROVE t[i] = "gap"
  <2>1. (Len(t) - i) + 1 \in (n + 1)..Len(t) /\ (Len(t) - i) + 1 \in 1..Len(t)
        /\ (Len(t) - ((Len(t) - i) + 1)) + 1 = i
    BY <1>1, <1>2, <1>7
  <2>2. r[(Len(t) - i) + 1] = "gap" BY <1>2, <2>1
  <2>3. r[(Len(t) - i) + 1] = t[(Len(t) - ((Len(t) - i) + 1)) + 1] BY <1>1, <2>1
  <2> QED BY <2>1, <2>2, <2>3
<1> DEFINE gaps == SubSeq(t, 1, m)
<1>12. \A i \in 1..Len(gaps) : gaps[i] \notin {"option", "service"} BY <1>8, <1>11
<1>13. Foreign(gaps) = <<>>
  <2>1. gaps \in Seq(Line) BY <1>8
  <2> HIDE DEF gaps
  <2> QED BY <1>12, <2>1, ForeignNone
<1>14. Foreign(SubSeq(t, m + 1, Len(t))) \in Seq(Line) BY <1>8, ForeignCounts, CountsUnique
<1>15. <<>> \o Foreign(SubSeq(t, m + 1, Len(t))) = Foreign(SubSeq(t, m + 1, Len(t)))
  BY <1>14, ConcatEmptySeq
<1>16. Plain(SubSeq(t, m + 1, Len(t))) BY <1>7, PlainPart
<1> QED BY <1>5, <1>8, <1>10, <1>13, <1>15, <1>16
LEMMA ForeignType == ASSUME NEW t \in Seq(Line) PROVE Foreign(t) \in Seq(Line)
  BY ForeignCounts, CountsUnique

LEMMA ForeignAround ==
    ASSUME NEW a \in Seq(Line), NEW b \in Seq(Line)
    PROVE  Foreign((a \o Block) \o b) = Foreign(a) \o Foreign(b)
<1>1. Block \in Seq(Line) /\ Foreign(Block) = <<>> BY BlockIs
<1>2. a \o Block \in Seq(Line) BY <1>1, TwoParts
<1>3. Foreign((a \o Block) \o b) = Foreign(a \o Block) \o Foreign(b) BY <1>2, ForeignConcat
<1>4. Foreign(a \o Block) = Foreign(a) \o Foreign(Block) BY <1>1, ForeignConcat
<1>5. Foreign(a) \o <<>> = Foreign(a) BY ForeignType, ConcatEmptySeq
<1> QED BY <1>1, <1>3, <1>4, <1>5

LEMMA NeatMarks ==
    ASSUME NEW t \in Seq(Line), Neat(t), NEW i \in Marks(t), NEW j \in Marks(t)
    PROVE  i = j
<1>1. ~Plain(t) BY PlainMarks
<1>2. PICK a \in Seq(Line), b \in Seq(Line) : Blocked(t, a, b)
  BY <1>1 DEF Neat
<1> QED BY <1>2, Cut

\* What both programs keep of a torrc with a block.
LEMMA Kinds ==
    ASSUME NEW t \in Seq(Line), Neat(t), NEW i \in Marks(t)
    PROVE  \E a, b, c \in Seq(Line) :
             /\ Plain(a) /\ Plain(b) /\ Plain(c)
             /\ t = (a \o Block) \o b
             /\ SubSeq(t, 1, i - 1) = a /\ SubSeq(t, BlockEnd(t, i) + 1, Len(t)) = c
             /\ ~Adjoins(t) => c = b
<1>1. ~Plain(t) BY PlainMarks
<1>2. PICK a \in Seq(Line), b \in Seq(Line) : Blocked(t, a, b)
  BY <1>1 DEF Neat
<1>3. SubSeq(t, 1, i - 1) = a BY <1>2, Cut
<1>4. PICK d \in 0..Len(b) : /\ SubSeq(t, BlockEnd(t, i) + 1, Len(t)) = SubSeq(b, d + 1, Len(b))
                             /\ ~Adjoins(t) => d = 0
  BY <1>2, Cut, Zenon
<1> DEFINE c == SubSeq(b, d + 1, Len(b))
<1>5. c \in Seq(Line) BY Parts
<1>6. Plain(c) BY <1>2, PlainPart DEF Blocked
<1>7. SubSeq(b, 1, Len(b)) = b BY SubSeqFull
<1>8. ~Adjoins(t) => c = b
  <2>1. ASSUME ~Adjoins(t) PROVE c = b
    <3>1. d + 1 = 1 BY <1>4, <2>1
    <3> QED BY <3>1, <1>7
  <2> QED BY <2>1
<1>9. SubSeq(t, BlockEnd(t, i) + 1, Len(t)) = c BY <1>4
<1> HIDE DEF c
<1> QED BY <1>2, <1>3, <1>5, <1>6, <1>8, <1>9 DEF Blocked

\* mergeTorrc leaves one block, and of the other lines what there was.
LEMMA MergedIs ==
    ASSUME NEW t \in Seq(Line), Neat(t)
    PROVE  /\ Merged(t) \in Seq(Line) /\ Neat(Merged(t))
           /\ ~Adjoins(t) => Foreign(Merged(t)) = Foreign(t)
<1>1. CASE Marks(t) = {}
  <2> DEFINE u == TrimEnd(t)
             a == u \o <<"gap">>
  <2>1. Plain(t) BY <1>1, PlainMarks
  <2>2. u \in Seq(Line) /\ Plain(u) /\ Foreign(u) = Foreign(t) BY <2>1, TrimEndPlain
  <2>3. Merged(t) = u \o (<<"gap">> \o Block)
    <3>1. Merged(t) = u \o <<"gap", "mark", "ours">> BY <1>1 DEF Merged
    <3> QED BY <3>1, SmallLines
  <2> HIDE DEF u
  <2>4. a \in Seq(Line) /\ Plain(a) BY <2>2, SmallLines, PlainConcat
  <2>5. Foreign(a) = Foreign(t)
    <3>1. Foreign(a) = Foreign(u) \o Foreign(<<"gap">>) BY <2>2, SmallLines, ForeignConcat
    <3>2. Foreign(u) \o <<>> = Foreign(u) BY <2>2, ForeignType, ConcatEmptySeq
    <3> QED BY <2>2, <3>1, <3>2, SmallLines
  <2>6. Merged(t) = a \o Block
    <3>1. (u \o <<"gap">>) \o Block = u \o (<<"gap">> \o Block)
      BY <2>2, SmallLines, BlockIs, LinesAssociative
    <3> QED BY <2>3, <3>1
  <2> HIDE DEF a
  <2>7. a \o Block \in Seq(Line) BY <2>4, BlockIs, TwoParts
  <2>8. (a \o Block) \o <<>> = a \o Block BY <2>7, ConcatEmptySeq
  <2>9. Neat(Merged(t)) BY <2>4, <2>6, <2>8, SmallLines DEF Neat, Blocked
  <2>10. Foreign(a \o Block) = Foreign(a)
    <3>1. Foreign(a \o Block) = Foreign(a) \o <<>> BY <2>4, BlockIs, ForeignConcat
    <3>2. Foreign(a) \o <<>> = Foreign(a) BY <2>4, ForeignType, ConcatEmptySeq
    <3> QED BY <3>1, <3>2
  <2> QED BY <2>5, <2>6, <2>7, <2>9, <2>10
<1>2. CASE Marks(t) # {}
  <2> DEFINE i == CHOOSE i \in Marks(t) : TRUE
  <2>1. i \in Marks(t) BY <1>2
  <2>2. Merged(t) = (SubSeq(t, 1, i - 1) \o Block) \o SubSeq(t, BlockEnd(t, i) + 1, Len(t))
    BY <1>2 DEF Merged, Block
  <2> HIDE DEF i
  <2>3. PICK a \in Seq(Line), b \in Seq(Line), c \in Seq(Line) :
             /\ Plain(a) /\ Plain(b) /\ Plain(c)
             /\ t = (a \o Block) \o b
             /\ SubSeq(t, 1, i - 1) = a /\ SubSeq(t, BlockEnd(t, i) + 1, Len(t)) = c
             /\ ~Adjoins(t) => c = b
    BY <2>1, Kinds
  <2>4. Merged(t) = (a \o Block) \o c BY <2>2, <2>3
  <2>5. (a \o Block) \o c \in Seq(Line) BY BlockAt
  <2>6. Neat(Merged(t)) BY <2>3, <2>4 DEF Neat, Blocked
  <2>7. ~Adjoins(t) => Foreign(Merged(t)) = Foreign(t) BY <2>3, <2>4
  <2> QED BY <2>4, <2>5, <2>6, <2>7
<1> QED BY <1>1, <1>2

\* stripTorrc leaves no block, and of the other lines what there was.
LEMMA StrippedIs ==
    ASSUME NEW t \in Seq(Line), Neat(t)
    PROVE  /\ Stripped(t) \in Seq(Line) /\ Plain(Stripped(t))
           /\ ~Adjoins(t) => Foreign(Stripped(t)) = Foreign(t)
<1>1. CASE Marks(t) = {} BY <1>1, PlainMarks DEF Stripped
<1>2. CASE Marks(t) # {}
  <2> DEFINE i == CHOOSE i \in Marks(t) : TRUE
  <2>1. i \in Marks(t) BY <1>2
  <2>2. Stripped(t) = TrimStart(TrimEnd(SubSeq(t, 1, i - 1)) \o SubSeq(t, BlockEnd(t, i) + 1, Len(t)))
    BY <1>2 DEF Stripped
  <2> HIDE DEF i
  <2>3. PICK a \in Seq(Line), b \in Seq(Line), c \in Seq(Line) :
             /\ Plain(a) /\ Plain(b) /\ Plain(c)
             /\ t = (a \o Block) \o b
             /\ SubSeq(t, 1, i - 1) = a /\ SubSeq(t, BlockEnd(t, i) + 1, Len(t)) = c
             /\ ~Adjoins(t) => c = b
    BY <2>1, Kinds
  <2> DEFINE u == TrimEnd(a)
             w == u \o c
  <2>4. Stripped(t) = TrimStart(w) BY <2>2, <2>3
  <2>5. u \in Seq(Line) /\ Plain(u) /\ Foreign(u) = Foreign(a) BY <2>3, TrimEndPlain
  <2> HIDE DEF u
  <2>6. w \in Seq(Line) /\ Plain(w) BY <2>3, <2>5, PlainConcat
  <2>7. Foreign(w) = Foreign(a) \o Foreign(c) BY <2>5, ForeignConcat
  <2> HIDE DEF w
  <2>8. /\ TrimStart(w) \in Seq(Line) /\ Plain(TrimStart(w)) /\ Foreign(TrimStart(w)) = Foreign(w)
    BY <2>6, TrimStartIs
  <2>9. Foreign(t) = Foreign(a) \o Foreign(b) BY <2>3, ForeignAround
  <2> QED BY <2>3, <2>4, <2>7, <2>8, <2>9
<1> QED BY <1>1, <1>2

\* An edit by hand is no part of the block.
LEMMA EditedNeat ==
    ASSUME NEW t \in Seq(Line), Neat(t), NEW u \in Seq(Line), Plain(u)
    PROVE  /\ t \o u \in Seq(Line) /\ Neat(t \o u)
           /\ u \o t \in Seq(Line) /\ Neat(u \o t)
<1>1. t \o u \in Seq(Line) /\ u \o t \in Seq(Line) BY TwoParts
<1>2. CASE Plain(t) BY <1>1, <1>2, PlainConcat DEF Neat, Blocked
<1>3. ASSUME NEW a \in Seq(Line), NEW b \in Seq(Line), Plain(a), Plain(b), t = (a \o Block) \o b
      PROVE  Neat(t \o u) /\ Neat(u \o t)
  <2>1. Block \in Seq(Line) BY BlockIs
  <2>2. a \o Block \in Seq(Line) BY <2>1, TwoParts
  <2>3. t \o u = (a \o Block) \o (b \o u) BY <1>3, <2>2, LinesAssociative
  <2>4. b \o u \in Seq(Line) /\ Plain(b \o u) BY <1>3, PlainConcat
  <2>5. u \o a \in Seq(Line) /\ Plain(u \o a) BY <1>3, PlainConcat
  <2>6. u \o t = (u \o (a \o Block)) \o b BY SMTT(30), <1>3, <2>2, LinesAssociative
  <2>7. u \o (a \o Block) = (u \o a) \o Block BY <2>1, LinesAssociative
  <2>8. u \o t = ((u \o a) \o Block) \o b BY <2>6, <2>7
  <2>9. Neat(t \o u) BY <2>3, <2>4, <1>3 DEF Neat, Blocked
  <2>10. Neat(u \o t) BY <2>5, <2>8, <1>3 DEF Neat, Blocked
  <2> QED BY <2>9, <2>10
<1> QED BY <1>1, <1>2, <1>3 DEF Neat, Blocked
-----------------------------------------------------------------------------
(***************************************************************************)
(* Types: of the files, of what a program was told, of the rest of the     *)
(* machine, a lemma for each.                                              *)
(***************************************************************************)
USE HostAssumption DEF vars, machine, bounds, history, lapses, site, unit, same, Begin, Step, Over, Trial, Tell

LEMMA RenderedType ==
    ASSUME ships \in 0..MaxShips, NEW f, NEW host \in Keys \cup {None}
    PROVE  Rendered(f, host) \in File
  BY DEF Rendered, File

LEMMA EditedType == ASSUME NEW e \in File PROVE [e EXCEPT !.hand = TRUE] \in File
  BY DEF File

LEMMA InitTypes == Init => Types
<1> SUFFICES ASSUME Init PROVE Types OBVIOUS
<1>1. FilesOK BY DEF Init, FilesOK, Nothing
<1>2. opt \in Option BY DEF Init, Option, NoOpt
<1>3. ships \in 0..MaxShips BY DEF Init
<1>4. /\ account \in BOOLEAN /\ mine \in BOOLEAN /\ web \in BOOLEAN /\ timer \in BOOLEAN
      /\ fresh \in BOOLEAN /\ listed \in BOOLEAN /\ waived \in BOOLEAN /\ sound \in BOOLEAN
  BY DEF Init
<1>5. /\ onion \in Keys \cup {None} /\ seed \in Keys \cup {None}
      /\ disk \subseteq Records /\ backend \in (SUBSET Records) \cup {None}
      /\ boot \subseteq {"server", "timer"} /\ told \subseteq Files
      /\ run \in {"none", "install", "reconcile", "uninstall", "script"}
      /\ kept \subseteq Records \cup Keys /\ acked \subseteq Records \cup Keys
      /\ overwritten \subseteq Records
  <2>1. /\ onion = None /\ seed = None /\ disk = {} /\ backend = None /\ boot = {}
        /\ told = {} /\ run = "none" /\ kept = {} /\ acked = {} /\ overwritten = {}
    BY DEF Init
  <2> QED BY <2>1
<1> QED BY <1>1, <1>2, <1>3, <1>4, <1>5 DEF Types

LEMMA FilesStep == Types /\ Work /\ [Next]_vars => FilesOK' /\ ships' \in 0..MaxShips
<1> SUFFICES ASSUME Types, Work, [Next]_vars PROVE FilesOK' /\ ships' \in 0..MaxShips OBVIOUS
<1> USE DEF Types, FilesOK
<1>1. ASSUME UNCHANGED <<etc, read, inForce, ships, unsaid>> PROVE FilesOK' /\ ships' \in 0..MaxShips
  BY <1>1
<1>2. CASE InstallFile
  <2>1. PICK f : f \in opt.todo /\ etc' = [etc EXCEPT ![f] = Rendered(f, opt.host)]
    BY <1>2, FirstInstalled DEF InstallFile, Work
  <2>2. f \in Files /\ opt.host \in Keys \cup {None} BY <2>1 DEF Option
  <2>3. Rendered(f, opt.host) \in File BY <2>2, RenderedType
  <2>4. etc' \in [Files -> File \cup {None}] BY <2>1, <2>3
  <2>5. read' = read /\ inForce' = inForce /\ ships' = ships /\ unsaid' = unsaid BY <1>2 DEF InstallFile
  <2> QED BY <2>4, <2>5
<1>3. CASE ReconcileFile
  <2>1. PICK f : /\ f \in opt.todo /\ etc' = [etc EXCEPT ![f] = Rendered(f, opt.host)]
                 /\ inForce' = IF f = "polkit" THEN [inForce EXCEPT ![f] = etc'[f]] ELSE inForce
    <3> opt.todo # {} /\ opt.todo \in SUBSET Files BY <1>3 DEF ReconcileFile, Work, Option
    <3> QED BY <1>3, FirstReconciled DEF ReconcileFile
  <2>2. f \in Files /\ opt.host \in Keys \cup {None} BY <2>1 DEF Option
  <2>3. Rendered(f, opt.host) \in File BY <2>2, RenderedType
  <2>4. etc' \in [Files -> File \cup {None}] BY <2>1, <2>3
  <2>5. inForce' \in [Files -> File \cup {None}] BY <2>1, <2>4
  <2>6. read' = read /\ ships' = ships /\ unsaid' = unsaid BY <1>3 DEF ReconcileFile
  <2> QED BY <2>4, <2>5, <2>6
<1>4. CASE Reload BY <1>4 DEF Reload, DaemonReload
<1>5. CASE GrantRestart
  <2>1. Rendered("polkit", None) \in File BY RenderedType
  <2> QED BY <1>5, <2>1 DEF GrantRestart
<1>6. CASE StartServices BY <1>6 DEF StartServices
<1>7. CASE StartTimer BY <1>7 DEF StartTimer
<1>8. ASSUME NEW ok \in BOOLEAN, ReloadUnits(ok) PROVE FilesOK' /\ ships' \in 0..MaxShips
  BY <1>8 DEF ReloadUnits, DaemonReload
<1>9. ASSUME NEW ok \in BOOLEAN, RestartTimers(ok) PROVE FilesOK' /\ ships' \in 0..MaxShips
  BY <1>9 DEF RestartTimers
<1>10. ASSUME NEW ok \in BOOLEAN, ReloadNginx(ok) PROVE FilesOK' /\ ships' \in 0..MaxShips
  BY <1>10 DEF ReloadNginx
<1>11. CASE RemoveFiles BY <1>11 DEF RemoveFiles
<1>12. CASE StartBackend BY <1>12 DEF StartBackend
<1>13. CASE Reboot BY <1>13 DEF Reboot
<1>14. CASE Ship BY <1>14 DEF Ship
<1>15. ASSUME NEW f \in Files, EditFile(f) PROVE FilesOK' /\ ships' \in 0..MaxShips
  <2>1. Rendered(f, None) \in File BY RenderedType
  <2>2. etc[f] # None => [etc[f] EXCEPT !.hand = TRUE] \in File BY EditedType
  <2> QED BY <1>15, <2>1, <2>2 DEF EditFile
<1>16. CASE \/ StartInstall \/ ImportKey \/ MergeTorrc \/ RestartTor \/ Answers \/ Copy
            \/ WriteSeed \/ ImportReads \/ ImportWrites \/ Build \/ Chown \/ EnableTimer
            \/ FirstCycle \/ FinishInstall
  BY <1>1, <1>16 DEF StartInstall, ImportKey, MergeTorrc, RestartTor, Answers, Copy, WriteSeed,
       ImportReads, ImportWrites, Build, Chown, EnableTimer, FirstCycle, FinishInstall
<1>17. CASE StartReconcile \/ Archive \/ StripTorrc \/ Purge \/ Fails \/ Age \/ StopBackend \/ EditTorrc
  BY <1>1, <1>17 DEF StartReconcile, Archive, StripTorrc, Purge, Fails, Age, StopBackend, EditTorrc
<1>18. ASSUME NEW ok \in BOOLEAN, StopTimer(ok) \/ StopServer(ok) \/ Cycle(ok)
       PROVE  FilesOK' /\ ships' \in 0..MaxShips
  BY <1>1, <1>18 DEF StopTimer, StopServer, Cycle
<1>19. ASSUME NEW ask, StartUninstall(ask) PROVE FilesOK' /\ ships' \in 0..MaxShips
  BY <1>1, <1>19 DEF StartUninstall
<1>20. ASSUME NEW looks, StartScript(looks) PROVE FilesOK' /\ ships' \in 0..MaxShips
  BY <1>1, <1>20 DEF StartScript
<1>21. ASSUME NEW r, ScriptWrites(r) \/ Submit(r) PROVE FilesOK' /\ ships' \in 0..MaxShips
  BY <1>1, <1>21 DEF ScriptWrites, Submit
<1>22. CASE UNCHANGED vars BY <1>1, <1>22
<1> HIDE DEF FilesOK, Types, Work
<1> QED
  BY <1>2, <1>3, <1>4, <1>5, <1>6, <1>7, <1>8, <1>9, <1>10, <1>11, <1>12, <1>13, <1>14, <1>15,
     <1>16, <1>17, <1>18, <1>19, <1>20, <1>21, <1>22 DEF Next

LEMMA OptStep == Types /\ Work /\ [Next]_vars => opt' \in Option /\ Work'
<1> SUFFICES ASSUME Types, Work, [Next]_vars PROVE opt' \in Option /\ Work' OBVIOUS
<1>o. /\ opt \in Option /\ onion \in Keys \cup {None} /\ disk \subseteq Records
      /\ etc \in [Files -> File \cup {None}]
      /\ run \in {"none", "install", "reconcile", "uninstall", "script"}
  BY DEF Types, FilesOK
<1>i. ToSet(Installed) \subseteq Files BY InstalledFiles
<1>n. NoOpt \in Option /\ NoOpt.todo = {} BY DEF NoOpt, Option
<1>1. ASSUME UNCHANGED <<run, at, opt>> PROVE opt' \in Option /\ Work'
  BY <1>1, <1>o DEF Work
<1>2. ASSUME run' = run, opt' = opt, at' # "files" PROVE opt' \in Option /\ Work'
  BY <1>2, <1>o DEF Work
<1>3. ASSUME Over PROVE opt' \in Option /\ Work'
  BY <1>3, <1>n DEF Work
<1>4. CASE StartInstall
  BY <1>4, <1>n DEF StartInstall, Work
<1>5. CASE RestartTor
  <2>1. onion' \in Keys
    BY <1>5, <1>o DEF RestartTor
  <2>2. opt' = [opt EXCEPT !.host = onion'] /\ at' = "answers" /\ run' = run
    BY <1>5 DEF RestartTor
  <2> QED BY <2>1, <2>2, <1>o DEF Work, Option
<1>6. CASE Answers
  <2>1. PICK ask \in Asks : opt' = [opt EXCEPT !.ask = ask]
    BY <1>6 DEF Answers
  <2>2. at' = "copy" /\ run' = "install" /\ run = "install"
    BY <1>6 DEF Answers
  <2> QED BY <2>1, <2>2, <1>o DEF Work, Option, Asks
<1>7. CASE WriteSeed
  <2>1. opt' = [opt EXCEPT !.todo = ToSet(Installed)] /\ run' = "install"
    BY <1>7 DEF WriteSeed
  <2>2. ToSet(Installed) # {} BY InstalledFiles
  <2>3. opt' \in Option BY <2>1, <1>o, <1>i DEF Option
  <2>4. opt'.todo = ToSet(Installed) BY <2>1, <1>o DEF Option
  <2> QED BY <2>1, <2>2, <2>3, <2>4 DEF Work
<1>8. CASE InstallFile
  <2>1. PICK f : /\ opt' = [opt EXCEPT !.todo = opt.todo \ {f}] /\ run = "install" /\ run' = "install"
                 /\ at' = IF opt.todo = {f} THEN "reload" ELSE "files"
    BY <1>8 DEF InstallFile
  <2>2. opt.todo # {} BY <1>8 DEF InstallFile, Work
  <2>3. opt' \in Option BY <2>1, <1>o DEF Option
  <2>4. opt'.todo = opt.todo \ {f} BY <2>1, <1>o DEF Option
  <2> QED BY <2>1, <2>2, <2>3, <2>4 DEF Work
<1>9. CASE ImportReads
  <2>1. opt' = [opt EXCEPT !.buf = disk] /\ at' \in {"importing", "build"} /\ run' = run
    BY <1>9 DEF ImportReads
  <2> QED BY <2>1, <1>o DEF Work, Option
<1>10. CASE StartReconcile
  <2>1. PICK host, todo : /\ todo = {f \in Files : etc[f] \notin {None, Rendered(f, host)}} /\ todo # {}
                          /\ host = etc["server"].onion /\ etc["server"] # None
                          /\ opt' = [NoOpt EXCEPT !.host = host, !.todo = todo, !.ask = todo]
                          /\ run' = "reconcile"
    BY <1>10 DEF StartReconcile
  <2>2. host \in Keys \cup {None} BY <2>1, <1>o DEF File
  <2>3. opt' = [host |-> host, ask |-> todo, todo |-> todo, buf |-> {}]
    BY <2>1 DEF NoOpt
  <2> HIDE DEF Files
  <2>4. todo \subseteq Files BY <2>1
  <2>5. opt' \in Option BY <2>2, <2>3, <2>4 DEF Option
  <2> QED BY <2>1, <2>3, <2>5 DEF Work
<1>11. CASE ReconcileFile
  <2>1. PICK f : /\ opt' = [opt EXCEPT !.todo = opt.todo \ {f}] /\ run = "reconcile" /\ run' = "reconcile"
                 /\ at' = IF opt.todo = {f} THEN "reload" ELSE "files"
    BY <1>11 DEF ReconcileFile
  <2>2. opt.todo # {} BY <1>11 DEF ReconcileFile, Work
  <2>3. opt' \in Option BY <2>1, <1>o DEF Option
  <2>4. opt'.todo = opt.todo \ {f} /\ opt'.ask = opt.ask BY <2>1, <1>o DEF Option
  <2> QED BY <2>1, <2>2, <2>3, <2>4 DEF Work
<1>12. ASSUME NEW ask \in SUBSET {"data", "onion", "archive"}, StartUninstall(ask)
       PROVE  opt' \in Option /\ Work'
  <2>1. opt' = [NoOpt EXCEPT !.ask = ask] /\ at' = "archive" /\ run' = "uninstall"
    BY <1>12 DEF StartUninstall
  <2> QED BY <2>1, <1>n DEF Work, Option
<1>13. ASSUME NEW looks, StartScript(looks) PROVE opt' \in Option /\ Work'
  <2>1. opt' = [NoOpt EXCEPT !.buf = disk] /\ at' = "editing" /\ run' = "script"
    BY <1>13 DEF StartScript
  <2> QED BY <2>1, <1>n, <1>o DEF Work, Option
<1>14. CASE \/ ImportKey \/ MergeTorrc \/ Copy \/ Reload \/ GrantRestart \/ ImportWrites
            \/ Build \/ Chown \/ EnableTimer \/ StartServices \/ FirstCycle \/ StartTimer
  <2>1. run' = run /\ opt' = opt /\ at' # "files"
    BY <1>14 DEF ImportKey, MergeTorrc, Copy, Reload, GrantRestart, ImportWrites,
       Build, Chown, EnableTimer, StartServices, FirstCycle, StartTimer
  <2> QED BY <1>2, <2>1
<1>15. ASSUME NEW ok \in BOOLEAN, ReloadUnits(ok) \/ RestartTimers(ok) \/ StopTimer(ok) \/ StopServer(ok)
       PROVE  opt' \in Option /\ Work'
  BY <1>2, <1>15 DEF ReloadUnits, RestartTimers, StopTimer, StopServer
<1>16. CASE Archive \/ RemoveFiles \/ StripTorrc
  BY <1>2, <1>16 DEF Archive, RemoveFiles, StripTorrc
<1>17. CASE FinishInstall \/ Purge \/ Fails \/ Reboot
  BY <1>3, <1>17 DEF FinishInstall, Purge, Fails, Reboot
<1>18. ASSUME NEW ok \in BOOLEAN, ReloadNginx(ok) PROVE opt' \in Option /\ Work'
  BY <1>3, <1>18 DEF ReloadNginx
<1>19. ASSUME NEW r, ScriptWrites(r) PROVE opt' \in Option /\ Work'
  BY <1>3, <1>19 DEF ScriptWrites
<1>20. ASSUME NEW r, Submit(r) PROVE opt' \in Option /\ Work'
  BY <1>1, <1>20 DEF Submit
<1>21. ASSUME NEW ok \in BOOLEAN, Cycle(ok) PROVE opt' \in Option /\ Work'
  BY <1>1, <1>21 DEF Cycle
<1>22. CASE Age \/ StartBackend \/ StopBackend \/ Ship \/ EditTorrc
  BY <1>1, <1>22 DEF Age, StartBackend, StopBackend, Ship, EditTorrc
<1>23. ASSUME NEW f \in Files, EditFile(f) PROVE opt' \in Option /\ Work'
  BY <1>1, <1>23 DEF EditFile
<1>24. CASE UNCHANGED vars BY <1>1, <1>24
<1> HIDE DEF Work
<1> QED
  BY <1>4, <1>5, <1>6, <1>7, <1>8, <1>9, <1>10, <1>11, <1>12, <1>13, <1>14, <1>15, <1>16, <1>17,
     <1>18, <1>19, <1>20, <1>21, <1>22, <1>23, <1>24 DEF Next

\* The onion key, the flags of the machine, the records, and what programs noted.
LEMMA KeyStep == Types /\ [Next]_vars => KeyTypes'
<1> SUFFICES ASSUME Types, [Next]_vars PROVE KeyTypes' OBVIOUS
<1>o. onion \in Keys \cup {None} /\ seed \in Keys \cup {None} /\ opt.host \in Keys \cup {None}
  BY DEF Types, Option
<1>1. ASSUME UNCHANGED <<onion, seed>> PROVE KeyTypes' BY <1>1, <1>o
<1>10. CASE ImportKey
  BY <1>10, <1>o DEF ImportKey
<1>11. CASE RestartTor
  BY <1>11, <1>o DEF RestartTor
<1>12. CASE Copy
  BY <1>12, <1>o DEF Copy
<1>13. CASE WriteSeed
  BY <1>13, <1>o DEF WriteSeed
<1>14. CASE Purge
  BY <1>14, <1>o DEF Purge
<1>15. CASE StartInstall \/ MergeTorrc \/ Answers \/ InstallFile \/ Reload \/ GrantRestart
     \/ ImportReads \/ ImportWrites \/ Build
  BY <1>1, <1>15 DEF StartInstall, MergeTorrc, Answers, InstallFile, Reload, GrantRestart,
       ImportReads, ImportWrites, Build
<1>16. CASE Chown \/ EnableTimer \/ StartServices \/ FirstCycle \/ StartTimer \/
     FinishInstall \/ StartReconcile \/ ReconcileFile \/ Archive
  BY <1>1, <1>16 DEF Chown, EnableTimer, StartServices, FirstCycle, StartTimer,
       FinishInstall, StartReconcile, ReconcileFile, Archive
<1>17. CASE RemoveFiles \/ StripTorrc \/ Fails \/ Age \/ StartBackend \/ StopBackend \/
     Reboot \/ Ship \/ EditTorrc
  BY <1>1, <1>17 DEF RemoveFiles, StripTorrc, Fails, Age, StartBackend, StopBackend, Reboot,
       Ship, EditTorrc
<1>18. ASSUME NEW ok \in BOOLEAN, ReloadUnits(ok) \/ RestartTimers(ok) \/ ReloadNginx(ok) \/
     StopTimer(ok) \/ StopServer(ok) \/ Cycle(ok) PROVE KeyTypes'
  BY <1>1, <1>18 DEF ReloadUnits, RestartTimers, ReloadNginx, StopTimer, StopServer, Cycle
<1>19. ASSUME NEW ask \in SUBSET {"data", "onion", "archive"}, StartUninstall(ask) PROVE
     KeyTypes'
  BY <1>1, <1>19 DEF StartUninstall
<1>20. ASSUME NEW looks \in BOOLEAN, StartScript(looks) PROVE KeyTypes'
  BY <1>1, <1>20 DEF StartScript
<1>21. ASSUME NEW r \in Records, ScriptWrites(r) \/ Submit(r) PROVE KeyTypes'
  BY <1>1, <1>21 DEF ScriptWrites, Submit
<1>22. ASSUME NEW f \in Files, EditFile(f) PROVE KeyTypes'
  BY <1>1, <1>22 DEF EditFile
<1>23. CASE UNCHANGED vars BY <1>1, <1>23
<1> QED
  BY <1>10, <1>11, <1>12, <1>13, <1>14, <1>15, <1>16, <1>17, <1>18, <1>19, <1>20, <1>21,
       <1>22, <1>23 DEF Next

LEMMA FlagStep == Types /\ [Next]_vars => FlagTypes'
<1> SUFFICES ASSUME Types, [Next]_vars PROVE FlagTypes' OBVIOUS
<1>o. /\ account \in BOOLEAN /\ mine \in BOOLEAN /\ web \in BOOLEAN
      /\ timer \in BOOLEAN /\ fresh \in BOOLEAN /\ listed \in BOOLEAN
  BY DEF Types
<1>1. ASSUME UNCHANGED <<account, mine, web, timer, fresh, listed>> PROVE FlagTypes' BY <1>1, <1>o
<1>10. CASE Copy
  BY <1>10, <1>o DEF Copy
<1>11. CASE WriteSeed
  BY <1>11, <1>o DEF WriteSeed
<1>12. CASE Build
  BY <1>12, <1>o DEF Build
<1>13. CASE Chown
  BY <1>13, <1>o DEF Chown
<1>14. CASE FirstCycle
  BY <1>14, <1>o DEF FirstCycle
<1>15. CASE StartTimer
  BY <1>15, <1>o DEF StartTimer
<1>16. ASSUME NEW ok \in BOOLEAN, RestartTimers(ok) PROVE FlagTypes'
  BY <1>16, <1>o DEF RestartTimers
<1>17. ASSUME NEW ok \in BOOLEAN, StopTimer(ok) PROVE FlagTypes'
  BY <1>17, <1>o DEF StopTimer
<1>18. ASSUME NEW ok \in BOOLEAN, Cycle(ok) PROVE FlagTypes'
  BY <1>18, <1>o DEF Cycle
<1>19. CASE Purge
  BY <1>19, <1>o DEF Purge
<1>20. CASE Age
  BY <1>20, <1>o DEF Age
<1>21. CASE Reboot
  BY <1>21, <1>o DEF Reboot
<1>22. CASE StartInstall \/ ImportKey \/ MergeTorrc \/ RestartTor \/ Answers \/ InstallFile
     \/ Reload \/ GrantRestart \/ ImportReads
  BY <1>1, <1>22 DEF StartInstall, ImportKey, MergeTorrc, RestartTor, Answers, InstallFile,
       Reload, GrantRestart, ImportReads
<1>23. CASE ImportWrites \/ EnableTimer \/ StartServices \/ FinishInstall \/ StartReconcile
     \/ ReconcileFile \/ Archive \/ RemoveFiles \/ StripTorrc
  BY <1>1, <1>23 DEF ImportWrites, EnableTimer, StartServices, FinishInstall,
       StartReconcile, ReconcileFile, Archive, RemoveFiles, StripTorrc
<1>24. CASE Fails \/ StartBackend \/ StopBackend \/ Ship \/ EditTorrc
  BY <1>1, <1>24 DEF Fails, StartBackend, StopBackend, Ship, EditTorrc
<1>25. ASSUME NEW ok \in BOOLEAN, ReloadUnits(ok) \/ ReloadNginx(ok) \/ StopServer(ok) PROVE
     FlagTypes'
  BY <1>1, <1>25 DEF ReloadUnits, ReloadNginx, StopServer
<1>26. ASSUME NEW ask \in SUBSET {"data", "onion", "archive"}, StartUninstall(ask) PROVE
     FlagTypes'
  BY <1>1, <1>26 DEF StartUninstall
<1>27. ASSUME NEW looks \in BOOLEAN, StartScript(looks) PROVE FlagTypes'
  BY <1>1, <1>27 DEF StartScript
<1>28. ASSUME NEW r \in Records, ScriptWrites(r) \/ Submit(r) PROVE FlagTypes'
  BY <1>1, <1>28 DEF ScriptWrites, Submit
<1>29. ASSUME NEW f \in Files, EditFile(f) PROVE FlagTypes'
  BY <1>1, <1>29 DEF EditFile
<1>30. CASE UNCHANGED vars BY <1>1, <1>30
<1> QED
  BY <1>10, <1>11, <1>12, <1>13, <1>14, <1>15, <1>16, <1>17, <1>18, <1>19, <1>20, <1>21,
       <1>22, <1>23, <1>24, <1>25, <1>26, <1>27, <1>28, <1>29, <1>30 DEF Next

LEMMA RecordStep == Types /\ [Next]_vars => RecordTypes'
<1> SUFFICES ASSUME Types, [Next]_vars PROVE RecordTypes' OBVIOUS
<1>o. /\ disk \subseteq Records /\ backend \in (SUBSET Records) \cup {None}
      /\ kept \subseteq Records \cup Keys /\ acked \subseteq Records \cup Keys
      /\ opt.buf \subseteq Records /\ onion \in Keys \cup {None} /\ onion' \in Keys \cup {None}
      /\ overwritten \subseteq Records
  BY KeyStep DEF Types, Option
<1>1. ASSUME UNCHANGED <<disk, backend, kept, acked, overwritten>> PROVE RecordTypes' BY <1>1, <1>o
<1>10. CASE ImportKey
  BY <1>10, <1>o DEF ImportKey
<1>11. CASE RestartTor
  <2>1. onion' # None BY <1>11, <1>o DEF RestartTor
  <2> QED BY <1>11, <2>1, <1>o DEF RestartTor
<1>12. CASE ImportWrites
  BY <1>12, <1>o DEF ImportWrites
<1>13. CASE StartServices
  BY <1>13, <1>o DEF StartServices
<1>14. CASE Archive
  BY <1>14, <1>o DEF Archive
<1>15. ASSUME NEW ok \in BOOLEAN, StopServer(ok) PROVE RecordTypes'
  BY <1>15, <1>o DEF StopServer
<1>16. CASE Purge
  BY <1>16, <1>o DEF Purge
<1>17. ASSUME NEW r \in Records, ScriptWrites(r) PROVE RecordTypes'
  BY <1>17, <1>o DEF ScriptWrites
<1>18. ASSUME NEW r \in Records, Submit(r) PROVE RecordTypes'
  BY <1>18, <1>o DEF Submit
<1>19. CASE StartBackend
  BY <1>19, <1>o DEF StartBackend
<1>20. CASE StopBackend
  BY <1>20, <1>o DEF StopBackend
<1>21. CASE Reboot
  BY <1>21, <1>o DEF Reboot
<1>22. CASE StartInstall \/ MergeTorrc \/ Answers \/ WriteSeed \/ InstallFile \/
     Reload \/ GrantRestart \/ ImportReads
  BY <1>1, <1>22 DEF StartInstall, MergeTorrc, Answers, WriteSeed, InstallFile,
       Reload, GrantRestart, ImportReads
<1>23. CASE Build \/ Chown \/ EnableTimer \/ FirstCycle \/ StartTimer \/ FinishInstall \/
     StartReconcile \/ ReconcileFile \/ RemoveFiles
  BY <1>1, <1>23 DEF Build, Chown, EnableTimer, FirstCycle, StartTimer, FinishInstall,
       StartReconcile, ReconcileFile, RemoveFiles
<1>24. CASE StripTorrc \/ Fails \/ Age \/ Ship \/ EditTorrc
  BY <1>1, <1>24 DEF StripTorrc, Fails, Age, Ship, EditTorrc
<1>25. ASSUME NEW ok \in BOOLEAN, ReloadUnits(ok) \/ RestartTimers(ok) \/ ReloadNginx(ok) \/
     StopTimer(ok) \/ Cycle(ok) PROVE RecordTypes'
  BY <1>1, <1>25 DEF ReloadUnits, RestartTimers, ReloadNginx, StopTimer, Cycle
<1>26. ASSUME NEW ask \in SUBSET {"data", "onion", "archive"}, StartUninstall(ask) PROVE
     RecordTypes'
  BY <1>1, <1>26 DEF StartUninstall
<1>27. ASSUME NEW looks \in BOOLEAN, StartScript(looks) PROVE RecordTypes'
  BY <1>1, <1>27 DEF StartScript
<1>28. ASSUME NEW f \in Files, EditFile(f) PROVE RecordTypes'
  BY <1>1, <1>28 DEF EditFile
<1>29. CASE UNCHANGED vars BY <1>1, <1>29
<1>30. CASE Copy
  BY <1>30, <1>o DEF Copy
<1> QED
  BY <1>10, <1>11, <1>12, <1>13, <1>14, <1>15, <1>16, <1>17, <1>18, <1>19, <1>20, <1>21,
       <1>22, <1>23, <1>24, <1>25, <1>26, <1>27, <1>28, <1>29, <1>30 DEF Next

LEMMA WordStep == Types /\ [Next]_vars => WordTypes'
<1> SUFFICES ASSUME Types, [Next]_vars PROVE WordTypes' OBVIOUS
<1>o. /\ waived \in BOOLEAN /\ sound \in BOOLEAN /\ timer \in BOOLEAN
      /\ boot \subseteq {"server", "timer"} /\ told \subseteq Files /\ Lagging \subseteq Files
      /\ run \in {"none", "install", "reconcile", "uninstall", "script"} /\ Lagging' \subseteq Files
  BY DEF Types, Lagging
<1>1. ASSUME UNCHANGED <<waived, sound, boot, told, run>> PROVE WordTypes' BY <1>1, <1>o
<1>10. CASE StartInstall
  BY <1>10, <1>o DEF StartInstall
<1>11. CASE ImportKey
  BY <1>11, <1>o DEF ImportKey
<1>12. CASE ImportWrites
  BY <1>12, <1>o DEF ImportWrites
<1>13. CASE EnableTimer
  BY <1>13, <1>o DEF EnableTimer
<1>14. CASE StartServices
  BY <1>14, <1>o DEF StartServices
<1>15. CASE StartTimer
  BY <1>15, <1>o DEF StartTimer
<1>16. CASE FinishInstall
  BY <1>16, <1>o DEF FinishInstall
<1>17. CASE StartReconcile
  BY <1>17, <1>o DEF StartReconcile
<1>18. ASSUME NEW ok \in BOOLEAN, ReloadUnits(ok) PROVE WordTypes'
  BY <1>18, <1>o DEF ReloadUnits
<1>19. ASSUME NEW ok \in BOOLEAN, RestartTimers(ok) PROVE WordTypes'
  BY <1>19, <1>o DEF RestartTimers
<1>20. ASSUME NEW ok \in BOOLEAN, ReloadNginx(ok) PROVE WordTypes'
  BY <1>20, <1>o DEF ReloadNginx
<1>21. ASSUME NEW ask \in SUBSET {"data", "onion", "archive"}, StartUninstall(ask) PROVE
     WordTypes'
  BY <1>21, <1>o DEF StartUninstall
<1>22. CASE Archive
  BY <1>22, <1>o DEF Archive
<1>23. ASSUME NEW ok \in BOOLEAN, StopTimer(ok) PROVE WordTypes'
  BY <1>23, <1>o DEF StopTimer
<1>24. ASSUME NEW ok \in BOOLEAN, StopServer(ok) PROVE WordTypes'
  BY <1>24, <1>o DEF StopServer
<1>25. CASE RemoveFiles
  BY <1>25, <1>o DEF RemoveFiles
<1>26. CASE Purge
  BY <1>26, <1>o DEF Purge
<1>27. ASSUME NEW looks \in BOOLEAN, StartScript(looks) PROVE WordTypes'
  BY <1>27, <1>o DEF StartScript
<1>28. ASSUME NEW r \in Records, ScriptWrites(r) PROVE WordTypes'
  BY <1>28, <1>o DEF ScriptWrites
<1>29. CASE Fails
  BY <1>29, <1>o DEF Fails
<1>30. ASSUME NEW r \in Records, Submit(r) PROVE WordTypes'
  BY <1>30, <1>o DEF Submit
<1>31. CASE StartBackend
  BY <1>31, <1>o DEF StartBackend
<1>32. CASE Reboot
  BY <1>32, <1>o DEF Reboot
<1>33. ASSUME NEW f \in Files, EditFile(f) PROVE WordTypes'
  BY <1>33, <1>o DEF EditFile
<1>34. CASE InstallFile
  BY <1>34, <1>o DEF InstallFile
<1>35. CASE ReconcileFile
  BY <1>35, <1>o DEF ReconcileFile
<1>36. CASE MergeTorrc \/ RestartTor \/ Answers \/ Copy \/ WriteSeed \/ Reload \/
     GrantRestart \/ ImportReads \/ Build
  BY <1>1, <1>36 DEF MergeTorrc, RestartTor, Answers, Copy, WriteSeed, Reload, GrantRestart,
       ImportReads, Build
<1>37. CASE Chown \/ FirstCycle \/ StripTorrc \/ Age \/ StopBackend \/ Ship \/ EditTorrc
  BY <1>1, <1>37 DEF Chown, FirstCycle, StripTorrc, Age, StopBackend, Ship, EditTorrc
<1>38. ASSUME NEW ok \in BOOLEAN, Cycle(ok) PROVE WordTypes'
  BY <1>1, <1>38 DEF Cycle
<1>39. CASE UNCHANGED vars BY <1>1, <1>39
<1> QED
  BY <1>10, <1>11, <1>12, <1>13, <1>14, <1>15, <1>16, <1>17, <1>18, <1>19, <1>20, <1>21,
       <1>22, <1>23, <1>24, <1>25, <1>26, <1>27, <1>28, <1>29, <1>30, <1>31, <1>32, <1>33,
       <1>34, <1>35, <1>36, <1>37, <1>38, <1>39 DEF Next

LEMMA TypesStep == Types /\ Work /\ [Next]_vars => Types' /\ Work'
<1> HIDE DEF KeyTypes, FlagTypes, RecordTypes, WordTypes
<1> QED BY FilesStep, OptStep, KeyStep, FlagStep, RecordStep, WordStep DEF Types

-----------------------------------------------------------------------------
(***************************************************************************)
(* Lags are told. What a step has to show of Deferred, file by file.       *)
(***************************************************************************)
LEMMA ByFile ==
    ASSUME \A f \in Files : f \in Lagging' /\ f \notin told' /\ ~Excused(f)' =>
             f \in Pending' /\ (at' \in AfterReload /\ f \in Units => read'[f] = etc'[f])
    PROVE  Deferred'
  BY DEF Deferred, Untold, Excused, Lagging

\* A step that touches no file, and after which nothing less is pending.
LEMMA Onward ==
    ASSUME Deferred, UNCHANGED <<etc, read, inForce, unsaid>>, told \subseteq told',
           Pending \subseteq Pending', at' \in AfterReload => at \in AfterReload \/ Pending = {}
    PROVE  Deferred'
  BY DEF Deferred, Untold, Excused, Lagging

LEMMA DeferredStep == Safe /\ [Next]_vars => Deferred'
<1> SUFFICES ASSUME Safe, [Next]_vars PROVE Deferred' OBVIOUS
<1>o. Types /\ Work /\ Deferred /\ FilesOK /\ FilesOK' /\ opt \in Option
  BY FilesStep DEF Safe, Types
<1> USE DEF FilesOK
<1>1. ASSUME UNCHANGED <<etc, read, inForce, told, unsaid, run, at, opt>> PROVE Deferred'
  BY <1>1, <1>o DEF Deferred, Untold, Excused, Lagging, Pending, AfterReload
<1>10. CASE StartInstall
  BY <1>10, <1>o, Onward DEF StartInstall, Pending, AfterReload, Rest, NoOpt
<1>11. CASE ImportKey
  BY <1>11, <1>o, Onward DEF ImportKey, Pending, AfterReload, Rest, NoOpt
<1>12. CASE MergeTorrc
  BY <1>12, <1>o, Onward DEF MergeTorrc, Pending, AfterReload, Rest, NoOpt
<1>13. CASE RestartTor
  BY <1>13, <1>o, Onward DEF RestartTor, Pending, AfterReload, Rest, NoOpt
<1>14. CASE Answers
  BY <1>14, <1>o, Onward DEF Answers, Pending, AfterReload, Rest, NoOpt
<1>15. CASE Copy
  BY <1>15, <1>o, Onward DEF Copy, Pending, AfterReload, Rest, NoOpt
<1>16. CASE WriteSeed
  BY <1>16, <1>o, Onward DEF WriteSeed, Pending, AfterReload, Rest, NoOpt
<1>17. CASE ImportReads
  BY <1>17, <1>o, Onward DEF ImportReads, Pending, AfterReload, Rest, NoOpt
<1>18. CASE ImportWrites
  BY <1>18, <1>o, Onward DEF ImportWrites, Pending, AfterReload, Rest, NoOpt
<1>19. CASE Build
  BY <1>19, <1>o, Onward DEF Build, Pending, AfterReload, Rest, NoOpt
<1>20. CASE Chown
  BY <1>20, <1>o, Onward DEF Chown, Pending, AfterReload, Rest, NoOpt
<1>21. CASE EnableTimer
  BY <1>21, <1>o, Onward DEF EnableTimer, Pending, AfterReload, Rest, NoOpt
<1>22. CASE FirstCycle
  BY <1>22, <1>o, Onward DEF FirstCycle, Pending, AfterReload, Rest, NoOpt
<1>23. CASE FinishInstall
  BY <1>23, <1>o, Onward DEF FinishInstall, Pending, AfterReload, Rest, NoOpt
<1>24. CASE StartReconcile
  BY <1>24, <1>o, Onward DEF StartReconcile, Pending, AfterReload, Rest, NoOpt
<1>25. CASE Archive
  BY <1>25, <1>o, Onward DEF Archive, Pending, AfterReload, Rest, NoOpt
<1>26. CASE StripTorrc
  BY <1>26, <1>o, Onward DEF StripTorrc, Pending, AfterReload, Rest, NoOpt
<1>27. CASE Purge
  BY <1>27, <1>o, Onward DEF Purge, Pending, AfterReload, Rest, NoOpt
<1>28. ASSUME NEW ok \in BOOLEAN, StopTimer(ok) PROVE Deferred'
  BY <1>28, <1>o, Onward DEF StopTimer, Pending, AfterReload, Rest, NoOpt
<1>29. ASSUME NEW ok \in BOOLEAN, StopServer(ok) PROVE Deferred'
  BY <1>29, <1>o, Onward DEF StopServer, Pending, AfterReload, Rest, NoOpt
<1>30. ASSUME NEW ask \in SUBSET {"data", "onion", "archive"}, StartUninstall(ask) PROVE
     Deferred'
  BY <1>30, <1>o, Onward DEF StartUninstall, Pending, AfterReload, Rest, NoOpt
<1>31. ASSUME NEW looks \in BOOLEAN, StartScript(looks) PROVE Deferred'
  BY <1>31, <1>o, Onward DEF StartScript, Pending, AfterReload, Rest, NoOpt
<1>32. ASSUME NEW r \in Records, ScriptWrites(r) PROVE Deferred'
  BY <1>32, <1>o, Onward DEF ScriptWrites, Pending, AfterReload, Rest, NoOpt
<1>33. CASE Fails
  <2>1. SUFFICES ASSUME NEW g \in Files, g \in Lagging', g \notin told', ~Excused(g)'
                 PROVE  g \in Pending' /\ (at' \in AfterReload /\ g \in Units => read'[g] =
                      etc'[g])
    BY ByFile
  <2> QED BY <1>33, <1>o, <2>1 DEF Fails, Lagging, Pending, AfterReload, Rest, Deferred,
       Untold, Excused
<1>34. CASE Reload
  <2>1. SUFFICES ASSUME NEW g \in Files, g \in Lagging', g \notin told', ~Excused(g)'
                 PROVE  g \in Pending' /\ (at' \in AfterReload /\ g \in Units => read'[g] =
                      etc'[g])
    BY ByFile
  <2> QED BY <1>34, <1>o, <2>1 DEF Reload, Lagging, Pending, AfterReload, Rest, Deferred,
       Untold, Excused, DaemonReload
<1>35. CASE GrantRestart
  <2>1. SUFFICES ASSUME NEW g \in Files, g \in Lagging', g \notin told', ~Excused(g)'
                 PROVE  g \in Pending' /\ (at' \in AfterReload /\ g \in Units => read'[g] =
                      etc'[g])
    BY ByFile
  <2> QED BY <1>35, <1>o, <2>1 DEF GrantRestart, Lagging, Pending, AfterReload, Rest,
       Deferred, Untold, Excused
<1>36. CASE StartServices
  <2>1. SUFFICES ASSUME NEW g \in Files, g \in Lagging', g \notin told', ~Excused(g)'
                 PROVE  g \in Pending' /\ (at' \in AfterReload /\ g \in Units => read'[g] =
                      etc'[g])
    BY ByFile
  <2> QED BY <1>36, <1>o, <2>1 DEF StartServices, Lagging, Pending, AfterReload, Rest,
       Deferred, Untold, Excused
<1>37. CASE StartTimer
  <2>1. SUFFICES ASSUME NEW g \in Files, g \in Lagging', g \notin told', ~Excused(g)'
                 PROVE  g \in Pending' /\ (at' \in AfterReload /\ g \in Units => read'[g] =
                      etc'[g])
    BY ByFile
  <2> QED BY <1>37, <1>o, <2>1 DEF StartTimer, Lagging, Pending, AfterReload, Rest,
       Deferred, Untold, Excused
<1>38. CASE RemoveFiles
  <2>1. SUFFICES ASSUME NEW g \in Files, g \in Lagging', g \notin told', ~Excused(g)'
                 PROVE  g \in Pending' /\ (at' \in AfterReload /\ g \in Units => read'[g] =
                      etc'[g])
    BY ByFile
  <2> QED BY <1>38, <1>o, <2>1 DEF RemoveFiles, Lagging, Pending, AfterReload, Rest,
       Deferred, Untold, Excused
<1>39. CASE StartBackend
  <2>1. SUFFICES ASSUME NEW g \in Files, g \in Lagging', g \notin told', ~Excused(g)'
                 PROVE  g \in Pending' /\ (at' \in AfterReload /\ g \in Units => read'[g] =
                      etc'[g])
    BY ByFile
  <2> QED BY <1>39, <1>o, <2>1 DEF StartBackend, Lagging, Pending, AfterReload, Rest,
       Deferred, Untold, Excused
<1>40. CASE Reboot
  <2>1. SUFFICES ASSUME NEW g \in Files, g \in Lagging', g \notin told', ~Excused(g)'
                 PROVE  g \in Pending' /\ (at' \in AfterReload /\ g \in Units => read'[g] =
                      etc'[g])
    BY ByFile
  <2> QED BY <1>40, <1>o, <2>1 DEF Reboot, Lagging, Pending, AfterReload, Rest, Deferred,
       Untold, Excused
<1>41. ASSUME NEW ok \in BOOLEAN, ReloadUnits(ok) PROVE Deferred'
  <2>1. SUFFICES ASSUME NEW g \in Files, g \in Lagging', g \notin told', ~Excused(g)'
                 PROVE  g \in Pending' /\ (at' \in AfterReload /\ g \in Units => read'[g] =
                      etc'[g])
    BY ByFile
  <2> QED BY <1>41, <1>o, <2>1 DEF ReloadUnits, Lagging, Pending, AfterReload, Rest,
       Deferred, Untold, Excused, DaemonReload
<1>42. ASSUME NEW ok \in BOOLEAN, RestartTimers(ok) PROVE Deferred'
  <2>1. SUFFICES ASSUME NEW g \in Files, g \in Lagging', g \notin told', ~Excused(g)'
                 PROVE  g \in Pending' /\ (at' \in AfterReload /\ g \in Units => read'[g] =
                      etc'[g])
    BY ByFile
  <2> QED BY <1>42, <1>o, <2>1 DEF RestartTimers, Lagging, Pending, AfterReload, Rest,
       Deferred, Untold, Excused
<1>43. ASSUME NEW ok \in BOOLEAN, ReloadNginx(ok) PROVE Deferred'
  <2>1. SUFFICES ASSUME NEW g \in Files, g \in Lagging', g \notin told', ~Excused(g)'
                 PROVE  g \in Pending' /\ (at' \in AfterReload /\ g \in Units => read'[g] =
                      etc'[g])
    BY ByFile
  <2> QED BY <1>43, <1>o, <2>1 DEF ReloadNginx, Lagging, Pending, AfterReload, Rest,
       Deferred, Untold, Excused, DaemonReload
<1>44. ASSUME NEW f \in Files, EditFile(f) PROVE Deferred'
  <2>1. SUFFICES ASSUME NEW g \in Files, g \in Lagging', g \notin told', ~Excused(g)'
                 PROVE  g \in Pending' /\ (at' \in AfterReload /\ g \in Units => read'[g] =
                      etc'[g])
    BY ByFile
  <2> QED BY <1>44, <1>o, <2>1 DEF EditFile, Lagging, Pending, AfterReload, Rest, Deferred,
       Untold, Excused
<1>45. CASE InstallFile
  <2>1. SUFFICES ASSUME NEW g \in Files, g \in Lagging', g \notin told', ~Excused(g)'
                 PROVE  g \in Pending' /\ (at' \in AfterReload /\ g \in Units => read'[g] =
                      etc'[g])
    BY ByFile
  <2>2. PICK h : /\ h \in opt.todo /\ etc' = [etc EXCEPT ![h] = Rendered(h, opt.host)]
                 /\ opt' = [opt EXCEPT !.todo = opt.todo \ {h}] /\ at' \in {"files",
                      "reload"}
                 /\ inForce' = inForce /\ run = "install"
    BY <1>45, <1>o, FirstInstalled, InstalledFiles DEF InstallFile, Work, Option
  <2>3. /\ run = run' /\ at = "files" /\ read' = read /\ told' = told /\ opt'.ask = opt.ask
        /\ unsaid' = unsaid
    BY <1>45, <1>o, <2>2 DEF InstallFile, Option
  <2>4. g # h => g \in Untold
    BY <1>o, <2>1, <2>2, <2>3 DEF Untold, Excused, Lagging
  <2>5. h \in Pending BY <1>o, <2>2, <2>3, InstalledFiles DEF Work, Pending
  <2>6. g \in Pending BY <1>o, <2>4, <2>5 DEF Deferred
  <2> QED BY <2>2, <2>3, <2>6 DEF Pending, AfterReload, Rest
<1>46. CASE ReconcileFile
  <2>1. SUFFICES ASSUME NEW g \in Files, g \in Lagging', g \notin told', ~Excused(g)'
                 PROVE  g \in Pending' /\ (at' \in AfterReload /\ g \in Units => read'[g] =
                      etc'[g])
    BY ByFile
  <2>2. PICK h : /\ h \in opt.todo /\ etc' = [etc EXCEPT ![h] = Rendered(h, opt.host)]
                 /\ opt' = [opt EXCEPT !.todo = opt.todo \ {h}] /\ at' \in {"files",
                      "reload"}
                 /\ inForce' = (IF h = "polkit" THEN [inForce EXCEPT ![h] = etc'[h]] ELSE
                      inForce) /\ run = "reconcile"
    BY <1>46, <1>o, FirstReconciled DEF ReconcileFile, Work, Option
  <2>3. /\ run = run' /\ at = "files" /\ read' = read /\ told' = told /\ opt'.ask = opt.ask
        /\ unsaid' = unsaid
    BY <1>46, <1>o, <2>2 DEF ReconcileFile, Option
  <2>4. g # h => g \in Untold
    BY <1>o, <2>1, <2>2, <2>3 DEF Untold, Excused, Lagging
  <2>5. h \in opt.ask BY <1>o, <2>2 DEF Work
  <2>6. g # h => g \in Pending BY <1>o, <2>4 DEF Deferred
  <2>7. g = h => g # "polkit" BY <1>o, <2>1, <2>2 DEF Lagging
  <2> QED BY <2>2, <2>3, <2>5, <2>6, <2>7 DEF Pending, AfterReload, Rest
<1>47. CASE Age \/ StopBackend \/ Ship \/ EditTorrc
  BY <1>1, <1>47 DEF Age, StopBackend, Ship, EditTorrc
<1>48. ASSUME NEW ok \in BOOLEAN, Cycle(ok) PROVE Deferred'
  BY <1>1, <1>48 DEF Cycle
<1>49. ASSUME NEW r \in Records, Submit(r) PROVE Deferred'
  BY <1>1, <1>49 DEF Submit
<1>50. CASE UNCHANGED vars BY <1>1, <1>50
<1> QED
  BY <1>10, <1>11, <1>12, <1>13, <1>14, <1>15, <1>16, <1>17, <1>18, <1>19, <1>20, <1>21,
       <1>22, <1>23, <1>24, <1>25, <1>26, <1>27, <1>28, <1>29, <1>30, <1>31, <1>32, <1>33,
       <1>34, <1>35, <1>36, <1>37, <1>38, <1>39, <1>40, <1>41, <1>42, <1>43, <1>44, <1>45,
       <1>46, <1>47, <1>48, <1>49, <1>50 DEF Next

LEMMA InitSafe == Init => Safe
<1> SUFFICES ASSUME Init PROVE Safe OBVIOUS
<1>1. Work BY DEF Init, Work, NoOpt
<1>2. Lagging = {} /\ at = "none" BY DEF Init, Lagging, Nothing
<1>3. Deferred BY <1>2 DEF Deferred, Untold, Excused, AfterReload, Rest
<1> QED BY <1>1, <1>3, InitTypes DEF Safe

LEMMA SafeStep == Safe /\ [Next]_vars => Safe'
  BY TypesStep, DeferredStep DEF Safe

(***************************************************************************)
(* Whatever stops the programs and however often, and whatever is edited   *)
(* and restarted meanwhile: when none of them runs, the only file under    *)
(* /etc that can work otherwise than it is there without the operator      *)
(* having been told is the timer's, exactly as an installer left it that   *)
(* found the timer active (install.mjs). The reconciler leaves none: "the  *)
(* unit files are written; systemd has not read them yet", it says.        *)
(***************************************************************************)
THEOREM LagsTold == Spec => []LagsAreTold
<1>1. Safe => LagsAreTold
  BY DEF Safe, Deferred, Untold, Excused, Pending, LagsAreTold
<1> QED BY <1>1, InitSafe, SafeStep, PTL DEF Spec

-----------------------------------------------------------------------------
(***************************************************************************)
(* Nothing is lost. A script, or the import of the installer, that writes  *)
(* back what it read writes back what is there; what an uninstall is going *)
(* to remove is in the archive. Otherwise it is waived.                    *)
(***************************************************************************)
Edited ==
    run \in {"install", "script"} /\ at \in {"importing", "editing"} => waived \/ opt.buf = disk

Archived ==
    run = "uninstall" /\ at # "archive" =>
      \/ waived
      \/ /\ "data" \in opt.ask => disk \subseteq kept
         /\ "onion" \in opt.ask => onion \in kept \cup {None}

Kept == NothingLost /\ Edited /\ Archived

LEMMA EditedStep == Types /\ Kept /\ [Next]_vars => Edited'
<1> SUFFICES ASSUME Types, Kept, [Next]_vars PROVE Edited' OBVIOUS
<1>o. Edited /\ opt \in Option /\ waived \in BOOLEAN
  BY DEF Kept, Types
<1>1. ASSUME UNCHANGED <<run, at, opt, disk, waived>> PROVE Edited'
  BY <1>1, <1>o DEF Edited
<1>10. CASE StartInstall
  BY <1>10, <1>o DEF StartInstall, Edited, NoOpt
<1>11. CASE MergeTorrc
  BY <1>11, <1>o DEF MergeTorrc, Edited, NoOpt
<1>12. CASE RestartTor
  BY <1>12, <1>o DEF RestartTor, Edited, NoOpt
<1>13. CASE Answers
  BY <1>13, <1>o DEF Answers, Edited, NoOpt
<1>14. CASE Copy
  BY <1>14, <1>o DEF Copy, Edited, NoOpt
<1>15. CASE WriteSeed
  BY <1>15, <1>o DEF WriteSeed, Edited, NoOpt
<1>16. CASE InstallFile
  BY <1>16, <1>o DEF InstallFile, Edited, NoOpt
<1>17. CASE Reload
  BY <1>17, <1>o DEF Reload, Edited, NoOpt
<1>18. CASE GrantRestart
  BY <1>18, <1>o DEF GrantRestart, Edited, NoOpt
<1>19. CASE ImportReads
  BY <1>19, <1>o DEF ImportReads, Edited, NoOpt
<1>20. CASE ImportWrites
  BY <1>20, <1>o DEF ImportWrites, Edited, NoOpt
<1>21. CASE Build
  BY <1>21, <1>o DEF Build, Edited, NoOpt
<1>22. CASE Chown
  BY <1>22, <1>o DEF Chown, Edited, NoOpt
<1>23. CASE EnableTimer
  BY <1>23, <1>o DEF EnableTimer, Edited, NoOpt
<1>24. CASE StartServices
  BY <1>24, <1>o DEF StartServices, Edited, NoOpt
<1>25. CASE FirstCycle
  BY <1>25, <1>o DEF FirstCycle, Edited, NoOpt
<1>26. CASE StartTimer
  BY <1>26, <1>o DEF StartTimer, Edited, NoOpt
<1>27. CASE FinishInstall
  BY <1>27, <1>o DEF FinishInstall, Edited, NoOpt
<1>28. CASE ReconcileFile
  BY <1>28, <1>o DEF ReconcileFile, Edited, NoOpt
<1>29. ASSUME NEW ok \in BOOLEAN, ReloadUnits(ok) PROVE Edited'
  BY <1>29, <1>o DEF ReloadUnits, Edited, NoOpt
<1>30. ASSUME NEW ok \in BOOLEAN, RestartTimers(ok) PROVE Edited'
  BY <1>30, <1>o DEF RestartTimers, Edited, NoOpt
<1>31. ASSUME NEW ok \in BOOLEAN, ReloadNginx(ok) PROVE Edited'
  BY <1>31, <1>o DEF ReloadNginx, Edited, NoOpt
<1>32. ASSUME NEW ok \in BOOLEAN, StopTimer(ok) PROVE Edited'
  BY <1>32, <1>o DEF StopTimer, Edited, NoOpt
<1>33. ASSUME NEW ok \in BOOLEAN, StopServer(ok) PROVE Edited'
  BY <1>33, <1>o DEF StopServer, Edited, NoOpt
<1>34. CASE RemoveFiles
  BY <1>34, <1>o DEF RemoveFiles, Edited, NoOpt
<1>35. CASE StripTorrc
  BY <1>35, <1>o DEF StripTorrc, Edited, NoOpt
<1>36. CASE Archive
  BY <1>36, <1>o DEF Archive, Edited, NoOpt
<1>37. CASE Purge
  BY <1>37, <1>o DEF Purge, Edited, NoOpt
<1>38. CASE Fails
  BY <1>38, <1>o DEF Fails, Edited, NoOpt
<1>39. CASE Reboot
  BY <1>39, <1>o DEF Reboot, Edited, NoOpt
<1>40. ASSUME NEW r \in Records, ScriptWrites(r) PROVE Edited'
  BY <1>40, <1>o DEF ScriptWrites, Edited, NoOpt
<1>41. ASSUME NEW ask \in SUBSET {"data", "onion", "archive"}, StartUninstall(ask) PROVE
     Edited'
  BY <1>41, <1>o DEF StartUninstall, Edited, NoOpt
<1>42. ASSUME NEW looks \in BOOLEAN, StartScript(looks) PROVE Edited'
  BY <1>42, <1>o DEF StartScript, Edited, NoOpt
<1>43. CASE StartReconcile
  BY <1>43, <1>o DEF StartReconcile, Edited, NoOpt
<1>44. CASE ImportKey
  BY <1>44, <1>o DEF ImportKey, Edited, NoOpt
<1>45. ASSUME NEW r \in Records, Submit(r) PROVE Edited'
  BY <1>45, <1>o DEF Submit, Edited, NoOpt, Overlaps
<1>46. CASE Age \/ StartBackend \/ StopBackend \/ Ship \/ EditTorrc
  BY <1>1, <1>46 DEF Age, StartBackend, StopBackend, Ship, EditTorrc
<1>47. ASSUME NEW ok \in BOOLEAN, Cycle(ok) PROVE Edited'
  BY <1>1, <1>47 DEF Cycle
<1>48. ASSUME NEW f \in Files, EditFile(f) PROVE Edited'
  BY <1>1, <1>48 DEF EditFile
<1>49. CASE UNCHANGED vars BY <1>1, <1>49
<1> QED
  BY <1>10, <1>11, <1>12, <1>13, <1>14, <1>15, <1>16, <1>17, <1>18, <1>19, <1>20, <1>21,
       <1>22, <1>23, <1>24, <1>25, <1>26, <1>27, <1>28, <1>29, <1>30, <1>31, <1>32, <1>33,
       <1>34, <1>35, <1>36, <1>37, <1>38, <1>39, <1>40, <1>41, <1>42, <1>43, <1>44, <1>45,
       <1>46, <1>47, <1>48, <1>49 DEF Next

LEMMA ArchivedStep == Types /\ Kept /\ [Next]_vars => Archived'
<1> SUFFICES ASSUME Types, Kept, [Next]_vars PROVE Archived' OBVIOUS
<1>o. Archived /\ opt \in Option /\ waived \in BOOLEAN /\ onion \in Keys \cup {None}
  BY DEF Kept, Types
<1>1. ASSUME UNCHANGED <<run, at, opt, disk, waived, kept, onion>> PROVE Archived'
  BY <1>1, <1>o DEF Archived
<1>10. CASE StartInstall
  BY <1>10, <1>o DEF StartInstall, Archived, NoOpt
<1>11. CASE ImportKey
  BY <1>11, <1>o DEF ImportKey, Archived, NoOpt
<1>12. CASE MergeTorrc
  BY <1>12, <1>o DEF MergeTorrc, Archived, NoOpt
<1>13. CASE RestartTor
  BY <1>13, <1>o DEF RestartTor, Archived, NoOpt
<1>14. CASE Answers
  BY <1>14, <1>o DEF Answers, Archived, NoOpt
<1>15. CASE Copy
  BY <1>15, <1>o DEF Copy, Archived, NoOpt
<1>16. CASE WriteSeed
  BY <1>16, <1>o DEF WriteSeed, Archived, NoOpt
<1>17. CASE InstallFile
  BY <1>17, <1>o DEF InstallFile, Archived, NoOpt
<1>18. CASE Reload
  BY <1>18, <1>o DEF Reload, Archived, NoOpt
<1>19. CASE GrantRestart
  BY <1>19, <1>o DEF GrantRestart, Archived, NoOpt
<1>20. CASE ImportReads
  BY <1>20, <1>o DEF ImportReads, Archived, NoOpt
<1>21. CASE ImportWrites
  BY <1>21, <1>o DEF ImportWrites, Archived, NoOpt
<1>22. CASE Build
  BY <1>22, <1>o DEF Build, Archived, NoOpt
<1>23. CASE Chown
  BY <1>23, <1>o DEF Chown, Archived, NoOpt
<1>24. CASE EnableTimer
  BY <1>24, <1>o DEF EnableTimer, Archived, NoOpt
<1>25. CASE StartServices
  BY <1>25, <1>o DEF StartServices, Archived, NoOpt
<1>26. CASE FirstCycle
  BY <1>26, <1>o DEF FirstCycle, Archived, NoOpt
<1>27. CASE StartTimer
  BY <1>27, <1>o DEF StartTimer, Archived, NoOpt
<1>28. CASE FinishInstall
  BY <1>28, <1>o DEF FinishInstall, Archived, NoOpt
<1>29. CASE StartReconcile
  BY <1>29, <1>o DEF StartReconcile, Archived, NoOpt
<1>30. CASE ReconcileFile
  BY <1>30, <1>o DEF ReconcileFile, Archived, NoOpt
<1>31. ASSUME NEW ok \in BOOLEAN, ReloadUnits(ok) PROVE Archived'
  BY <1>31, <1>o DEF ReloadUnits, Archived, NoOpt
<1>32. ASSUME NEW ok \in BOOLEAN, RestartTimers(ok) PROVE Archived'
  BY <1>32, <1>o DEF RestartTimers, Archived, NoOpt
<1>33. ASSUME NEW ok \in BOOLEAN, ReloadNginx(ok) PROVE Archived'
  BY <1>33, <1>o DEF ReloadNginx, Archived, NoOpt
<1>34. ASSUME NEW ok \in BOOLEAN, StopTimer(ok) PROVE Archived'
  BY <1>34, <1>o DEF StopTimer, Archived, NoOpt
<1>35. ASSUME NEW ok \in BOOLEAN, StopServer(ok) PROVE Archived'
  BY <1>35, <1>o DEF StopServer, Archived, NoOpt
<1>36. CASE RemoveFiles
  BY <1>36, <1>o DEF RemoveFiles, Archived, NoOpt
<1>37. CASE StripTorrc
  BY <1>37, <1>o DEF StripTorrc, Archived, NoOpt
<1>38. CASE Purge
  BY <1>38, <1>o DEF Purge, Archived, NoOpt
<1>39. CASE Fails
  BY <1>39, <1>o DEF Fails, Archived, NoOpt
<1>40. CASE Reboot
  BY <1>40, <1>o DEF Reboot, Archived, NoOpt
<1>41. ASSUME NEW r \in Records, ScriptWrites(r) PROVE Archived'
  BY <1>41, <1>o DEF ScriptWrites, Archived, NoOpt
<1>42. ASSUME NEW ask \in SUBSET {"data", "onion", "archive"}, StartUninstall(ask) PROVE
     Archived'
  BY <1>42, <1>o DEF StartUninstall, Archived, NoOpt
<1>43. ASSUME NEW looks \in BOOLEAN, StartScript(looks) PROVE Archived'
  BY <1>43, <1>o DEF StartScript, Archived, NoOpt
<1>44. ASSUME NEW r \in Records, Submit(r) PROVE Archived'
  BY <1>44, <1>o DEF Submit, Archived, NoOpt, Overlaps
<1>45. CASE Archive
  BY <1>45, <1>o DEF Archive, Archived, NoOpt, Purged
<1>46. CASE Age \/ StartBackend \/ StopBackend \/ Ship \/ EditTorrc
  BY <1>1, <1>46 DEF Age, StartBackend, StopBackend, Ship, EditTorrc
<1>47. ASSUME NEW ok \in BOOLEAN, Cycle(ok) PROVE Archived'
  BY <1>1, <1>47 DEF Cycle
<1>48. ASSUME NEW f \in Files, EditFile(f) PROVE Archived'
  BY <1>1, <1>48 DEF EditFile
<1>49. CASE UNCHANGED vars BY <1>1, <1>49
<1> QED
  BY <1>10, <1>11, <1>12, <1>13, <1>14, <1>15, <1>16, <1>17, <1>18, <1>19, <1>20, <1>21,
       <1>22, <1>23, <1>24, <1>25, <1>26, <1>27, <1>28, <1>29, <1>30, <1>31, <1>32, <1>33,
       <1>34, <1>35, <1>36, <1>37, <1>38, <1>39, <1>40, <1>41, <1>42, <1>43, <1>44, <1>45,
       <1>46, <1>47, <1>48, <1>49 DEF Next

LEMMA NothingLostStep == Types /\ Kept /\ [Next]_vars => NothingLost'
<1> SUFFICES ASSUME Types, Kept, [Next]_vars PROVE NothingLost' OBVIOUS
<1>o. /\ opt \in Option /\ disk \subseteq Records /\ backend \in (SUBSET Records) \cup {None}
      /\ None \notin acked /\ overwritten \subseteq Records /\ onion \in Keys \cup {None}
      /\ NothingLost /\ Edited /\ Archived /\ waived \in BOOLEAN
  BY DEF Types, Kept
<1>1. ASSUME UNCHANGED <<acked, waived, kept, onion, disk, backend, overwritten>> PROVE NothingLost'
  BY <1>1, <1>o DEF NothingLost, Held
<1>10. CASE RestartTor
  <2>1. onion' # None /\ (onion # None => onion' = onion) /\ acked' = acked \cup {onion'}
        /\ UNCHANGED <<disk, backend, waived, kept, overwritten>>
    BY <1>10, <1>o DEF RestartTor
  <2> QED BY <2>1, <1>o DEF NothingLost, Held
<1>11. CASE ImportKey
  BY <1>11, <1>o DEF ImportKey, NothingLost, Held
<1>12. CASE ImportWrites
  BY <1>12, <1>o DEF ImportWrites, NothingLost, Held, Edited
<1>13. CASE StartServices
  BY <1>13, <1>o DEF StartServices, NothingLost, Held
<1>14. CASE Archive
  BY <1>14, <1>o DEF Archive, NothingLost, Held
<1>15. ASSUME NEW ok \in BOOLEAN, StopServer(ok) PROVE NothingLost'
  BY <1>15, <1>o DEF StopServer, NothingLost, Held
<1>16. CASE Purge
  BY <1>16, <1>o DEF Purge, NothingLost, Held, Archived
<1>17. ASSUME NEW r \in Records, ScriptWrites(r) PROVE NothingLost'
  BY <1>17, <1>o DEF ScriptWrites, NothingLost, Held, Edited, Option
<1>18. ASSUME NEW r \in Records, Submit(r) PROVE NothingLost'
  BY <1>18, <1>o DEF Submit, NothingLost, Held
<1>19. CASE StartBackend
  BY <1>19, <1>o DEF StartBackend, NothingLost, Held
<1>20. CASE StopBackend
  BY <1>20, <1>o DEF StopBackend, NothingLost, Held
<1>21. CASE Reboot
  BY <1>21, <1>o DEF Reboot, NothingLost, Held
<1>22. CASE StartInstall \/ MergeTorrc \/ Answers \/ WriteSeed \/ InstallFile \/
     Reload \/ GrantRestart \/ ImportReads
  BY <1>1, <1>22 DEF StartInstall, MergeTorrc, Answers, WriteSeed, InstallFile,
       Reload, GrantRestart, ImportReads
<1>23. CASE Build \/ Chown \/ EnableTimer \/ FirstCycle \/ StartTimer \/ FinishInstall \/
     StartReconcile \/ ReconcileFile \/ RemoveFiles
  BY <1>1, <1>23 DEF Build, Chown, EnableTimer, FirstCycle, StartTimer, FinishInstall,
       StartReconcile, ReconcileFile, RemoveFiles
<1>24. CASE StripTorrc \/ Fails \/ Age \/ Ship \/ EditTorrc
  BY <1>1, <1>24 DEF StripTorrc, Fails, Age, Ship, EditTorrc
<1>25. ASSUME NEW ok \in BOOLEAN, ReloadUnits(ok) \/ RestartTimers(ok) \/ ReloadNginx(ok) \/
     StopTimer(ok) \/ Cycle(ok) PROVE NothingLost'
  BY <1>1, <1>25 DEF ReloadUnits, RestartTimers, ReloadNginx, StopTimer, Cycle
<1>26. ASSUME NEW ask \in SUBSET {"data", "onion", "archive"}, StartUninstall(ask) PROVE
     NothingLost'
  BY <1>1, <1>26 DEF StartUninstall
<1>27. ASSUME NEW looks \in BOOLEAN, StartScript(looks) PROVE NothingLost'
  BY <1>1, <1>27 DEF StartScript
<1>28. ASSUME NEW f \in Files, EditFile(f) PROVE NothingLost'
  BY <1>1, <1>28 DEF EditFile
<1>29. CASE UNCHANGED vars BY <1>1, <1>29
<1>30. CASE Copy
  BY <1>30, <1>o DEF Copy, NothingLost, Held
<1> QED
  BY <1>10, <1>11, <1>12, <1>13, <1>14, <1>15, <1>16, <1>17, <1>18, <1>19, <1>20, <1>21,
       <1>22, <1>23, <1>24, <1>25, <1>26, <1>27, <1>28, <1>29, <1>30 DEF Next

(***************************************************************************)
(* A record whose storing was confirmed and a key that was in use are      *)
(* where the backend will find them or in an archive, through any number   *)
(* of installs, uninstalls, scripts, failures and reboots (saveStore of    *)
(* the backend, the archive of uninstall.mjs), but for what is waived and  *)
(* for what an installer overwrote with the store of its own checkout.     *)
(***************************************************************************)
THEOREM NothingIsLost == Spec => []NothingLost
<1>1. Init => Kept
  BY DEF Init, Kept, NothingLost, Held, Edited, Archived
<1>2. Safe /\ Kept /\ [Next]_vars => Kept'
  BY EditedStep, ArchivedStep, NothingLostStep DEF Kept, Safe
<1>3. Kept => NothingLost BY DEF Kept
<1> QED BY <1>1, <1>2, <1>3, InitSafe, SafeStep, PTL DEF Spec

-----------------------------------------------------------------------------
(***************************************************************************)
(* The steps: only mergeTorrc, stripTorrc and the operator write torrc.    *)
(***************************************************************************)
TorrcOK == torrc \in Seq(Line) /\ Neat(torrc)

Aside == torrc' = torrc /\ (at' = "purge" => at' = at)

LEMMA AsideStep ==
    ASSUME [Next]_vars
    PROVE  MergeTorrc \/ StripTorrc \/ EditTorrc \/ Aside
<1>1. SUFFICES ASSUME ~MergeTorrc, ~StripTorrc, ~EditTorrc PROVE Aside OBVIOUS
<1> USE DEF Aside
<1>10. CASE MergeTorrc
  BY <1>1, <1>10
<1>11. CASE StripTorrc
  BY <1>1, <1>11
<1>12. CASE EditTorrc
  BY <1>1, <1>12
<1>13. CASE StartInstall \/ ImportKey \/ RestartTor \/ Answers \/ Copy \/ WriteSeed \/
     InstallFile \/ Reload \/ GrantRestart
  BY <1>1, <1>13 DEF StartInstall, ImportKey, RestartTor, Answers, Copy, WriteSeed,
       InstallFile, Reload, GrantRestart
<1>14. CASE ImportReads \/ ImportWrites \/ Build \/ Chown \/ EnableTimer \/ StartServices \/
     FirstCycle \/ StartTimer \/ FinishInstall
  BY <1>1, <1>14 DEF ImportReads, ImportWrites, Build, Chown, EnableTimer, StartServices,
       FirstCycle, StartTimer, FinishInstall
<1>15. CASE StartReconcile \/ ReconcileFile \/ Archive \/ RemoveFiles \/ Purge \/ Fails \/
     Age \/ StartBackend \/ StopBackend
  BY <1>1, <1>15 DEF StartReconcile, ReconcileFile, Archive, RemoveFiles, Purge, Fails, Age,
       StartBackend, StopBackend
<1>16. CASE Reboot \/ Ship
  BY <1>1, <1>16 DEF Reboot, Ship
<1>17. ASSUME NEW ok \in BOOLEAN, ReloadUnits(ok) \/ RestartTimers(ok) \/ ReloadNginx(ok) \/
     StopTimer(ok) \/ StopServer(ok) \/ Cycle(ok) PROVE Aside
  BY <1>1, <1>17 DEF ReloadUnits, RestartTimers, ReloadNginx, StopTimer, StopServer, Cycle
<1>18. ASSUME NEW ask \in SUBSET {"data", "onion", "archive"}, StartUninstall(ask) PROVE
     Aside
  BY <1>1, <1>18 DEF StartUninstall
<1>19. ASSUME NEW looks \in BOOLEAN, StartScript(looks) PROVE Aside
  BY <1>1, <1>19 DEF StartScript
<1>20. ASSUME NEW r \in Records, ScriptWrites(r) \/ Submit(r) PROVE Aside
  BY <1>1, <1>20 DEF ScriptWrites, Submit
<1>21. ASSUME NEW f \in Files, EditFile(f) PROVE Aside
  BY <1>1, <1>21 DEF EditFile
<1>22. CASE UNCHANGED vars BY <1>1, <1>22
<1> QED
  BY <1>10, <1>11, <1>12, <1>13, <1>14, <1>15, <1>16, <1>17, <1>18, <1>19, <1>20, <1>21,
       <1>22 DEF Next

LEMMA InitTorrc == Init => TorrcOK
<1> SUFFICES ASSUME Init PROVE TorrcOK OBVIOUS
<1>1. torrc = <<"option">> \/ torrc = <<"option", "gap", "service">> BY DEF Init
<1>2. <<"option", "gap", "service">> = <<"option">> \o <<"gap", "service">> OBVIOUS
<1> QED BY <1>1, <1>2, SmallLines, PlainConcat DEF TorrcOK, Neat

LEMMA TorrcOKStep == TorrcOK /\ [Next]_vars => TorrcOK'
<1> SUFFICES ASSUME TorrcOK, [Next]_vars PROVE TorrcOK' OBVIOUS
<1> USE DEF TorrcOK
<1>1. CASE MergeTorrc
  <2>1. torrc' = Merged(torrc) BY <1>1 DEF MergeTorrc
  <2>2. Merged(torrc) \in Seq(Line) /\ Neat(Merged(torrc)) BY MergedIs
  <2> QED BY <2>1, <2>2
<1>2. CASE StripTorrc
  <2>1. torrc' = Stripped(torrc) BY <1>2 DEF StripTorrc
  <2>2. Stripped(torrc) \in Seq(Line) /\ Plain(Stripped(torrc)) BY StrippedIs
  <2> QED BY <2>1, <2>2 DEF Neat
<1>3. CASE EditTorrc
  <2>1. torrc' \in {Append(torrc, "service"), torrc \o <<"gap", "service">>, <<"option">> \o torrc}
    BY <1>3 DEF EditTorrc
  <2>2. Append(torrc, "service") = torrc \o <<"service">> BY AppendIsConcat, SmallLines
  <2>3. /\ torrc \o <<"service">> \in Seq(Line) /\ Neat(torrc \o <<"service">>)
        /\ torrc \o <<"gap", "service">> \in Seq(Line) /\ Neat(torrc \o <<"gap", "service">>)
        /\ <<"option">> \o torrc \in Seq(Line) /\ Neat(<<"option">> \o torrc)
    BY SmallLines, EditedNeat
  <2> QED BY <2>1, <2>2, <2>3
<1>4. CASE Aside BY <1>4 DEF Aside
<1> QED BY <1>1, <1>2, <1>3, <1>4, AsideStep

(***************************************************************************)
(* No step of a program loses a line of torrc that is not the installer's, *)
(* there is at most one block, and none after an uninstall (mergeTorrc and *)
(* stripTorrc), whatever the operator writes above and below it meanwhile; *)
(* but for his hidden service right below the block (Adjoins).             *)
(***************************************************************************)
THEOREM OperatorsLines == Spec => TorrcElse
<1> DEFINE P == /\ Adjoins(torrc) \/ Foreign(torrc') = Foreign(torrc)
                /\ \A i, j \in Marks(torrc') : i = j
                /\ at' = "purge" => Marks(torrc') = {}
<1>2. TorrcOK /\ [Next]_vars => [at' # at => P]_vars
  <2> SUFFICES ASSUME TorrcOK, [Next]_vars, at' # at PROVE P OBVIOUS
  <2>1. torrc \in Seq(Line) /\ Neat(torrc) /\ torrc' \in Seq(Line) /\ Neat(torrc')
    BY TorrcOKStep DEF TorrcOK
  <2>2. \A i, j \in Marks(torrc') : i = j BY <2>1, NeatMarks
  <2>3. CASE MergeTorrc
    <3>1. torrc' = Merged(torrc) /\ at' = "tor" BY <2>3 DEF MergeTorrc
    <3>2. ~Adjoins(torrc) => Foreign(Merged(torrc)) = Foreign(torrc) BY <2>1, MergedIs
    <3> QED BY <3>1, <3>2, <2>2
  <2>4. CASE StripTorrc
    <3>1. torrc' = Stripped(torrc) BY <2>4 DEF StripTorrc
    <3>2. /\ Plain(Stripped(torrc))
          /\ ~Adjoins(torrc) => Foreign(Stripped(torrc)) = Foreign(torrc)
      BY <2>1, StrippedIs
    <3>3. Marks(torrc') = {} BY <2>1, <3>1, <3>2, PlainMarks
    <3> QED BY <3>1, <3>2, <3>3, <2>2
  <2>5. CASE EditTorrc BY <2>5 DEF EditTorrc
  <2>6. CASE Aside BY <2>6, <2>2 DEF Aside
  <2> QED BY <2>3, <2>4, <2>5, <2>6, AsideStep
<1> QED BY <1>2, InitTorrc, TorrcOKStep, PTL DEF Spec, TorrcElse

(***************************************************************************)
(* Type correctness: the files under /etc, what systemd read and runs of   *)
(* them, and the flags, records and keys of the machine are what the code  *)
(* writes there (renderAndWrite, uninstall.mjs, the backend's store).      *)
(***************************************************************************)
THEOREM HostTypes == Spec => []TypeOK
<1>1. Safe /\ TorrcOK => TypeOK
  BY DEF Safe, Types, TorrcOK, FilesOK, TypeOK
<1> QED BY <1>1, InitSafe, SafeStep, InitTorrc, TorrcOKStep, PTL DEF Spec
=============================================================================
