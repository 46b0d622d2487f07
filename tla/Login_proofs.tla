---------------------------- MODULE Login_proofs ----------------------------
(***************************************************************************)
(* Proofs about the store that logins and domain claims share, by the two  *)
(* halves of the model that never meet in it.                              *)
(*                                                                         *)
(* Domains: every badge is backed by a record this instance saw, for any   *)
(* number of payment codes, domains and resolvers, as long as fewer        *)
(* resolvers lie than have to agree. BadgeProven is not inductive: the     *)
(* sweep stores a record built from the copy of the claim it took when it  *)
(* began, so the same must be known of the copies. A request's copy needs  *)
(* no such fact, as its handler overwrites the badge with the verdict.     *)
(*                                                                         *)
(* Login: for any number of challenges, sessions, handlers at work and     *)
(* restarts.                                                               *)
(***************************************************************************)
EXTENDS Login, Domains, FiniteSetTheorems, TLAPS

-----------------------------------------------------------------------------
(* Domains.                                                                *)

SweepProven ==
    \A c \in Codes :
        todo[c] # NoClaim /\ todo[c].verified
        => <<c, todo[c].domain>> \in proved

\* The claim a sweep is asking about is the one it still has to look at.
AskingListed == \A c \in asking : todo[c] # NoClaim

IInv == DomainsTypeOK /\ BadgeProven /\ SweepProven /\ AskingListed

(***************************************************************************)
(* txtRecordAgreed: resolvers that lie cannot make up a record among       *)
(* themselves when there are fewer of them than have to agree.             *)
(***************************************************************************)
LEMMA OkMeansPublished ==
    ASSUME NEW published \in BOOLEAN, "ok" \in Verdicts(published)
    PROVE  published
<1>1. PICK a \in [Resolvers -> Answers] :
           Truthful(a, published) /\ Verdict(a) = "ok"
      BY DEF Verdicts
<1> DEFINE agreed == {r \in Resolvers : a[r] = "match"}
<1>2. Cardinality(agreed) >= Agreement
      BY <1>1 DEF Verdict
<1>3. SUFFICES ASSUME ~published PROVE FALSE
      OBVIOUS
<1>4. agreed \subseteq Liars
      BY <1>1, <1>3 DEF Truthful
<1>5. IsFiniteSet(Liars)
      BY DomainsAssumption, FS_Subset
<1>6. Cardinality(agreed) <= Cardinality(Liars)
      BY <1>4, <1>5, FS_Subset
<1>7. Cardinality(agreed) \in Nat /\ Cardinality(Liars) \in Nat
      BY <1>4, <1>5, FS_Subset, FS_CardinalityType
<1> QED
      BY <1>2, <1>6, <1>7, DomainsAssumption

\* A claim after a check: only its flags and ages are new.
Checked(c, f, a, v) == [c EXCEPT !.age = a, !.fail = f, !.verified = v]

LEMMA CheckedKeeps ==
    ASSUME NEW c \in Claim, NEW f \in {Never} \cup 0..Grace,
           NEW a \in {Never} \cup 0..Recheck, NEW v \in BOOLEAN
    PROVE  /\ Checked(c, f, a, v) \in Claim
           /\ Checked(c, f, a, v).domain = c.domain
           /\ Checked(c, f, a, v).verified = v
  BY Zenon DEF Claim, Checked

(***************************************************************************)
(* Growing older changes no domain and no badge of a claim.                *)
(***************************************************************************)
LEMMA OlderKeeps ==
    ASSUME NEW c \in Claim \cup {NoClaim}
    PROVE  /\ Older(c) \in Claim \cup {NoClaim}
           /\ c = NoClaim => Older(c) = NoClaim
           /\ c # NoClaim => /\ Older(c) \in Claim
                             /\ Older(c).verified = c.verified
                             /\ Older(c).domain = c.domain
<1>1. CASE c = NoClaim
      BY <1>1 DEF Older
<1>2. CASE c # NoClaim
  <2> DEFINE f == IF c.fail \in {Never, Grace} THEN c.fail ELSE c.fail + 1
             a == IF c.age \in {Never, Recheck} THEN c.age ELSE c.age + 1
  <2>1. c \in Claim /\ c.verified \in BOOLEAN
        BY <1>2 DEF Claim
  <2>2. Older(c) = Checked(c, f, a, c.verified)
        BY <1>2, <2>1 DEF Older, Claim, Checked
  <2>3. c.fail \in {Never} \cup 0..Grace /\ c.age \in {Never} \cup 0..Recheck
        BY <2>1 DEF Claim
  <2>4. f \in {Never} \cup 0..Grace /\ a \in {Never} \cup 0..Recheck
        BY <2>3, DomainsAssumption DEF Never
  <2> HIDE DEF f, a
  <2> QED
        BY SMTT(30), <1>2, <2>1, <2>2, <2>4, CheckedKeeps
<1> QED
      BY <1>1, <1>2

(***************************************************************************)
(* What the sweep stores: applyRecheck changes no domain, and gives a      *)
(* badge only for the verdict "ok".                                        *)
(***************************************************************************)
LEMMA ApplyRecheckKeeps ==
    ASSUME NEW c \in Claim, NEW v \in {"ok", "absent", "inconclusive"}
    PROVE  /\ ApplyRecheck(c, v) \in Claim
           /\ ApplyRecheck(c, v).domain = c.domain
           /\ ApplyRecheck(c, v).verified => v = "ok" \/ c.verified
<1>1. /\ c.verified \in BOOLEAN
      /\ c.fail \in {Never} \cup 0..Grace
      /\ 0 \in {Never} \cup 0..Recheck /\ Never \in {Never} \cup 0..Grace
      /\ TRUE \in BOOLEAN
      BY DomainsAssumption DEF Claim
<1>2. CASE v = "ok"
  <2>1. ApplyRecheck(c, v) = Checked(c, Never, 0, TRUE)
        BY <1>2 DEF ApplyRecheck, Claim, Checked
  <2>2. Checked(c, Never, 0, TRUE) \in Claim
        BY <1>1, CheckedKeeps, Zenon
  <2>3. Checked(c, Never, 0, TRUE).domain = c.domain
        BY <1>1, CheckedKeeps, Zenon
  <2> QED
        BY <1>2, <2>1, <2>2, <2>3
<1>3. CASE v = "inconclusive"
  <2>1. ApplyRecheck(c, v) = Checked(c, c.fail, 0, c.verified)
        BY <1>3 DEF ApplyRecheck, Claim, Checked
  <2>2. Checked(c, c.fail, 0, c.verified) \in Claim
        BY <1>1, CheckedKeeps
  <2>3. Checked(c, c.fail, 0, c.verified).domain = c.domain
        BY <1>1, CheckedKeeps
  <2>4. Checked(c, c.fail, 0, c.verified).verified = c.verified
        BY <1>1, CheckedKeeps
  <2> QED
        BY <2>1, <2>2, <2>3, <2>4, Zenon
<1>4. CASE v = "absent"
  <2> DEFINE f == IF c.fail = Never THEN 0 ELSE c.fail
             b == c.verified /\ f < Grace
  <2>1. ApplyRecheck(c, v) = Checked(c, f, 0, b)
        BY <1>4 DEF ApplyRecheck, Claim, Checked
  <2>2. f \in {Never} \cup 0..Grace
        BY <1>1, DomainsAssumption DEF Never
  <2>3. b \in BOOLEAN /\ (b => c.verified)
        OBVIOUS
  <2> HIDE DEF f, b
  <2> QED
        BY <1>1, <2>1, <2>2, <2>3, CheckedKeeps
<1> QED
      BY <1>2, <1>3, <1>4

-----------------------------------------------------------------------------
(***************************************************************************)
(* One action at a time.                                                   *)
(***************************************************************************)
\* Storing a claim whose badge is proven keeps every badge proven.
LEMMA PutKeeps ==
    ASSUME DomainsTypeOK, BadgeProven, DomainsTypeOK',
           NEW code \in Codes, NEW c \in Claim \cup {NoClaim}, PutDomain(code, c),
           proved \subseteq proved',
           c # NoClaim /\ c.verified => <<code, c.domain>> \in proved'
    PROVE  BadgeProven'
<1> SUFFICES ASSUME NEW k \in Codes, claims'[k] # NoClaim, claims'[k].verified
             PROVE  <<k, claims'[k].domain>> \in proved'
    BY DEF BadgeProven
<1>1. CASE k = code
      BY <1>1 DEF PutDomain, DomainsTypeOK
<1>2. CASE k # code
  <2>1. claims'[k] = claims[k]
        BY <1>2 DEF PutDomain, DomainsTypeOK
  <2> QED
        BY <2>1 DEF BadgeProven
<1> QED
      BY <1>1, <1>2

\* A verdict "ok" is remembered.
LEMMA WitnessKeeps ==
    ASSUME DomainsTypeOK, NEW code \in Codes, NEW d \in DomainNames, Witness(code, d)
    PROVE  /\ proved \subseteq proved' /\ proved' \subseteq Codes \X DomainNames
           /\ "ok" \in Verdicts(Published(code, d)) => <<code, d>> \in proved'
<1>1. Published(code, d) \in BOOLEAN
      BY DEF Published
<1>2. "ok" \in Verdicts(Published(code, d)) => Published(code, d)
      BY <1>1, OkMeansPublished
<1> QED
      BY <1>2 DEF Witness, Published, DomainsTypeOK

LEMMA InitIInv == DomainsInit => IInv
  BY DEF DomainsInit, IInv, DomainsTypeOK, BadgeProven, SweepProven, AskingListed, Request, NoRequest

LEMMA SubmitKeeps ==
    ASSUME IInv, NEW code \in Codes, NEW v \in {"ok", "absent", "inconclusive"},
           SubmitAnswered(code, v)
    PROVE  IInv'
<1> DEFINE d == req[code].domain
           c == [domain |-> d, verified |-> v = "ok", revoked |-> FALSE,
                 fail |-> Never, age |-> IF v = "ok" THEN 0 ELSE Never]
<1>1. /\ d \in DomainNames /\ v \in Verdicts(Published(code, d))
      /\ PutDomain(code, c) /\ Witness(code, d)
      /\ req' = [req EXCEPT ![code] = NoRequest] /\ UNCHANGED <<txt, todo, asking>>
      BY DEF SubmitAnswered, IInv, DomainsTypeOK, Request, NoRequest
<1>2. c \in Claim /\ c.domain = d /\ c.verified = (v = "ok")
      BY <1>1, DomainsAssumption DEF Claim, Never
<1> HIDE DEF c, d
<1>3. /\ proved \subseteq proved' /\ proved' \subseteq Codes \X DomainNames
      /\ v = "ok" => <<code, d>> \in proved'
      BY <1>1, WitnessKeeps DEF IInv
<1>4. DomainsTypeOK'
      BY <1>1, <1>2, <1>3 DEF IInv, DomainsTypeOK, PutDomain, Request
<1>5. BadgeProven'
      BY <1>1, <1>2, <1>3, <1>4, PutKeeps DEF IInv
<1>6. SweepProven'
      BY <1>1, <1>3 DEF IInv, SweepProven
<1>7. AskingListed'
      BY <1>1 DEF IInv, AskingListed
<1> QED
      BY <1>4, <1>5, <1>6, <1>7 DEF IInv

LEMMA RecheckKeeps ==
    ASSUME IInv, NEW code \in Codes, NEW v \in {"ok", "absent", "inconclusive"},
           RecheckAnswered(code, v)
    PROVE  IInv'
<1> DEFINE old == req[code].claim
           d == old.domain
           c == [old EXCEPT !.verified = (v = "ok"),
                            !.fail = IF v = "ok" THEN Never ELSE @]
<1>1. /\ old \in Claim /\ v \in Verdicts(Published(code, d))
      /\ PutDomain(code, c) /\ Witness(code, d)
      /\ req' = [req EXCEPT ![code] = NoRequest] /\ UNCHANGED <<txt, todo, asking>>
      BY DEF RecheckAnswered, IInv, DomainsTypeOK, Request, NoRequest
<1>2. c \in Claim /\ c.domain = d /\ c.verified = (v = "ok") /\ d \in DomainNames
      BY <1>1, DomainsAssumption DEF Claim, Never
<1> HIDE DEF c, d, old
<1>3. /\ proved \subseteq proved' /\ proved' \subseteq Codes \X DomainNames
      /\ v = "ok" => <<code, d>> \in proved'
      BY <1>1, <1>2, WitnessKeeps DEF IInv
<1>4. DomainsTypeOK'
      BY <1>1, <1>2, <1>3 DEF IInv, DomainsTypeOK, PutDomain, Request
<1>5. BadgeProven'
      BY <1>1, <1>2, <1>3, <1>4, PutKeeps DEF IInv
<1>6. SweepProven'
      BY <1>1, <1>3 DEF IInv, SweepProven
<1>7. AskingListed'
      BY <1>1 DEF IInv, AskingListed
<1> QED
      BY <1>4, <1>5, <1>6, <1>7 DEF IInv

LEMMA SweepKeeps ==
    ASSUME IInv, NEW code \in Codes, NEW v \in {"ok", "absent", "inconclusive"},
           SweepAnswered(code, v)
    PROVE  IInv'
<1> DEFINE old == todo[code]
           c == ApplyRecheck(old, v)
<1>1. /\ old \in Claim /\ old # NoClaim /\ v \in Verdicts(Published(code, old.domain))
      /\ PutDomain(code, c) /\ Witness(code, old.domain) /\ asking' = {}
      /\ todo' = [todo EXCEPT ![code] = NoClaim] /\ UNCHANGED <<txt, req>>
      BY DEF SweepAnswered, IInv, DomainsTypeOK, AskingListed
<1>2. c \in Claim /\ c.domain = old.domain /\ (c.verified => v = "ok" \/ old.verified)
      BY <1>1, ApplyRecheckKeeps, Zenon
<1>3. old.domain \in DomainNames
      BY <1>1 DEF Claim
<1>4. old.verified => <<code, old.domain>> \in proved
      BY <1>1 DEF IInv, SweepProven
<1> HIDE DEF c, old
<1>5. /\ proved \subseteq proved' /\ proved' \subseteq Codes \X DomainNames
      /\ v = "ok" => <<code, old.domain>> \in proved'
      BY <1>1, <1>3, WitnessKeeps DEF IInv
<1>6. c.verified => <<code, c.domain>> \in proved'
      BY <1>2, <1>4, <1>5
<1>7. DomainsTypeOK'
      BY <1>1, <1>2, <1>5 DEF IInv, DomainsTypeOK, PutDomain
<1>8. BadgeProven'
      BY <1>1, <1>2, <1>5, <1>6, <1>7, PutKeeps DEF IInv
<1>9. SweepProven' /\ AskingListed'
      BY <1>1, <1>5 DEF IInv, SweepProven, AskingListed, DomainsTypeOK
<1> QED
      BY <1>7, <1>8, <1>9 DEF IInv

\* The handlers that write a claim without asking anyone.
LEMMA StoreKeeps ==
    ASSUME IInv, NEW code \in Codes,
           \/ \E d \in DomainNames : Import(code, d)
           \/ Delete(code) \/ Revoke(code)
    PROVE  IInv'
<1>1. PICK c \in Claim \cup {NoClaim} :
           /\ PutDomain(code, c) /\ (c # NoClaim => ~c.verified)
           /\ UNCHANGED <<txt, todo, asking, req, proved>>
  <2>1. CASE \E d \in DomainNames : Import(code, d)
    <3>1. PICK d \in DomainNames : Import(code, d)
          BY <2>1
    <3> DEFINE c == [domain |-> d, verified |-> FALSE, revoked |-> FALSE,
                     fail |-> Never, age |-> Never]
    <3>2. c \in Claim /\ ~c.verified
          BY DEF Claim, Never
    <3>3. PutDomain(code, c) /\ UNCHANGED <<txt, todo, asking, req, proved>>
          BY <3>1 DEF Import
    <3> HIDE DEF c
    <3> QED
          BY <3>2, <3>3
  <2>2. CASE Delete(code)
        BY <2>2 DEF Delete
  <2>3. CASE Revoke(code)
    <3> DEFINE c == [claims[code] EXCEPT !.verified = FALSE, !.revoked = TRUE, !.age = 0]
    <3>1. claims[code] \in Claim
          BY <2>3 DEF Revoke, IInv, DomainsTypeOK
    <3>2. 0 \in {Never} \cup 0..Recheck /\ TRUE \in BOOLEAN /\ FALSE \in BOOLEAN
          BY DomainsAssumption
    <3>3. c \in Claim
          BY <3>1, <3>2, Zenon DEF Claim
    <3>4. ~c.verified
          BY <3>1, Zenon DEF Claim
    <3>5. PutDomain(code, c) /\ UNCHANGED <<txt, todo, asking, req, proved>>
          BY <2>3 DEF Revoke
    <3> HIDE DEF c
    <3> QED
          BY <3>3, <3>4, <3>5
  <2> QED
        BY <2>1, <2>2, <2>3
<1>2. DomainsTypeOK'
      BY <1>1 DEF IInv, DomainsTypeOK, PutDomain
<1>3. BadgeProven'
      BY <1>1, <1>2, PutKeeps DEF IInv
<1>4. SweepProven' /\ AskingListed'
      BY <1>1 DEF IInv, SweepProven, AskingListed
<1> QED
      BY <1>2, <1>3, <1>4 DEF IInv

\* Time passes over the claims and over every copy of them alike.
LEMMA TickKeeps ==
    ASSUME IInv, Tick
    PROVE  IInv'
<1>1. \A c \in Codes : claims'[c] = Older(claims[c]) /\ claims[c] \in Claim \cup {NoClaim}
      BY DEF Tick, IInv, DomainsTypeOK
<1>2. claims' \in [Codes -> Claim \cup {NoClaim}] /\ BadgeProven'
  <2>1. ASSUME NEW c \in Codes PROVE claims'[c] \in Claim \cup {NoClaim}
        BY <1>1, OlderKeeps
  <2>2. claims' \in [Codes -> Claim \cup {NoClaim}]
        BY <2>1 DEF Tick
  <2>3. ASSUME NEW c \in Codes, claims'[c] # NoClaim, claims'[c].verified
        PROVE  <<c, claims'[c].domain>> \in proved'
    <3>1. claims[c] # NoClaim
          BY <1>1, <2>3, OlderKeeps
    <3>2. claims'[c].verified = claims[c].verified /\ claims'[c].domain = claims[c].domain
          BY <1>1, <3>1, OlderKeeps
    <3> QED
          BY <2>3, <3>1, <3>2 DEF IInv, BadgeProven, Tick
  <2> QED
        BY <2>2, <2>3 DEF BadgeProven
<1>3. ASSUME NEW c \in Codes
      PROVE  /\ todo'[c] \in Claim \cup {NoClaim}
             /\ todo[c] = NoClaim => c \notin asking /\ todo'[c] = NoClaim
             /\ todo[c] # NoClaim => /\ todo'[c].verified = todo[c].verified
                                     /\ todo'[c].domain = todo[c].domain
                                     /\ c \in asking => todo'[c] # NoClaim
  <2>1. todo[c] \in Claim \cup {NoClaim}
        BY DEF IInv, DomainsTypeOK
  <2>2. CASE c \in asking
    <3>1. todo'[c] = [Older(todo[c]) EXCEPT !.age = 0] /\ todo[c] # NoClaim
          BY <2>2 DEF Tick, IInv, AskingListed
    <3>2. Older(todo[c]) \in Claim /\ Older(todo[c]).verified = todo[c].verified
          /\ Older(todo[c]).domain = todo[c].domain
          BY <2>1, <3>1, OlderKeeps
    <3> DEFINE old == Older(todo[c])
               new == [old EXCEPT !.age = 0]
    <3>3. new \in Claim
          BY <3>2, DomainsAssumption DEF Claim
    <3>4. new.domain = old.domain /\ new.verified = old.verified
          BY <3>2, Zenon DEF Claim
    <3>5. new # NoClaim /\ todo'[c] = new
          BY <3>1, <3>3, NoClaimAssumption
    <3> HIDE DEF new, old
    <3>6. todo'[c].domain = old.domain /\ todo'[c].verified = old.verified
          BY <3>4, <3>5, Zenon
    <3> QED
          BY <3>1, <3>2, <3>3, <3>5, <3>6 DEF old
  <2>3. CASE c \notin asking
        BY <2>1, <2>3, OlderKeeps DEF Tick
  <2> QED
        BY <2>2, <2>3
<1>4. req' \in [Codes -> Request]
  <2>1. ASSUME NEW c \in Codes PROVE OlderRequest(req[c]) \in Request
    <3>1. req[c] \in Request
          BY DEF IInv, DomainsTypeOK
    <3>2. CASE req[c].kind # "recheck"
          BY <3>1, <3>2 DEF OlderRequest
    <3>3. CASE req[c].kind = "recheck"
      <4> DEFINE old == req[c].claim
                 new == [Older(old) EXCEPT !.age = 0]
      <4>1. req[c] = [kind |-> "recheck", claim |-> old] /\ old \in Claim
            BY <3>1, <3>3 DEF Request, NoRequest
      <4>2. old # NoClaim
            BY <4>1, NoClaimAssumption
      <4>3. Older(old) \in Claim
            BY <4>1, <4>2, OlderKeeps
      <4>4. new \in Claim
            BY <4>3, DomainsAssumption DEF Claim
      <4>5. OlderRequest(req[c]) = [kind |-> "recheck", claim |-> new]
            BY <3>3, <4>1 DEF OlderRequest
      <4> HIDE DEF new
      <4> QED
            BY <4>4, <4>5 DEF Request
    <3> QED
          BY <3>2, <3>3
  <2> QED
        BY <2>1 DEF Tick
<1>5. DomainsTypeOK'
      BY <1>2, <1>3, <1>4 DEF IInv, DomainsTypeOK, Tick
<1>6. SweepProven'
  <2> SUFFICES ASSUME NEW c \in Codes, todo'[c] # NoClaim, todo'[c].verified
               PROVE  <<c, todo'[c].domain>> \in proved'
      BY DEF SweepProven
  <2>1. todo[c] # NoClaim /\ todo'[c].domain = todo[c].domain /\ todo[c].verified
        BY <1>3
  <2> QED
        BY <2>1 DEF IInv, SweepProven, Tick
<1>7. AskingListed'
      BY <1>3 DEF IInv, DomainsTypeOK, AskingListed, Tick
<1> QED
      BY <1>2, <1>5, <1>6, <1>7 DEF IInv

-----------------------------------------------------------------------------
LEMMA NextKeeps == IInv /\ [DomainsNext]_domains => IInv'
<1> SUFFICES ASSUME IInv, [DomainsNext]_domains PROVE IInv'
    OBVIOUS
<1>1. CASE UNCHANGED domains
      BY <1>1 DEF domains, IInv, DomainsTypeOK, BadgeProven, SweepProven, AskingListed
<1>2. CASE Tick
      BY <1>2, TickKeeps
<1>3. CASE Restart
      BY <1>3 DEF Restart, IInv, DomainsTypeOK, BadgeProven, SweepProven, AskingListed,
                  Request, NoRequest
<1>4. CASE Humans
  <2> PICK code \in Codes :
          \/ \E d \in DomainNames : EditZone(code, d) \/ Submit(code, d) \/ Import(code, d)
          \/ AskRecheck(code) \/ Delete(code) \/ Revoke(code)
      BY <1>4 DEF Humans
  <2>1. ASSUME NEW d \in DomainNames, EditZone(code, d) PROVE IInv'
        BY <2>1 DEF EditZone, IInv, DomainsTypeOK, BadgeProven, SweepProven, AskingListed
  <2>2. ASSUME NEW d \in DomainNames, Submit(code, d) PROVE IInv'
        BY <2>2 DEF Submit, IInv, DomainsTypeOK, BadgeProven, SweepProven, AskingListed, Request
  <2>3. CASE AskRecheck(code)
    <3> DEFINE c == [claims[code] EXCEPT !.age = 0]
    <3>1. claims[code] \in Claim
          BY <2>3 DEF AskRecheck, IInv, DomainsTypeOK
    <3>2. c \in Claim
          BY <3>1, DomainsAssumption DEF Claim
    <3>3. /\ req' = [req EXCEPT ![code] = [kind |-> "recheck", claim |-> c]]
          /\ UNCHANGED <<claims, txt, todo, asking, proved>>
          BY <2>3 DEF AskRecheck
    <3> HIDE DEF c
    <3> QED
          BY <3>2, <3>3 DEF IInv, DomainsTypeOK, BadgeProven, SweepProven, AskingListed, Request
  <2> QED
        BY <2>1, <2>2, <2>3, StoreKeeps
<1>5. CASE Backend
  <2>1. CASE StartSweep
        BY <2>1 DEF StartSweep, IInv, DomainsTypeOK, BadgeProven, SweepProven, AskingListed
  <2>2. ASSUME NEW code \in Codes, SweepSkip(code) PROVE IInv'
        BY <2>2 DEF SweepSkip, IInv, DomainsTypeOK, BadgeProven, SweepProven, AskingListed
  <2>3. ASSUME NEW code \in Codes, SweepAsk(code) PROVE IInv'
    <3> DEFINE old == todo[code]
               c == [old EXCEPT !.age = 0]
    <3>1. old \in Claim
          BY <2>3 DEF SweepAsk, IInv, DomainsTypeOK
    <3>2. c \in Claim
          BY <3>1, DomainsAssumption DEF Claim
    <3>3. c.domain = old.domain
          BY <3>1 DEF Claim
    <3>4. c.verified = old.verified
          BY <3>1, Zenon DEF Claim
    <3>5. /\ todo' = [todo EXCEPT ![code] = c] /\ asking' = {code}
          /\ UNCHANGED <<claims, txt, req, proved>> /\ old # NoClaim
          BY <2>3 DEF SweepAsk
    <3>6. c # NoClaim
          BY <3>2, NoClaimAssumption
    <3> HIDE DEF c
    <3>7. DomainsTypeOK' /\ AskingListed' /\ BadgeProven'
          BY <3>2, <3>5, <3>6 DEF IInv, DomainsTypeOK, AskingListed, BadgeProven
    <3>8. c.verified => <<code, c.domain>> \in proved
          BY <3>3, <3>4, <3>5 DEF IInv, SweepProven
    <3>9. SweepProven'
          BY <3>5, <3>8 DEF IInv, DomainsTypeOK, SweepProven
    <3> QED
          BY <3>7, <3>9 DEF IInv
  <2> QED
        BY <1>5, <2>1, <2>2, <2>3, SubmitKeeps, RecheckKeeps, SweepKeeps DEF Backend
<1> QED
      BY <1>1, <1>2, <1>3, <1>4, <1>5 DEF DomainsNext

(***************************************************************************)
(* The claims, the zone, the requests and the sweep always have the shapes *)
(* the handlers and sweepDomains give them, whatever they are interrupted  *)
(* by.                                                                     *)
(***************************************************************************)
THEOREM ClaimsTyped == DomainsSpec => []DomainsTypeOK
<1>1. IInv => DomainsTypeOK
      BY DEF IInv
<1> QED
      BY InitIInv, NextKeeps, <1>1, PTL DEF DomainsSpec

(***************************************************************************)
(* Every badge is backed by a record this instance itself saw published,   *)
(* although the sweep and the handlers store what they were told of a      *)
(* claim that may have changed meanwhile.                                  *)
(***************************************************************************)
THEOREM BadgesProven == DomainsSpec => []BadgeProven
<1>1. IInv => BadgeProven
      BY DEF IInv
<1> QED
      BY InitIInv, NextKeeps, <1>1, PTL DEF DomainsSpec

-----------------------------------------------------------------------------
(* Login.                                                                  *)

(***************************************************************************)
(* The stores somebody may still read: the file, the cache, and the        *)
(* snapshots that may still become the file.                               *)
(***************************************************************************)
Saving(k) == call[k].at = "save"
Kept(k)   == Saving(k) /\ k \notin late

Live == {disk} \cup {s \in {mem} : s # NoStore} \cup {call[k].buf : k \in {j \in Calls : Kept(j)}}

\* What a call has made of the store, and the stores made since.
Since(k) == {call[k].buf, mem} \cup {call[j].buf : j \in newer[k]}

\* A session that neither lapsed nor was reached by a logout.
Alive(i) == i \notin leaving /\ Session(i) \notin lapsed

Unclaimed(i, s) == \A c \in Challenges : s.claims[c] # i

(***************************************************************************)
(* The invariant. Which operations a call may be at, and for what:         *)
(***************************************************************************)
Firsts == {"gc", "take", "pick", "drop", "look", "other"}

Fit(o, c, i) == /\ o # "other" => c \in Challenges
                /\ o \in {"session", "claim", "drop", "look"} => i \in Sids

Fits(k) ==
    call[k] # Idle =>
        /\ Fit(call[k].op, call[k].c, call[k].sid)
        /\ IF Saving(k) THEN /\ call[k].op = "pick" => call[k].sid \in Sids
                             /\ call[k].op = "drop" => call[k].sid \in leaving
                        ELSE call[k].op \in Firsts

\* the snapshots under way are ordered, and the calls that wait for the file
\* have what is in it;
Ordered ==
    /\ late \subseteq {k \in Calls : Saving(k)}
    /\ \A k \in Calls : /\ newer[k] \subseteq {j \in Calls : Saving(j)} \ {k}
                        /\ ~Saving(k) => newer[k] = {}
    /\ \A j, k \in Calls : Saving(j) /\ Saving(k) /\ j # k => j \in newer[k] \/ k \in newer[j]
    /\ mem = NoStore => \A k \in Calls : /\ ~Saving(k)
                                         /\ call[k].at = "loaded" => call[k].buf = disk

(***************************************************************************)
(* and, as long as no load and no rename lost anything: in every store a   *)
(* claim is of a session of its own,                                       *)
(***************************************************************************)
Sound(s) ==
    \A c \in Challenges : s.claims[c] \in Sids =>
        /\ \A d \in Challenges : s.claims[d] = s.claims[c] => c = d
        /\ Alive(s.claims[c]) => s.claims[c] \in s.sessions

\* a challenge that is being made is nobody else's yet,
Birth(k) ==
    call[k] # Idle /\ call[k].op = "gc" =>
        /\ page[call[k].c] = "none" /\ made[call[k].c] = 0
        /\ \A j \in Calls : call[j] # Idle /\ call[j].c = call[k].c => j = k

\* nor is a session that was made and is to be claimed,
Claiming(k) ==
    Saving(k) /\ call[k].op = "session" =>
        /\ handed[call[k].sid] = 0
        /\ \A c \in Challenges : page[c] # call[k].sid
        /\ \A s \in Contents : Unclaimed(call[k].sid, s)
        /\ \A j \in Calls : call[j] # Idle /\ call[j].sid = call[k].sid => j = k

\* what a call did to the store stays done in every store made since,
Done(k, s) ==
    /\ call[k].op = "take" => call[k].c \notin s.nonces
    /\ call[k].op \in {"session", "pick"} /\ Alive(call[k].sid) => call[k].sid \in s.sessions
    /\ call[k].op = "pick" => Unclaimed(call[k].sid, s)
    /\ call[k].op = "drop" => call[k].sid \notin s.sessions

\* nothing is taken or picked up twice,
First(k) ==
    /\ call[k].op = "take" =>
         /\ made[call[k].c] = 0
         /\ \A j \in Calls : Kept(j) /\ call[j].op = "take" /\ call[j].c = call[k].c => j = k
    /\ call[k].op = "pick" =>
         /\ handed[call[k].sid] = 0
         /\ \A j \in Calls : Kept(j) /\ call[j].op = "pick" /\ call[j].sid = call[k].sid => j = k

\* and no store contradicts what has been told.
Agrees(s) ==
    /\ \A c \in Challenges : made[c] # 0 => c \notin s.nonces
    /\ \A i \in Sids : handed[i] # 0 => Unclaimed(i, s)
    /\ \A i \in out : i \notin s.sessions
    /\ \A c \in Challenges : page[c] \in Sids /\ Alive(page[c]) => page[c] \in s.sessions

Once == (\A c \in Challenges : made[c] \in {0, 1}) /\ (\A i \in Sids : handed[i] \in {0, 1})

Orderly ==
    /\ \A s \in Contents : Sound(s)
    /\ \A k \in Calls : Birth(k) /\ Claiming(k)
    /\ \A k \in Calls : Kept(k) => First(k) /\ \A s \in Since(k) : Done(k, s)
    /\ \A s \in Live : Agrees(s)
    /\ Once

Good  == ~overwrote /\ ~reordered
Shape == TypeOK /\ Ordered /\ \A k \in Calls : Fits(k)
LInv  == Shape /\ (Good => Orderly)

(***************************************************************************)
(* The operations on the store. All but those that store a nonce, a session*)
(* or a claim take something out, or leave it alone.                       *)
(***************************************************************************)
Shrunk(s, t) ==
    /\ t \in Content
    /\ t.nonces \subseteq s.nonces /\ t.sessions \subseteq s.sessions
    /\ \A c \in Challenges : t.claims[c] \in {s.claims[c], None}

LEMMA Fields ==
    ASSUME NEW s \in Content
    PROVE  /\ s.nonces \subseteq Challenges /\ s.sessions \subseteq Sids
           /\ s.claims \in [Challenges -> Sids \cup {None}]
           /\ \A c \in Challenges : s.claims[c] \in Sids \cup {None}
  BY DEF Content

LEMMA BlankContent ==
    Blank \in Content /\ Blank.nonces = {} /\ Blank.sessions = {}
    /\ \A c \in Challenges : Blank.claims[c] = None
  BY DEF Blank, Content

LEMMA PrunedShrinks ==
    ASSUME NEW s \in Content
    PROVE  Shrunk(s, Pruned(s)) /\ Pruned(s).sessions = s.sessions
  BY DEF Content, Pruned, Shrunk

LEMMA TakeNonceShrinks ==
    ASSUME NEW s \in Content, NEW c \in Challenges
    PROVE  /\ Shrunk(s, TakeNonce(s, c)) /\ TakeNonce(s, c).sessions = s.sessions
           /\ c \notin TakeNonce(s, c).nonces
  BY DEF Content, TakeNonce, Shrunk

LEMMA TakeClaimShrinks ==
    ASSUME NEW s \in Content, NEW c \in Challenges
    PROVE  /\ Shrunk(s, TakeClaim(s, c)) /\ TakeClaim(s, c).sessions = s.sessions
           /\ TakeClaim(s, c).claims[c] = None
  BY DEF Content, TakeClaim, Shrunk

LEMMA DropSessionShrinks ==
    ASSUME NEW s \in Content, NEW i \in Sids
    PROVE  Shrunk(s, DropSession(s, i)) /\ DropSession(s, i).sessions = s.sessions \ {i}
  BY DEF Content, DropSession, Shrunk

LEMMA PutNonceAdds ==
    ASSUME NEW s \in Content, NEW c \in Challenges
    PROVE  /\ PutNonce(s, c) \in Content /\ PutNonce(s, c).nonces = s.nonces \cup {c}
           /\ PutNonce(s, c).claims = s.claims /\ PutNonce(s, c).sessions = s.sessions
  BY DEF Content, PutNonce

LEMMA PutSessionAdds ==
    ASSUME NEW s \in Content, NEW i \in Sids
    PROVE  /\ PutSession(s, i) \in Content /\ PutSession(s, i).sessions = s.sessions \cup {i}
           /\ PutSession(s, i).claims = s.claims /\ PutSession(s, i).nonces = s.nonces
  BY DEF Content, PutSession

LEMMA PutClaimAdds ==
    ASSUME NEW s \in Content, NEW c \in Challenges, NEW i \in Sids
    PROVE  /\ PutClaim(s, c, i) \in Content
           /\ PutClaim(s, c, i).nonces = s.nonces /\ PutClaim(s, c, i).sessions = s.sessions
           /\ PutClaim(s, c, i).claims[c] = i
           /\ \A d \in Challenges : d # c => PutClaim(s, c, i).claims[d] = s.claims[d]
  BY DEF Content, PutClaim

LEMMA SameShrinks == ASSUME NEW s \in Content PROVE Shrunk(s, s)
  BY DEF Content, Shrunk

LEMMA Stamps ==
    ASSUME NEW i, NEW j, NEW c, NEW d
    PROVE  /\ Session(i) # Nonce(c) /\ Session(i) # Claimed(c) /\ Nonce(c) # Claimed(d)
           /\ Session(i) = Session(j) <=> i = j
  BY DEF Session, Nonce, Claimed

(***************************************************************************)
(* The calls.                                                              *)
(***************************************************************************)
Act == [at: {"load", "loaded", "save"}, op: Ops, c: Challenges \cup {None},
        sid: Sids \cup {None}, buf: Content]

Record(a, o, c, i, s) == [at |-> a, op |-> o, c |-> c, sid |-> i, buf |-> s]

LEMMA RecordFields ==
    ASSUME NEW a, NEW o, NEW c, NEW i, NEW s
    PROVE  LET r == Record(a, o, c, i, s) IN
             /\ r.at = a /\ r.op = o /\ r.c = c /\ r.sid = i /\ r.buf = s
             /\ (/\ a \in {"load", "loaded", "save"} /\ o \in Ops
                 /\ c \in Challenges \cup {None} /\ i \in Sids \cup {None} /\ s \in Content
                 => r \in Act)
  BY DEF Record, Act

LEMMA ActFields ==
    /\ Idle \notin Act /\ Idle.at = "idle"
    /\ \A r \in Act :
         /\ r.at \in {"load", "loaded", "save"} /\ r.op \in Ops /\ r.buf \in Content
         /\ r.c \in Challenges \cup {None} /\ r.sid \in Sids \cup {None}
         /\ r # Idle
  BY DEF Idle, Act

LEMMA CallTypes ==
    ASSUME TypeOK, NEW k \in Calls
    PROVE  /\ call[k] = Idle \/ call[k] \in Act
           /\ call[k] # Idle <=> call[k].at \in {"load", "loaded", "save"}
           /\ call[k] # Idle =>
                /\ call[k].op \in Ops /\ call[k].buf \in Content
                /\ call[k].c \in Challenges \cup {None} /\ call[k].sid \in Sids \cup {None}
  <1>1. call[k] = Idle \/ call[k] \in Act
    BY DEF TypeOK, Act
  <1> QED BY <1>1, ActFields

(***************************************************************************)
(* What one step of a call does to the calls, whatever it does to the      *)
(* store: it ends, or waits with a snapshot that is newer than all others; *)
(* and the snapshot it waited with has become the file, or never will.     *)
(***************************************************************************)
Put(k, new, t) ==
    /\ mem' = t
    /\ call' = [call EXCEPT ![k] = new]
    /\ newer' = [j \in Calls |->
                   IF j = k THEN {}
                   ELSE IF new.at = "save" /\ call[j].at = "save" THEN newer[j] \cup {k}
                   ELSE newer[j] \ {k}]

Stays(k)   == disk' = disk /\ late' = late \ {k}
Becomes(k) == /\ Saving(k)
              /\ disk' = call[k].buf
              /\ late' = (late \cup {j \in Calls : k \in newer[j]}) \ {k}

Waits(new, t) == new \in Act /\ new.at = "save" /\ new.buf = t /\ t \in Content

Step(k, new, t) ==
    /\ Put(k, new, t)
    /\ Stays(k) \/ Becomes(k)
    /\ new = Idle \/ Waits(new, t)
    /\ t \in Content \/ (t = NoStore /\ mem = NoStore /\ new = Idle)

LEMMA EndPuts ==
    ASSUME Shape, NEW k \in Calls, NEW s, End(k, s)
    PROVE  Put(k, Idle, s)
  BY DEF End, Put, Idle

LEMMA SavePuts ==
    ASSUME Shape, NEW k \in Calls, NEW o, NEW c, NEW i, NEW s, Save(k, o, c, i, s)
    PROVE  Put(k, Record("save", o, c, i, s), s)
  <1> DEFINE new == Record("save", o, c, i, s)
  <1>1. new.at = "save" /\ new = [at |-> "save", op |-> o, c |-> c, sid |-> i, buf |-> s]
    BY DEF Record
  <1>2. \A j \in Calls : call[j].at # "save" => newer[j] \ {k} = newer[j]
    BY DEF Shape, Ordered, Saving
  <1>3. \A j \in Calls :
          (IF j = k THEN {} ELSE IF call[j].at = "save" THEN newer[j] \cup {k} ELSE newer[j])
          = (IF j = k THEN {} ELSE IF "save" = "save" /\ call[j].at = "save"
                                     THEN newer[j] \cup {k} ELSE newer[j] \ {k})
    BY <1>2
  <1>4. newer' = [j \in Calls |->
                    IF j = k THEN {}
                    ELSE IF new.at = "save" /\ call[j].at = "save" THEN newer[j] \cup {k}
                    ELSE newer[j] \ {k}]
    BY <1>1, <1>3 DEF Save
  <1>5. mem' = s /\ call' = [call EXCEPT ![k] = new]
    BY <1>1 DEF Save
  <1>6. Put(k, new, s)
    <2> HIDE DEF new
    <2> QED BY <1>4, <1>5 DEF Put
  <1> QED BY <1>6 DEF new

\* The other calls, and this one.
LEMMA CallsAfter ==
    ASSUME Shape, NEW k \in Calls, NEW new, NEW t, Put(k, new, t)
    PROVE  /\ call'[k] = new /\ newer'[k] = {}
           /\ \A j \in Calls : j # k =>
                /\ call'[j] = call[j]
                /\ newer'[j] \subseteq newer[j] \cup {k}
                /\ new.at # "save" => newer'[j] = newer[j] \ {k}
                /\ new.at = "save" /\ Saving(j) => newer'[j] = newer[j] \cup {k}
                /\ ~Saving(j) => newer'[j] = newer[j] \ {k}
  BY DEF Shape, TypeOK, Put, Saving

LEMMA OrderedAfter ==
    ASSUME Shape, NEW k \in Calls, NEW new, NEW t, Step(k, new, t)
    PROVE  Ordered'
  <1>1. Put(k, new, t)
    BY DEF Step
  <1>2. new = Idle \/ (new.at = "save" /\ new.buf = t /\ t \in Content)
    BY DEF Step, Waits
  <1>3. Idle.at = "idle"
    BY DEF Idle
  <1>4. late' \subseteq {j \in Calls : Saving(j)} \ {k}
    BY DEF Step, Stays, Becomes, Shape, Ordered
  <1>5. \A j \in Calls : j # k => (Saving(j)' <=> Saving(j))
    BY <1>1, CallsAfter DEF Saving
  <1>6. Saving(k)' <=> new # Idle
    BY <1>1, <1>2, <1>3, CallsAfter DEF Saving
  <1>7. late' \subseteq {j \in Calls : Saving(j)'}
    BY <1>4, <1>5
  <1>8. ASSUME NEW j \in Calls
        PROVE  /\ newer'[j] \subseteq {m \in Calls : Saving(m)'} \ {j}
               /\ ~Saving(j)' => newer'[j] = {}
    <2>1. CASE j = k
      BY <1>1, <2>1, CallsAfter
    <2>2. CASE j # k
      <3>1. newer[j] \subseteq {m \in Calls : Saving(m)} \ {j} /\ (~Saving(j) => newer[j] = {})
        BY DEF Shape, Ordered
      <3>2. CASE new.at = "save"
        BY <1>1, <1>2, <1>3, <1>5, <1>6, <2>2, <3>1, <3>2, CallsAfter
      <3>3. CASE new.at # "save"
        BY <1>1, <1>5, <2>2, <3>1, <3>3, CallsAfter
      <3> QED BY <3>2, <3>3
    <2> QED BY <2>1, <2>2
  <1>9. ASSUME NEW j \in Calls, NEW m \in Calls, Saving(j)', Saving(m)', j # m
        PROVE  j \in newer'[m] \/ m \in newer'[j]
    <2>1. \A a, b \in Calls : Saving(a) /\ Saving(b) /\ a # b => a \in newer[b] \/ b \in newer[a]
      BY DEF Shape, Ordered
    <2>2. CASE j # k /\ m # k
      BY <1>1, <1>5, <1>9, <2>1, <2>2, CallsAfter
    <2>3. CASE j = k \/ m = k
      BY <1>1, <1>2, <1>5, <1>6, <1>9, <2>3, CallsAfter
    <2> QED BY <2>2, <2>3
  <1>10. ASSUME mem' = NoStore, NEW j \in Calls
         PROVE  ~Saving(j)' /\ (call'[j].at = "loaded" => call'[j].buf = disk')
    <2>1. t = NoStore /\ mem = NoStore /\ new = Idle
      BY <1>10, NoStoreAssumption DEF Step, Put
    <2>2. ~Saving(k) /\ ~Saving(j) /\ (call[j].at = "loaded" => call[j].buf = disk)
      BY <2>1 DEF Shape, Ordered
    <2>3. disk' = disk
      BY <2>2 DEF Step, Stays, Becomes
    <2> QED BY <1>1, <1>3, <2>1, <2>2, <2>3, CallsAfter DEF Saving
  <1> QED BY <1>7, <1>8, <1>9, <1>10 DEF Ordered

\* Where the stores of the next state come from.
LEMMA LiveAfter ==
    ASSUME Shape, NEW k \in Calls, NEW new, NEW t, Step(k, new, t),
           Stays(k) \/ k \notin late
    PROVE  /\ Live' \subseteq Live \cup ({t} \ {NoStore})
           /\ Becomes(k) => Live' \subseteq Since(k) \cup {t}
           /\ \A j \in Calls : j # k /\ Kept(j)' => Kept(j)
  <1>1. Put(k, new, t)
    BY DEF Step
  <1>2. new = Idle \/ (new.at = "save" /\ new.buf = t /\ t \in Content)
    BY DEF Step, Waits
  <1>3. ASSUME NEW j \in Calls, j # k, Kept(j)'
        PROVE  Kept(j) /\ call'[j] = call[j] /\ (Becomes(k) => j \in newer[k])
    <2>1. call'[j] = call[j] /\ Saving(j)
      BY <1>1, <1>3, CallsAfter DEF Kept, Saving
    <2>2. j \notin late
      BY <1>3 DEF Kept, Step, Stays, Becomes
    <2>3. Becomes(k) => j \in newer[k]
      BY <1>3, <2>1 DEF Kept, Becomes, Shape, Ordered
    <2> QED BY <2>1, <2>2, <2>3 DEF Kept
  <1>4. ASSUME NEW s \in Live'
        PROVE  /\ s \in Live \cup ({t} \ {NoStore})
               /\ Becomes(k) => s \in Since(k) \cup {t}
    <2>1. CASE s = disk'
      <3>1. disk' = disk \/ (Becomes(k) /\ k \notin late)
        BY DEF Step, Stays, Becomes
      <3>2. Becomes(k) => disk' = call[k].buf
        BY DEF Becomes
      <3>3. CASE disk' = disk
        BY <2>1, <3>2, <3>3 DEF Live, Since
      <3>4. CASE Becomes(k) /\ k \notin late
        BY <2>1, <3>2, <3>4 DEF Live, Since, Kept, Becomes
      <3> QED BY <3>1, <3>3, <3>4
    <2>2. CASE s = mem' /\ s # NoStore
      BY <1>1, <2>2 DEF Put
    <2>3. CASE \E j \in Calls : Kept(j)' /\ s = call'[j].buf
      <3>1. PICK j \in Calls : Kept(j)' /\ s = call'[j].buf
        BY <2>3
      <3>2. CASE j = k
        BY <1>1, <1>2, <3>1, <3>2, CallsAfter, NoStoreAssumption DEF Kept, Saving, Idle
      <3>3. CASE j # k
        BY <1>3, <3>1, <3>3 DEF Live, Since
      <3> QED BY <3>2, <3>3
    <2> QED BY <2>1, <2>2, <2>3 DEF Live
  <1> QED BY <1>3, <1>4

LEMMA SinceAfter ==
    ASSUME Shape, NEW k \in Calls, NEW new, NEW t, Step(k, new, t)
    PROVE  /\ \A j \in Calls : j # k /\ Saving(j) => Since(j)' \subseteq Since(j) \cup {t}
           /\ new # Idle => Since(k)' = {t}
  <1>1. Put(k, new, t)
    BY DEF Step
  <1>2. new = Idle \/ (new.at = "save" /\ new.buf = t)
    BY DEF Step, Waits
  <1>3. Idle.at = "idle"
    BY DEF Idle
  <1>4. ASSUME new # Idle PROVE Since(k)' = {t}
    <2>1. call'[k].buf = t /\ mem' = t /\ newer'[k] = {}
      BY <1>1, <1>2, <1>4, CallsAfter DEF Put
    <2> QED BY <2>1 DEF Since
  <1>5. ASSUME NEW j \in Calls, j # k, Saving(j), NEW s \in Since(j)'
        PROVE  s \in Since(j) \cup {t}
    <2>1. call'[j] = call[j] /\ mem' = t
      BY <1>1, <1>5, CallsAfter DEF Put
    <2>2. CASE s = call'[j].buf \/ s = mem'
      BY <2>1, <2>2 DEF Since
    <2>3. CASE \E m \in newer'[j] : s = call'[m].buf
      <3>1. PICK m \in newer'[j] : s = call'[m].buf
        BY <2>3
      <3>2. m \in newer[j] \/ (m = k /\ new.at = "save")
        BY <1>1, <1>5, <3>1, CallsAfter
      <3>3. CASE m = k
        BY <1>1, <1>2, <1>3, <1>5, <3>1, <3>2, <3>3, CallsAfter
      <3>4. CASE m # k
        <4>1. m \in Calls /\ m \in newer[j]
          BY <3>2, <3>4 DEF Shape, Ordered
        <4>2. call'[m] = call[m]
          BY <1>1, <3>4, <4>1, CallsAfter
        <4> QED BY <3>1, <4>1, <4>2 DEF Since
      <3> QED BY <3>3, <3>4
    <2> QED BY <1>5, <2>2, <2>3 DEF Since
  <1> QED BY <1>4, <1>5

LEMMA ContentsAfter ==
    ASSUME Shape, NEW k \in Calls, NEW new, NEW t, Step(k, new, t)
    PROVE  Contents' \subseteq Contents \cup ({t} \ {NoStore})
  <1>1. Put(k, new, t)
    BY DEF Step
  <1>2. new = Idle \/ new.buf = t
    BY DEF Step, Waits
  <1>3. disk' = disk \/ (call[k] # Idle /\ disk' = call[k].buf)
    BY DEF Step, Stays, Becomes, Saving, Idle
  <1>4. Idle = new \/ (t \in Content /\ t # NoStore)
    BY NoStoreAssumption DEF Step, Waits
  <1>5. ASSUME NEW s \in Contents' PROVE s \in Contents \cup ({t} \ {NoStore})
    <2>1. CASE s = disk'
      BY <1>3, <2>1 DEF Contents, Working
    <2>2. CASE s = mem' /\ s # NoStore
      BY <1>1, <2>2 DEF Put
    <2>3. CASE \E j \in Calls : call'[j] # Idle /\ s = call'[j].buf
      BY <1>1, <1>2, <1>4, <2>3, CallsAfter DEF Contents, Working
    <2> QED BY <2>1, <2>2, <2>3 DEF Contents, Working
  <1> QED BY <1>5

(***************************************************************************)
(* The operations that store nothing new: gcNonces, takeNonce, a poll, a   *)
(* logout, a look-up, and the saves of other handlers.                     *)
(***************************************************************************)
Pages == [Challenges -> {"none", "waiting", "closed"} \cup Sids]

Quietly(k, o, c, i, s, new, t) ==
    /\ Put(k, new, t) /\ Shrunk(s, t)
    /\ \A j \in s.sessions \ t.sessions : ~Alive(j)'
    /\ new # Idle =>
         /\ Waits(new, t) /\ new.op = o /\ (new.c = c \/ (o = "other" /\ new.c = None))
         /\ \/ o # "pick" /\ new.sid \in {i, None} /\ (o \in {"drop", "look"} => new.sid = i)
            \/ o = "pick" /\ s.claims[c] \in Sids /\ new.sid = s.claims[c]
         /\ o = "take" => c \in s.nonces /\ c \notin t.nonces
         /\ o = "pick" => t.claims[c] = None /\ t.sessions = s.sessions
         /\ o = "drop" => i \notin t.sessions /\ i \in leaving'
    /\ UNCHANGED <<lapsed, made, handed, out>>
    /\ leaving \subseteq leaving' /\ leaving' \subseteq Sids
    /\ page' \in Pages
    /\ \A d \in Challenges : page'[d] = page[d] \/ (page[d] \in Sids /\ page'[d] = "closed")

LEMMA SavesQuietly ==
    ASSUME Shape, NEW k \in Calls, NEW o \in Ops, NEW c \in Challenges \cup {None},
           NEW i \in Sids \cup {None}, NEW s, NEW t \in Content, Save(k, o, c, i, t)
    PROVE  LET new == Record("save", o, c, i, t)
           IN  /\ Put(k, new, t) /\ Waits(new, t) /\ new # Idle
               /\ new.op = o /\ new.c = c /\ new.sid = i
  <1>1. Put(k, Record("save", o, c, i, t), t)
    BY SavePuts
  <1> QED BY <1>1, RecordFields, ActFields DEF Waits

LEMMA GcQuietly ==
    ASSUME Shape, NEW k \in Calls, NEW c \in Challenges, NEW i, NEW s \in Content,
           RunGc(k, c, s), ~RunNonce(k, c, s)
    PROVE  \E new, t : Quietly(k, "gc", c, i, s, new, t)
  <1> DEFINE t == Pruned(s)
             new == Record("save", "gc", c, None, t)
  <1>1. Save(k, "gc", c, None, t) /\ UNCHANGED <<page, lapsed, History>>
    BY DEF RunGc
  <1>2. Shrunk(s, t) /\ t.sessions = s.sessions /\ t \in Content
    BY PrunedShrinks DEF Shrunk
  <1>3. Put(k, new, t) /\ Waits(new, t) /\ new.op = "gc" /\ new.c = c /\ new.sid = None
    BY <1>1, <1>2, SavesQuietly DEF Ops
  <1>4. page' \in Pages /\ leaving' \subseteq Sids
    BY <1>1 DEF Shape, TypeOK, Pages, History
  <1>5. Quietly(k, "gc", c, i, s, new, t)
    <2> HIDE DEF new, t
    <2> QED BY <1>1, <1>2, <1>3, <1>4, LoginAssumption DEF Quietly, History
  <1> QED BY <1>5

\* A call that only ends.
LEMMA EndsQuietly ==
    ASSUME Shape, NEW k \in Calls, NEW o, NEW c, NEW i, NEW s \in Content,
           End(k, s), UNCHANGED <<lapsed, made, handed, out>>,
           leaving \subseteq leaving', leaving' \subseteq Sids, page' \in Pages,
           \A d \in Challenges : page'[d] = page[d] \/ (page[d] \in Sids /\ page'[d] = "closed")
    PROVE  \E new, t : Quietly(k, o, c, i, s, new, t)
  <1>1. Put(k, Idle, s) /\ Shrunk(s, s)
    BY EndPuts, SameShrinks
  <1>2. Quietly(k, o, c, i, s, Idle, s)
    BY <1>1 DEF Quietly
  <1> QED BY <1>2

LEMMA TakeQuietly ==
    ASSUME Shape, NEW k \in Calls, NEW c \in Challenges, NEW i, NEW s \in Content,
           RunTake(k, c, s)
    PROVE  \E new, t : Quietly(k, "take", c, i, s, new, t)
  <1> DEFINE t == TakeNonce(s, c)
             new == Record("save", "take", c, None, t)
  <1>1. UNCHANGED <<page, lapsed, History>>
    BY DEF RunTake
  <1>2. page' \in Pages /\ leaving' \subseteq Sids
    BY <1>1 DEF Shape, TypeOK, Pages, History
  <1>3. CASE c \notin s.nonces
    <2>1. End(k, s)
      BY <1>3 DEF RunTake
    <2> QED BY <1>1, <1>2, <2>1, EndsQuietly DEF History
  <1>4. CASE c \in s.nonces
    <2>1. Save(k, "take", c, None, t)
      BY <1>4 DEF RunTake
    <2>2. Shrunk(s, t) /\ t.sessions = s.sessions /\ t \in Content /\ c \notin t.nonces
      BY TakeNonceShrinks DEF Shrunk
    <2>3. Put(k, new, t) /\ Waits(new, t) /\ new.op = "take" /\ new.c = c /\ new.sid = None
      BY <2>1, <2>2, SavesQuietly DEF Ops
    <2>4. Quietly(k, "take", c, i, s, new, t)
      <3> HIDE DEF new, t
      <3> QED BY <1>1, <1>2, <1>4, <2>2, <2>3, LoginAssumption DEF Quietly, History
    <2> QED BY <2>4
  <1> QED BY <1>3, <1>4

LEMMA PickQuietly ==
    ASSUME Shape, NEW k \in Calls, NEW c \in Challenges, NEW i, NEW s \in Content,
           RunPick(k, c, s)
    PROVE  \E new, t : Quietly(k, "pick", c, i, s, new, t)
  <1> DEFINE t == TakeClaim(s, c)
             new == Record("save", "pick", c, s.claims[c], t)
  <1>1. UNCHANGED <<page, lapsed, History>>
    BY DEF RunPick
  <1>2. page' \in Pages /\ leaving' \subseteq Sids
    BY <1>1 DEF Shape, TypeOK, Pages, History
  <1>3. CASE s.claims[c] = None
    <2>1. End(k, s)
      BY <1>3 DEF RunPick
    <2> QED BY <1>1, <1>2, <2>1, EndsQuietly DEF History
  <1>4. CASE s.claims[c] # None
    <2>1. Save(k, "pick", c, s.claims[c], t) /\ s.claims[c] \in Sids
      BY <1>4, Fields DEF RunPick
    <2>2. Shrunk(s, t) /\ t.sessions = s.sessions /\ t \in Content /\ t.claims[c] = None
      BY TakeClaimShrinks DEF Shrunk
    <2>3. /\ Put(k, new, t) /\ Waits(new, t)
          /\ new.op = "pick" /\ new.c = c /\ new.sid = s.claims[c]
      BY <2>1, <2>2, SavesQuietly DEF Ops
    <2>4. Quietly(k, "pick", c, i, s, new, t)
      <3> HIDE DEF new, t
      <3> QED BY <1>1, <1>2, <2>1, <2>2, <2>3 DEF Quietly, History
    <2> QED BY <2>4
  <1> QED BY <1>3, <1>4

LEMMA DropQuietly ==
    ASSUME Shape, NEW k \in Calls, NEW c \in Challenges, NEW i \in Sids, NEW s \in Content,
           RunDrop(k, c, i, s)
    PROVE  \E new, t : Quietly(k, "drop", c, i, s, new, t)
  <1> DEFINE t == DropSession(s, i)
             new == Record("save", "drop", c, i, t)
  <1>1. UNCHANGED <<lapsed, made, handed, out>> /\ leaving' = leaving \cup {i}
    BY DEF RunDrop
  <1>2. page \in Pages /\ leaving' \subseteq Sids
    BY <1>1 DEF Shape, TypeOK, Pages
  <1>3. CASE i \notin s.sessions /\ End(k, s) /\ SignedOut(c, i)
    <2>1. /\ page' \in Pages
          /\ \A d \in Challenges : page'[d] = page[d] \/ (page[d] \in Sids /\ page'[d] = "closed")
      BY <1>2, <1>3 DEF SignedOut, Pages
    <2> QED BY <1>1, <1>2, <1>3, <2>1, EndsQuietly
  <1>4. CASE i \in s.sessions /\ Save(k, "drop", c, i, t) /\ UNCHANGED page
    <2>2. Shrunk(s, t) /\ t.sessions = s.sessions \ {i} /\ t \in Content
      BY DropSessionShrinks DEF Shrunk
    <2>3. Put(k, new, t) /\ Waits(new, t) /\ new.op = "drop" /\ new.c = c /\ new.sid = i
      BY <1>4, <2>2, SavesQuietly DEF Ops
    <2>4. \A j \in s.sessions \ t.sessions : ~Alive(j)'
      BY <1>1, <2>2 DEF Alive
    <2>5. Quietly(k, "drop", c, i, s, new, t)
      <3> HIDE DEF new, t
      <3> QED BY <1>1, <1>2, <1>4, <2>2, <2>3, <2>4 DEF Quietly
    <2> QED BY <2>5
  <1> QED BY <1>3, <1>4 DEF RunDrop

LEMMA LookQuietly ==
    ASSUME Shape, NEW k \in Calls, NEW c \in Challenges, NEW i \in Sids, NEW s \in Content,
           RunLook(k, c, i, s)
    PROVE  \E new, t : Quietly(k, "look", c, i, s, new, t)
  <1> DEFINE t == DropSession(s, i)
             new == Record("save", "look", c, i, t)
  <1>1. UNCHANGED <<page, lapsed, History>>
    BY DEF RunLook
  <1>2. page' \in Pages /\ leaving' \subseteq Sids
    BY <1>1 DEF Shape, TypeOK, Pages, History
  <1>3. CASE ~(i \in s.sessions /\ Session(i) \in lapsed)
    <2>1. End(k, s)
      BY <1>3 DEF RunLook
    <2> QED BY <1>1, <1>2, <2>1, EndsQuietly DEF History
  <1>4. CASE i \in s.sessions /\ Session(i) \in lapsed
    <2>1. Save(k, "look", c, i, t)
      BY <1>4 DEF RunLook
    <2>2. Shrunk(s, t) /\ t.sessions = s.sessions \ {i} /\ t \in Content
      BY DropSessionShrinks DEF Shrunk
    <2>3. Put(k, new, t) /\ Waits(new, t) /\ new.op = "look" /\ new.c = c /\ new.sid = i
      BY <2>1, <2>2, SavesQuietly DEF Ops
    <2>4. \A j \in s.sessions \ t.sessions : ~Alive(j)'
      BY <1>1, <1>4, <2>2 DEF Alive
    <2>5. Quietly(k, "look", c, i, s, new, t)
      <3> HIDE DEF new, t
      <3> QED BY <1>1, <1>2, <2>2, <2>3, <2>4 DEF Quietly, History
    <2> QED BY <2>5
  <1> QED BY <1>3, <1>4

LEMMA OtherQuietly ==
    ASSUME Shape, NEW k \in Calls, NEW c, NEW i, NEW s \in Content, RunOther(k, s)
    PROVE  \E new, t : Quietly(k, "other", c, i, s, new, t)
  <1>1. PICK t \in {s, Pruned(s)} : Save(k, "other", None, None, t)
    BY DEF RunOther
  <1>2. UNCHANGED <<page, lapsed, History>>
    BY DEF RunOther
  <1>3. page' \in Pages /\ leaving' \subseteq Sids
    BY <1>2 DEF Shape, TypeOK, Pages, History
  <1>4. Shrunk(s, t) /\ t.sessions = s.sessions /\ t \in Content
    BY PrunedShrinks, SameShrinks DEF Shrunk
  <1> DEFINE new == Record("save", "other", None, None, t)
  <1>5. Put(k, new, t) /\ Waits(new, t) /\ new.op = "other" /\ new.c = None /\ new.sid = None
    BY <1>1, <1>4, SavesQuietly DEF Ops
  <1>6. Quietly(k, "other", c, i, s, new, t)
    <2> HIDE DEF new
    <2> QED BY <1>2, <1>3, <1>4, <1>5 DEF Quietly, History
  <1> QED BY <1>6

\* What comes first in a handler stores nothing new, except that a challenge
\* may go on with its nonce at once.
LEMMA FirstsRun ==
    ASSUME Shape, NEW k \in Calls, NEW o \in Firsts, NEW c, NEW i, Fit(o, c, i),
           NEW s \in Content, Run(k, o, c, i, s)
    PROVE  \/ \E new, t : Quietly(k, o, c, i, s, new, t)
           \/ o = "gc" /\ RunNonce(k, c, s)
  <1>1. CASE o = "gc"
    BY <1>1, GcQuietly DEF Run, Fit
  <1>2. CASE o = "take"
    BY <1>2, TakeQuietly DEF Run, Fit
  <1>3. CASE o = "pick"
    BY <1>3, PickQuietly DEF Run, Fit
  <1>4. CASE o = "drop"
    BY <1>4, DropQuietly DEF Run, Fit
  <1>5. CASE o = "look"
    BY <1>5, LookQuietly DEF Run, Fit
  <1>6. CASE o = "other"
    BY <1>6, OtherQuietly DEF Run
  <1> QED BY <1>1, <1>2, <1>3, <1>4, <1>5, <1>6 DEF Firsts

(***************************************************************************)
(* The shapes after a step of a call.                                      *)
(***************************************************************************)
RestTyped ==
    /\ page \in Pages
    /\ lapsed \subseteq {Nonce(c) : c \in Challenges} \cup {Claimed(c) : c \in Challenges}
                    \cup {Session(i) : i \in Sids}
    /\ made \in [Challenges -> Nat] /\ handed \in [Sids -> Nat]
    /\ out \subseteq leaving /\ leaving \subseteq Sids /\ crashes \in 0..MaxCrashes
    /\ overwrote \in BOOLEAN /\ reordered \in BOOLEAN

LEMMA Types ==
    TypeOK <=> /\ mem \in Content \cup {NoStore} /\ disk \in Content
               /\ call \in [Calls -> {Idle} \cup Act]
               /\ newer \in [Calls -> SUBSET Calls] /\ late \subseteq Calls
               /\ RestTyped
  BY DEF TypeOK, RestTyped, Act, Pages

LEMMA ShapeAfter ==
    ASSUME Shape, NEW k \in Calls, NEW new, NEW t, Step(k, new, t), RestTyped',
           new # Idle => /\ Fit(new.op, new.c, new.sid)
                         /\ new.op = "pick" => new.sid \in Sids
                         /\ new.op = "drop" => new.sid \in leaving',
           \A j \in Calls : j # k /\ Saving(j) /\ call[j].op = "drop" => call[j].sid \in leaving'
    PROVE  Shape'
  <1>1. Put(k, new, t)
    BY DEF Step
  <1>2. new = Idle \/ Waits(new, t)
    BY DEF Step
  <1>3. mem' \in Content \cup {NoStore}
    BY <1>1 DEF Step, Put
  <1>4. disk' \in Content
    <2>1. CASE Stays(k)
      BY <2>1 DEF Stays, Shape, TypeOK
    <2>2. CASE Becomes(k)
      BY <2>2, CallTypes DEF Becomes, Saving, Shape
    <2> QED BY <2>1, <2>2 DEF Step
  <1>5. call' \in [Calls -> {Idle} \cup Act]
    BY <1>1, <1>2, Types DEF Put, Shape, Waits
  <1>6. newer' \in [Calls -> SUBSET Calls]
    BY <1>1 DEF Put, Shape, TypeOK
  <1>7. late' \subseteq Calls
    BY DEF Step, Stays, Becomes, Shape, TypeOK
  <1>8. TypeOK'
    BY <1>3, <1>4, <1>5, <1>6, <1>7 DEF TypeOK, RestTyped, Act, Pages
  <1>9. ASSUME NEW j \in Calls PROVE Fits(j)'
    <2>1. CASE j = k
      BY <1>1, <1>2, <2>1, CallsAfter DEF Fits, Saving, Waits
    <2>2. CASE j # k
      <3>1. call'[j] = call[j]
        BY <1>1, <2>2, CallsAfter
      <3>2. Fits(j)
        BY DEF Shape
      <3> QED BY <2>2, <3>1, <3>2 DEF Fits, Saving
    <2> QED BY <2>1, <2>2
  <1> QED BY <1>8, <1>9, OrderedAfter DEF Shape

\* A call is typed as what it is for.
LEMMA CallFits ==
    ASSUME Shape, NEW k \in Calls, call[k] # Idle
    PROVE  /\ Fit(call[k].op, call[k].c, call[k].sid)
           /\ Saving(k) /\ call[k].op \in {"pick", "drop"} => call[k].sid \in Sids
           /\ ~Saving(k) => call[k].op \in Firsts
           /\ call[k].op \in Ops /\ call[k].buf \in Content
           /\ call[k].c \in Challenges \cup {None} /\ call[k].sid \in Sids \cup {None}
  BY CallTypes DEF Shape, Fits, Fit

\* The effect of what comes first on the shapes.
LEMMA QuietShape ==
    ASSUME Shape, NEW k \in Calls, NEW o \in Firsts, NEW c, NEW i, Fit(o, c, i), NEW s \in Content,
           NEW new, NEW t, Quietly(k, o, c, i, s, new, t), Stays(k),
           UNCHANGED crashes, overwrote' \in BOOLEAN, reordered' \in BOOLEAN
    PROVE  Shape' /\ Step(k, new, t)
  <1>1. t \in Content /\ Put(k, new, t) /\ (new = Idle \/ Waits(new, t))
    BY DEF Quietly, Shrunk
  <1>2. Step(k, new, t)
    BY <1>1 DEF Step
  <1>3. RestTyped'
    BY Types DEF RestTyped, Quietly, Shape
  <1>4. new # Idle => /\ Fit(new.op, new.c, new.sid)
                      /\ new.op = "pick" => new.sid \in Sids
                      /\ new.op = "drop" => new.sid \in leaving'
    BY DEF Quietly, Fit, Firsts
  <1>5. \A j \in Calls : j # k /\ Saving(j) /\ call[j].op = "drop" => call[j].sid \in leaving'
    BY CallTypes DEF Quietly, Shape, Fits, Saving
  <1> QED BY <1>2, <1>3, <1>4, <1>5, ShapeAfter

\* The effect of the other operations, which follow in a handler.
LEMMA NonceShape ==
    ASSUME Shape, NEW k \in Calls, NEW c \in Challenges, NEW s \in Content,
           RunNonce(k, c, s), Stays(k) \/ Becomes(k),
           UNCHANGED crashes, overwrote' \in BOOLEAN, reordered' \in BOOLEAN
    PROVE  LET t == PutNonce(s, c)
               new == Record("save", "nonce", c, None, t)
           IN  /\ Shape' /\ Step(k, new, t)
               /\ new # Idle /\ new.op = "nonce" /\ new.c = c /\ new.sid = None
  <1> DEFINE t == PutNonce(s, c)
             new == Record("save", "nonce", c, None, t)
  <1>1. Put(k, new, t) /\ Waits(new, t) /\ new # Idle
    BY PutNonceAdds, SavesQuietly DEF RunNonce, Ops
  <1>2. new.op = "nonce" /\ new.c = c /\ new.sid = None
    BY RecordFields
  <1> HIDE DEF new, t
  <1>3. Step(k, new, t)
    BY <1>1 DEF Step, Waits
  <1>4. RestTyped'
    BY Types DEF RestTyped, RunNonce, History, Shape
  <1>5. Fit(new.op, new.c, new.sid)
    BY <1>2 DEF Fit
  <1>6. \A j \in Calls : j # k /\ Saving(j) /\ call[j].op = "drop" => call[j].sid \in leaving'
    BY CallTypes DEF RunNonce, History, Shape, Fits, Saving
  <1>7. Shape'
    BY <1>1, <1>2, <1>3, <1>4, <1>5, <1>6, ShapeAfter
  <1> QED BY <1>1, <1>2, <1>3, <1>7 DEF new, t

LEMMA SessionShape ==
    ASSUME Shape, NEW k \in Calls, NEW c \in Challenges, NEW s \in Content,
           NEW i \in FreshSids, Save(k, "session", c, i, PutSession(s, i)),
           lapsed' = lapsed \ {Session(i)}, handed' = [handed EXCEPT ![i] = 0],
           leaving' = leaving \ {i}, out' = out \ {i}, made' = [made EXCEPT ![c] = @ + 1],
           UNCHANGED page, Stays(k) \/ Becomes(k),
           UNCHANGED crashes, overwrote' \in BOOLEAN, reordered' \in BOOLEAN
    PROVE  LET t == PutSession(s, i)
               new == Record("save", "session", c, i, t)
           IN  /\ Shape' /\ Step(k, new, t)
               /\ new # Idle /\ new.op = "session" /\ new.c = c /\ new.sid = i
  <1> DEFINE t == PutSession(s, i)
             new == Record("save", "session", c, i, t)
  <1>0. i \in Sids
    BY DEF FreshSids
  <1>1. Put(k, new, t) /\ Waits(new, t) /\ new # Idle
    BY <1>0, PutSessionAdds, SavesQuietly DEF Ops
  <1>2. new.op = "session" /\ new.c = c /\ new.sid = i
    BY RecordFields
  <1> HIDE DEF new, t
  <1>3. Step(k, new, t)
    BY <1>1 DEF Step, Waits
  <1>4. RestTyped'
    <2>1. RestTyped
      BY Types DEF Shape
    <2>2. made' \in [Challenges -> Nat]
      BY <2>1 DEF RestTyped
    <2>3. handed' \in [Sids -> Nat]
      BY <2>1 DEF RestTyped
    <2>4. out' \subseteq leaving' /\ leaving' \subseteq Sids
      BY <2>1 DEF RestTyped
    <2>5. lapsed' \subseteq lapsed
      OBVIOUS
    <2> QED BY <2>1, <2>2, <2>3, <2>4, <2>5 DEF RestTyped
  <1>5. Fit(new.op, new.c, new.sid)
    BY <1>0, <1>2 DEF Fit
  <1>6. \A j \in Calls : j # k /\ Saving(j) /\ call[j].op = "drop" => call[j].sid \in leaving'
    BY CallTypes DEF FreshSids, Working, Shape, Fits, Saving
  <1>7. Shape'
    BY <1>1, <1>2, <1>3, <1>4, <1>5, <1>6, ShapeAfter
  <1> QED BY <1>1, <1>2, <1>3, <1>7 DEF new, t

LEMMA ClaimShape ==
    ASSUME Shape, NEW k \in Calls, NEW c \in Challenges, NEW i \in Sids, NEW s \in Content,
           RunClaim(k, c, i, s), Stays(k) \/ Becomes(k),
           UNCHANGED crashes, overwrote' \in BOOLEAN, reordered' \in BOOLEAN
    PROVE  LET t == PutClaim(s, c, i)
               new == Record("save", "claim", c, i, t)
           IN  /\ Shape' /\ Step(k, new, t)
               /\ new # Idle /\ new.op = "claim" /\ new.c = c /\ new.sid = i
  <1> DEFINE t == PutClaim(s, c, i)
             new == Record("save", "claim", c, i, t)
  <1>1. Put(k, new, t) /\ Waits(new, t) /\ new # Idle
    BY PutClaimAdds, SavesQuietly DEF RunClaim, Ops
  <1>2. new.op = "claim" /\ new.c = c /\ new.sid = i
    BY RecordFields
  <1> HIDE DEF new, t
  <1>3. Step(k, new, t)
    BY <1>1 DEF Step, Waits
  <1>4. RestTyped'
    BY Types DEF RestTyped, RunClaim, History, Shape
  <1>5. Fit(new.op, new.c, new.sid)
    BY <1>2 DEF Fit
  <1>6. \A j \in Calls : j # k /\ Saving(j) /\ call[j].op = "drop" => call[j].sid \in leaving'
    BY CallTypes DEF RunClaim, History, Shape, Fits, Saving
  <1>7. Shape'
    BY <1>1, <1>2, <1>3, <1>4, <1>5, <1>6, ShapeAfter
  <1> QED BY <1>1, <1>2, <1>3, <1>7 DEF new, t

(***************************************************************************)
(* The store an operation starts from.                                     *)
(***************************************************************************)
Based(s) == s = IF mem = NoStore THEN disk ELSE mem

LEMMA BaseKnown ==
    ASSUME Shape, NEW s, Based(s)
    PROVE  /\ s \in Content /\ s \in Live /\ s \in Contents
           /\ \A j \in Calls : Saving(j) => s \in Since(j)
  <1>1. s \in Content
    BY DEF Based, Shape, TypeOK
  <1>2. s \in Live /\ s \in Contents
    BY DEF Based, Live, Contents
  <1>3. \A j \in Calls : Saving(j) => s \in Since(j)
    BY DEF Based, Shape, Ordered, Since
  <1> QED BY <1>1, <1>2, <1>3

\* A call that begins or goes on with c and i does not meet those who rely on
\* being alone with them.
Welcome(k, o, c, i) ==
    /\ \A j \in Calls : j # k /\ call[j] # Idle /\ call[j].op = "gc" => call[j].c # c
    /\ \A j \in Calls : j # k /\ Saving(j) /\ call[j].op = "session" => call[j].sid # i
    /\ o = "gc" => /\ page[c] = "none" /\ made[c] = 0
                   /\ \A j \in Calls : j # k /\ call[j] # Idle => call[j].c # c

(***************************************************************************)
(* Nothing that was in order is disturbed by an operation that stores      *)
(* nothing new.                                                            *)
(***************************************************************************)
LEMMA QuietOrderly ==
    ASSUME Shape, Orderly, NEW k \in Calls, NEW o \in Firsts, NEW c, NEW i, Fit(o, c, i),
           NEW s, Based(s), NEW new, NEW t, Quietly(k, o, c, i, s, new, t),
           ~Saving(k), Stays(k), Step(k, new, t), Welcome(k, o, c, i)
    PROVE  Orderly'
  <1>1. /\ s \in Content /\ s \in Live /\ s \in Contents
        /\ \A j \in Calls : Saving(j) => s \in Since(j)
    BY BaseKnown
  <1>2. Shrunk(s, t) /\ t \in Content
    BY DEF Quietly, Shrunk
  <1>3. Put(k, new, t) /\ (new = Idle \/ Waits(new, t))
    BY DEF Step
  <1>4. Idle.at = "idle" /\ (new # Idle => new.at = "save" /\ new.buf = t)
    BY <1>3 DEF Idle, Waits
  <1>5. call'[k] = new /\ \A j \in Calls : j # k => call'[j] = call[j]
    BY <1>3, CallsAfter
  <1>6. /\ UNCHANGED <<made, handed, out, lapsed>> /\ leaving \subseteq leaving'
        /\ \A d \in Challenges : page'[d] = page[d] \/ (page[d] \in Sids /\ page'[d] = "closed")
        /\ \A j \in s.sessions \ t.sessions : ~Alive(j)'
    BY DEF Quietly
  <1>7. \A j : Alive(j)' => Alive(j)
    BY <1>6 DEF Alive
  <1>8. /\ \A x \in Contents : Sound(x)
        /\ \A j \in Calls : Birth(j) /\ Claiming(j)
        /\ \A j \in Calls : Kept(j) => First(j) /\ \A x \in Since(j) : Done(j, x)
        /\ \A x \in Live : Agrees(x)
    BY DEF Orderly
  <1>9. ~Becomes(k)
    BY DEF Becomes
  <1>10. \A x \in Contents' : Sound(x)'
    <2>1. ASSUME NEW x \in Contents PROVE Sound(x)'
      BY <1>7, <1>8 DEF Sound
    <2>2. Sound(t)'
      <3>1. Sound(s)
        BY <1>1, <1>8
      <3>2. \A d \in Challenges : t.claims[d] \in Sids => t.claims[d] = s.claims[d]
        BY <1>2, LoginAssumption DEF Shrunk
      <3>3. \A j \in s.sessions : Alive(j)' => j \in t.sessions
        BY <1>6
      <3> QED BY <1>7, <3>1, <3>2, <3>3 DEF Sound
    <2> QED BY <2>1, <2>2, ContentsAfter
  <1>11. ASSUME NEW j \in Calls PROVE Birth(j)'
    <2>1. CASE j = k
      BY <1>5, <1>6, <2>1, LoginAssumption DEF Birth, Quietly, Welcome, Fit
    <2>2. CASE j # k
      <3>1. Birth(j) /\ call'[j] = call[j]
        BY <1>5, <1>8, <2>2
      <3>2. ASSUME call[j] # Idle, call[j].op = "gc"
            PROVE  /\ page'[call[j].c] = "none" /\ made'[call[j].c] = 0
                   /\ new # Idle => new.c # call[j].c
        <4>1. call[j].c \in Challenges /\ call[j].c # None
          BY <3>2, CallFits, LoginAssumption DEF Fit
        <4>2. page[call[j].c] = "none" /\ made[call[j].c] = 0
          BY <3>1, <3>2 DEF Birth
        <4>3. new # Idle => new.c # call[j].c
          BY <2>2, <3>2, <4>1 DEF Quietly, Welcome
        <4> QED BY <1>6, <4>1, <4>2, <4>3, LoginAssumption
      <3> QED BY <1>5, <2>2, <3>1, <3>2 DEF Birth
    <2> QED BY <2>1, <2>2
  <1>12. ASSUME NEW j \in Calls PROVE Claiming(j)'
    <2>1. CASE j = k
      <3>1. new # Idle => new.op # "session"
        BY DEF Quietly, Firsts
      <3> QED BY <1>4, <1>5, <2>1, <3>1 DEF Claiming, Saving
    <2>2. CASE j # k
      <3>1. Claiming(j) /\ call'[j] = call[j]
        BY <1>5, <1>8, <2>2
      <3>2. ASSUME Saving(j), call[j].op = "session"
            PROVE  /\ handed'[call[j].sid] = 0
                   /\ \A d \in Challenges : page'[d] # call[j].sid
                   /\ \A x \in Contents' : Unclaimed(call[j].sid, x)
                   /\ new # Idle => new.sid # call[j].sid
        <4>1. call[j].sid \in Sids /\ call[j].sid # None
          BY <3>2, CallFits, LoginAssumption DEF Fit, Saving, Idle
        <4>2. /\ handed[call[j].sid] = 0
              /\ \A d \in Challenges : page[d] # call[j].sid
              /\ \A x \in Contents : Unclaimed(call[j].sid, x)
          BY <3>1, <3>2 DEF Claiming
        <4>3. Unclaimed(call[j].sid, t)
          BY <1>1, <1>2, <4>1, <4>2 DEF Unclaimed, Shrunk
        <4>4. \A x \in Contents' : Unclaimed(call[j].sid, x)
          BY <4>2, <4>3, ContentsAfter
        <4>5. new # Idle => new.sid # call[j].sid
          <5>1. call[j].sid # i
            BY <2>2, <3>2 DEF Welcome
          <5>2. o = "pick" => s.claims[c] # call[j].sid
            BY <1>1, <4>2 DEF Unclaimed, Fit
          <5> QED BY <4>1, <5>1, <5>2 DEF Quietly
        <4> QED BY <1>6, <4>1, <4>2, <4>4, <4>5, LoginAssumption
      <3> QED BY <1>5, <2>2, <3>1, <3>2 DEF Claiming, Saving
    <2> QED BY <2>1, <2>2
  <1>13. ASSUME NEW j \in Calls, Kept(j)' PROVE First(j)' /\ \A x \in Since(j)' : Done(j, x)'
    <2>1. \A m \in Calls : m # k /\ Kept(m)' => Kept(m) /\ Saving(m) /\ call'[m] = call[m]
      BY <1>5, <1>9, LiveAfter DEF Kept
    <2>2. ASSUME NEW m \in Calls, m # k, Kept(m)' PROVE Done(m, s) /\ First(m)
      BY <1>1, <1>8, <2>1, <2>2
    <2>3. CASE j = k
      <3>1. new # Idle /\ Since(k)' = {t}
        BY <1>4, <1>5, <1>13, <2>3, SinceAfter DEF Kept, Saving
      <3>2. new.op = o /\ o # "session"
        BY <3>1 DEF Quietly, Firsts
      <3>3. CASE o = "take"
        <4>1. new.c = c /\ c \in s.nonces /\ c \notin t.nonces /\ c \in Challenges
          BY <3>1, <3>3 DEF Quietly, Fit
        <4>2. made[c] = 0
          BY <1>1, <1>8, <4>1 DEF Agrees
        <4>3. \A m \in Calls : m # k /\ Kept(m)' /\ call'[m].op = "take" => call'[m].c # c
          BY <2>1, <2>2, <4>1 DEF Done
        <4>4. First(k)'
          BY <1>5, <1>6, <3>2, <3>3, <4>1, <4>2, <4>3 DEF First
        <4> QED BY <1>5, <2>3, <3>1, <3>2, <3>3, <4>1, <4>4 DEF Done
      <3>4. CASE o = "pick"
        <4>1. /\ new.sid = s.claims[c] /\ s.claims[c] \in Sids /\ c \in Challenges
              /\ t.claims[c] = None /\ t.sessions = s.sessions
          BY <3>1, <3>4 DEF Quietly, Fit
        <4>2. handed[new.sid] = 0
          BY <1>1, <1>8, <4>1 DEF Agrees, Unclaimed
        <4>3. \A m \in Calls : m # k /\ Kept(m)' /\ call'[m].op = "pick" => call'[m].sid # new.sid
          BY <2>1, <2>2, <4>1 DEF Done, Unclaimed
        <4>4. First(k)'
          BY <1>5, <1>6, <3>2, <3>4, <4>2, <4>3 DEF First
        <4>5. Sound(s)
          BY <1>1, <1>8
        <4>6. Unclaimed(new.sid, t)
          BY <1>2, <4>1, <4>5, LoginAssumption DEF Sound, Unclaimed, Shrunk
        <4>7. Alive(new.sid)' => new.sid \in t.sessions
          BY <1>7, <4>1, <4>5 DEF Sound
        <4> QED BY <1>5, <2>3, <3>1, <3>2, <3>4, <4>4, <4>6, <4>7 DEF Done
      <3>5. CASE o \notin {"take", "pick"}
        <4>1. o = "drop" => new.sid = i /\ i \notin t.sessions
          BY <3>1 DEF Quietly
        <4> QED BY <1>5, <2>3, <3>1, <3>2, <3>5, <4>1 DEF Done, First
      <3> QED BY <3>3, <3>4, <3>5
    <2>4. CASE j # k
      <3>1. First(j) /\ Done(j, s) /\ call'[j] = call[j] /\ Saving(j) /\ Kept(j)
        BY <1>13, <2>1, <2>2, <2>4
      <3>2. First(j)'
        <4>1. new # Idle /\ new.op = "take" => new.c \in s.nonces
          BY DEF Quietly
        <4>2. new # Idle /\ new.op = "pick" => ~Unclaimed(new.sid, s)
          BY DEF Quietly, Unclaimed, Fit
        <4>3. Kept(k)' => new # Idle
          BY <1>4, <1>5 DEF Kept, Saving
        <4>4. Kept(k)' /\ new.op = "take" /\ call[j].op = "take" => new.c # call[j].c
          BY <3>1, <4>1, <4>3 DEF Done
        <4>5. Kept(k)' /\ new.op = "pick" /\ call[j].op = "pick" => new.sid # call[j].sid
          BY <3>1, <4>2, <4>3 DEF Done
        <4> QED BY <1>5, <1>6, <2>1, <3>1, <4>4, <4>5 DEF First
      <3>3. ASSUME NEW x \in Since(j)' PROVE Done(j, x)'
        <4>1. CASE x \in Since(j)
          <5>1. Done(j, x)
            BY <1>8, <3>1, <4>1
          <5> QED BY <1>7, <3>1, <5>1 DEF Done
        <4>2. CASE x = t
          <5>1. call[j].op = "pick" => Unclaimed(call[j].sid, t)
            <6>1. call[j].op = "pick" => call[j].sid # None
              BY <3>1, CallFits, LoginAssumption DEF Saving, Idle
            <6> QED BY <1>2, <3>1, <6>1 DEF Done, Unclaimed, Shrunk
          <5>2. call[j].op = "take" => call[j].c \notin t.nonces
            BY <1>2, <3>1 DEF Done, Shrunk
          <5>3. call[j].op = "drop" => call[j].sid \notin t.sessions
            BY <1>2, <3>1 DEF Done, Shrunk
          <5>4. call[j].op \in {"session", "pick"} /\ Alive(call[j].sid)'
                => call[j].sid \in t.sessions
            BY <1>6, <1>7, <3>1 DEF Done
          <5> QED BY <3>1, <4>2, <5>1, <5>2, <5>3, <5>4 DEF Done
        <4> QED BY <2>4, <3>1, <3>3, <4>1, <4>2, SinceAfter
      <3> QED BY <3>2, <3>3
    <2> QED BY <2>3, <2>4
  <1>14. ASSUME NEW x \in Live' PROVE Agrees(x)'
    <2>1. CASE x \in Live
      <3>1. Agrees(x)
        BY <1>8, <2>1
      <3> QED BY <1>6, <1>7, <3>1, LoginAssumption DEF Agrees
    <2>2. CASE x = t
      <3>1. Agrees(s)
        BY <1>1, <1>8
      <3>2. \A h \in Sids : Unclaimed(h, s) => Unclaimed(h, t)
        BY <1>2, LoginAssumption DEF Unclaimed, Shrunk
      <3>3. t.nonces \subseteq s.nonces /\ t.sessions \subseteq s.sessions
        BY <1>2 DEF Shrunk
      <3> QED BY <1>6, <1>7, <2>2, <3>1, <3>2, <3>3, LoginAssumption DEF Agrees
    <2> QED BY <1>9, <2>1, <2>2, LiveAfter
  <1>15. Once'
    BY <1>6 DEF Orderly, Once
  <1> QED BY <1>10, <1>11, <1>12, <1>13, <1>14, <1>15 DEF Orderly

(***************************************************************************)
(* A nonce goes to a page that nobody works on.                            *)
(***************************************************************************)
LEMMA NonceOrderly ==
    ASSUME Shape, Orderly, NEW k \in Calls, NEW c \in Challenges, NEW s, Based(s),
           RunNonce(k, c, s), NEW new, NEW t, Step(k, new, t), t = PutNonce(s, c),
           Stays(k) \/ k \notin late,
           new # Idle, new.op = "nonce", new.c = c, new.sid = None,
           page[c] = "none", made[c] = 0,
           \A j \in Calls : j # k /\ call[j] # Idle => call[j].c # c
    PROVE  Orderly'
  <1>1. /\ s \in Content /\ s \in Live /\ s \in Contents
        /\ \A j \in Calls : Saving(j) => s \in Since(j)
    BY BaseKnown
  <1>2. /\ t \in Content /\ t.nonces = s.nonces \cup {c}
        /\ t.claims = s.claims /\ t.sessions = s.sessions
    BY <1>1, PutNonceAdds
  <1>3. Put(k, new, t) /\ new.at = "save"
    BY DEF Step, Waits
  <1>4. call'[k] = new /\ \A j \in Calls : j # k => call'[j] = call[j]
    BY <1>3, CallsAfter
  <1>5. UNCHANGED <<page, lapsed, made, handed, leaving, out>>
    BY DEF RunNonce, History
  <1>6. \A j : Alive(j)' <=> Alive(j)
    BY <1>5 DEF Alive
  <1>7. /\ \A x \in Contents : Sound(x)
        /\ \A j \in Calls : Birth(j) /\ Claiming(j)
        /\ \A j \in Calls : Kept(j) => First(j) /\ \A x \in Since(j) : Done(j, x)
        /\ \A x \in Live : Agrees(x)
    BY DEF Orderly
  <1>8. \A x \in Contents' : Sound(x)'
    <2>1. ASSUME NEW x \in Contents \cup {t} PROVE Sound(x)'
      <3>1. CASE x \in Contents
        BY <1>6, <1>7, <3>1 DEF Sound
      <3>2. CASE x = t
        <4>1. Sound(s)
          BY <1>1, <1>7
        <4> QED BY <1>2, <1>6, <3>2, <4>1 DEF Sound
      <3> QED BY <3>1, <3>2
    <2> QED BY <2>1, ContentsAfter
  <1>9. ASSUME NEW j \in Calls PROVE Birth(j)'
    <2>1. CASE j = k
      BY <1>4, <2>1 DEF Birth
    <2>2. CASE j # k
      <3>1. Birth(j) /\ call'[j] = call[j]
        BY <1>4, <1>7, <2>2
      <3> QED BY <1>4, <1>5, <2>2, <3>1 DEF Birth
    <2> QED BY <2>1, <2>2
  <1>10. ASSUME NEW j \in Calls PROVE Claiming(j)'
    <2>1. CASE j = k
      BY <1>4, <2>1 DEF Claiming
    <2>2. CASE j # k
      <3>1. Claiming(j) /\ call'[j] = call[j]
        BY <1>4, <1>7, <2>2
      <3>2. ASSUME Saving(j), call[j].op = "session"
            PROVE  /\ \A x \in Contents' : Unclaimed(call[j].sid, x)
                   /\ new.sid # call[j].sid
        <4>1. call[j].sid # None
          BY <3>2, CallFits, LoginAssumption DEF Fit, Saving, Idle
        <4>2. \A x \in Contents : Unclaimed(call[j].sid, x)
          BY <3>1, <3>2 DEF Claiming
        <4>3. Unclaimed(call[j].sid, t)
          BY <1>1, <1>2, <4>2 DEF Unclaimed
        <4> QED BY <4>1, <4>2, <4>3, ContentsAfter
      <3> QED BY <1>4, <1>5, <2>2, <3>1, <3>2 DEF Claiming, Saving
    <2> QED BY <2>1, <2>2
  <1>11. ASSUME NEW j \in Calls, Kept(j)' PROVE First(j)' /\ \A x \in Since(j)' : Done(j, x)'
    <2>1. \A m \in Calls : m # k /\ Kept(m)' => Kept(m) /\ call'[m] = call[m]
      BY <1>4, LiveAfter
    <2>2. CASE j = k
      BY <1>4, <2>2 DEF First, Done
    <2>3. CASE j # k
      <3>1. First(j) /\ call'[j] = call[j] /\ Saving(j) /\ Kept(j)
        BY <1>7, <1>11, <2>1, <2>3 DEF Kept
      <3>2. Done(j, s)
        BY <1>1, <1>7, <3>1
      <3>3. First(j)'
        BY <1>4, <1>5, <2>1, <3>1 DEF First
      <3>4. ASSUME NEW x \in Since(j) \cup {t} PROVE Done(j, x)'
        <4>1. CASE x \in Since(j)
          <5>1. Done(j, x)
            BY <1>7, <3>1, <4>1
          <5> QED BY <1>6, <3>1, <5>1 DEF Done
        <4>2. CASE x = t
          <5>1. call[j].c # c
            BY <2>3, <3>1 DEF Saving, Idle
          <5> QED BY <1>2, <1>6, <3>1, <3>2, <4>2, <5>1 DEF Done, Unclaimed
        <4> QED BY <4>1, <4>2
      <3> QED BY <2>3, <3>1, <3>3, <3>4, SinceAfter
    <2> QED BY <2>2, <2>3
  <1>12. ASSUME NEW x \in Live \cup {t} PROVE Agrees(x)'
    <2>1. CASE x \in Live
      <3>1. Agrees(x)
        BY <1>7, <2>1
      <3> QED BY <1>5, <1>6, <3>1 DEF Agrees
    <2>2. CASE x = t
      <3>1. Agrees(s)
        BY <1>1, <1>7
      <3> QED BY <1>2, <1>5, <1>6, <2>2, <3>1 DEF Agrees, Unclaimed
    <2> QED BY <2>1, <2>2
  <1>13. \A x \in Live' : Agrees(x)'
    BY <1>12, LiveAfter
  <1>14. Once'
    BY <1>5 DEF Orderly, Once
  <1> QED BY <1>8, <1>9, <1>10, <1>11, <1>13, <1>14 DEF Orderly

(***************************************************************************)
(* The taker of a nonce makes the only session of it, under an id of its   *)
(* own.                                                                    *)
(***************************************************************************)
LEMMA SessionOrderly ==
    ASSUME Shape, Orderly, NEW k \in Calls, NEW c \in Challenges, NEW i \in FreshSids,
           lapsed' = lapsed \ {Session(i)}, handed' = [handed EXCEPT ![i] = 0],
           leaving' = leaving \ {i}, out' = out \ {i}, made' = [made EXCEPT ![c] = @ + 1],
           UNCHANGED page, NEW new, NEW t, Step(k, new, t), t = PutSession(mem, i),
           Becomes(k), Kept(k), call[k].op = "take", call[k].c = c,
           new # Idle, new.op = "session", new.c = c, new.sid = i
    PROVE  Orderly'
  <1>1. mem \in Content /\ mem \in Live /\ mem \in Contents
    <2>1. mem # NoStore
      BY DEF Shape, Ordered, Kept
    <2> QED BY <2>1, BaseKnown DEF Based
  <1>2. /\ t \in Content /\ t.sessions = mem.sessions \cup {i}
        /\ t.claims = mem.claims /\ t.nonces = mem.nonces
    BY <1>1, PutSessionAdds DEF FreshSids
  <1>3. Put(k, new, t) /\ new.at = "save" /\ k \notin late /\ i \in Sids
    BY DEF Step, Waits, Kept, FreshSids
  <1>4. call'[k] = new /\ \A j \in Calls : j # k => call'[j] = call[j]
    BY <1>3, CallsAfter
  <1>5. /\ \A x \in Contents : i \notin x.sessions /\ Unclaimed(i, x)
        /\ \A j \in Calls : call[j] # Idle => call[j].sid # i
        /\ \A d \in Challenges : page[d] # i
    BY DEF FreshSids, Unclaimed, Working
  <1>6. \A j : j # i => (Alive(j)' <=> Alive(j))
    BY Stamps DEF Alive
  <1>7. /\ \A x \in Contents : Sound(x)
        /\ \A j \in Calls : Birth(j) /\ Claiming(j)
        /\ \A j \in Calls : Kept(j) => First(j) /\ \A x \in Since(j) : Done(j, x)
        /\ \A x \in Live : Agrees(x)
    BY DEF Orderly
  <1>8. made \in [Challenges -> Nat] /\ handed \in [Sids -> Nat]
    BY DEF Shape, TypeOK
  <1>9. /\ made'[c] = made[c] + 1 /\ \A d \in Challenges : d # c => made'[d] = made[d]
        /\ handed'[i] = 0 /\ \A h \in Sids : h # i => handed'[h] = handed[h]
    BY <1>3, <1>8
  <1>10. made[c] = 0 /\ call[k] # Idle
    BY <1>7 DEF First, Kept, Saving, Idle
  <1>11. \A x \in Contents' : Sound(x)'
    <2>1. ASSUME NEW x \in Contents PROVE Sound(x)'
      <3>1. Sound(x) /\ \A d \in Challenges : x.claims[d] # i
        BY <1>5, <1>7 DEF Unclaimed
      <3> QED BY <1>6, <3>1 DEF Sound
    <2>2. Sound(t)'
      <3>1. Sound(mem) /\ \A d \in Challenges : mem.claims[d] # i
        BY <1>1, <1>5, <1>7 DEF Unclaimed
      <3> QED BY <1>2, <1>6, <3>1 DEF Sound
    <2> QED BY <2>1, <2>2, ContentsAfter
  <1>12. ASSUME NEW j \in Calls PROVE Birth(j)'
    <2>1. CASE j = k
      BY <1>4, <2>1 DEF Birth
    <2>2. CASE j # k
      <3>1. Birth(j) /\ call'[j] = call[j]
        BY <1>4, <1>7, <2>2
      <3>2. ASSUME call[j] # Idle, call[j].op = "gc"
            PROVE  call[j].c # c /\ call[j].c \in Challenges
        BY <1>10, <2>2, <3>1, <3>2, CallFits DEF Birth, Fit
      <3> QED BY <1>4, <1>9, <2>2, <3>1, <3>2 DEF Birth
    <2> QED BY <2>1, <2>2
  <1>13. \A x \in Contents' : Unclaimed(i, x)
    <2>1. Unclaimed(i, t)
      BY <1>1, <1>2, <1>5 DEF Unclaimed
    <2> QED BY <1>5, <2>1, ContentsAfter
  <1>14. ASSUME NEW j \in Calls PROVE Claiming(j)'
    <2>1. CASE j = k
      BY <1>4, <1>5, <1>9, <1>13, <2>1 DEF Claiming
    <2>2. CASE j # k
      <3>1. Claiming(j) /\ call'[j] = call[j]
        BY <1>4, <1>7, <2>2
      <3>2. ASSUME Saving(j), call[j].op = "session"
            PROVE  /\ \A x \in Contents' : Unclaimed(call[j].sid, x)
                   /\ call[j].sid # i /\ call[j].sid \in Sids
        <4>1. call[j].sid # i /\ call[j].sid \in Sids
          BY <1>5, <3>2, CallFits DEF Fit, Saving, Idle
        <4>2. \A x \in Contents : Unclaimed(call[j].sid, x)
          BY <3>1, <3>2 DEF Claiming
        <4>3. Unclaimed(call[j].sid, t)
          BY <1>1, <1>2, <4>2 DEF Unclaimed
        <4> QED BY <4>1, <4>2, <4>3, ContentsAfter
      <3> QED BY <1>4, <1>9, <2>2, <3>1, <3>2 DEF Claiming, Saving
    <2> QED BY <2>1, <2>2
  <1>15. ASSUME NEW j \in Calls, Kept(j)' PROVE First(j)' /\ \A x \in Since(j)' : Done(j, x)'
    <2>1. \A m \in Calls : m # k /\ Kept(m)' => Kept(m) /\ call'[m] = call[m]
      BY <1>3, <1>4, LiveAfter
    <2>2. CASE j = k
      <3>1. Since(k)' = {t}
        BY SinceAfter
      <3> QED BY <1>2, <1>4, <2>2, <3>1 DEF First, Done
    <2>3. CASE j # k
      <3>1. First(j) /\ call'[j] = call[j] /\ Saving(j) /\ Kept(j)
        BY <1>7, <1>15, <2>1, <2>3 DEF Kept
      <3>2. Done(j, mem)
        BY <1>7, <3>1 DEF Since
      <3>3. call[j].sid # i
        BY <1>5, <3>1 DEF Saving, Idle
      <3>4. First(j)'
        <4>1. call[j].op = "take" => call[j].c # c
          BY <1>7, <2>3, <3>1 DEF First
        <4>2. call[j].op = "take" => call[j].c \in Challenges
          BY <3>1, CallFits DEF Fit, Saving, Idle
        <4>3. call[j].op = "pick" => call[j].sid \in Sids
          BY <3>1, CallFits DEF Saving, Idle
        <4> QED BY <1>4, <1>9, <2>1, <3>1, <3>3, <4>1, <4>2, <4>3 DEF First
      <3>5. ASSUME NEW x \in Since(j) \cup {t} PROVE Done(j, x)'
        <4>1. CASE x \in Since(j)
          <5>1. Done(j, x)
            BY <1>7, <3>1, <4>1
          <5> QED BY <1>6, <3>1, <3>3, <5>1 DEF Done
        <4>2. CASE x = t
          BY <1>2, <1>6, <3>1, <3>2, <3>3, <4>2 DEF Done, Unclaimed
        <4> QED BY <4>1, <4>2
      <3> QED BY <2>3, <3>1, <3>4, <3>5, SinceAfter
    <2> QED BY <2>2, <2>3
  <1>16. ASSUME NEW x \in Live' PROVE Agrees(x)'
    <2>1. PICK y \in Live : /\ y \in Since(k) /\ y.nonces = x.nonces /\ y.claims = x.claims
                            /\ x.sessions \in {y.sessions, y.sessions \cup {i}}
      <3>1. CASE x = t
        BY <1>1, <1>2, <3>1 DEF Since
      <3>2. CASE x # t
        <4>1. x \in Live /\ x \in Since(k)
          BY <1>3, <3>2, LiveAfter
        <4> QED BY <4>1
      <3> QED BY <3>1, <3>2
    <2>2. Agrees(y) /\ c \notin y.nonces
      BY <1>7, <2>1 DEF Done
    <2> QED BY <1>5, <1>6, <1>9, <2>1, <2>2 DEF Agrees, Unclaimed
  <1>17. Once'
    BY <1>9, <1>10 DEF Orderly, Once
  <1> QED BY <1>11, <1>12, <1>14, <1>15, <1>16, <1>17 DEF Orderly

(***************************************************************************)
(* The session is claimed for the page of its challenge, and for no other. *)
(***************************************************************************)
LEMMA ClaimOrderly ==
    ASSUME Shape, Orderly, NEW k \in Calls, NEW c \in Challenges, NEW i \in Sids,
           RunClaim(k, c, i, mem), NEW new, NEW t, Step(k, new, t), t = PutClaim(mem, c, i),
           Becomes(k), Kept(k), call[k].op = "session", call[k].c = c, call[k].sid = i,
           new # Idle, new.op = "claim", new.c = c, new.sid = i
    PROVE  Orderly'
  <1>1. mem \in Content /\ mem \in Live /\ mem \in Contents
    <2>1. mem # NoStore
      BY DEF Shape, Ordered, Kept
    <2> QED BY <2>1, BaseKnown DEF Based
  <1>2. /\ t \in Content /\ t.sessions = mem.sessions /\ t.nonces = mem.nonces
        /\ t.claims[c] = i /\ \A d \in Challenges : d # c => t.claims[d] = mem.claims[d]
    BY <1>1, PutClaimAdds
  <1>3. Put(k, new, t) /\ new.at = "save" /\ k \notin late
    BY DEF Step, Waits, Kept
  <1>4. call'[k] = new /\ \A j \in Calls : j # k => call'[j] = call[j]
    BY <1>3, CallsAfter
  <1>5. UNCHANGED <<page, made, handed, leaving, out>> /\ lapsed' = lapsed \ {Claimed(c)}
    BY DEF RunClaim, History
  <1>6. \A j : Alive(j)' <=> Alive(j)
    BY <1>5, Stamps DEF Alive
  <1>7. /\ \A x \in Contents : Sound(x)
        /\ \A j \in Calls : Birth(j) /\ Claiming(j)
        /\ \A j \in Calls : Kept(j) => First(j) /\ \A x \in Since(j) : Done(j, x)
        /\ \A x \in Live : Agrees(x)
    BY DEF Orderly
  <1>8. /\ handed[i] = 0 /\ \A d \in Challenges : page[d] # i
        /\ \A x \in Contents : Unclaimed(i, x)
        /\ \A j \in Calls : call[j] # Idle /\ call[j].sid = i => j = k
    BY <1>7 DEF Claiming, Kept
  <1>9. (Alive(i) => i \in mem.sessions) /\ call[k] # Idle
    BY <1>7 DEF Done, Since, Kept, Saving, Idle
  <1>10. \A x \in Contents' : Sound(x)'
    <2>1. ASSUME NEW x \in Contents PROVE Sound(x)'
      BY <1>6, <1>7 DEF Sound
    <2>2. Sound(t)'
      <3>1. Sound(mem) /\ \A d \in Challenges : mem.claims[d] # i
        BY <1>1, <1>7, <1>8 DEF Unclaimed
      <3> QED BY <1>2, <1>6, <1>9, <3>1 DEF Sound
    <2> QED BY <2>1, <2>2, ContentsAfter
  <1>11. ASSUME NEW j \in Calls PROVE Birth(j)'
    <2>1. CASE j = k
      BY <1>4, <2>1 DEF Birth
    <2>2. CASE j # k
      <3>1. Birth(j) /\ call'[j] = call[j]
        BY <1>4, <1>7, <2>2
      <3> QED BY <1>4, <1>5, <1>9, <2>2, <3>1 DEF Birth
    <2> QED BY <2>1, <2>2
  <1>12. ASSUME NEW j \in Calls PROVE Claiming(j)'
    <2>1. CASE j = k
      BY <1>4, <2>1 DEF Claiming
    <2>2. CASE j # k
      <3>1. Claiming(j) /\ call'[j] = call[j]
        BY <1>4, <1>7, <2>2
      <3>2. ASSUME Saving(j), call[j].op = "session"
            PROVE  /\ \A x \in Contents' : Unclaimed(call[j].sid, x)
                   /\ call[j].sid # i
        <4>1. call[j].sid # i
          BY <1>8, <2>2, <3>2 DEF Saving, Idle
        <4>2. \A x \in Contents : Unclaimed(call[j].sid, x)
          BY <3>1, <3>2 DEF Claiming
        <4>3. Unclaimed(call[j].sid, t)
          BY <1>1, <1>2, <4>1, <4>2 DEF Unclaimed
        <4> QED BY <4>1, <4>2, <4>3, ContentsAfter
      <3> QED BY <1>4, <1>5, <2>2, <3>1, <3>2 DEF Claiming, Saving
    <2> QED BY <2>1, <2>2
  <1>13. ASSUME NEW j \in Calls, Kept(j)' PROVE First(j)' /\ \A x \in Since(j)' : Done(j, x)'
    <2>1. \A m \in Calls : m # k /\ Kept(m)' => Kept(m) /\ call'[m] = call[m]
      BY <1>3, <1>4, LiveAfter
    <2>2. CASE j = k
      BY <1>4, <2>2 DEF First, Done
    <2>3. CASE j # k
      <3>1. First(j) /\ call'[j] = call[j] /\ Saving(j) /\ Kept(j)
        BY <1>7, <1>13, <2>1, <2>3 DEF Kept
      <3>2. Done(j, mem)
        BY <1>7, <3>1 DEF Since
      <3>3. First(j)'
        BY <1>4, <1>5, <2>1, <3>1 DEF First
      <3>4. call[j].sid # i
        BY <1>8, <2>3, <3>1 DEF Saving, Idle
      <3>5. ASSUME NEW x \in Since(j) \cup {t} PROVE Done(j, x)'
        <4>1. CASE x \in Since(j)
          <5>1. Done(j, x)
            BY <1>7, <3>1, <4>1
          <5> QED BY <1>6, <3>1, <5>1 DEF Done
        <4>2. CASE x = t
          BY <1>2, <1>6, <3>1, <3>2, <3>4, <4>2 DEF Done, Unclaimed
        <4> QED BY <4>1, <4>2
      <3> QED BY <2>3, <3>1, <3>3, <3>5, SinceAfter
    <2> QED BY <2>2, <2>3
  <1>14. ASSUME NEW x \in Live \cup {t} PROVE Agrees(x)'
    <2>1. CASE x \in Live
      <3>1. Agrees(x)
        BY <1>7, <2>1
      <3> QED BY <1>5, <1>6, <3>1 DEF Agrees
    <2>2. CASE x = t
      <3>1. Agrees(mem)
        BY <1>1, <1>7
      <3> QED BY <1>2, <1>5, <1>6, <1>8, <2>2, <3>1 DEF Agrees, Unclaimed
    <2> QED BY <2>1, <2>2
  <1>15. \A x \in Live' : Agrees(x)'
    BY <1>3, <1>14, LiveAfter
  <1>16. Once'
    BY <1>5 DEF Orderly, Once
  <1> QED BY <1>10, <1>11, <1>12, <1>13, <1>15, <1>16 DEF Orderly

(***************************************************************************)
(* A call ends: what it told, and what became of its snapshot, is all that *)
(* changes.                                                                *)
(***************************************************************************)
LEMMA EndOrderly ==
    ASSUME Shape, Orderly, NEW k \in Calls, Step(k, Idle, mem), Stays(k) \/ k \notin late,
           UNCHANGED <<lapsed, made, leaving>>,
           \A j \in Calls : j # k /\ call[j] # Idle /\ call[j].op = "gc" =>
                              page'[call[j].c] = "none",
           \A j \in Calls : j # k /\ Saving(j) /\ call[j].op = "session" =>
                              /\ handed'[call[j].sid] = 0
                              /\ \A d \in Challenges : page'[d] # call[j].sid,
           \A j \in Calls : j # k /\ Kept(j) /\ call[j].op = "pick" =>
                              handed'[call[j].sid] = 0,
           \A x \in Live' : Agrees(x)', Once'
    PROVE  Orderly'
  <1>1. Put(k, Idle, mem) /\ Idle.at = "idle"
    BY DEF Step, Idle
  <1>2. call'[k] = Idle /\ \A j \in Calls : j # k => call'[j] = call[j]
    BY <1>1, CallsAfter
  <1>3. \A j : Alive(j)' <=> Alive(j)
    BY DEF Alive
  <1>4. Contents' \subseteq Contents
    BY ContentsAfter DEF Contents
  <1>5. /\ \A x \in Contents : Sound(x)
        /\ \A j \in Calls : Birth(j) /\ Claiming(j)
        /\ \A j \in Calls : Kept(j) => First(j) /\ \A x \in Since(j) : Done(j, x)
    BY DEF Orderly
  <1>6. \A x \in Contents' : Sound(x)'
    BY <1>3, <1>4, <1>5 DEF Sound
  <1>7. ASSUME NEW j \in Calls PROVE Birth(j)'
    <2>1. CASE j = k
      BY <1>2, <2>1 DEF Birth
    <2>2. CASE j # k
      <3>1. Birth(j) /\ call'[j] = call[j]
        BY <1>2, <1>5, <2>2
      <3> QED BY <1>2, <2>2, <3>1 DEF Birth
    <2> QED BY <2>1, <2>2
  <1>8. ASSUME NEW j \in Calls PROVE Claiming(j)'
    <2>1. CASE j = k
      BY <1>1, <1>2, <2>1 DEF Claiming, Saving
    <2>2. CASE j # k
      <3>1. Claiming(j) /\ call'[j] = call[j]
        BY <1>2, <1>5, <2>2
      <3> QED BY <1>2, <1>4, <2>2, <3>1 DEF Claiming, Saving
    <2> QED BY <2>1, <2>2
  <1>9. ASSUME NEW j \in Calls, Kept(j)' PROVE First(j)' /\ \A x \in Since(j)' : Done(j, x)'
    <2>1. \A m \in Calls : Kept(m)' => m # k /\ Kept(m) /\ call'[m] = call[m]
      <3>1. ~Kept(k)'
        BY <1>1, <1>2 DEF Kept, Saving
      <3> QED BY <1>2, <3>1, LiveAfter
    <2>2. First(j) /\ j # k /\ call'[j] = call[j] /\ Kept(j)
      BY <1>5, <1>9, <2>1
    <2>3. First(j)'
      BY <2>1, <2>2 DEF First
    <2>4. Since(j)' \subseteq Since(j)
      <3>1. Since(j)' \subseteq Since(j) \cup {mem}
        BY <2>2, SinceAfter DEF Kept
      <3> QED BY <3>1 DEF Since
    <2>5. ASSUME NEW x \in Since(j)' PROVE Done(j, x)'
      <3>1. Done(j, x)
        BY <1>5, <2>2, <2>4
      <3> QED BY <1>3, <2>2, <3>1 DEF Done
    <2> QED BY <2>3, <2>5
  <1> QED BY <1>6, <1>7, <1>8, <1>9 DEF Orderly

\* Nothing is told.
LEMMA SilentOrderly ==
    ASSUME Shape, Orderly, NEW k \in Calls, Step(k, Idle, mem), Stays(k) \/ k \notin late,
           UNCHANGED <<lapsed, made, leaving, page, handed, out>>
    PROVE  Orderly'
  <1>1. \A j : Alive(j)' <=> Alive(j)
    BY DEF Alive
  <1>2. Live' \subseteq Live
    BY LiveAfter DEF Live
  <1>3. \A x \in Live' : Agrees(x)'
    BY <1>1, <1>2 DEF Orderly, Agrees
  <1>4. Once'
    BY DEF Orderly, Once
  <1>5. \A j \in Calls : Birth(j) /\ Claiming(j) /\ (Kept(j) => First(j))
    BY DEF Orderly
  <1> QED BY <1>3, <1>4, <1>5, EndOrderly DEF Birth, Claiming, First

LEMMA AnswerOrderly ==
    ASSUME Shape, Orderly, NEW k \in Calls, Answer(k), k \notin late, Step(k, Idle, mem),
           Becomes(k)
    PROVE  Orderly'
  <1> DEFINE c == call[k].c
             i == call[k].sid
  <1>1. UNCHANGED <<lapsed, made, leaving>> /\ Kept(k) /\ call[k] # Idle
    BY DEF Answer, Becomes, Kept, Saving, Idle
  <1>2. /\ \A j \in Calls : Birth(j) /\ Claiming(j)
        /\ \A j \in Calls : Kept(j) => First(j) /\ \A x \in Since(j) : Done(j, x)
        /\ \A x \in Live : Agrees(x)
        /\ Once
    BY DEF Orderly
  <1>3. \A j : Alive(j)' <=> Alive(j)
    BY <1>1 DEF Alive
  <1>4. Live' \subseteq Live /\ Live' \subseteq Since(k)
    BY LiveAfter DEF Live, Since
  <1>5. page \in Pages /\ handed \in [Sids -> Nat]
    BY DEF Shape, TypeOK, Pages
  <1>6. /\ \A j \in Calls : j # k /\ call[j] # Idle /\ call[j].op = "gc" =>
             page[call[j].c] = "none" /\ call[j].c # c /\ call[j].c \in Challenges
        /\ \A j \in Calls : j # k /\ Saving(j) /\ call[j].op = "session" =>
             /\ handed[call[j].sid] = 0 /\ call[j].sid # i /\ call[j].sid \in Sids
             /\ \A d \in Challenges : page[d] # call[j].sid
    <2>1. ASSUME NEW j \in Calls, j # k, call[j] # Idle, call[j].op = "gc"
          PROVE  page[call[j].c] = "none" /\ call[j].c # c /\ call[j].c \in Challenges
      BY <1>1, <1>2, <2>1, CallFits DEF Birth, Fit
    <2>2. ASSUME NEW j \in Calls, j # k, Saving(j), call[j].op = "session"
          PROVE  /\ handed[call[j].sid] = 0 /\ call[j].sid # i /\ call[j].sid \in Sids
                 /\ \A d \in Challenges : page[d] # call[j].sid
      <3>1. call[j] # Idle
        BY <2>2 DEF Saving, Idle
      <3> QED BY <1>1, <1>2, <2>2, <3>1, CallFits DEF Claiming, Fit
    <2> QED BY <2>1, <2>2
  <1>7. CASE call[k].op = "nonce"
    <2>1. page' = [page EXCEPT ![c] = "waiting"] /\ UNCHANGED <<handed, out>>
      BY <1>7 DEF Answer
    <2>2. \A d \in Challenges : page'[d] \in {page[d], "waiting"} /\ (d # c => page'[d] = page[d])
      BY <1>5, <2>1 DEF Pages
    <2> HIDE DEF c, i
    <2>3. \A x \in Live' : Agrees(x)'
      BY <1>1, <1>2, <1>3, <1>4, <2>1, <2>2, LoginAssumption DEF Agrees
    <2>4. Once'
      BY <1>1, <1>2, <2>1 DEF Once
    <2> QED BY <1>1, <1>2, <1>6, <2>1, <2>2, <2>3, <2>4, EndOrderly, LoginAssumption DEF First
  <1>8. CASE call[k].op = "pick"
    <2>1. /\ page' = [page EXCEPT ![c] = IF @ = "waiting" THEN i ELSE @]
          /\ handed' = [handed EXCEPT ![i] = @ + 1] /\ UNCHANGED out
      BY <1>8 DEF Answer
    <2>2. i \in Sids
      BY <1>1, <1>8, CallFits DEF Kept
    <2>3. /\ First(k) /\ \A x \in Since(k) : Done(k, x)
      BY <1>1, <1>2
    <2>4. handed[i] = 0 /\ \A j \in Calls : j # k /\ Kept(j) /\ call[j].op = "pick" => call[j].sid # i
      BY <1>8, <2>3 DEF First
    <2>5. \A x \in Live' : Unclaimed(i, x) /\ (Alive(i) => i \in x.sessions)
      BY <1>4, <1>8, <2>3 DEF Done
    <2>6. \A j \in Calls : Saving(j) /\ call[j].op = "pick" => call[j].sid \in Sids
      BY CallFits DEF Saving, Idle
    <2> HIDE DEF c, i
    <2>7. /\ \A d \in Challenges : page'[d] = page[d] \/ (page[d] = "waiting" /\ page'[d] = i)
          /\ handed'[i] = 1 /\ \A h \in Sids : h # i => handed'[h] = handed[h]
      BY <1>5, <2>1, <2>2, <2>4 DEF Pages
    <2>8. \A x \in Live' : Agrees(x)'
      BY <1>1, <1>2, <1>3, <1>4, <2>1, <2>5, <2>7 DEF Agrees
    <2>9. Once'
      BY <1>1, <1>2, <2>7 DEF Once
    <2>10. \A j \in Calls : j # k /\ Kept(j) /\ call[j].op = "pick" => handed'[call[j].sid] = 0
      BY <1>2, <2>4, <2>6, <2>7 DEF First, Kept
    <2>11. \A j \in Calls : j # k /\ Saving(j) /\ call[j].op = "session" =>
                              /\ handed'[call[j].sid] = 0
                              /\ \A d \in Challenges : page'[d] # call[j].sid
      BY <1>6, <2>7
    <2>12. \A j \in Calls : j # k /\ call[j] # Idle /\ call[j].op = "gc" =>
                              page'[call[j].c] = "none"
      BY <1>6, <2>7
    <2> QED BY <1>1, <2>8, <2>9, <2>10, <2>11, <2>12, EndOrderly
  <1>9. CASE call[k].op = "drop"
    <2>1. SignedOut(c, i) /\ out' = out \cup {i} /\ UNCHANGED handed
      BY <1>9 DEF Answer
    <2>2. i \in Sids
      BY <1>1, <1>9, CallFits DEF Kept
    <2>3. \A x \in Live' : i \notin x.sessions
      BY <1>1, <1>2, <1>4, <1>9 DEF Done
    <2> HIDE DEF c, i
    <2>4. \A d \in Challenges : page'[d] = page[d] \/ (page[d] = i /\ page'[d] = "closed")
      BY <1>5, <2>1 DEF SignedOut, Pages
    <2>5. \A x \in Live' : Agrees(x)'
      BY <1>1, <1>2, <1>3, <1>4, <2>1, <2>3, <2>4, LoginAssumption DEF Agrees
    <2>6. Once'
      BY <1>1, <1>2, <2>1 DEF Once
    <2>7. \A j \in Calls : j # k /\ call[j] # Idle /\ call[j].op = "gc" =>
                             page'[call[j].c] = "none"
      BY <1>6, <2>2, <2>4, LoginAssumption
    <2>8. \A j \in Calls : j # k /\ Saving(j) /\ call[j].op = "session" =>
                             /\ handed'[call[j].sid] = 0
                             /\ \A d \in Challenges : page'[d] # call[j].sid
      BY <1>6, <2>1, <2>4, LoginAssumption
    <2>9. \A j \in Calls : j # k /\ Kept(j) /\ call[j].op = "pick" => handed'[call[j].sid] = 0
      BY <1>2, <2>1 DEF First
    <2> QED BY <1>1, <2>5, <2>6, <2>7, <2>8, <2>9, EndOrderly
  <1>10. CASE call[k].op \notin {"nonce", "pick", "drop"}
    <2>1. UNCHANGED <<page, handed, out>>
      BY <1>10 DEF Answer
    <2> QED BY <1>1, <2>1, SilentOrderly, LiveAfter DEF Kept
  <1> QED BY <1>7, <1>8, <1>9, <1>10

(***************************************************************************)
(* The steps. A handler that begins, or has read the file.                 *)
(***************************************************************************)
LEMMA FirstsKeep ==
    ASSUME Shape, NEW k \in Calls, NEW o \in Firsts, NEW c, NEW i, Fit(o, c, i),
           NEW s \in Content, Run(k, o, c, i, s), ~Saving(k), UNCHANGED <<disk, late, crashes>>,
           overwrote' \in BOOLEAN, reordered' \in BOOLEAN
    PROVE  Shape' /\ (Orderly /\ Based(s) /\ Welcome(k, o, c, i) => Orderly')
  <1>1. Stays(k) /\ ~Becomes(k)
    BY DEF Stays, Becomes, Shape, Ordered
  <1>2. CASE \E new, t : Quietly(k, o, c, i, s, new, t)
    <2>1. PICK new, t : Quietly(k, o, c, i, s, new, t)
      BY <1>2
    <2>2. Shape' /\ Step(k, new, t)
      BY <1>1, <2>1, QuietShape
    <2> QED BY <1>1, <2>1, <2>2, QuietOrderly
  <1>3. CASE o = "gc" /\ RunNonce(k, c, s)
    <2>1. c \in Challenges
      BY <1>3 DEF Fit
    <2> DEFINE t == PutNonce(s, c)
               new == Record("save", "nonce", c, None, t)
    <2>2. /\ Shape' /\ Step(k, new, t)
          /\ new # Idle /\ new.op = "nonce" /\ new.c = c /\ new.sid = None
      BY <1>1, <1>3, <2>1, NonceShape
    <2>3. t = PutNonce(s, c)
      OBVIOUS
    <2> HIDE DEF new, t
    <2>4. ASSUME Orderly, Based(s), Welcome(k, o, c, i) PROVE Orderly'
      BY <1>1, <1>3, <2>1, <2>2, <2>3, <2>4, NonceOrderly DEF Welcome
    <2> QED BY <2>2, <2>4
  <1> QED BY <1>2, <1>3, FirstsRun

\* A handler waits for the file, or has it.
LEMMA WaitKeeps ==
    ASSUME Shape, NEW k \in Calls, NEW r \in Act, ~Saving(k),
           \/ r.at = "load" /\ r.buf = Blank
           \/ r.at = "loaded" /\ r.buf = disk,
           r.op \in Firsts, Fit(r.op, r.c, r.sid), call' = [call EXCEPT ![k] = r],
           UNCHANGED <<mem, disk, newer, late, page, lapsed, crashes, History, overwrote, reordered>>
    PROVE  Shape' /\ (Orderly /\ Welcome(k, r.op, r.c, r.sid) => Orderly')
  <1>1. call'[k] = r /\ \A j \in Calls : j # k => call'[j] = call[j]
    BY DEF Shape, TypeOK
  <1>2. r # Idle /\ r.at # "save" /\ Idle.at = "idle"
    BY ActFields
  <1>3. \A j \in Calls : Saving(j)' <=> Saving(j)
    BY <1>1, <1>2 DEF Saving
  <1>4. UNCHANGED <<page, lapsed, made, handed, leaving, out>>
    BY DEF History
  <1>5. Shape'
    <2>1. TypeOK'
      <3>1. call' \in [Calls -> {Idle} \cup Act]
        BY Types DEF Shape
      <3> QED BY <1>4, <3>1 DEF Shape, TypeOK, Act
    <2>2. Ordered'
      <3>1. late' \subseteq {j \in Calls : Saving(j)'}
        BY <1>3 DEF Shape, Ordered
      <3>2. \A j \in Calls : /\ newer'[j] \subseteq {m \in Calls : Saving(m)'} \ {j}
                             /\ ~Saving(j)' => newer'[j] = {}
        BY <1>3 DEF Shape, Ordered
      <3>3. \A j, m \in Calls : Saving(j)' /\ Saving(m)' /\ j # m => j \in newer'[m] \/ m \in newer'[j]
        BY <1>3 DEF Shape, Ordered
      <3>4. mem' = NoStore => \A j \in Calls : /\ ~Saving(j)'
                                               /\ call'[j].at = "loaded" => call'[j].buf = disk'
        BY <1>1, <1>3 DEF Shape, Ordered
      <3> QED BY <3>1, <3>2, <3>3, <3>4 DEF Ordered
    <2>3. ASSUME NEW j \in Calls PROVE Fits(j)'
      <3>1. CASE j = k
        BY <1>1, <1>2, <3>1 DEF Fits, Saving
      <3>2. CASE j # k
        <4>1. Fits(j) /\ call'[j] = call[j]
          BY <1>1, <3>2 DEF Shape
        <4> QED BY <1>4, <4>1 DEF Fits, Saving
      <3> QED BY <3>1, <3>2
    <2> QED BY <2>1, <2>2, <2>3 DEF Shape
  <1>6. ASSUME Orderly, Welcome(k, r.op, r.c, r.sid) PROVE Orderly'
    <2>1. \A j : Alive(j)' <=> Alive(j)
      BY <1>4 DEF Alive
    <2>2. Contents' \subseteq Contents \cup {Blank}
      BY <1>1 DEF Contents, Working
    <2>3. \A j \in Calls : Kept(j)' => Kept(j) /\ j # k /\ call'[j] = call[j]
      BY <1>1, <1>2 DEF Kept, Saving
    <2>4. /\ \A x \in Contents : Sound(x)
          /\ \A j \in Calls : Birth(j) /\ Claiming(j)
          /\ \A j \in Calls : Kept(j) => First(j) /\ \A x \in Since(j) : Done(j, x)
          /\ \A x \in Live : Agrees(x)
      BY <1>6 DEF Orderly
    <2>5. \A x \in Contents' : Sound(x)'
      <3>1. \A x \in Contents : Sound(x)'
        BY <2>1, <2>4 DEF Sound
      <3>2. Sound(Blank)'
        BY BlankContent, LoginAssumption DEF Sound
      <3> QED BY <2>2, <3>1, <3>2
    <2>6. ASSUME NEW j \in Calls PROVE Birth(j)'
      <3>1. CASE j = k
        BY <1>1, <1>4, <1>6, <3>1 DEF Birth, Welcome
      <3>2. CASE j # k
        <4>1. Birth(j) /\ call'[j] = call[j]
          BY <1>1, <2>4, <3>2
        <4> QED BY <1>1, <1>4, <1>6, <3>2, <4>1 DEF Birth, Welcome
      <3> QED BY <3>1, <3>2
    <2>7. ASSUME NEW j \in Calls PROVE Claiming(j)'
      <3>1. CASE j = k
        BY <1>1, <1>2, <3>1 DEF Claiming, Saving
      <3>2. CASE j # k
        <4>1. Claiming(j) /\ call'[j] = call[j]
          BY <1>1, <2>4, <3>2
        <4>2. Saving(j) /\ call[j].op = "session" => Unclaimed(call[j].sid, Blank)
          BY CallFits, BlankContent, LoginAssumption DEF Unclaimed, Fit, Saving, Idle
        <4>3. Saving(j) /\ call[j].op = "session" => r.sid # call[j].sid
          BY <1>6, <3>2 DEF Welcome
        <4> QED BY <1>1, <1>4, <2>2, <3>2, <4>1, <4>2, <4>3 DEF Claiming, Saving
      <3> QED BY <3>1, <3>2
    <2>8. ASSUME NEW j \in Calls, Kept(j)' PROVE First(j)' /\ \A x \in Since(j)' : Done(j, x)'
      <3>1. First(j) /\ Kept(j) /\ call'[j] = call[j]
        BY <2>3, <2>4, <2>8
      <3>2. First(j)'
        BY <1>4, <2>3, <3>1 DEF First
      <3>3. Since(j)' \subseteq Since(j)
        <4>1. \A m \in newer[j] : m \in Calls /\ Saving(m)
          BY DEF Shape, Ordered
        <4>2. \A m \in newer[j] : call'[m] = call[m]
          BY <1>1, <4>1
        <4> QED BY <3>1, <4>2 DEF Since
      <3>4. ASSUME NEW x \in Since(j)' PROVE Done(j, x)'
        <4>1. Done(j, x)
          BY <2>4, <3>1, <3>3
        <4> QED BY <2>1, <3>1, <4>1 DEF Done
      <3> QED BY <3>2, <3>4
    <2>9. ASSUME NEW x \in Live' PROVE Agrees(x)'
      <3>1. x \in Live
        BY <2>3 DEF Live
      <3>2. Agrees(x)
        BY <2>4, <3>1
      <3> QED BY <1>4, <2>1, <3>2 DEF Agrees
    <2>10. Once'
      BY <1>4, <1>6 DEF Orderly, Once
    <2> QED BY <2>5, <2>6, <2>7, <2>8, <2>9, <2>10 DEF Orderly
  <1> QED BY <1>5, <1>6

LEMMA ArriveKeeps ==
    ASSUME LInv, NEW k \in Calls, NEW o \in Firsts, NEW c \in Challenges \cup {None},
           NEW i \in Sids \cup {None}, Fit(o, c, i), Arrive(k, o, c, i),
           Orderly => Welcome(k, o, c, i)
    PROVE  LInv'
  <1>1. UNCHANGED <<disk, late, crashes, overwrote, reordered>> /\ ~Saving(k) /\ Shape
    BY DEF Arrive, Saving, Idle, LInv
  <1>2. o \in Ops
    BY DEF Firsts, Ops
  <1>3. CASE mem = NoStore
    <2> DEFINE r == Record("load", o, c, i, Blank)
    <2>1. /\ call' = [call EXCEPT ![k] = r]
          /\ UNCHANGED <<mem, newer, page, lapsed, History>>
      BY <1>3 DEF Arrive, Record
    <2>2. r \in Act /\ r.at = "load" /\ r.buf = Blank /\ r.op = o /\ r.c = c /\ r.sid = i
      BY <1>2, BlankContent, RecordFields
    <2> HIDE DEF r
    <2> QED BY <1>1, <2>1, <2>2, WaitKeeps DEF LInv, Good
  <1>4. CASE mem # NoStore
    <2>1. Run(k, o, c, i, mem) /\ mem \in Content /\ Based(mem)
      BY <1>1, <1>4 DEF Arrive, Shape, TypeOK, Based
    <2>2. Shape' /\ (Orderly => Orderly')
      <3>1. overwrote' \in BOOLEAN /\ reordered' \in BOOLEAN
        BY <1>1 DEF Shape, TypeOK
      <3> QED BY <1>1, <2>1, <3>1, FirstsKeep
    <2> QED BY <1>1, <2>2 DEF LInv, Good
  <1> QED BY <1>3, <1>4

\* A request finds those who rely on being alone with something of another
\* challenge and another session.
LEMMA RequestsKeep ==
    ASSUME LInv, NEW k \in Calls, NEW c \in Challenges,
           Challenge(k, c) \/ Callback(k, c) \/ Poll(k, c) \/ Logout(k, c) \/ Visit(k, c)
    PROVE  LInv'
  <1>1. Shape /\ page \in Pages
    BY DEF LInv, Shape, TypeOK, Pages
  <1>2. ASSUME Orderly, page[c] # "none"
        PROVE  \A j \in Calls : call[j] # Idle /\ call[j].op = "gc" => call[j].c # c
    BY <1>2 DEF Orderly, Birth
  <1>3. ASSUME NEW j \in Calls, Saving(j), call[j].op = "session", Orderly
        PROVE  call[j].sid # None /\ call[j].sid # page[c]
    <2>1. call[j].sid # None
      BY <1>1, <1>3, CallFits, LoginAssumption DEF Fit, Saving, Idle
    <2> QED BY <1>3, <2>1 DEF Orderly, Claiming
  <1>4. CASE Challenge(k, c)
    <2>1. Arrive(k, "gc", c, None) /\ Unused(c) /\ page[c] = "none" /\ made[c] = 0
      BY <1>4 DEF Challenge
    <2>2. \A j \in Calls : call[j] # Idle => call[j].c # c
      BY <2>1 DEF Unused, Working
    <2>3. Orderly => Welcome(k, "gc", c, None)
      BY <1>3, <2>1, <2>2 DEF Welcome
    <2> QED BY <2>1, <2>3, ArriveKeeps DEF Fit, Firsts
  <1>5. CASE Callback(k, c)
    <2>1. Arrive(k, "take", c, None) /\ page[c] # "none"
      BY <1>5 DEF Callback
    <2>2. Orderly => Welcome(k, "take", c, None)
      BY <1>2, <1>3, <2>1 DEF Welcome
    <2> QED BY <2>1, <2>2, ArriveKeeps DEF Fit, Firsts
  <1>6. CASE Poll(k, c)
    <2>1. Arrive(k, "pick", c, None) /\ page[c] # "none"
      BY <1>6 DEF Poll
    <2>2. Orderly => Welcome(k, "pick", c, None)
      BY <1>2, <1>3, <2>1 DEF Welcome
    <2> QED BY <2>1, <2>2, ArriveKeeps DEF Fit, Firsts
  <1>7. CASE Logout(k, c)
    <2>1. Arrive(k, "drop", c, page[c]) /\ page[c] \in Sids /\ page[c] # "none"
      BY <1>7, LoginAssumption DEF Logout
    <2>2. Orderly => Welcome(k, "drop", c, page[c])
      BY <1>2, <1>3, <2>1 DEF Welcome
    <2> QED BY <2>1, <2>2, ArriveKeeps DEF Fit, Firsts
  <1>8. CASE Visit(k, c)
    <2>1. Arrive(k, "look", c, page[c]) /\ page[c] \in Sids /\ page[c] # "none"
      BY <1>8, LoginAssumption DEF Visit
    <2>2. Orderly => Welcome(k, "look", c, page[c])
      BY <1>2, <1>3, <2>1 DEF Welcome
    <2> QED BY <2>1, <2>2, ArriveKeeps DEF Fit, Firsts
  <1> QED BY <1>4, <1>5, <1>6, <1>7, <1>8

LEMMA OtherKeeps ==
    ASSUME LInv, NEW k \in Calls, Other(k) PROVE LInv'
  <1>1. Orderly => Welcome(k, "other", None, None)
    <2>1. ASSUME NEW j \in Calls, call[j] # Idle
          PROVE  /\ call[j].op = "gc" => call[j].c # None
                 /\ call[j].op = "session" => call[j].sid # None
      BY <2>1, CallFits, LoginAssumption DEF Fit, LInv
    <2> QED BY <2>1 DEF Welcome, Saving, Idle
  <1> QED BY <1>1, ArriveKeeps DEF Other, Fit, Firsts

\* A call that was welcome still is.
LEMMA WelcomeStill ==
    ASSUME Shape, Orderly, NEW k \in Calls, call[k] # Idle
    PROVE  Welcome(k, call[k].op, call[k].c, call[k].sid)
  BY DEF Welcome, Orderly, Birth, Claiming

LEMMA ReadFileKeeps ==
    ASSUME LInv, NEW k \in Calls, ReadFile(k) PROVE LInv'
  <1> DEFINE r == [call[k] EXCEPT !.at = "loaded", !.buf = disk]
  <1>1. /\ Shape /\ ~Saving(k) /\ call[k] # Idle /\ call[k] \in Act /\ disk \in Content
    BY CallTypes DEF LInv, ReadFile, Saving, Idle, Shape, TypeOK
  <1>2. r \in Act /\ r.at = "loaded" /\ r.buf = disk
    BY <1>1 DEF Act
  <1>3. r.op = call[k].op /\ r.c = call[k].c /\ r.sid = call[k].sid
    BY <1>1 DEF Act
  <1>4. call' = [call EXCEPT ![k] = r]
    BY <1>1 DEF ReadFile, Shape, TypeOK
  <1>5. r.op \in Firsts /\ Fit(r.op, r.c, r.sid)
    BY <1>1, <1>3, CallFits
  <1>6. UNCHANGED <<mem, disk, newer, late, page, lapsed, crashes, History, overwrote, reordered>>
    BY DEF ReadFile
  <1>7. Orderly => Welcome(k, r.op, r.c, r.sid)
    BY <1>1, <1>3, WelcomeStill
  <1> HIDE DEF r
  <1>8. Shape' /\ (Orderly => Orderly')
    BY <1>1, <1>2, <1>4, <1>5, <1>6, <1>7, WaitKeeps
  <1> QED BY <1>6, <1>8 DEF LInv, Good

LEMMA ResumeKeeps ==
    ASSUME LInv, NEW k \in Calls, Resume(k) PROVE LInv'
  <1>1. /\ Shape /\ ~Saving(k) /\ call[k] # Idle /\ call[k].at = "loaded"
        /\ Run(k, call[k].op, call[k].c, call[k].sid, call[k].buf)
        /\ overwrote' = (overwrote \/ mem # NoStore)
        /\ UNCHANGED <<disk, late, crashes, reordered>>
    BY DEF LInv, Resume, Saving, Idle
  <1>2. /\ call[k].op \in Firsts /\ Fit(call[k].op, call[k].c, call[k].sid)
        /\ call[k].buf \in Content
    BY <1>1, CallFits
  <1>3. overwrote' \in BOOLEAN /\ reordered' \in BOOLEAN
    BY <1>1 DEF Shape, TypeOK
  <1>4. /\ Shape'
        /\ Orderly /\ Based(call[k].buf) /\ Welcome(k, call[k].op, call[k].c, call[k].sid)
           => Orderly'
    BY <1>1, <1>2, <1>3, FirstsKeep
  <1>5. ASSUME Good' PROVE Good /\ Based(call[k].buf)
    <2>1. ~overwrote /\ ~reordered /\ mem = NoStore
      BY <1>1, <1>5 DEF Good
    <2> QED BY <1>1, <2>1 DEF Good, Based, Shape, Ordered
  <1> QED BY <1>1, <1>4, <1>5, WelcomeStill DEF LInv

(***************************************************************************)
(* The snapshot of a call has been renamed over the file.                  *)
(***************************************************************************)
LEMMA RenamedBecomes ==
    ASSUME LInv, NEW k \in Calls, Renamed(k)
    PROVE  /\ Shape /\ Becomes(k) /\ call[k] # Idle /\ Saving(k) /\ mem \in Content
           /\ UNCHANGED <<crashes, overwrote>> /\ overwrote' \in BOOLEAN /\ reordered' \in BOOLEAN
           /\ Good' => Good /\ k \notin late /\ Kept(k)
  <1>1. Shape /\ Becomes(k) /\ call[k] # Idle /\ Saving(k)
    BY DEF LInv, Renamed, Becomes, Saving, Idle
  <1>2. mem \in Content
    BY <1>1 DEF Shape, TypeOK, Ordered
  <1>3. UNCHANGED <<crashes, overwrote>> /\ overwrote' \in BOOLEAN
    BY <1>1 DEF Renamed, Shape, TypeOK
  <1>4. reordered' = (reordered \/ k \in late)
    BY DEF Renamed
  <1>5. reordered' \in BOOLEAN
    BY <1>4
  <1>6. Good' => Good /\ k \notin late
    BY <1>3, <1>4 DEF Good
  <1> QED BY <1>1, <1>2, <1>3, <1>5, <1>6 DEF Kept

LEMMA NextOps ==
    /\ NextOp("gc") = "nonce" /\ NextOp("take") = "session" /\ NextOp("session") = "claim"
    /\ \A o \in Ops : o \notin {"gc", "take", "session"} => NextOp(o) = "none"
  BY DEF NextOp

LEMMA ProceedKeeps ==
    ASSUME LInv, NEW k \in Calls, Proceed(k) PROVE LInv'
  <1> DEFINE c == call[k].c
             i == call[k].sid
  <1>1. /\ Renamed(k) /\ NextOp(call[k].op) # "none"
        /\ Run(k, NextOp(call[k].op), c, i, mem)
    BY DEF Proceed
  <1>2. /\ Shape /\ Becomes(k) /\ call[k] # Idle /\ Saving(k) /\ mem \in Content
        /\ UNCHANGED <<crashes, overwrote>> /\ overwrote' \in BOOLEAN /\ reordered' \in BOOLEAN
        /\ Good' => Good /\ k \notin late /\ Kept(k)
    BY <1>1, RenamedBecomes
  <1>3. call[k].op \in {"gc", "take", "session"} /\ c \in Challenges
    BY <1>1, <1>2, CallFits, NextOps DEF Fit
  <1>4. Good' => Orderly
    BY <1>2 DEF LInv
  <1>5. Based(mem)
    BY <1>2, NoStoreAssumption DEF Based
  <1>6. CASE call[k].op = "gc"
    <2>1. RunNonce(k, c, mem)
      BY <1>1, <1>6, NextOps DEF Run
    <2> DEFINE t == PutNonce(mem, c)
               new == Record("save", "nonce", c, None, t)
    <2>2. /\ Shape' /\ Step(k, new, t)
          /\ new # Idle /\ new.op = "nonce" /\ new.c = c /\ new.sid = None
      BY <1>2, <1>3, <2>1, NonceShape
    <2>3. t = PutNonce(mem, c)
      OBVIOUS
    <2>4. Orderly => /\ page[c] = "none" /\ made[c] = 0
                     /\ \A j \in Calls : j # k /\ call[j] # Idle => call[j].c # c
      BY <1>2, <1>6 DEF Orderly, Birth
    <2> HIDE DEF new, t, c, i
    <2>5. Good' => Orderly'
      BY <1>2, <1>3, <1>4, <1>5, <2>1, <2>2, <2>3, <2>4, NonceOrderly
    <2> QED BY <2>2, <2>5 DEF LInv
  <1>7. CASE call[k].op = "take"
    <2>1. RunSession(k, c, mem)
      BY <1>1, <1>7, NextOps DEF Run
    <2>2. PICK h \in FreshSids :
            /\ Save(k, "session", c, h, PutSession(mem, h))
            /\ lapsed' = lapsed \ {Session(h)}
            /\ handed' = [handed EXCEPT ![h] = 0]
            /\ leaving' = leaving \ {h} /\ out' = out \ {h}
      BY <2>1 DEF RunSession
    <2>3. made' = [made EXCEPT ![c] = @ + 1] /\ UNCHANGED page
      BY <2>1 DEF RunSession
    <2> DEFINE t == PutSession(mem, h)
               new == Record("save", "session", c, h, t)
    <2>4. /\ Shape' /\ Step(k, new, t)
          /\ new # Idle /\ new.op = "session" /\ new.c = c /\ new.sid = h
      BY <1>2, <1>3, <2>2, <2>3, SessionShape
    <2>5. t = PutSession(mem, h) /\ call[k].c = c
      OBVIOUS
    <2> HIDE DEF new, t, c, i
    <2>6. Good' => Orderly'
      BY <1>2, <1>3, <1>4, <1>7, <2>2, <2>3, <2>4, <2>5, SessionOrderly
    <2> QED BY <2>4, <2>6 DEF LInv
  <1>8. CASE call[k].op = "session"
    <2>1. RunClaim(k, c, i, mem) /\ i \in Sids
      BY <1>1, <1>2, <1>8, NextOps, CallFits DEF Run, Fit
    <2> DEFINE t == PutClaim(mem, c, i)
               new == Record("save", "claim", c, i, t)
    <2>2. /\ Shape' /\ Step(k, new, t)
          /\ new # Idle /\ new.op = "claim" /\ new.c = c /\ new.sid = i
      BY <1>2, <1>3, <2>1, ClaimShape
    <2>3. t = PutClaim(mem, c, i) /\ call[k].c = c /\ call[k].sid = i
      OBVIOUS
    <2> HIDE DEF new, t, c, i
    <2>4. Good' => Orderly'
      BY <1>2, <1>3, <1>4, <1>8, <2>1, <2>2, <2>3, ClaimOrderly
    <2> QED BY <2>2, <2>4 DEF LInv
  <1> QED BY <1>3, <1>6, <1>7, <1>8

\* A call ends.
LEMMA EndShape ==
    ASSUME Shape, NEW k \in Calls, End(k, mem), Stays(k) \/ Becomes(k), RestTyped',
           UNCHANGED leaving
    PROVE  Shape' /\ Step(k, Idle, mem)
  <1>1. Put(k, Idle, mem)
    BY EndPuts
  <1>2. Step(k, Idle, mem)
    BY <1>1 DEF Step, Shape, TypeOK
  <1>3. \A j \in Calls : j # k /\ Saving(j) /\ call[j].op = "drop" => call[j].sid \in leaving'
    BY DEF Shape, Fits, Saving, Idle
  <1> QED BY <1>2, <1>3, ShapeAfter

LEMMA AnswerKeeps ==
    ASSUME LInv, NEW k \in Calls, Answer(k) PROVE LInv'
  <1>1. Renamed(k) /\ End(k, mem) /\ UNCHANGED <<lapsed, made, leaving>>
    BY DEF Answer
  <1>2. /\ Shape /\ Becomes(k) /\ call[k] # Idle /\ Saving(k)
        /\ UNCHANGED <<crashes, overwrote>> /\ overwrote' \in BOOLEAN /\ reordered' \in BOOLEAN
        /\ Good' => Good /\ k \notin late
    BY <1>1, RenamedBecomes
  <1>3. RestTyped
    BY <1>2, Types DEF Shape
  <1>4. RestTyped'
    <2>1. CASE call[k].op = "nonce"
      <3>1. page' = [page EXCEPT ![call[k].c] = "waiting"] /\ UNCHANGED <<handed, out>>
        BY <2>1 DEF Answer
      <3> QED BY <1>1, <1>2, <1>3, <3>1 DEF RestTyped, Pages
    <2>2. CASE call[k].op = "pick"
      <3>1. /\ page' = [page EXCEPT ![call[k].c] = IF @ = "waiting" THEN call[k].sid ELSE @]
            /\ handed' = [handed EXCEPT ![call[k].sid] = @ + 1] /\ UNCHANGED out
        BY <2>2 DEF Answer
      <3>2. call[k].sid \in Sids
        BY <1>2, <2>2, CallFits
      <3>3. page' \in Pages
        BY <1>3, <3>1, <3>2 DEF RestTyped, Pages
      <3>4. handed' \in [Sids -> Nat]
        BY <1>3, <3>1, <3>2 DEF RestTyped
      <3> QED BY <1>1, <1>2, <1>3, <3>1, <3>3, <3>4 DEF RestTyped
    <2>3. CASE call[k].op = "drop"
      <3>1. SignedOut(call[k].c, call[k].sid) /\ out' = out \cup {call[k].sid} /\ UNCHANGED handed
        BY <2>3 DEF Answer
      <3>2. call[k].sid \in leaving
        BY <1>2, <2>3 DEF Shape, Fits
      <3>3. page' \in Pages
        BY <1>3, <3>1 DEF RestTyped, Pages, SignedOut
      <3> QED BY <1>1, <1>2, <1>3, <3>1, <3>2, <3>3 DEF RestTyped
    <2>4. CASE call[k].op \notin {"nonce", "pick", "drop"}
      <3>1. UNCHANGED <<page, handed, out>>
        BY <2>4 DEF Answer
      <3> QED BY <1>1, <1>2, <1>3, <3>1 DEF RestTyped
    <2> QED BY <2>1, <2>2, <2>3, <2>4
  <1>5. Shape' /\ Step(k, Idle, mem)
    BY <1>1, <1>2, <1>4, EndShape
  <1>6. Good' => Orderly'
    BY <1>2, <1>5, AnswerOrderly DEF LInv
  <1> QED BY <1>5, <1>6 DEF LInv

LEMMA LostKeeps ==
    ASSUME LInv, NEW k \in Calls, AnswerLost(k) PROVE LInv'
  <1>1. Renamed(k) /\ End(k, mem) /\ UNCHANGED <<page, lapsed, made, handed, leaving, out>>
    BY DEF AnswerLost, History
  <1>2. /\ Shape /\ Becomes(k)
        /\ UNCHANGED <<crashes, overwrote>> /\ overwrote' \in BOOLEAN /\ reordered' \in BOOLEAN
        /\ Good' => Good /\ k \notin late
    BY <1>1, RenamedBecomes
  <1>3. RestTyped'
    BY <1>1, <1>2, Types DEF Shape, RestTyped
  <1>4. Shape' /\ Step(k, Idle, mem)
    BY <1>1, <1>2, <1>3, EndShape
  <1>5. Good' => Orderly'
    BY <1>1, <1>2, <1>4, SilentOrderly DEF LInv
  <1> QED BY <1>4, <1>5 DEF LInv

LEMMA FailKeeps ==
    ASSUME LInv, NEW k \in Calls, Fail(k) PROVE LInv'
  <1>1. /\ Shape /\ End(k, mem) /\ Stays(k)
        /\ UNCHANGED <<page, lapsed, crashes, made, handed, leaving, out, overwrote, reordered>>
    BY DEF Fail, History, Stays, LInv
  <1>2. RestTyped'
    BY <1>1, Types DEF Shape, RestTyped
  <1>3. Shape' /\ Step(k, Idle, mem)
    BY <1>1, <1>2, EndShape
  <1>4. Orderly => Orderly'
    BY <1>1, <1>3, SilentOrderly
  <1> QED BY <1>1, <1>3, <1>4 DEF LInv, Good

(***************************************************************************)
(* A restart, the pages, and the clock.                                    *)
(***************************************************************************)
LEMMA CrashKeeps ==
    ASSUME LInv, Crash PROVE LInv'
  <1>1. /\ mem' = NoStore /\ late' = {} /\ newer' = [k \in Calls |-> {}]
        /\ call' = [k \in Calls |-> Idle]
        /\ UNCHANGED <<disk, page, lapsed, made, handed, leaving, out, overwrote, reordered>>
        /\ crashes < MaxCrashes /\ crashes' = crashes + 1 /\ Shape
    BY DEF Crash, History, LInv
  <1>2. \A k \in Calls : call'[k] = Idle /\ ~Saving(k)' /\ call'[k].at = "idle"
    BY <1>1 DEF Saving, Idle
  <1>3. Shape'
    <2>1. TypeOK'
      BY <1>1, LoginAssumption DEF Shape, TypeOK
    <2>2. Ordered'
      BY <1>1, <1>2 DEF Ordered
    <2>3. \A k \in Calls : Fits(k)'
      BY <1>2 DEF Fits
    <2> QED BY <2>1, <2>2, <2>3 DEF Shape
  <1>4. ASSUME Orderly PROVE Orderly'
    <2>1. \A j : Alive(j)' <=> Alive(j)
      BY <1>1 DEF Alive
    <2>2. Contents' \subseteq {disk} /\ disk \in Contents
      BY <1>1, <1>2 DEF Contents, Working
    <2>3. Live' \subseteq {disk} /\ disk \in Live
      BY <1>1, <1>2 DEF Live, Kept
    <2>4. Sound(disk) /\ Agrees(disk) /\ Once
      BY <1>4, <2>2, <2>3 DEF Orderly
    <2>5. \A x \in Contents' : Sound(x)'
      BY <2>1, <2>2, <2>4 DEF Sound
    <2>6. \A x \in Live' : Agrees(x)'
      BY <1>1, <2>1, <2>3, <2>4 DEF Agrees
    <2>7. \A k \in Calls : Birth(k)' /\ Claiming(k)' /\ ~Kept(k)'
      BY <1>2 DEF Birth, Claiming, Kept
    <2>8. Once'
      BY <1>1, <2>4 DEF Once
    <2> QED BY <2>5, <2>6, <2>7, <2>8 DEF Orderly
  <1> QED BY <1>1, <1>3, <1>4 DEF LInv, Good

\* Pages close, challenges that are nowhere any more are new again, and times
\* are over: no call and no store changes.
LEMMA AsideKeeps ==
    ASSUME LInv, UNCHANGED <<mem, disk, call, newer, late, crashes, handed, leaving, out,
                             overwrote, reordered>>,
           RestTyped',
           \A j : Alive(j)' => Alive(j),
           \A d \in Challenges : made'[d] \in {made[d], 0},
           \A d \in Challenges :
              \/ page'[d] = page[d]
              \/ /\ page'[d] \in {"none", "closed"}
                 /\ Orderly => \A j \in Calls :
                                 call[j] # Idle /\ call[j].op = "gc" => call[j].c # d
    PROVE  LInv'
  <1>1. Shape'
    <2>1. TypeOK'
      BY DEF LInv, Shape, TypeOK, RestTyped, Pages
    <2>2. Ordered'
      BY DEF LInv, Shape, Ordered, Saving
    <2>3. \A k \in Calls : Fits(k)'
      BY DEF LInv, Shape, Fits, Saving
    <2> QED BY <2>1, <2>2, <2>3 DEF Shape
  <1>2. ASSUME Orderly PROVE Orderly'
    <2>1. Contents' = Contents
      BY DEF Contents, Working
    <2>2. \A k \in Calls : (Saving(k)' <=> Saving(k)) /\ (Kept(k)' <=> Kept(k))
      BY DEF Kept, Saving
    <2>3. Live' = Live /\ \A k \in Calls : Since(k)' = Since(k)
      BY <2>2 DEF Live, Since
    <2>4. /\ \A x \in Contents : Sound(x)
          /\ \A j \in Calls : Birth(j) /\ Claiming(j)
          /\ \A j \in Calls : Kept(j) => First(j) /\ \A x \in Since(j) : Done(j, x)
          /\ \A x \in Live : Agrees(x)
          /\ Once
      BY <1>2 DEF Orderly
    <2>5. \A k \in Calls : call[k] # Idle => Fit(call[k].op, call[k].c, call[k].sid)
      BY CallFits DEF LInv
    <2>6. \A x \in Contents' : Sound(x)'
      BY <2>1, <2>4 DEF Sound
    <2>7. ASSUME NEW k \in Calls PROVE Birth(k)'
      <3>1. Birth(k) /\ (call[k] # Idle /\ call[k].op = "gc" => call[k].c \in Challenges)
        BY <2>4, <2>5 DEF Fit
      <3> QED BY <1>2, <3>1 DEF Birth
    <2>8. ASSUME NEW k \in Calls PROVE Claiming(k)'
      <3>1. Saving(k) /\ call[k].op = "session" => call[k].sid \in Sids
        BY <2>5 DEF Fit, Saving, Idle
      <3>2. \A d \in Challenges : page'[d] = page[d] \/ page'[d] \notin Sids
        BY LoginAssumption
      <3>3. Claiming(k)
        BY <2>4
      <3> QED BY <2>1, <2>2, <3>1, <3>2, <3>3 DEF Claiming
    <2>9. ASSUME NEW k \in Calls, Kept(k)' PROVE First(k)' /\ \A x \in Since(k)' : Done(k, x)'
      <3>1. First(k) /\ Kept(k)
        BY <2>2, <2>4, <2>9
      <3>2. call[k].op = "take" => call[k].c \in Challenges
        BY <2>5, <3>1 DEF Fit, Kept, Saving, Idle
      <3>3. First(k)'
        BY <2>2, <3>1, <3>2 DEF First
      <3>4. \A x \in Since(k)' : Done(k, x)'
        BY <2>3, <2>4, <3>1 DEF Done
      <3> QED BY <3>3, <3>4
    <2>10. \A x \in Live' : Agrees(x)'
      BY <2>3, <2>4, LoginAssumption DEF Agrees
    <2>11. Once'
      BY <2>4 DEF Once
    <2> QED BY <2>6, <2>7, <2>8, <2>9, <2>10, <2>11 DEF Orderly
  <1> QED BY <1>1, <1>2 DEF LInv, Good

LEMMA AsideSteps ==
    ASSUME LInv, Lapse \/ \E c \in Challenges : Renew(c) \/ Close(c)
    PROVE  LInv'
  <1>1. Shape /\ RestTyped
    BY Types DEF LInv, Shape
  <1>2. CASE Lapse
    <2>1. /\ UNCHANGED <<mem, disk, call, newer, late, page, crashes, made, handed, leaving, out,
                         overwrote, reordered>>
          /\ \E x \in {Nonce(c) : c \in mem.nonces}
                 \cup {Claimed(c) : c \in {d \in Challenges : mem.claims[d] # None}}
                 \cup {Session(i) : i \in mem.sessions} : lapsed' = lapsed \cup {x}
      BY <1>2 DEF Lapse, History
    <2>2. mem.nonces \subseteq Challenges /\ mem.sessions \subseteq Sids
      BY <1>1, <1>2, Fields DEF Lapse, Shape, TypeOK
    <2>3. RestTyped'
      BY <1>1, <2>1, <2>2 DEF RestTyped
    <2>4. \A j : Alive(j)' => Alive(j)
      BY <2>1 DEF Alive
    <2> QED BY <2>1, <2>3, <2>4, AsideKeeps
  <1>3. ASSUME NEW c \in Challenges, Renew(c) PROVE LInv'
    <2>1. /\ Unused(c) /\ page' = [page EXCEPT ![c] = "none"] /\ made' = [made EXCEPT ![c] = 0]
          /\ lapsed' = lapsed \ {Nonce(c), Claimed(c)}
          /\ UNCHANGED <<mem, disk, call, newer, late, crashes, handed, leaving, out,
                         overwrote, reordered>>
      BY <1>3 DEF Renew
    <2>2. RestTyped'
      BY <1>1, <2>1 DEF RestTyped, Pages
    <2>3. \A j : Alive(j)' => Alive(j)
      BY <2>1, Stamps DEF Alive
    <2>4. \A j \in Calls : call[j] # Idle => call[j].c # c
      BY <2>1 DEF Unused, Working
    <2>5. /\ \A d \in Challenges : made'[d] \in {made[d], 0}
          /\ \A d \in Challenges : d # c => page'[d] = page[d]
          /\ page'[c] = "none"
      BY <1>1, <2>1 DEF RestTyped, Pages
    <2> QED BY <2>1, <2>2, <2>3, <2>4, <2>5, AsideKeeps
  <1>4. ASSUME NEW c \in Challenges, Close(c) PROVE LInv'
    <2>1. /\ page[c] \notin {"none", "closed"} /\ page' = [page EXCEPT ![c] = "closed"]
          /\ UNCHANGED <<mem, disk, call, newer, late, lapsed, crashes, made, handed, leaving, out,
                         overwrote, reordered>>
      BY <1>4 DEF Close, History
    <2>2. RestTyped'
      BY <1>1, <2>1 DEF RestTyped, Pages
    <2>3. \A j : Alive(j)' => Alive(j)
      BY <2>1 DEF Alive
    <2>4. /\ \A d \in Challenges : d # c => page'[d] = page[d]
          /\ page'[c] = "closed"
      BY <1>1, <2>1 DEF RestTyped, Pages
    <2>5. ASSUME Orderly
          PROVE  \A j \in Calls : call[j] # Idle /\ call[j].op = "gc" => call[j].c # c
      BY <2>1, <2>5 DEF Orderly, Birth
    <2> QED BY <2>1, <2>2, <2>3, <2>4, <2>5, AsideKeeps
  <1> QED BY <1>2, <1>3, <1>4

(***************************************************************************)
(* The theorems.                                                           *)
(***************************************************************************)
LEMMA InitLInv ==
    ASSUME Init PROVE LInv
  <1>1. \A k \in Calls : call[k] = Idle /\ ~Saving(k) /\ call[k].at = "idle" /\ newer[k] = {}
    BY DEF Init, Saving, Idle
  <1>2. Shape
    <2>1. TypeOK
      <3>1. call \in [Calls -> {Idle} \cup Act] /\ newer \in [Calls -> SUBSET Calls]
        BY DEF Init
      <3>2. RestTyped
        <4>1. crashes \in 0..MaxCrashes
          BY LoginAssumption DEF Init
        <4>2. page \in Pages
          BY DEF Init, Pages
        <4>3. made \in [Challenges -> Nat] /\ handed \in [Sids -> Nat]
          BY DEF Init
        <4>4. lapsed = {} /\ out = {} /\ leaving = {}
          BY DEF Init
        <4>5. overwrote \in BOOLEAN /\ reordered \in BOOLEAN
          BY DEF Init
        <4> QED BY <4>1, <4>2, <4>3, <4>4, <4>5 DEF RestTyped
      <3> QED BY <3>1, <3>2, BlankContent, Types DEF Init
    <2>2. Ordered
      BY <1>1 DEF Init, Ordered
    <2>3. \A k \in Calls : Fits(k)
      BY <1>1 DEF Fits
    <2> QED BY <2>1, <2>2, <2>3 DEF Shape
  <1>3. Contents = {Blank} /\ Live = {Blank}
    BY <1>1 DEF Init, Contents, Working, Live, Kept
  <1>4. Sound(Blank)
    BY BlankContent, LoginAssumption DEF Sound
  <1>5. Agrees(Blank)
    BY LoginAssumption DEF Agrees, Init
  <1>6. \A k \in Calls : Birth(k) /\ Claiming(k) /\ ~Kept(k)
    BY <1>1 DEF Birth, Claiming, Kept
  <1>7. Once
    BY DEF Once, Init
  <1> QED BY <1>2, <1>3, <1>4, <1>5, <1>6, <1>7 DEF LInv, Orderly

LEMMA NextLInv ==
    ASSUME LInv, [Next]_vars PROVE LInv'
  <1>1. CASE UNCHANGED vars
    <2>1. UNCHANGED <<mem, disk, call, newer, late, page, lapsed, crashes, made, handed,
                      leaving, out, overwrote, reordered>>
      BY <1>1 DEF vars
    <2>2. RestTyped'
      BY <2>1, Types DEF LInv, Shape, RestTyped
    <2>3. \A j : Alive(j)' => Alive(j)
      BY <2>1 DEF Alive
    <2> QED BY <2>1, <2>2, <2>3, AsideKeeps
  <1>2. CASE \E c \in Challenges : Renew(c) \/ Close(c)
    BY <1>2, AsideSteps
  <1>3. CASE \E c \in Challenges, k \in Calls :
                Challenge(k, c) \/ Callback(k, c) \/ Poll(k, c) \/ Logout(k, c) \/ Visit(k, c)
    BY <1>3, RequestsKeep
  <1>4. CASE \E k \in Calls : Other(k) \/ ReadFile(k) \/ Resume(k) \/ Proceed(k)
    BY <1>4, OtherKeeps, ReadFileKeeps, ResumeKeeps, ProceedKeeps
  <1>5. CASE \E k \in Calls : Answer(k) \/ AnswerLost(k) \/ Fail(k)
    BY <1>5, AnswerKeeps, LostKeeps, FailKeeps
  <1>6. CASE Crash
    BY <1>6, CrashKeeps
  <1>7. CASE Lapse
    BY <1>7, AsideSteps
  <1> QED BY <1>1, <1>2, <1>3, <1>4, <1>5, <1>6, <1>7 DEF Next

\* The invariant of the handlers of index.ts and the store they load and save.
THEOREM LoginInvariant == Spec => []LInv
  <1>1. Init => LInv
    BY InitLInv
  <1>2. LInv /\ [Next]_vars => LInv'
    BY NextLInv
  <1> QED BY <1>1, <1>2, PTL DEF Spec

(***************************************************************************)
(* takeNonce and takeAuth47Claim make nonces and claims single-use: for any*)
(* number of pages, handlers, repeats and restarts, a challenge leads to   *)
(* one session at most and a session goes to one poll, until a load or a   *)
(* rename of store.ts has lost what was saved.                             *)
(***************************************************************************)
THEOREM NoncesAreSingleUse == Spec => []SingleUse
  <1>1. LInv => SingleUse
    BY DEF LInv, Good, Orderly, Once, SingleUse
  <1> QED BY <1>1, LoginInvariant, PTL

(***************************************************************************)
(* Whatever overlaps and whatever a restart loses, the store in memory, the*)
(* file, the handlers at work and the snapshots on their way keep the      *)
(* shapes store.ts gives them.                                             *)
(***************************************************************************)
THEOREM LoginTypes == Spec => []TypeOK
  <1>1. LInv => TypeOK
    BY DEF LInv, Shape
  <1> QED BY <1>1, LoginInvariant, PTL

(***************************************************************************)
(* What destroySession and getSession leave of the sessions lasts: what a  *)
(* confirmed logout dropped is in no store that is or will be read, and a  *)
(* page that holds a cookie finds its session in the file, until it lapses *)
(* or a logout reaches the store.                                          *)
(***************************************************************************)
THEOREM SessionsLast == Spec => []SessionsHold
  <1>1. ASSUME LInv PROVE SessionsHold
    <2>1. ASSUME ~overwrote, ~reordered
          PROVE  Agrees(disk) /\ (mem # NoStore => Agrees(mem))
      BY <1>1, <2>1 DEF LInv, Good, Orderly, Live
    <2>2. LogoutSticks
      BY <2>1 DEF LogoutSticks, Agrees
    <2>3. CookieLives
      BY <2>1 DEF CookieLives, Agrees, Alive
    <2> QED BY <2>2, <2>3 DEF SessionsHold
  <1>2. LInv => SessionsHold
    BY <1>1
  <1> QED BY <1>2, LoginInvariant, PTL
=============================================================================
