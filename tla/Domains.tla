------------------------------ MODULE Domains -------------------------------
(***************************************************************************)
(* Verified operator domains: the claims of server/store.ts, the handlers  *)
(* of server/index.ts that write them, the periodic sweep, the recheck     *)
(* policy of server/domains.ts and the resolver agreement of               *)
(* server/dns.ts.                                                          *)
(*                                                                         *)
(* A handler that asks the resolvers awaits their answers over Tor, and    *)
(* other handlers and the sweep run meanwhile; when the answers are in, it *)
(* stores a record built from the claim it read BEFORE asking. The steps   *)
(* between two awaits are one action.                                      *)
(*                                                                         *)
(* Time stamps are kept as ages, in ticks, that stop growing once no test  *)
(* of the code can tell them apart, so the model has no clock to run out.  *)
(***************************************************************************)
EXTENDS Integers, FiniteSets

CONSTANTS
    Codes,        \* payment codes: one claim each
    DomainNames,  \* domains an operator may claim
    Resolvers,    \* DNS-over-HTTPS resolvers asked
    Agreement,    \* DOH_AGREEMENT
    Liars,        \* resolvers that answer what they like
    Grace,        \* GRACE_DAYS, in ticks
    Recheck,      \* RECHECK_MS, in ticks
    Pending,      \* PENDING_RECHECK_MS, in ticks
    NoClaim       \* no record for a code

ASSUME DomainsAssumption ==
    /\ Liars \subseteq Resolvers /\ IsFiniteSet(Resolvers)
    /\ Agreement \in Nat /\ Cardinality(Liars) < Agreement
    /\ Grace \in Nat /\ Recheck \in Nat /\ Pending \in Nat
    /\ Grace > 0 /\ Pending <= Recheck

VARIABLES
    claims,  \* store.domains
    txt,     \* the pairs <<code, domain>> whose TXT record is published
    todo,    \* the claims a running sweep listed and has still to look at
    asking,  \* codes whose listed claim the sweep is asking the resolvers about
    req,     \* each operator's own request waiting for the resolvers
    proved   \* history: pairs whose record was published when it was asked for

domains == <<claims, txt, todo, asking, req, proved>>

Never == -1

Claim == [domain: DomainNames, verified: BOOLEAN, revoked: BOOLEAN,
          fail: {Never} \cup 0..Grace,    \* age of fail_since
          age: {Never} \cup 0..Recheck]   \* age of last_check

ASSUME NoClaimAssumption == NoClaim \notin Claim

NoRequest == [kind |-> "none"]
Request == {NoRequest}
    \cup [kind: {"submit"}, domain: DomainNames]
    \cup [kind: {"recheck"}, claim: Claim]

-----------------------------------------------------------------------------
(***************************************************************************)
(* txtRecordAgreed: what the answers of the resolvers add up to.           *)
(***************************************************************************)
Answers == {"match", "other", "silent"}

\* Bug: one resolver that sees the record is enough.
VerdictOfAny(a) ==
    IF \E r \in Resolvers : a[r] = "match" THEN "ok"
    ELSE IF Cardinality({r \in Resolvers : a[r] # "silent"}) < Agreement
    THEN "inconclusive" ELSE "absent"

Verdict(a) ==
    LET answered == {r \in Resolvers : a[r] # "silent"}
        agreed   == {r \in Resolvers : a[r] = "match"}
    IN  IF Cardinality(answered) < Agreement THEN "inconclusive"
        ELSE IF Cardinality(agreed) >= Agreement THEN "ok"
        ELSE "absent"

\* An honest resolver answers what is published, or nothing.
Truthful(a, published) ==
    \A r \in Resolvers \ Liars :
        a[r] \in {"silent", IF published THEN "match" ELSE "other"}

Verdicts(published) ==
    {Verdict(a) : a \in {b \in [Resolvers -> Answers] : Truthful(b, published)}}

(***************************************************************************)
(* domains.ts: isDue and applyRecheck.                                     *)
(***************************************************************************)
\* Bug: a claim that has never been checked does not count as due.
IsDueOnceChecked(c) ==
    c.age # Never /\ c.age >= (IF c.verified THEN Recheck ELSE Pending)

IsDue(c) == c.age = Never \/ c.age >= (IF c.verified THEN Recheck ELSE Pending)

\* Bug: fail_since is set anew at every failure, so the grace never ends.
ApplyRecheckRestart(c, v) ==
    CASE v = "inconclusive" -> [c EXCEPT !.age = 0]
      [] v = "ok"     -> [c EXCEPT !.age = 0, !.verified = TRUE, !.fail = Never]
      [] v = "absent" -> [c EXCEPT !.age = 0, !.fail = 0]

ApplyRecheck(c, v) ==
    CASE v = "inconclusive" -> [c EXCEPT !.age = 0]
      [] v = "ok"     -> [c EXCEPT !.age = 0, !.verified = TRUE, !.fail = Never]
      [] v = "absent" ->
           LET failing == IF c.fail = Never THEN 0 ELSE c.fail
           IN  [c EXCEPT !.age = 0, !.fail = failing,
                         !.verified = @ /\ failing < Grace]

\* store.putDomain: the record replaces whatever the code has by now.
PutDomain(code, c) == claims' = [claims EXCEPT ![code] = c]

\* What a lookup of one pair can teach, remembered for the properties.
Witness(code, d) ==
    proved' = IF <<code, d>> \in txt THEN proved \cup {<<code, d>>} ELSE proved

Published(code, d) == <<code, d>> \in txt

-----------------------------------------------------------------------------

DomainsInit ==
    /\ claims = [c \in Codes |-> NoClaim]
    /\ txt = {}
    /\ todo = [c \in Codes |-> NoClaim]
    /\ asking = {}
    /\ req = [c \in Codes |-> NoRequest]
    /\ proved = {}

\* The operator edits the zone.
EditZone(code, d) ==
    /\ txt' = IF Published(code, d) THEN txt \ {<<code, d>>}
              ELSE txt \cup {<<code, d>>}
    /\ UNCHANGED <<claims, todo, asking, req, proved>>

\* POST /api/domain with a signed statement naming d: nothing is read from the
\* store that matters before the answers are in. A statement whose signature
\* does not verify is refused without storing anything.
Submit(code, d) ==
    /\ req[code] = NoRequest
    /\ req' = [req EXCEPT ![code] = [kind |-> "submit", domain |-> d]]
    /\ UNCHANGED <<claims, txt, todo, asking, proved>>

SubmitAnswered(code, v) ==
    /\ req[code].kind = "submit"
    /\ LET d == req[code].domain IN
         /\ v \in Verdicts(Published(code, d))
         /\ PutDomain(code, [domain |-> d, verified |-> v = "ok",
                             revoked |-> FALSE, fail |-> Never,
                             age |-> IF v = "ok" THEN 0 ELSE Never])
         /\ Witness(code, d)
    /\ req' = [req EXCEPT ![code] = NoRequest]
    /\ UNCHANGED <<txt, todo, asking>>

\* POST /api/domain/recheck reads the claim, then asks. Its last_check is never
\* looked at again.
AskRecheck(code) ==
    /\ req[code] = NoRequest
    /\ claims[code] # NoClaim
    /\ req' = [req EXCEPT ![code] =
                 [kind |-> "recheck", claim |-> [claims[code] EXCEPT !.age = 0]]]
    /\ UNCHANGED <<claims, txt, todo, asking, proved>>

RecheckAnswered(code, v) ==
    /\ req[code].kind = "recheck"
    /\ LET c == req[code].claim IN
         /\ v \in Verdicts(Published(code, c.domain))
         /\ PutDomain(code, [c EXCEPT !.verified = (v = "ok"),
                                      !.fail = IF v = "ok" THEN Never ELSE @])
         /\ Witness(code, c.domain)
    /\ req' = [req EXCEPT ![code] = NoRequest]
    /\ UNCHANGED <<txt, todo, asking>>

\* DELETE /api/domain.
Delete(code) ==
    /\ claims[code] # NoClaim
    /\ PutDomain(code, NoClaim)
    /\ UNCHANGED <<txt, todo, asking, req, proved>>

\* POST /api/admin/domain/revoke.
Revoke(code) ==
    /\ claims[code] # NoClaim
    /\ PutDomain(code, [claims[code] EXCEPT !.verified = FALSE,
                                            !.revoked = TRUE, !.age = 0])
    /\ UNCHANGED <<txt, todo, asking, req, proved>>

\* A bootstrap import brings a signed claim of another directory: never over a
\* claim of ours, and never with its badge.
Import(code, d) ==
    /\ claims[code] = NoClaim
    /\ PutDomain(code, [domain |-> d, verified |-> FALSE, revoked |-> FALSE,
                        fail |-> Never, age |-> Never])
    /\ UNCHANGED <<txt, todo, asking, req, proved>>

-----------------------------------------------------------------------------
(***************************************************************************)
(* sweepDomains: the list is read once, and each claim on it is judged     *)
(* when its turn comes.                                                    *)
(***************************************************************************)
StartSweep ==
    /\ asking = {} /\ \A c \in Codes : todo[c] = NoClaim
    /\ \E c \in Codes : claims[c] # NoClaim
    /\ todo' = claims
    /\ UNCHANGED <<claims, txt, asking, req, proved>>

SweepSkip(code) ==
    /\ todo[code] # NoClaim /\ asking = {}
    /\ todo[code].revoked \/ ~IsDue(todo[code])
    /\ todo' = [todo EXCEPT ![code] = NoClaim]
    /\ UNCHANGED <<claims, txt, asking, req, proved>>

SweepAsk(code) ==
    /\ todo[code] # NoClaim /\ asking = {}
    /\ ~todo[code].revoked /\ IsDue(todo[code])
    /\ asking' = {code}
    /\ todo' = [todo EXCEPT ![code].age = 0]
    /\ UNCHANGED <<claims, txt, req, proved>>

SweepAnswered(code, v) ==
    /\ code \in asking
    /\ v \in Verdicts(Published(code, todo[code].domain))
    /\ PutDomain(code, ApplyRecheck(todo[code], v))
    /\ Witness(code, todo[code].domain)
    /\ asking' = {}
    /\ todo' = [todo EXCEPT ![code] = NoClaim]
    /\ UNCHANGED <<txt, req>>

\* The backend is restarted: what was waiting for an answer is gone.
Restart ==
    /\ todo' = [c \in Codes |-> NoClaim]
    /\ asking' = {}
    /\ req' = [c \in Codes |-> NoRequest]
    /\ UNCHANGED <<claims, txt, proved>>

\* Every stamp gets a tick older, in the store and in the copies of it.
Older(c) ==
    IF c = NoClaim THEN NoClaim
    ELSE [c EXCEPT !.fail = IF @ \in {Never, Grace} THEN @ ELSE @ + 1,
                   !.age  = IF @ \in {Never, Recheck} THEN @ ELSE @ + 1]

OlderRequest(r) ==
    IF r.kind = "recheck"
      THEN [r EXCEPT !.claim = [Older(@) EXCEPT !.age = 0]]
      ELSE r

Tick ==
    /\ claims' = [c \in Codes |-> Older(claims[c])]
    /\ todo' = [c \in Codes |->
                  IF c \in asking THEN [Older(todo[c]) EXCEPT !.age = 0]
                  ELSE Older(todo[c])]
    /\ req' = [c \in Codes |-> OlderRequest(req[c])]
    /\ UNCHANGED <<txt, asking, proved>>

Humans ==
    \E c \in Codes :
        \/ \E d \in DomainNames : EditZone(c, d) \/ Submit(c, d) \/ Import(c, d)
        \/ AskRecheck(c) \/ Delete(c) \/ Revoke(c)

Backend ==
    \/ StartSweep
    \/ \E c \in Codes :
         \/ SweepSkip(c) \/ SweepAsk(c)
         \/ \E v \in {"ok", "absent", "inconclusive"} :
              SubmitAnswered(c, v) \/ RecheckAnswered(c, v) \/ SweepAnswered(c, v)

DomainsNext == Humans \/ Backend \/ Tick \/ Restart

DomainsSpec == DomainsInit /\ [][DomainsNext]_domains

(***************************************************************************)
(* Fairness: the sweep's interval timer keeps firing, every lookup ends    *)
(* (answers or its timeout), time passes, the backend is not restarted     *)
(* just before every lookup, and a lookup that is repeated for ever is not *)
(* inconclusive, or answered by liars, every time.                         *)
(***************************************************************************)
Fairness ==
    /\ WF_domains(Tick)
    /\ WF_domains(StartSweep)
    /\ \A c \in Codes :
         /\ WF_domains(SweepSkip(c)) /\ SF_domains(SweepAsk(c))
         /\ SF_domains(SweepAnswered(c, "ok"))
         /\ SF_domains(SweepAnswered(c, "absent"))

FairSpec == DomainsSpec /\ Fairness

-----------------------------------------------------------------------------

(***************************************************************************)
(* DomainsTypeOK: the shapes of the claims and of the copies of them on the way.  *)
(***************************************************************************)
DomainsTypeOK ==
    /\ claims \in [Codes -> Claim \cup {NoClaim}]
    /\ txt \subseteq Codes \X DomainNames
    /\ todo \in [Codes -> Claim \cup {NoClaim}]
    /\ asking \subseteq Codes
    /\ req \in [Codes -> Request]
    /\ proved \subseteq Codes \X DomainNames

(***************************************************************************)
(* A badge shows only a domain whose record this instance has itself seen: *)
(* never because another directory said so, because one resolver lied, or  *)
(* because a verdict about one domain was stored with another.             *)
(***************************************************************************)
BadgeProven ==
    \A c \in Codes :
        claims[c] # NoClaim /\ claims[c].verified
        => <<c, claims[c].domain>> \in proved

\* The claim stands, nobody has revoked it and its operator is not asking.
Left(c) == claims[c] # NoClaim /\ ~claims[c].revoked /\ req[c] = NoRequest

(***************************************************************************)
(* Restoring the TXT record restores the badge without a fresh signature:  *)
(* the sweep alone brings it back, however it was lost.                    *)
(***************************************************************************)
RecordRestoresBadge ==
    \A c \in Codes :
        <>[](Left(c) /\ Published(c, claims[c].domain))
        => []<>(claims[c] # NoClaim /\ claims[c].verified)

(***************************************************************************)
(* A badge whose record is gone does not outlive the grace period: the     *)
(* sweep alone takes it down, for good while the record stays away.        *)
(***************************************************************************)
LostRecordDropsBadge ==
    \A c \in Codes :
        <>[](Left(c) /\ ~Published(c, claims[c].domain))
        => <>[](claims[c] # NoClaim /\ ~claims[c].verified)

(***************************************************************************)
(* The badge follows the record: the sweep alone brings it back when the   *)
(* record is there and takes it down when it is not, however often either  *)
(* happened before and whatever was asked meanwhile.                       *)
(***************************************************************************)
BadgeFollowsRecord == RecordRestoresBadge /\ LostRecordDropsBadge

(***************************************************************************)
(* What the directory says of its badges (README.md, the comment above the *)
(* revoke route): a maintainer can take any badge down.                    *)
(***************************************************************************)
RevokedBadgeStaysDown ==
    \A c \in Codes :
        claims[c] # NoClaim /\ claims[c].revoked => ~claims[c].verified
=============================================================================
