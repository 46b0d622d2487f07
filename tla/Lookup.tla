------------------------------- MODULE Lookup --------------------------------
(***************************************************************************)
(* How a claimed domain is asked about: what an operator types             *)
(* (normaliseDomain), what the directory tells them to publish             *)
(* (POST /api/domain/prepare, the domain box of assets/js/app.js), and the *)
(* lookup of server/dns.ts, a conversation over Tor with each resolver.    *)
(* Domains takes a lookup as one verdict; the claims are those of Attest.  *)
(*                                                                         *)
(* An honest resolver answers what its zone holds at that moment. The      *)
(* caches between it and the zone are left out, and so are the bytes: a    *)
(* reply that was cut short is not JSON, however much of it has arrived.   *)
(***************************************************************************)
EXTENDS Attest

CONSTANTS
    Names,      \* the sites that are clearnet names
    ZoneOf,     \* the zone a name is kept in
    Typings,    \* what may be typed for a domain
    Resolvers,  \* DNS-over-HTTPS resolvers
    Wanted,     \* DOH_RESOLVERS, or all of them
    Agreement,  \* DOH_AGREEMENT
    Liars,      \* resolvers that answer what they like
    MaxEdits    \* bound: changes of the zones during a lookup

ASSUME LookupAssumption ==
    /\ Names \subseteq Sites /\ ZoneOf \in [Names -> Names]
    /\ {Wanted, Liars} \subseteq SUBSET Resolvers /\ IsFiniteSet(Resolvers)
    /\ Agreement \in Nat \ {0} /\ Cardinality(Liars) < Agreement
    /\ MaxEdits \in Nat
    /\ Typings \subseteq [scheme: {"none", "http", "https", "other"}, login: BOOLEAN,
                          port: BOOLEAN, host: Names \cup {"onion", "ip", "single", "spaced"}]

VARIABLES
    zone,    \* the TXT records: pairs of the name _mise was put under, and a code
    ask,     \* the lookup under way
    obeyed   \* history: pairs of a name and a code published as the directory said

lookup == <<zone, ask, obeyed>>

Stages  == {"socks", "tls", "sent", "match", "other", "failed"}
Ended   == {"match", "other", "failed"}
Nothing == [on |-> FALSE]
Asking  == [on: {TRUE}, site: Names, code: Codes, at: [Resolvers \cap Wanted -> Stages],
            was: (SUBSET BOOLEAN) \ {{}},  \* whether the record was there, while asking
            told: BOOLEAN,                 \* it was there as the operator was told, all along
            edits: 0..MaxEdits]

LookupInit == Init /\ zone = {} /\ ask = Nothing /\ obeyed = {}

-----------------------------------------------------------------------------
(***************************************************************************)
(* What is typed, and what is to be published.                             *)
(***************************************************************************)
\* normaliseDomain: the bare host of what was typed, if it can have a record.
NormaliseDomain(t) ==
    IF t.scheme # "other" /\ ~t.login /\ ~t.port /\ t.host \in Names THEN t.host ELSE None

\* txtName.
TxtName(d) == d

\* The instructions give the label alone, which is relative to the zone of the
\* name, and the full name for the panels that ask for one.
Place(d, form) == IF form = "label" THEN ZoneOf[d] ELSE TxtName(d)

\* txtMatches. A record is its code here; what else it says is tolerated.
TxtMatches(record, code) == record = code

Records(z, d)     == {r[2] : r \in {s \in z : s[1] = TxtName(d)}}
There(z, d, code) == \E r \in Records(z, d) : TxtMatches(r, code)

\* The zones become z. A lookup under way notices the record come and go.
Zone(z) ==
    /\ zone' = z
    /\ ask' = IF ~ask.on THEN ask
              ELSE [ask EXCEPT !.edits = @ + 1,
                       !.was = @ \cup {There(z, ask.site, ask.code)},
                       !.told = @ /\ <<ask.site, ask.code>> \in obeyed']

MayEdit == ask.on => ask.edits < MaxEdits

\* The operator follows the instructions for what was typed.
Publish(t, form) ==
    /\ MayEdit /\ session # None /\ NormaliseDomain(t) # None
    /\ LET d == NormaliseDomain(t) IN
         /\ <<d, session>> \notin obeyed
         /\ obeyed' = obeyed \cup {<<d, session>>}
         /\ Zone(zone \cup {<<Place(d, form), session>>})
    /\ UNCHANGED vars

\* Some record is removed.
Withdraw(r) ==
    /\ MayEdit /\ r \in zone
    /\ obeyed' = {o \in obeyed : o[2] # r[2]}
    /\ Zone(zone \ {r})
    /\ UNCHANGED vars

-----------------------------------------------------------------------------
(***************************************************************************)
(* lookupTxt: every resolver of the list is asked, at once.                *)
(***************************************************************************)
\* verifyClaim, after the signature, and recheckClaim.
Ask(c) ==
    /\ ~ask.on /\ claim[c] # None /\ claim[c].site \in Names
    /\ LET d == claim[c].site IN
         ask' = [on |-> TRUE, site |-> d, code |-> c,
                 at |-> [r \in Resolvers \cap Wanted |-> "socks"],
                 was |-> {There(zone, d, c)}, told |-> <<d, c>> \in obeyed, edits |-> 0]
    /\ UNCHANGED <<vars, zone, obeyed>>

Step(r, from, to) ==
    /\ ask.on /\ r \in Wanted /\ ask.at[r] = from
    /\ ask' = [ask EXCEPT !.at[r] = to]
    /\ UNCHANGED <<vars, zone, obeyed>>

\* socks5Connect: the greeting and the request are answered.
Connected(r) == Step(r, "socks", "tls")

\* The resolver's certificate is good, and the question is sent.
Secured(r) == Step(r, "tls", "sent")

\* A reply: how it arrives, its DNS status, and the records it gives.
Reply == [http: {"whole", "cut", "error", "large"},
          status: {"NOERROR", "NXDOMAIN", "SERVFAIL"}, records: SUBSET Codes]

\* httpsGetOverTor and parseTxtAnswer: the records of a usable answer.
Parsed(reply) ==
    IF reply.http # "whole" \/ reply.status = "SERVFAIL" THEN None
    ELSE IF reply.status = "NXDOMAIN" THEN {} ELSE reply.records

Outcome(reply) ==
    IF Parsed(reply) = None THEN "failed"
    ELSE IF \E x \in Parsed(reply) : TxtMatches(x, ask.code) THEN "match" ELSE "other"

\* An honest resolver may fail to find out, and its reply may get lost; what it
\* finds is what is there.
Replies(r) ==
    IF r \in Liars THEN Reply
    ELSE {p \in Reply : (p.status = "NOERROR" => p.records = Records(zone, ask.site))
                          /\ (p.status = "NXDOMAIN" => Records(zone, ask.site) = {})}

Answered(r) == ask.on /\ \E reply \in Replies(r) : Step(r, "sent", Outcome(reply))

\* The proxy refuses or closes, or the certificate is not the resolver's.
Broken(r) == \E s \in {"socks", "tls", "sent"} : Step(r, s, "failed")

\* Bug: only the way through the proxy has a timer.
ExpiredDialling(r) == Step(r, "socks", "failed")

\* A timer of socks5Connect or of httpsGetOverTor ends.
Expired(r) == \E s \in {"socks", "tls", "sent"} : Step(r, s, "failed")

Settled == ask.on /\ \A r \in DOMAIN ask.at : ask.at[r] \in Ended

\* txtRecordAgreed.
Verdict ==
    LET usable == {r \in DOMAIN ask.at : ask.at[r] # "failed"}
        agreed == {r \in usable : ask.at[r] = "match"}
    IN  IF Cardinality(usable) < Agreement THEN "inconclusive"
        ELSE IF Cardinality(agreed) >= Agreement THEN "ok" ELSE "absent"

\* The verdict is handed to whoever asked (Domains).
Told == Settled /\ ask' = Nothing /\ UNCHANGED <<vars, zone, obeyed>>

LookupNext ==
    \/ zone = {} /\ ~ask.on /\ Next /\ UNCHANGED lookup
    \/ \E t \in Typings, form \in {"label", "full"} : Publish(t, form)
    \/ \E d \in Names, c \in Codes : Withdraw(<<d, c>>)
    \/ \E c \in Codes : Ask(c)
    \/ \E r \in Resolvers : Connected(r) \/ Secured(r) \/ Answered(r) \/ Broken(r) \/ Expired(r)
    \/ Told

\* Fairness: the timers of a conversation run out, and a promise that has
\* settled is looked at.
LookupFairness == WF_<<vars, lookup>>(Told)
                    /\ \A r \in Resolvers : WF_<<vars, lookup>>(Expired(r))

LookupSpec == LookupInit /\ [][LookupNext]_<<vars, lookup>> /\ LookupFairness

-----------------------------------------------------------------------------
(***************************************************************************)
(* LookupTypeOK: the shapes of the zones and of a lookup.                  *)
(***************************************************************************)
LookupTypeOK ==
    /\ zone \subseteq Names \X Codes /\ obeyed \subseteq Names \X Codes
    /\ ask \in Asking \cup {Nothing}

HonestFailed == \E r \in DOMAIN ask.at : r \notin Liars /\ ask.at[r] = "failed"
LiarDenied   == \E r \in DOMAIN ask.at \cap Liars : ask.at[r] = "other"

(***************************************************************************)
(* A verdict is earned: "ok" only if the record was there at some moment   *)
(* while the resolvers were asked, however the liars answer; "absent" only *)
(* if it was away at some moment or a liar denied it, however many replies *)
(* are lost, cut or refused; and an operator whose name is its own zone,   *)
(* and who did as told all along, gets "ok" when the honest are heard.     *)
(***************************************************************************)
VerdictEarned ==
    Settled =>
        /\ Verdict = "ok" => TRUE \in ask.was
        /\ Verdict = "absent" => FALSE \in ask.was \/ LiarDenied
        /\ ask.told /\ ZoneOf[ask.site] = ask.site /\ ~HonestFailed
             /\ Cardinality(DOMAIN ask.at \ Liars) >= Agreement
           => Verdict = "ok"

(***************************************************************************)
(* Every lookup ends, however its resolvers behave, in a verdict that was  *)
(* earned: a hiccup of Tor is never taken for a missing record, and a lying*)
(* resolver never for a published one.                                     *)
(***************************************************************************)
LookupsHonest == []VerdictEarned /\ (ask.on ~> ~ask.on)
=============================================================================
