------------------------------- MODULE Attest --------------------------------
(***************************************************************************)
(* What is signed, and what the gates of the directory take for signed:    *)
(* server/crypto.ts, the gates of server/index.ts, of bootstrap-import.mjs *)
(* and of domains.ts, the two maintenance scripts that write payloads, the *)
(* audit, and the store's signed addresses (gateway/identity.ts, pool.mjs).*)
(*                                                                         *)
(* A signature is the key that made it and the text it covers: nobody makes*)
(* one for another key. The notification addresses of a payment code, on   *)
(* mainnet and on testnet, belong to one key and are that key here; two    *)
(* codes of one PayNym may have the same key. A pairing payload is its URL *)
(* and its version; the JSON of a payload is the payload, since the gates  *)
(* compare JSON by its content. A text that is signed ends in a blank line *)
(* and a BIP47 line; pasting may lose the blank line.                      *)
(***************************************************************************)
EXTENDS Integers, Sequences, FiniteSets

CONSTANTS
    Codes,     \* BIP47 payment codes
    Keys,      \* notification keys
    KeyOf,     \* the key of each code
    Ids,       \* listings, each on a network
    Urls,      \* pairing URLs
    NetOf,     \* the network of a listing, and of a URL
    Versions,  \* Dojo versions, as sequences of numbers
    Minimum,   \* MIN_DOJO_VERSION
    Sites,     \* domains and onion addresses
    Pastes,    \* signed blocks that may be pasted or published
    Docs,      \* operator documents that an onion may serve
    Trusted,   \* the operator a maintainer names for an import
    Pools,     \* pool files that may be brought over
    None

Texts == [kind: {"pairing"}, url: Urls, version: Versions, code: Codes \cup {None}, gap: BOOLEAN]
           \cup [kind: {"site"}, site: Sites, code: Codes, gap: BOOLEAN]

\* A block: the text it shows, the address it names, and its signature.
Block   == [text: Texts, address: Keys, key: Keys, over: Texts]
Payload == [url: Urls, version: Versions]
Listing == [codes: (SUBSET Codes) \ {{}}, payload: Payload, block: Block,
            vouched: {"owner", "peer", "legacy"}]
Claim   == [site: Sites, block: Block]

\* An address the store has derived, and its attestation.
Address    == [index: Nat, code: Codes, net: {"bitcoin", "testnet4"}]
AddressRec == [v: Nat, rec: Address, key: Keys, over: Address]

ASSUME AttestAssumption ==
    /\ KeyOf \in [Codes -> Keys] /\ None \notin Codes
    /\ None \notin Listing /\ None \notin Claim
    /\ DOMAIN NetOf = Ids \cup Urls
    /\ Versions \cup {Minimum} \subseteq Seq(Nat) /\ None \notin Versions
    /\ Pastes \subseteq Block
    /\ Docs \subseteq [onion: Sites, code: Codes, block: Block] /\ Trusted \in Codes
    /\ \A p \in Pools : p.records \in Seq(AddressRec)

VARIABLES
    listing, \* the store's records
    claim,   \* the store's domain claims
    session, \* the payment code a browser is signed in with
    pool     \* the pool of addresses in use

vars == <<listing, claim, session, pool>>

TypeOK ==
    /\ listing \in [Ids -> Listing \cup {None}]
    /\ claim \in [Codes -> Claim \cup {None}]
    /\ session \in Codes \cup {None}
    /\ pool \in Pools \cup {None}

-----------------------------------------------------------------------------
(***************************************************************************)
(* crypto.ts.                                                              *)
(***************************************************************************)
\* message.verify.
Verifies(text, address, b) == b.key = address /\ b.over = text

\* notificationAddresses.
Notification(c) == {KeyOf[c]}

\* repairSignedBlock: the text as it is, or with its blank line restored, if
\* that is what the signature covers; else nothing, and the block stays.
Restored(b)   == IF b.text.code = None THEN b.text ELSE [b.text EXCEPT !.gap = TRUE]
Repairable(b) == b.text.code # None => b.address \in Notification(b.text.code)
Repair(b) ==
    IF Repairable(b) /\ ~Verifies(b.text, b.address, b) /\ Verifies(Restored(b), b.address, b)
      THEN [b EXCEPT !.text = Restored(b)] ELSE b

\* parseSignedBlock and sameSignedPayload.
Covers(b, p) ==
    b.text.kind = "pairing" /\ b.text.url = p.url /\ b.text.version = p.version

\* verifySignedPayload, with the keys that may have signed. The code inside the
\* text is optional, and must own the address when it is there.
VerifySignedPayload(b, p, accept) ==
    /\ Covers(b, p)
    /\ Verifies(b.text, b.address, b)
    /\ b.text.code # None => b.address \in Notification(b.text.code)
    /\ b.address \in accept

\* Bug: the address is not compared with the code's.
VerifyAnyUrlClaim(b, site, c) ==
    /\ b.text.kind = "site" /\ b.text.site = site /\ b.text.code = c
    /\ Verifies(b.text, b.address, b)

\* verifySignedUrlClaim.
VerifySignedUrlClaim(b, site, c) ==
    /\ b.text.kind = "site" /\ b.text.site = site /\ b.text.code = c
    /\ b.address \in Notification(c)
    /\ Verifies(b.text, b.address, b)

\* verifyOperatorDoc, of the document fetched from an onion.
VerifyOperatorDoc(doc, onion) ==
    /\ doc.block.text.kind = "site" /\ doc.block.text.site = doc.onion /\ doc.onion = onion
    /\ doc.block.text.code = doc.code
    /\ doc.block.address \in Notification(doc.code)
    /\ Verifies(doc.block.text, doc.block.address, doc.block)

-----------------------------------------------------------------------------
(***************************************************************************)
(* dojo-version.ts.                                                        *)
(***************************************************************************)
Part(v, i) == IF i <= Len(v) THEN v[i] ELSE 0

\* compareVersions: missing components count as zero.
AtLeast(v, w) ==
    \A i \in 1..(Len(v) + Len(w)) :
        Part(v, i) < Part(w, i) => \E j \in 1..(i - 1) : Part(v, j) > Part(w, j)

\* judgeVersion. What the node reports goes before what its payload declares.
Judged(detected, declared) ==
    AtLeast(<<0>>, Minimum) \/ AtLeast(IF detected # None THEN detected ELSE declared, Minimum)

-----------------------------------------------------------------------------
(***************************************************************************)
(* identity.ts and pool.mjs.                                               *)
(***************************************************************************)
\* verifySignedAddress.
VerifySignedAddress(r, expected) ==
    /\ r.v = 1
    /\ r.rec.code = expected
    /\ r.key \in Notification(expected) /\ r.over = r.rec

\* Bug: each record is checked, and none is compared with the others.
VerifyPoolRecords(p, expected) ==
    p.code = expected /\ \A i \in DOMAIN p.records : VerifySignedAddress(p.records[i], expected)

\* verifyPool.
VerifyPool(p, expected) ==
    /\ p.code = expected
    /\ \A i \in DOMAIN p.records :
         /\ VerifySignedAddress(p.records[i], expected)
         /\ \A j \in DOMAIN p.records :
              p.records[i].rec.index = p.records[j].rec.index => i = j

-----------------------------------------------------------------------------

\* Records of an earlier version of the code may have had the version in their
\* payload changed after it was signed.
Legacy(l) ==
    /\ l.vouched = "legacy"
    /\ l.block.text.kind = "pairing" /\ l.block.text.url = l.payload.url
    /\ \E c \in l.codes :
         VerifySignedPayload(l.block, [url |-> l.block.text.url, version |-> l.block.text.version],
                             Notification(c))

Init ==
    /\ \/ listing = [id \in Ids |-> None]
       \/ \E c \in Codes, p \in Payload, b \in Pastes :
            LET l == [codes |-> {c}, payload |-> p, block |-> b, vouched |-> "legacy"]
            IN  Legacy(l) /\ listing = [id \in Ids |-> l]
    /\ claim = [c \in Codes |-> None]
    /\ session = None /\ pool = None

\* makeAuth47.verify, in the callback: the proof names a code and this site.
SignIn(b, site) ==
    /\ b.text.kind = "site" /\ b.text.site = site
    /\ Verifies(b.text, b.address, b) /\ b.address \in Notification(b.text.code)
    /\ session' = b.text.code
    /\ UNCHANGED <<listing, claim, pool>>

\* POST /api/dojo. The node answered the probe, with a version or without.
Submit(id, p, b) ==
    /\ session # None
    /\ NetOf[p.url] = NetOf[id]
    /\ VerifySignedPayload(Repair(b), p, Notification(session))
    /\ IF listing[id] = None
         THEN \E detected \in Versions \cup {None} : Judged(detected, p.version)
         ELSE session \in listing[id].codes
    /\ listing' = [listing EXCEPT ![id] =
          [codes |-> {session} \cup (IF listing[id] = None THEN {} ELSE listing[id].codes),
           payload |-> p, block |-> Repair(b), vouched |-> "owner"]]
    /\ UNCHANGED <<claim, session, pool>>

\* Bug: new details under the old signature.
EditPairingOnly(id, p, b) ==
    /\ listing[id] # None /\ session \in listing[id].codes
    /\ NetOf[p.url] = NetOf[id]
    /\ VerifySignedPayload(Repair(b), p, Notification(session))
    /\ listing' = [listing EXCEPT ![id].payload = p, ![id].vouched = "owner"]
    /\ UNCHANGED <<claim, session, pool>>

\* POST /api/dojo/pairing.
EditPairing(id, p, b) ==
    /\ listing[id] # None /\ session \in listing[id].codes
    /\ NetOf[p.url] = NetOf[id]
    /\ VerifySignedPayload(Repair(b), p, Notification(session))
    /\ listing' = [listing EXCEPT ![id].payload = p, ![id].block = Repair(b), ![id].vouched = "owner"]
    /\ UNCHANGED <<claim, session, pool>>

\* POST /api/dojo/delete, and a maintainer's removal.
Delete(id) ==
    /\ listing[id] # None
    /\ listing' = [listing EXCEPT ![id] = None]
    /\ UNCHANGED <<claim, session, pool>>

\* bootstrapImport, from a directory whose operator is the one that was named:
\* any key may have signed the block, and the codes are the source's, or those
\* paynym.rs has for the PayNym it gives.
Import(id, p, b) ==
    /\ listing[id] = None
    /\ VerifySignedPayload(b, p, Keys)
    /\ \E doc \in Docs : VerifyOperatorDoc(doc, doc.onion) /\ doc.code = Trusted
    /\ \E codes \in (SUBSET Codes) \ {{}} : listing' = [listing EXCEPT ![id] =
          [codes |-> codes, payload |-> p, block |-> b, vouched |-> "peer"]]
    /\ UNCHANGED <<claim, session, pool>>

\* apply-signed-payload.ts: the payload inside the block, for the record its
\* code owns.
ApplySigned(id, b) ==
    LET r == Repair(b)
        p == [url |-> r.text.url, version |-> r.text.version]
    IN  /\ listing[id] # None
        /\ r.text.kind = "pairing" /\ r.text.code \in listing[id].codes
        /\ VerifySignedPayload(r, p, Notification(r.text.code))
        /\ listing' = [listing EXCEPT ![id].payload = p, ![id].block = r, ![id].vouched = "owner"]
        /\ UNCHANGED <<claim, session, pool>>

\* Bug: the version the node reports is put under the old signature.
FixToDetected(id) ==
    /\ listing[id] # None
    /\ \E v \in Versions : listing' = [listing EXCEPT ![id].payload.version = v]
    /\ UNCHANGED <<claim, session, pool>>

\* fix-payload-version.mjs: only the version, where nothing else differs.
FixVersion(id) ==
    /\ listing[id] # None
    /\ LET l == listing[id] IN
         /\ l.block.text.kind = "pairing" /\ l.block.text.url = l.payload.url
         /\ l.block.text.version # l.payload.version
         /\ listing' = [listing EXCEPT ![id].payload.version = l.block.text.version]
    /\ UNCHANGED <<claim, session, pool>>

\* POST /api/domain: the signature is stored, whatever the DNS says.
ClaimDomain(b, site) ==
    /\ session # None
    /\ VerifySignedUrlClaim(Repair(b), site, session)
    /\ claim' = [claim EXCEPT ![session] = [site |-> site, block |-> Repair(b)]]
    /\ UNCHANGED <<listing, session, pool>>

\* The claims that come with an import.
ImportClaim(c, b, site) ==
    /\ claim[c] = None
    /\ VerifySignedUrlClaim(b, site, c)
    /\ claim' = [claim EXCEPT ![c] = [site |-> site, block |-> b]]
    /\ UNCHANGED <<listing, session, pool>>

\* pool.mjs --verify, on the machine that will serve the addresses.
TakePool(p, expected) ==
    /\ VerifyPool(p, expected)
    /\ pool' = p
    /\ UNCHANGED <<listing, claim, session>>

Next ==
    \/ \E b \in Pastes, site \in Sites :
         \/ SignIn(b, site) \/ ClaimDomain(b, site)
         \/ \E c \in Codes : ImportClaim(c, b, site)
    \/ \E id \in Ids, b \in Pastes :
         \/ ApplySigned(id, b)
         \/ \E p \in Payload : Submit(id, p, b) \/ EditPairing(id, p, b) \/ Import(id, p, b)
    \/ \E id \in Ids : Delete(id) \/ FixVersion(id)
    \/ \E p \in Pools, c \in Codes : TakePool(p, c)

Spec == Init /\ [][Next]_vars

-----------------------------------------------------------------------------
\* audit-signed.mjs, and any visitor with a verifier.
Audit(l) == \E c \in l.codes : VerifySignedPayload(l.block, l.payload, Notification(c))

(***************************************************************************)
(* Every listing that came through a gate of this directory carries a      *)
(* block that a visitor can check against one of its codes, over the very  *)
(* payload that is published: through resubmissions under another code of  *)
(* the same PayNym, edits, repairs and maintenance. One that was imported  *)
(* carries a block over its payload, though maybe of some other key.       *)
(***************************************************************************)
ListingsVerify ==
    \A id \in Ids : listing[id] # None =>
        /\ listing[id].vouched = "owner" => Audit(listing[id])
        /\ listing[id].vouched = "peer" =>
             VerifySignedPayload(listing[id].block, listing[id].payload, Keys)

(***************************************************************************)
(* No step makes a listing that passes the audit fail it, wherever the     *)
(* listing came from; it can only be removed.                              *)
(***************************************************************************)
AuditNeverLost ==
    [][\A id \in Ids :
         listing[id] # None => (Audit(listing[id]) =>
            (listing'[id] # None => Audit(listing'[id])))]_listing

(***************************************************************************)
(* Every stored domain claim was signed by the key of the code that holds  *)
(* it, naming that domain and that code: claims are portable, and are not  *)
(* taken on the word of the directory they come from.                      *)
(***************************************************************************)
ClaimsOwned ==
    \A c \in Codes : claim[c] # None =>
        /\ claim[c].block.key = KeyOf[c]
        /\ claim[c].block.over = claim[c].block.text
        /\ claim[c].block.text.site = claim[c].site /\ claim[c].block.text.code = c

(***************************************************************************)
(* A pool that was accepted gives no two customers one address, and each   *)
(* of its addresses was signed by one store, for its index and its network.*)
(***************************************************************************)
PoolSound ==
    pool # None => \E k \in Keys : \A i, j \in DOMAIN pool.records :
        /\ pool.records[i].key = k /\ pool.records[i].over = pool.records[i].rec
        /\ pool.records[i].rec.code = pool.code
        /\ pool.records[i].rec = pool.records[j].rec => i = j
=============================================================================
