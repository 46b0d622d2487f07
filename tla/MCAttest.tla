------------------------------ MODULE MCAttest ------------------------------
(***************************************************************************)
(* The run of Attest: two codes of one PayNym and one of another operator, *)
(* one mainnet listing, one URL of each network, two versions. A block that*)
(* may be pasted is genuine, or one thing about it is wrong: its blank line*)
(* is lost, it names another address, or its text was altered.             *)
(* Records are published and looked up only of the claim of one code, on a *)
(* directory that has nothing else: a lookup reads no other state. The     *)
(* shop's keys share no state with the directory either, and are followed  *)
(* while there is nothing on it; the operator has the code of his mainnet  *)
(* wallet in the gateway's environment, and two payments are enough.       *)
(***************************************************************************)
EXTENDS Lookup, Wallet, TLC

CONSTANTS a1, a2, b1, ka, kb, node, mainUrl, testUrl, site, www, r1, r2, r3

MCKeyOf   == (a1 :> ka) @@ (a2 :> ka) @@ (b1 :> kb)
MCNetOf   == (node :> "mainnet") @@ (mainUrl :> "mainnet") @@ (testUrl :> "testnet")
MCVersions == {<<1, 27>>, <<1, 9, 3>>}
MCMinimum == <<1, 27, 0>>

Sign(t, k) == [text |-> t, address |-> k, key |-> k, over |-> t]
Pairing(u, v, c) == [kind |-> "pairing", url |-> u, version |-> v, code |-> c, gap |-> TRUE]
OfSite(c)  == [kind |-> "site", site |-> site, code |-> c, gap |-> TRUE]

MainTexts == {Pairing(mainUrl, v, c) : v \in MCVersions, c \in {a1, b1, None}}
SiteTexts == {OfSite(c) : c \in {a1, a2, b1}}
Genuine   == {Sign(t, k) : t \in MainTexts \cup SiteTexts, k \in {ka, kb}}
               \cup {Sign(Pairing(testUrl, <<1, 27>>, a1), ka)}
Sample    == {Sign(Pairing(mainUrl, <<1, 27>>, a1), ka), Sign(OfSite(a1), ka)}
MCPastes  ==
    Genuine
      \cup {[b EXCEPT !.text.gap = FALSE] : b \in Sample}
      \cup {[b EXCEPT !.address = kb] : b \in Sample}
      \cup {[b EXCEPT !.text.code = c] : b \in Sample, c \in {a2, b1}}
      \cup {[b EXCEPT !.address = kb, !.text.code = b1] : b \in Sample}
      \cup {Sign(Pairing(mainUrl, <<1, 27>>, a2), ka), Sign([OfSite(a1) EXCEPT !.site = www], ka)}

MCDocs    == {[onion |-> site, code |-> a1, block |-> Sign(OfSite(c), k)] : c \in {a1, b1}, k \in {ka, kb}}

Signs(k, c, i, j) ==
    LET r(n) == [index |-> n, code |-> c, net |-> "bitcoin"]
    IN  [v |-> 1, rec |-> r(i), key |-> k, over |-> r(j)]
MCPools ==
    {[code |-> a1, records |-> <<Signs(ka, a1, 0, 0), Signs(ka, a1, i, j)>>] : i \in 0..1, j \in 0..1}
      \cup {[code |-> a1, records |-> <<Signs(kb, a1, 0, 0)>>]}

MCZoneOf  == (site :> site) @@ (www :> site)
Typed(h)  == [scheme |-> "none", login |-> FALSE, port |-> FALSE, host |-> h]
MCTypings == {Typed(h) : h \in {site, www, "onion", "single"}}
               \cup {[Typed(site) EXCEPT !.scheme = "other"], [Typed(site) EXCEPT !.login = TRUE],
                     [Typed(site) EXCEPT !.port = TRUE]}

Claimed == {c \in Codes : claim[c] # None}
Apart ==
    zone # {} \/ ask.on =>
        /\ session = a1 /\ Claimed = {a1} /\ pool = None
        /\ \A id \in Ids : listing[id] = None

Empty == \A id \in Ids, c \in Codes :
    <<listing[id], claim[c], session, pool>> = <<None, None, None, None>>

MCPersonal == Code(Mine, "bitcoin")

Few == Cardinality(quoted) + Cardinality(funded) <= 2

MCInit == LookupInit /\ WalletInit /\ (seed = Absent \/ Empty)

MCNext ==
    \/ /\ <<seed, book, bot, mishaps>> = <<Absent, Absent, Absent, 0>>
       /\ LookupNext /\ Apart' /\ UNCHANGED wallet
    \/ Empty /\ WalletNext /\ Few' /\ UNCHANGED <<vars, lookup>>

MCSpec == MCInit /\ [][MCNext]_<<vars, lookup, wallet>> /\ LookupFairness
=============================================================================
