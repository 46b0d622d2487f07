------------------------------- MODULE Wallet -------------------------------
(***************************************************************************)
(* The keys of the shop and where its payments go: the derivations of      *)
(* gateway/derive.ts and deposit.ts, the signed record of an address       *)
(* (identity.ts), the pool that is made offline (pool.mjs), and the start  *)
(* of the gateway on its two files (loadOrCreate in bootstrap.ts).         *)
(*                                                                         *)
(* Keys are terms. A payment code is a seed and a coin type; the key of a  *)
(* payment is a child key of the receiver's code, moved by a secret that   *)
(* it shares with the sender's first key; what either side multiplies is   *)
(* the same. An address is a key and its encoding, and testnet4 has those  *)
(* of every test network. Who holds a seed has its keys, and no others.    *)
(*                                                                         *)
(* Saves are single steps here, and an index is taken once: Gateway and    *)
(* IndexStore have the details of both.                                    *)
(***************************************************************************)
EXTENDS Naturals, FiniteSets

CONSTANTS
    Words,       \* mnemonics the shop may make
    Owner,       \* the mnemonic of the operator's own wallet
    PersonalCode, \* the code in the gateway's environment, or Absent
    AddressType, \* ADDRESS_TYPE, or Absent
    LastIndex,   \* bound: the last index of a network
    MaxMishaps,  \* bound: files lost or brought back
    Absent       \* no file, no process, no setting

Chains == {"bitcoin", "testnet4"}
Types  == {"p2pkh", "p2sh", "p2wpkh"}

\* A BIP39 seed: mnemonic and passphrase.
Seeds == [words: Words \cup {Owner}, pass: BOOLEAN]
Mine  == [words |-> Owner, pass |-> FALSE]

Coin(n) == IF n = "bitcoin" THEN 0 ELSE 1

\* storeIdentity and toBase58.
Code(s, n) == [seed |-> s, coin |-> Coin(n)]
PaymentCodes == {Code(s, n) : s \in Seeds, n \in Chains}

ASSUME WalletAssumption ==
    /\ Owner \notin Words /\ Absent \notin Seeds
    /\ PersonalCode \in PaymentCodes \cup {Absent}
    /\ AddressType \in Types \cup {Absent}
    /\ LastIndex \in Nat /\ MaxMishaps \in Nat

VARIABLES
    seed,    \* store-seed.json
    book,    \* store-identity.json
    bot,     \* the gateway: what it has read
    next,    \* the next index of each network
    quoted,  \* history: records handed out, with the receiver of each
    funded,  \* history: deposit addresses the operator has sent money to
    backup,  \* history: the words the operator has written down
    mishaps, \* history: files lost or brought back
    lost     \* history: the state was lost of a shop that had been used

wallet == <<seed, book, bot, next, quoted, funded, backup, mishaps, lost>>

-----------------------------------------------------------------------------
(***************************************************************************)
(* derive.ts, deposit.ts, identity.ts.                                     *)
(***************************************************************************)
ParseAddressType(v) == IF v = Absent THEN "p2wpkh" ELSE v

Key(c, i) == [of |-> <<c, i>>, shared |-> {}]

\* The library: a key of the receiver's code, moved by the shared secret.
PaymentKey(receiver, sender, i) ==
    [of |-> <<receiver, i>>, shared |-> {<<receiver, i>>, <<sender, 0>>}]

\* addressOfPubkey of the key's public key.
AddressOf(key, type, n) == [key |-> key, type |-> type, coin |-> Coin(n)]

GetPaymentAddress(this, counterparty, i, type, n) ==
    AddressOf(PaymentKey(this, counterparty, i), type, n)

\* Bug: the method of the object that holds the private key.
AddressOnStore(store, personal, i, type, n) == GetPaymentAddress(store, personal, i, type, n)

AddressFor(store, personal, i, type, n) == GetPaymentAddress(personal, store, i, type, n)

SpendingKeyFor(personal, store, i) == PaymentKey(personal, store, i)

NotificationAddress(c, n) == AddressOf(Key(c, 0), "p2pkh", n)

DepositKey(s, n, chain, i) == [of |-> <<"m/84'", s, Coin(n), chain, i>>, shared |-> {}]

DepositAddress(s, n) == AddressOf(DepositKey(s, n, "receive", 0), "p2wpkh", n)

\* recordFor and signAddress.
Record(s, n, i, type, personal) ==
    LET code == Code(s, n)
        rec  == [address |-> AddressFor(code, personal, i, type, n),
                 index |-> i, type |-> type, network |-> n, code |-> code]
    IN  [rec |-> rec, key |-> Key(code, 0), over |-> rec, to |-> personal]

\* verifySignedAddress, by a customer who knows the shop's code.
Attested(q, expected) ==
    /\ q.rec.code = expected
    /\ AddressOf(q.key, "p2pkh", q.rec.network) = NotificationAddress(expected, q.rec.network)
    /\ q.over = q.rec

-----------------------------------------------------------------------------
(***************************************************************************)
(* bootstrap.ts and gateway.mjs.                                           *)
(***************************************************************************)
BlankBlock(s, n) ==
    [code |-> Code(s, n), receiver |-> Absent, deposit |-> DepositAddress(s, n)]

NewBook(s) == [active |-> "bitcoin", block |-> [n \in Chains |-> BlankBlock(s, n)]]

\* A state written before testnet4 and before the deposit chain.
OldBook(s) == [active |-> "bitcoin",
               block  |-> [n \in Chains |->
                   IF n = "bitcoin" THEN [BlankBlock(s, n) EXCEPT !.deposit = Absent]
                                    ELSE Absent]]

Healed(b, s) ==
    [b EXCEPT !.block = [n \in Chains |->
        IF b.block[n] = Absent THEN BlankBlock(s, n)
        ELSE IF b.block[n].deposit = Absent
               THEN [b.block[n] EXCEPT !.deposit = DepositAddress(s, n)]
        ELSE b.block[n]]]

\* The state, and its half of a network; neither is taken for one that is missing.
Deposits == {DepositAddress(s, n) : s \in Seeds, n \in Chains}
Blocks   == [code: PaymentCodes, receiver: PaymentCodes \cup {Absent},
             deposit: Deposits \cup {Absent}]
Books    == [active: Chains, block: [Chains -> Blocks \cup {Absent}]]

ASSUME AbsenceAssumption == Absent \notin Blocks /\ Absent \notin Books

\* A new machine; or a shop of an earlier version, whose seed the operator made.
WalletInit ==
    /\ \/ seed = Absent /\ book = Absent
       \/ /\ seed \in [words: Words, pass: BOOLEAN]
          /\ book = OldBook(seed)
    /\ bot = Absent /\ next = [n \in Chains |-> 0]
    /\ quoted = {} /\ funded = {} /\ backup = Absent
    /\ mishaps = 0 /\ lost = FALSE

\* loadOrCreate: the seed is made only where there is none.
ReadSeed ==
    /\ bot = Absent
    /\ seed' \in IF seed # Absent THEN {seed} ELSE [words: Words, pass: {FALSE}]
    /\ bot' = [at |-> "reading", seed |-> seed']
    /\ UNCHANGED <<book, next, quoted, funded, backup, mishaps, lost>>

\* And the state has to agree with it on every network, before it is healed.
ReadBook ==
    /\ bot # Absent /\ bot.at = "reading"
    /\ LET s == bot.seed
           strange == book # Absent /\ \E n \in Chains :
                        book.block[n] # Absent /\ book.block[n].code # Code(s, n)
       IN  IF strange THEN bot' = Absent /\ UNCHANGED book
           ELSE /\ book' = IF book = Absent THEN NewBook(s) ELSE Healed(book, s)
                /\ bot' = [bot EXCEPT !.at = "serving"]
    /\ UNCHANGED <<seed, next, quoted, funded, backup, mishaps, lost>>

Serving == bot # Absent /\ bot.at = "serving"

\* bindReceiver: what is refused is the shop's own code of this network. (Another
\* receiver is refused too once a notification transaction is recorded for the
\* first. The code never records one, so that this refusal never comes.)
BindCode(n, c) ==
    /\ Serving /\ c # book.block[n].code
    /\ book' = [book EXCEPT !.block[n].receiver = c]
    /\ UNCHANGED <<seed, bot, next, quoted, funded, backup, mishaps, lost>>

TradeOn(n) ==
    /\ Serving /\ book' = [book EXCEPT !.active = n]
    /\ UNCHANGED <<seed, bot, next, quoted, funded, backup, mishaps, lost>>

\* The request "next".
NextAddress ==
    /\ Serving
    /\ LET n == book.active
           r == book.block[n].receiver
           personal == IF r # Absent THEN r ELSE PersonalCode
       IN  /\ personal # Absent /\ next[n] <= LastIndex
           /\ next' = [next EXCEPT ![n] = @ + 1]
           /\ quoted' = quoted \cup
                {Record(bot.seed, n, next[n], ParseAddressType(AddressType), personal)}
    /\ UNCHANGED <<seed, book, bot, funded, backup, mishaps, lost>>

\* A shop that has its identity serves a pool made offline, after pool.mjs
\* --verify has compared it with the code the shop publishes. The network is
\* that of a seed file which names none, as loadOrCreate writes it.
FileNetwork == "bitcoin"

PoolRecords(s, c) == {Record(s, FileNetwork, i, "p2pkh", c) : i \in 0..LastIndex}

TakeRecords(c) ==
    /\ seed # Absent /\ book # Absent /\ quoted = {} /\ bot = Absent
    /\ quoted' = PoolRecords(seed, c)
    /\ \A q \in quoted' : Attested(q, book.block["bitcoin"].code)
    /\ next' = [next EXCEPT !["bitcoin"] = LastIndex + 1]
    /\ UNCHANGED <<seed, book, bot, funded, backup, mishaps, lost>>

\* The request "status": where the operator is told to fund the bot.
FundingAddress(n) == book.block[n].deposit

\* The operator sends the fee to the address the panel shows.
Fund(n) ==
    /\ Serving /\ funded' = funded \cup {FundingAddress(n)}
    /\ UNCHANGED <<seed, book, bot, next, quoted, backup, mishaps, lost>>

\* revealMnemonic.
Reveal ==
    /\ Serving /\ seed # Absent /\ backup' = seed.words
    /\ UNCHANGED <<seed, book, bot, next, quoted, funded, mishaps, lost>>

Stop ==
    /\ bot # Absent /\ bot' = Absent
    /\ UNCHANGED <<seed, book, next, quoted, funded, backup, mishaps, lost>>

Mishap == bot = Absent /\ mishaps < MaxMishaps /\ mishaps' = mishaps + 1

\* A file is lost, or the seed is brought back: from the words, or another one.
LoseSeed ==
    /\ Mishap /\ seed # Absent /\ seed' = Absent
    /\ UNCHANGED <<book, bot, next, quoted, funded, backup, lost>>

RestoreSeed ==
    /\ Mishap
    /\ \/ backup # Absent /\ seed' = [words |-> backup, pass |-> FALSE]
       \/ seed' \in [words: Words, pass: {FALSE}]
    /\ UNCHANGED <<book, bot, next, quoted, funded, backup, lost>>

LoseBook ==
    /\ Mishap /\ book # Absent /\ book' = Absent
    /\ lost' = (lost \/ quoted # {} \/ funded # {})
    /\ UNCHANGED <<seed, bot, next, quoted, funded, backup>>

\* What an operator may paste for a receiver: a code of his own wallet, on
\* either network, or one the panel shows.
Pasted == {Code(Mine, n) : n \in Chains}
            \cup (IF book = Absent THEN {}
                  ELSE {book.block[n].code : n \in {m \in Chains : book.block[m] # Absent}})

WalletNext ==
    \/ ReadSeed \/ ReadBook \/ Stop
    \/ \E n \in Chains : TradeOn(n) \/ Fund(n) \/ \E c \in Pasted : BindCode(n, c)
    \/ NextAddress \/ Reveal
    \/ \E n \in Chains : TakeRecords(Code(Mine, n))
    \/ LoseSeed \/ RestoreSeed \/ LoseBook

WalletSpec == WalletInit /\ [][WalletNext]_wallet

-----------------------------------------------------------------------------
\* Every record that a shop may hand out.
Quotes == {Record(s, n, i, t, c) :
             s \in Seeds, n \in Chains, i \in 0..LastIndex, t \in Types, c \in PaymentCodes}

(***************************************************************************)
(* WalletTypeOK: the shapes of the files, of the gateway and of what went  *)
(* out of it.                                                              *)
(***************************************************************************)
WalletTypeOK ==
    /\ seed \in Seeds \cup {Absent} /\ book \in Books \cup {Absent}
    /\ bot \in [at: {"reading", "serving"}, seed: Seeds] \cup {Absent}
    /\ next \in [Chains -> 0..(LastIndex + 1)] /\ quoted \subseteq Quotes /\ funded \subseteq Deposits
    /\ backup \in Words \cup {Owner, Absent}
    /\ mishaps \in 0..MaxMishaps /\ lost \in BOOLEAN

\* The operator's wallet knows the address the panel shows for the receiver.
Recognised(c, n) == NotificationAddress(c, n) = NotificationAddress(Code(Mine, n), n)

\* Where a wallet of seed s, on any network, finds money it can spend.
Spends(s, a) ==
    \E n \in Chains :
        \/ \E c \in PaymentCodes, i \in 0..LastIndex :
             AddressOf(SpendingKeyFor(Code(s, n), c, i), a.type, n) = a
        \/ a \in {NotificationAddress(Code(s, n), n), DepositAddress(s, n)}

(***************************************************************************)
(* What the customer pays is the operator's. Where the receiver's          *)
(* notification address is one that the operator's wallet knows, every     *)
(* address that was quoted verifies for the shop's code, is watched by     *)
(* that wallet on the quoted network, and is spent by no other seed, those *)
(* of the shop included.                                                   *)
(***************************************************************************)
PaidToOperator ==
    \A q \in quoted : Recognised(q.to, q.rec.network) =>
        /\ Attested(q, q.rec.code)
        /\ \E i \in 0..LastIndex :
             AddressOf(SpendingKeyFor(Code(Mine, q.rec.network), q.rec.code, i),
                       q.rec.type, q.rec.network) = q.rec.address
        /\ \A s \in Seeds \ {Mine} : ~Spends(s, q.rec.address)

(***************************************************************************)
(* A seed is "used, never replaced": as long as its state is kept, a shop  *)
(* that serves has the codes of every address it ever quoted, and the keys *)
(* of every deposit, whatever happened to its seed meanwhile.              *)
(***************************************************************************)
SameShop ==
    Serving /\ ~lost =>
        /\ \A q \in quoted : q.rec.code = Code(bot.seed, q.rec.network)
        /\ \A a \in funded : \E n \in Chains : a = DepositAddress(bot.seed, n)

(***************************************************************************)
(* Customers pay the operator and the operator pays the shop, and neither  *)
(* payment goes where its owner has no key: no deposit is ever a quoted    *)
(* address.                                                                *)
(***************************************************************************)
PaymentsArrive ==
    /\ PaidToOperator /\ SameShop
    /\ \A q \in quoted : q.rec.address \notin funded
=============================================================================
