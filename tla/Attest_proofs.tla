---------------------------- MODULE Attest_proofs ----------------------------
(***************************************************************************)
(* Proofs about Wallet and about Attest, which meet in one run.            *)
(*                                                                         *)
(* Wallet: where the money goes, for any mnemonics, any number of indexes  *)
(* and any mishaps with the two files. That a quoted address belongs to    *)
(* the operator and to nobody else follows from its form alone, once it is *)
(* known that every record that went out has the form recordFor gives it   *)
(* (WalletTypeOK). That the shop stays the same follows from what its      *)
(* state says of its seed: OfSeed.                                         *)
(*                                                                         *)
(* Attest: what a gate lets in verifies, whatever the blocks that are      *)
(* pasted and the keys that made them: each property is an invariant by    *)
(* itself once the shape of the state is known, because every gate writes  *)
(* the text and the signature it has judged, and nothing else.             *)
(***************************************************************************)
EXTENDS Lookup, Wallet, FiniteSetTheorems, TLAPS

-----------------------------------------------------------------------------
(* Wallet.                                                                 *)
LEMMA SeedParts ==
    ASSUME NEW s \in Seeds
    PROVE  /\ s.words \in Words \cup {Owner} /\ s.pass \in BOOLEAN
           /\ s = [words |-> s.words, pass |-> s.pass]
BY DEF Seeds

LEMMA CodesApart ==
    ASSUME NEW s, NEW t, NEW n, NEW m, Code(s, n) = Code(t, m)
    PROVE  s = t /\ Coin(n) = Coin(m)
<1>1. Code(s, n).seed = Code(t, m).seed /\ Code(s, n).coin = Code(t, m).coin
  OBVIOUS
<1> QED BY <1>1 DEF Code

LEMMA BlankType ==
    ASSUME NEW s \in Seeds, NEW n \in Chains
    PROVE  BlankBlock(s, n) \in Blocks
BY DEF BlankBlock, Blocks, PaymentCodes, Deposits

\* What the state says of the seed it was made from.
OfSeed(b, s) ==
    \A n \in Chains : b.block[n] # Absent =>
        b.block[n].code = Code(s, n) /\ b.block[n].deposit \in {Absent, DepositAddress(s, n)}

\* A state that was healed: every network is there, with its deposit.
Whole(b, s) ==
    \A n \in Chains : b.block[n] # Absent /\ b.block[n].code = Code(s, n)
                        /\ b.block[n].deposit = DepositAddress(s, n)

LEMMA NewBookWhole ==
    ASSUME NEW s \in Seeds
    PROVE  NewBook(s) \in Books /\ Whole(NewBook(s), s)
<1>1. \A n \in Chains : BlankBlock(s, n) \in Blocks
  BY BlankType
<1>2. NewBook(s) \in Books
  BY <1>1 DEF NewBook, Books, Chains
<1>3. \A n \in Chains : BlankBlock(s, n) # Absent
  BY <1>1, AbsenceAssumption
<1> QED BY <1>2, <1>3 DEF Whole, NewBook, BlankBlock

LEMMA OldBookType ==
    ASSUME NEW s \in Seeds
    PROVE  /\ OldBook(s) \in Books /\ OfSeed(OldBook(s), s)
           /\ OldBook(s).block["bitcoin"] # Absent
<1> DEFINE old == [BlankBlock(s, "bitcoin") EXCEPT !.deposit = Absent]
<1>1. BlankBlock(s, "bitcoin") \in Blocks
  BY BlankType DEF Chains
<1>2. old \in Blocks /\ old.code = Code(s, "bitcoin") /\ old.deposit = Absent
  BY <1>1 DEF Blocks, BlankBlock
<1>3. old # Absent
  BY <1>2, AbsenceAssumption
<1>4. OldBook(s).active = "bitcoin" /\ OldBook(s).block = [n \in Chains |-> IF n = "bitcoin" THEN old ELSE Absent]
  BY DEF OldBook
<1>5. OldBook(s) \in Books
  BY <1>2 DEF OldBook, Books, Chains
<1> QED BY <1>2, <1>3, <1>4, <1>5 DEF OfSeed, Chains

LEMMA HealedWhole ==
    ASSUME NEW b \in Books, NEW s \in Seeds, OfSeed(b, s)
    PROVE  Healed(b, s) \in Books /\ Whole(Healed(b, s), s)
<1> DEFINE h(n) == IF b.block[n] = Absent THEN BlankBlock(s, n)
                   ELSE IF b.block[n].deposit = Absent
                     THEN [b.block[n] EXCEPT !.deposit = DepositAddress(s, n)]
                   ELSE b.block[n]
<1>1. Healed(b, s) = [b EXCEPT !.block = [n \in Chains |-> h(n)]]
  BY DEF Healed
<1>2. ASSUME NEW n \in Chains
      PROVE  /\ h(n) \in Blocks /\ h(n).code = Code(s, n)
             /\ h(n).deposit = DepositAddress(s, n)
  <2>1. CASE b.block[n] = Absent
    BY <2>1, BlankType DEF BlankBlock
  <2>2. CASE b.block[n] # Absent
    <3>1. b.block[n] \in Blocks
      BY <2>2 DEF Books
    <3>2. DepositAddress(s, n) \in Deposits
      BY DEF Deposits
    <3> QED BY <2>2, <3>1, <3>2 DEF OfSeed, Blocks
  <2> QED BY <2>1, <2>2
<1>3. \A n \in Chains : h(n) # Absent
  BY <1>2, AbsenceAssumption
<1> HIDE DEF h
<1>4. Healed(b, s).active = b.active /\ Healed(b, s).block = [n \in Chains |-> h(n)]
  BY <1>1 DEF Books
<1>5. Healed(b, s) \in Books
  BY <1>1, <1>2 DEF Books
<1> QED BY <1>2, <1>3, <1>4, <1>5 DEF Whole
-----------------------------------------------------------------------------
(***************************************************************************)
(* The files.                                                              *)
(***************************************************************************)
SeedOf(b) == b.block["bitcoin"].code.seed

\* The state in the file names one seed, and the gateway that serves has it.
Coherent ==
    /\ book # Absent => book.block["bitcoin"] # Absent /\ OfSeed(book, SeedOf(book))
    /\ Serving => book # Absent /\ Whole(book, bot.seed)

\* What went out is of the seed that the state names.
Remembered ==
    ~lost => /\ quoted # {} \/ funded # {} => book # Absent
             /\ book # Absent =>
                  /\ \A q \in quoted : q.rec.code = Code(SeedOf(book), q.rec.network)
                  /\ \A a \in funded : \E n \in Chains : a = DepositAddress(SeedOf(book), n)

IInv == WalletTypeOK /\ Coherent /\ Remembered

LEMMA OneSeed ==
    ASSUME NEW b \in Books, NEW s, b.block["bitcoin"] # Absent,
           b.block["bitcoin"].code = Code(s, "bitcoin")
    PROVE  SeedOf(b) = s
BY DEF SeedOf, Code

LEMMA WholeOfSeed ==
    ASSUME NEW b \in Books, NEW s, Whole(b, s)
    PROVE  OfSeed(b, s) /\ SeedOf(b) = s /\ b.block["bitcoin"] # Absent
BY OneSeed DEF Whole, OfSeed, Chains

LEMMA RecordForm ==
    ASSUME NEW s \in Seeds, NEW n \in Chains, NEW i \in 0..LastIndex, NEW t \in Types,
           NEW c \in PaymentCodes
    PROVE  LET q == Record(s, n, i, t, c) IN
             /\ q.rec.code = Code(s, n) /\ q.rec.network = n /\ q.rec.type = t
             /\ q.rec.index = i /\ q.to = c /\ q.over = q.rec /\ q.key = Key(Code(s, n), 0)
             /\ q.rec.address = AddressOf(PaymentKey(c, Code(s, n), i), t, n)
BY DEF Record, AddressFor, GetPaymentAddress

-----------------------------------------------------------------------------
(***************************************************************************)
(* The start of the program, and every step.                               *)
(***************************************************************************)
LEMMA InitHolds == WalletInit => IInv
<1> SUFFICES ASSUME WalletInit PROVE IInv
  OBVIOUS
<1>1. 0 \in 0..(LastIndex + 1) /\ 0 \in 0..MaxMishaps
  BY WalletAssumption
<1>2. seed \in Seeds \cup {Absent} /\ book \in Books \cup {Absent} => WalletTypeOK
  BY <1>1 DEF WalletInit, WalletTypeOK
<1>3. CASE seed = Absent /\ book = Absent
  <2>1. Coherent /\ Remembered
    BY <1>3 DEF WalletInit, Coherent, Remembered, Serving
  <2> QED BY <1>2, <1>3, <2>1 DEF IInv
<1>4. CASE seed \in [words: Words, pass: BOOLEAN] /\ book = OldBook(seed)
  <2>1. seed \in Seeds
    BY <1>4 DEF Seeds
  <2>2. book \in Books /\ OfSeed(book, seed) /\ book.block["bitcoin"] # Absent
    BY <1>4, <2>1, OldBookType
  <2>3. SeedOf(book) = seed
    BY <2>2, OneSeed DEF OfSeed, Chains
  <2>4. Coherent
    BY <2>2, <2>3 DEF WalletInit, Coherent, Serving
  <2>5. Remembered
    BY DEF WalletInit, Remembered
  <2> QED BY <1>2, <2>1, <2>2, <2>4, <2>5 DEF IInv
<1> QED BY <1>3, <1>4 DEF WalletInit

\* What a start reads, and what it makes of a state of its own seed.
LEMMA ReadBookStep ==
    ASSUME IInv, ReadBook
    PROVE  \/ bot' = Absent /\ book' = book
           \/ /\ book' \in Books /\ book' # Absent /\ Whole(book', bot.seed)
              /\ bot' = [at |-> "serving", seed |-> bot.seed] /\ bot.seed \in Seeds
              /\ book # Absent => SeedOf(book) = bot.seed
<1> DEFINE s == bot.seed
           strange == book # Absent /\ \E n \in Chains :
                        book.block[n] # Absent /\ book.block[n].code # Code(s, n)
<1>1. s \in Seeds /\ bot \in [at: {"reading", "serving"}, seed: Seeds]
  BY DEF ReadBook, IInv, WalletTypeOK
<1>2. CASE strange
  BY <1>2 DEF ReadBook
<1>3. CASE ~strange /\ book = Absent
  <2>1. book' = NewBook(s) /\ bot' = [bot EXCEPT !.at = "serving"]
    BY <1>3 DEF ReadBook
  <2> QED BY <1>1, <1>3, <2>1, NewBookWhole, AbsenceAssumption
<1>4. CASE ~strange /\ book # Absent
  <2>1. book' = Healed(book, s) /\ bot' = [bot EXCEPT !.at = "serving"]
    BY <1>4 DEF ReadBook
  <2>2. book \in Books /\ book.block["bitcoin"] # Absent /\ OfSeed(book, SeedOf(book))
    BY <1>4 DEF IInv, WalletTypeOK, Coherent
  <2>3. book.block["bitcoin"].code = Code(s, "bitcoin")
    BY <1>4, <2>2 DEF Chains
  <2>4. SeedOf(book) = s
    BY <2>2, <2>3, OneSeed
  <2> QED BY <1>1, <2>1, <2>2, <2>4, HealedWhole, AbsenceAssumption
<1> QED BY <1>2, <1>3, <1>4

\* The requests that change the state change neither its codes nor its deposits.
LEMMA RequestStep ==
    ASSUME IInv,
           \/ \E n \in Chains : TradeOn(n)
           \/ \E n \in Chains : \E c \in Pasted : BindCode(n, c)
    PROVE  /\ book' \in Books /\ book' # Absent /\ Whole(book', bot.seed)
           /\ SeedOf(book') = SeedOf(book)
<1>1. Serving /\ book \in Books /\ book # Absent /\ Whole(book, bot.seed)
  BY DEF IInv, WalletTypeOK, Coherent, TradeOn, BindCode
<1>2. ASSUME NEW n \in Chains, TradeOn(n) PROVE book' \in Books /\ Whole(book', bot.seed)
  <2>1. book' = [book EXCEPT !.active = n]
    BY <1>2 DEF TradeOn
  <2> QED BY <1>1, <2>1 DEF Books, Whole
<1>3. ASSUME NEW n \in Chains, NEW c \in Pasted, BindCode(n, c)
      PROVE  book' \in Books /\ Whole(book', bot.seed)
  <2>1. c \in PaymentCodes
    <3>1. Mine \in Seeds
      BY DEF Mine, Seeds
    <3>2. CASE \E m \in Chains : c = Code(Mine, m)
      BY <3>1, <3>2 DEF PaymentCodes
    <3>3. CASE \E m \in Chains : book.block[m] # Absent /\ c = book.block[m].code
      BY <1>1, <3>3 DEF Books, Blocks
    <3> QED BY <1>1, <3>2, <3>3 DEF Pasted
  <2> DEFINE new == [book.block[n] EXCEPT !.receiver = c]
  <2>2. book.block[n] \in Blocks
    BY <1>1 DEF Books, Whole
  <2>3. new \in Blocks /\ new.code = book.block[n].code /\ new.deposit = book.block[n].deposit
    BY <2>1, <2>2 DEF Blocks
  <2>4. new # Absent
    BY <2>3, AbsenceAssumption
  <2>5. book' = [book EXCEPT !.block = [book.block EXCEPT ![n] = new]]
    BY <1>3 DEF BindCode
  <2> HIDE DEF new
  <2>6. book' \in Books /\ book'.block = [book.block EXCEPT ![n] = new]
    BY <1>1, <2>3, <2>5 DEF Books
  <2>7. Whole(book', bot.seed)
    BY <1>1, <2>3, <2>4, <2>6 DEF Whole, Books
  <2> QED BY <2>6, <2>7
<1>4. book' \in Books /\ Whole(book', bot.seed)
  BY <1>2, <1>3
<1> QED BY <1>1, <1>4, WholeOfSeed, AbsenceAssumption

\* What one more address, and one more pool, is.
LEMMA NextStep ==
    ASSUME IInv, NextAddress
    PROVE  \E n \in Chains, i \in 0..LastIndex, t \in Types, c \in PaymentCodes :
             /\ quoted' = quoted \cup {Record(bot.seed, n, i, t, c)} /\ bot.seed \in Seeds
             /\ next' = [next EXCEPT ![n] = @ + 1] /\ i = next[n]
<1> DEFINE n == book.active
           r == book.block[n].receiver
           c == IF r # Absent THEN r ELSE PersonalCode
           t == ParseAddressType(AddressType)
<1>1. Serving /\ book \in Books /\ Whole(book, bot.seed) /\ bot.seed \in Seeds
  BY DEF IInv, WalletTypeOK, Coherent, NextAddress, Serving
<1>2. n \in Chains /\ book.block[n] \in Blocks
  BY <1>1 DEF Books, Whole
<1>3. c # Absent /\ next[n] <= LastIndex
  BY DEF NextAddress
<1>4. c \in PaymentCodes
  BY <1>2, <1>3, WalletAssumption DEF Blocks
<1>5. t \in Types
  BY WalletAssumption DEF ParseAddressType, Types
<1>6. next[n] \in 0..LastIndex
  BY <1>2, <1>3, WalletAssumption DEF IInv, WalletTypeOK
<1>7. /\ quoted' = quoted \cup {Record(bot.seed, n, next[n], t, c)}
      /\ next' = [next EXCEPT ![n] = @ + 1]
  BY DEF NextAddress
<1> QED BY <1>1, <1>2, <1>4, <1>5, <1>6, <1>7

LEMMA TakeStep ==
    ASSUME IInv, NEW m \in Chains, TakeRecords(Code(Mine, m))
    PROVE  /\ book # Absent
           /\ \A q \in quoted' : \E i \in 0..LastIndex :
                /\ q = Record(seed, "bitcoin", i, "p2pkh", Code(Mine, m))
                /\ q.rec.code = Code(SeedOf(book), q.rec.network)
           /\ seed \in Seeds /\ Code(Mine, m) \in PaymentCodes /\ quoted = {}
           /\ next' = [next EXCEPT !["bitcoin"] = LastIndex + 1]
<1> DEFINE c == Code(Mine, m)
<1>0. Mine \in Seeds
  BY DEF Mine, Seeds
<1>1. seed \in Seeds /\ book \in Books /\ book # Absent /\ c \in PaymentCodes
  BY <1>0 DEF TakeRecords, IInv, WalletTypeOK, PaymentCodes
<1>2. book.block["bitcoin"] # Absent /\ OfSeed(book, SeedOf(book))
  BY <1>1 DEF IInv, Coherent
<1>3. book.block["bitcoin"].code = Code(SeedOf(book), "bitcoin")
  BY <1>2 DEF OfSeed, Chains
<1>4. ASSUME NEW q \in quoted'
      PROVE  \E i \in 0..LastIndex :
               /\ q = Record(seed, "bitcoin", i, "p2pkh", c)
               /\ q.rec.code = Code(SeedOf(book), q.rec.network)
  <2>1. PICK i \in 0..LastIndex : q = Record(seed, "bitcoin", i, "p2pkh", c)
    BY <1>4 DEF TakeRecords, PoolRecords, FileNetwork
  <2>2. q.rec.code = book.block["bitcoin"].code
    BY <1>4 DEF TakeRecords, Attested
  <2>3. q.rec.network = "bitcoin"
    BY <1>1, <2>1, RecordForm DEF Chains, Types
  <2> QED BY <1>3, <2>1, <2>2, <2>3
<1> QED BY <1>1, <1>4 DEF TakeRecords

\* One more record is of the seed of the state, as those before it.
LEMMA StepHolds == IInv /\ [WalletNext]_wallet => IInv'
<1> SUFFICES ASSUME IInv, [WalletNext]_wallet PROVE IInv'
  OBVIOUS
<1> USE DEF IInv, WalletTypeOK
<1>1. CASE UNCHANGED wallet
  BY <1>1 DEF wallet, Coherent, Remembered, Serving
<1>2. CASE ReadSeed
  <2>1. [words: Words, pass: {FALSE}] \subseteq Seeds
    BY DEF Seeds
  <2>2. seed' \in Seeds /\ bot' = [at |-> "reading", seed |-> seed']
    BY <1>2, <2>1 DEF ReadSeed
  <2>3. WalletTypeOK'
    BY <1>2, <2>2 DEF ReadSeed
  <2>4. Coherent'
    BY <1>2, <2>2 DEF ReadSeed, Coherent, Serving
  <2>5. Remembered'
    BY <1>2 DEF ReadSeed, Remembered
  <2> QED BY <2>3, <2>4, <2>5
<1>3. CASE ReadBook
  <2>1. CASE bot' = Absent /\ book' = book
    BY <1>3, <2>1 DEF ReadBook, Coherent, Remembered, Serving
  <2>2. CASE /\ book' \in Books /\ book' # Absent /\ Whole(book', bot.seed)
             /\ bot' = [at |-> "serving", seed |-> bot.seed] /\ bot.seed \in Seeds
             /\ book # Absent => SeedOf(book) = bot.seed
    <3>1. OfSeed(book', bot.seed) /\ SeedOf(book') = bot.seed /\ book'.block["bitcoin"] # Absent
      BY <2>2, WholeOfSeed
    <3>2. WalletTypeOK'
      BY <1>3, <2>2 DEF ReadBook
    <3>3. Coherent'
      BY <2>2, <3>1 DEF Coherent, Serving
    <3>4. Remembered'
      BY <1>3, <2>2, <3>1 DEF ReadBook, Remembered
    <3> QED BY <3>2, <3>3, <3>4
  <2> QED BY <1>3, <2>1, <2>2, ReadBookStep
<1>4. CASE \/ \E n \in Chains : TradeOn(n)
           \/ \E n \in Chains : \E c \in Pasted : BindCode(n, c)
  <2>1. /\ book' \in Books /\ book' # Absent /\ Whole(book', bot.seed)
        /\ SeedOf(book') = SeedOf(book)
    BY <1>4, RequestStep
  <2>2. OfSeed(book', SeedOf(book')) /\ book'.block["bitcoin"] # Absent
    BY <2>1, WholeOfSeed
  <2>3. UNCHANGED <<seed, bot, next, quoted, funded, backup, mishaps, lost>> /\ book # Absent
    BY <1>4 DEF TradeOn, BindCode, Coherent
  <2>4. WalletTypeOK'
    BY <2>1, <2>3
  <2>5. Coherent'
    BY <2>1, <2>2, <2>3 DEF Coherent, Serving
  <2>6. Remembered'
    BY <2>1, <2>3 DEF Remembered
  <2> QED BY <2>4, <2>5, <2>6
<1>5. CASE NextAddress
  <2>1. PICK n \in Chains, i \in 0..LastIndex, t \in Types, c \in PaymentCodes :
          /\ quoted' = quoted \cup {Record(bot.seed, n, i, t, c)} /\ bot.seed \in Seeds
          /\ next' = [next EXCEPT ![n] = @ + 1] /\ i = next[n]
    BY <1>5, NextStep
  <2>2. UNCHANGED <<seed, book, bot, funded, backup, mishaps, lost>>
    BY <1>5 DEF NextAddress
  <2>3. quoted' \subseteq Quotes
    BY <2>1 DEF Quotes
  <2>4. next' \in [Chains -> 0..(LastIndex + 1)]
    <3>1. next[n] + 1 \in 0..(LastIndex + 1)
      BY <2>1, WalletAssumption
    <3> QED BY <2>1, <3>1
  <2>5. Coherent'
    BY <2>2 DEF Coherent, Serving
  <2>6. book # Absent /\ SeedOf(book) = bot.seed
    BY <1>5, WholeOfSeed DEF NextAddress, Coherent
  <2>7. \A q \in quoted' \ quoted : q.rec.code = Code(bot.seed, q.rec.network)
    BY <2>1, RecordForm
  <2>8. Remembered'
    BY <2>2, <2>6, <2>7 DEF Remembered
  <2> QED BY <2>2, <2>3, <2>4, <2>5, <2>8
<1>6. ASSUME NEW m \in Chains, TakeRecords(Code(Mine, m)) PROVE IInv'
  <2>1. /\ book # Absent
        /\ \A q \in quoted' : \E i \in 0..LastIndex :
             /\ q = Record(seed, "bitcoin", i, "p2pkh", Code(Mine, m))
             /\ q.rec.code = Code(SeedOf(book), q.rec.network)
        /\ seed \in Seeds /\ Code(Mine, m) \in PaymentCodes /\ quoted = {}
        /\ next' = [next EXCEPT !["bitcoin"] = LastIndex + 1]
    BY <1>6, TakeStep
  <2>2. UNCHANGED <<seed, book, bot, funded, backup, mishaps, lost>>
    BY <1>6 DEF TakeRecords
  <2>3. quoted' \subseteq Quotes
    <3>1. "bitcoin" \in Chains /\ "p2pkh" \in Types
      BY DEF Chains, Types
    <3> QED BY <2>1, <3>1 DEF Quotes
  <2>4. next' \in [Chains -> 0..(LastIndex + 1)]
    <3>1. LastIndex + 1 \in 0..(LastIndex + 1)
      BY WalletAssumption
    <3>2. next \in [Chains -> 0..(LastIndex + 1)]
      OBVIOUS
    <3> HIDE DEF IInv, WalletTypeOK
    <3> QED BY <2>1, <3>1, <3>2
  <2>5. Coherent'
    BY <2>2 DEF Coherent, Serving
  <2>6. Remembered'
    BY <2>1, <2>2 DEF Remembered
  <2> QED BY <2>2, <2>3, <2>4, <2>5, <2>6
<1>7. ASSUME NEW n \in Chains, Fund(n) PROVE IInv'
  <2>1. book # Absent /\ Whole(book, bot.seed) /\ bot.seed \in Seeds /\ SeedOf(book) = bot.seed
    BY <1>7, WholeOfSeed DEF Fund, FundingAddress, Coherent, Serving
  <2>2. /\ funded' = funded \cup {DepositAddress(bot.seed, n)}
        /\ UNCHANGED <<seed, book, bot, next, quoted, backup, mishaps, lost>>
    BY <1>7, <2>1 DEF Fund, FundingAddress, Whole
  <2>3. funded' \subseteq Deposits
    BY <2>1, <2>2 DEF Deposits
  <2>4. Coherent' /\ Remembered'
    BY <2>1, <2>2 DEF Coherent, Remembered, Serving
  <2> QED BY <2>2, <2>3, <2>4
<1>8. CASE Reveal
  <2>1. backup' \in Words \cup {Owner}
    BY <1>8, SeedParts DEF Reveal
  <2> QED BY <1>8, <2>1 DEF Reveal, Coherent, Remembered, Serving
<1>9. CASE Stop
  BY <1>9 DEF Stop, Coherent, Remembered, Serving
<1>10. CASE LoseSeed \/ RestoreSeed
  <2>1. mishaps' \in 0..MaxMishaps
    <3>1. mishaps < MaxMishaps /\ mishaps' = mishaps + 1 /\ mishaps \in 0..MaxMishaps
      BY <1>10 DEF LoseSeed, RestoreSeed, Mishap
    <3> HIDE DEF IInv, WalletTypeOK
    <3> QED BY <3>1, WalletAssumption
  <2>2. seed' \in Seeds \cup {Absent}
    <3>1. \A w \in Words \cup {Owner} : [words |-> w, pass |-> FALSE] \in Seeds
      BY DEF Seeds
    <3>2. [words: Words, pass: {FALSE}] \subseteq Seeds
      BY DEF Seeds
    <3>3. backup \in Words \cup {Owner, Absent}
      OBVIOUS
    <3> HIDE DEF IInv, WalletTypeOK
    <3> QED BY <1>10, <3>1, <3>2, <3>3 DEF LoseSeed, RestoreSeed
  <2>3. UNCHANGED <<book, bot, next, quoted, funded, backup, lost>>
    BY <1>10 DEF LoseSeed, RestoreSeed
  <2> QED BY <2>1, <2>2, <2>3 DEF Coherent, Remembered, Serving
<1>11. CASE LoseBook
  <2>1. mishaps' \in 0..MaxMishaps
    BY <1>11, WalletAssumption DEF LoseBook, Mishap
  <2>2. bot = Absent /\ book' = Absent /\ lost' = (lost \/ quoted # {} \/ funded # {})
    BY <1>11 DEF LoseBook, Mishap
  <2>3. UNCHANGED <<seed, bot, next, quoted, funded, backup>>
    BY <1>11 DEF LoseBook
  <2> QED BY <2>1, <2>2, <2>3 DEF Coherent, Remembered, Serving
<1> QED
  BY <1>1, <1>2, <1>3, <1>4, <1>5, <1>6, <1>7, <1>8, <1>9, <1>10, <1>11 DEF WalletNext

LEMMA Always == WalletSpec => []IInv
BY InitHolds, StepHolds, PTL DEF WalletSpec

(***************************************************************************)
(* The files, the gateway and what goes out of it keep their shape; above  *)
(* all, every record that went out has the form that recordFor gives it.   *)
(***************************************************************************)
THEOREM WalletTypesHold == WalletSpec => []WalletTypeOK
<1>1. IInv => WalletTypeOK
  BY DEF IInv
<1> QED BY <1>1, Always, PTL

-----------------------------------------------------------------------------
(***************************************************************************)
(* Where the money goes.                                                   *)
(***************************************************************************)
LEMMA SharedApart ==
    ASSUME NEW c, NEW sender, NEW i, NEW t, NEW n, NEW k, NEW u, NEW m, k.shared = {}
    PROVE  AddressOf(PaymentKey(c, sender, i), t, n) # AddressOf(k, u, m)
<1>1. AddressOf(PaymentKey(c, sender, i), t, n).key.shared # {}
  BY DEF AddressOf, PaymentKey
<1>2. AddressOf(k, u, m).key.shared = {}
  BY DEF AddressOf
<1> QED BY <1>1, <1>2

LEMMA NoDeposit ==
    ASSUME NEW q \in Quotes
    PROVE  q.rec.address \notin Deposits
<1>1. PICK s \in Seeds, n \in Chains, i \in 0..LastIndex, t \in Types, c \in PaymentCodes :
        q = Record(s, n, i, t, c)
  BY DEF Quotes
<1>2. q.rec.address = AddressOf(PaymentKey(c, Code(s, n), i), t, n)
  BY <1>1, RecordForm
<1>3. ASSUME NEW z \in Seeds, NEW m \in Chains PROVE q.rec.address # DepositAddress(z, m)
  <2>1. DepositKey(z, m, "receive", 0).shared = {}
    BY DEF DepositKey
  <2> QED BY <1>2, <2>1, SharedApart DEF DepositAddress
<1> QED BY <1>3 DEF Deposits

\* A payment belongs to the code its key is a child of.
LEMMA PaymentParts ==
    ASSUME NEW c, NEW d, NEW i, NEW t, NEW n, NEW e, NEW f, NEW j, NEW u, NEW m,
           AddressOf(PaymentKey(c, d, i), t, n) = AddressOf(PaymentKey(e, f, j), u, m)
    PROVE  c = e
<1>1. AddressOf(PaymentKey(c, d, i), t, n).key.of = <<c, i>>
  BY DEF AddressOf, PaymentKey
<1>2. AddressOf(PaymentKey(e, f, j), u, m).key.of = <<e, j>>
  BY DEF AddressOf, PaymentKey
<1> QED BY <1>1, <1>2

LEMMA KnownReceiver ==
    ASSUME NEW c, NEW n, Recognised(c, n)
    PROVE  c = Code(Mine, n)
<1>1. NotificationAddress(c, n).key.of = <<c, 0>>
  BY DEF NotificationAddress, AddressOf, Key
<1>2. NotificationAddress(Code(Mine, n), n).key.of = <<Code(Mine, n), 0>>
  BY DEF NotificationAddress, AddressOf, Key
<1> QED BY <1>1, <1>2 DEF Recognised

LEMMA QuotesAreTheOperators ==
    ASSUME NEW q \in Quotes, Recognised(q.to, q.rec.network)
    PROVE  /\ Attested(q, q.rec.code)
           /\ \E i \in 0..LastIndex :
                AddressOf(SpendingKeyFor(Code(Mine, q.rec.network), q.rec.code, i),
                          q.rec.type, q.rec.network) = q.rec.address
           /\ \A s \in Seeds \ {Mine} : ~Spends(s, q.rec.address)
<1>1. PICK s \in Seeds, n \in Chains, i \in 0..LastIndex, t \in Types, c \in PaymentCodes :
        q = Record(s, n, i, t, c)
  BY DEF Quotes
<1>2. /\ q.rec.code = Code(s, n) /\ q.rec.network = n /\ q.rec.type = t /\ q.to = c
      /\ q.over = q.rec /\ q.key = Key(Code(s, n), 0)
      /\ q.rec.address = AddressOf(PaymentKey(c, Code(s, n), i), t, n)
  BY <1>1, RecordForm
<1>3. c = Code(Mine, n)
  BY <1>2, KnownReceiver
<1>4. Attested(q, q.rec.code)
  BY <1>2 DEF Attested, NotificationAddress
<1>5. AddressOf(SpendingKeyFor(Code(Mine, n), q.rec.code, i), t, n) = q.rec.address
  BY <1>2, <1>3 DEF SpendingKeyFor
<1>6. ASSUME NEW z \in Seeds \ {Mine}, NEW m \in Chains PROVE
        /\ \A d \in PaymentCodes, j \in 0..LastIndex :
             AddressOf(SpendingKeyFor(Code(z, m), d, j), q.rec.address.type, m) # q.rec.address
        /\ q.rec.address # NotificationAddress(Code(z, m), m)
        /\ q.rec.address # DepositAddress(z, m)
  <2>1. Code(z, m) # c
    BY <1>3, CodesApart
  <2>2. ASSUME NEW d \in PaymentCodes, NEW j \in 0..LastIndex
        PROVE  AddressOf(SpendingKeyFor(Code(z, m), d, j), q.rec.address.type, m) # q.rec.address
    BY <1>2, <2>1, PaymentParts DEF SpendingKeyFor
  <2>3. q.rec.address # NotificationAddress(Code(z, m), m)
    <3>1. Key(Code(z, m), 0).shared = {}
      BY DEF Key
    <3> QED BY <1>2, <3>1, SharedApart DEF NotificationAddress
  <2>4. q.rec.address # DepositAddress(z, m)
    BY NoDeposit DEF Deposits
  <2> QED BY <2>2, <2>3, <2>4
<1>7. \A z \in Seeds \ {Mine} : ~Spends(z, q.rec.address)
  BY <1>6 DEF Spends
<1> QED BY <1>2, <1>4, <1>5, <1>7

(***************************************************************************)
(* What customers pay is the operator's and nobody else's, the shop keeps  *)
(* its keys through every loss of its files but that of a used state, and  *)
(* no deposit is ever quoted: addressFor, recordFor and loadOrCreate.      *)
(***************************************************************************)
THEOREM EveryPaymentArrives == WalletSpec => []PaymentsArrive
<1>1. IInv => PaymentsArrive
  <2> SUFFICES ASSUME IInv PROVE PaymentsArrive
    OBVIOUS
  <2>1. PaidToOperator
    BY QuotesAreTheOperators DEF IInv, WalletTypeOK, PaidToOperator
  <2>2. SameShop
    <3> SUFFICES ASSUME Serving, ~lost
                 PROVE  /\ \A q \in quoted : q.rec.code = Code(bot.seed, q.rec.network)
                        /\ \A a \in funded : \E n \in Chains : a = DepositAddress(bot.seed, n)
      BY DEF SameShop
    <3>1. book # Absent /\ SeedOf(book) = bot.seed
      BY WholeOfSeed DEF IInv, WalletTypeOK, Coherent
    <3> QED BY <3>1 DEF IInv, Remembered
  <2>3. \A q \in quoted : q.rec.address \notin funded
    BY NoDeposit DEF IInv, WalletTypeOK
  <2> QED BY <2>1, <2>2, <2>3 DEF PaymentsArrive
<1> QED BY <1>1, Always, PTL

-----------------------------------------------------------------------------
(* Attest.                                                                 *)
USE AttestAssumption

\* Restoring the blank line of a text gives a text.
LEMMA RestoredType ==
    ASSUME NEW b \in Block PROVE Restored(b) \in Texts
<1>1. b.text \in Texts
  BY DEF Block
<1>2. CASE b.text.code = None
  BY <1>1, <1>2 DEF Restored
<1>3. CASE b.text.code # None
  <2>1. b.text \in [kind: {"pairing"}, url: Urls, version: Versions, code: Codes \cup {None}, gap: BOOLEAN]
          => [b.text EXCEPT !.gap = TRUE] \in Texts
    BY DEF Texts
  <2>2. b.text \in [kind: {"site"}, site: Sites, code: Codes, gap: BOOLEAN]
          => [b.text EXCEPT !.gap = TRUE] \in Texts
    BY DEF Texts
  <2> QED BY <1>1, <1>3, <2>1, <2>2 DEF Restored, Texts
<1> QED BY <1>2, <1>3

\* A repaired block is a block.
LEMMA RepairType ==
    ASSUME NEW b \in Block PROVE Repair(b) \in Block
BY RestoredType DEF Repair, Block

\* Every block that may be pasted is one, and so is its repaired form.
LEMMA PasteType ==
    ASSUME NEW b \in Pastes PROVE b \in Block /\ Repair(b) \in Block
BY RepairType

\* A listing or a claim that a gate makes has the shape of one.
LEMMA ListingType ==
    ASSUME NEW cs \in SUBSET Codes, cs # {}, NEW p \in Payload, NEW b \in Block,
           NEW v \in {"owner", "peer", "legacy"}
    PROVE  [codes |-> cs, payload |-> p, block |-> b, vouched |-> v] \in Listing
BY DEF Listing

\* The parts of a listing.
LEMMA ListingParts ==
    ASSUME NEW l \in Listing
    PROVE  /\ l.codes \in SUBSET Codes /\ l.codes # {}
           /\ l.payload \in Payload /\ l.block \in Block
           /\ l.vouched \in {"owner", "peer", "legacy"}
           /\ l = [codes |-> l.codes, payload |-> l.payload, block |-> l.block, vouched |-> l.vouched]
BY DEF Listing

\* The payload inside the text of a pairing block.
LEMMA CoveredPayload ==
    ASSUME NEW b \in Block, b.text.kind = "pairing"
    PROVE  /\ b.text.url \in Urls /\ b.text.version \in Versions
           /\ [url |-> b.text.url, version |-> b.text.version] \in Payload
BY DEF Block, Texts, Payload

(***************************************************************************)
(* The state keeps its shape through every gate and tool.                  *)
(***************************************************************************)
LEMMA TypesStart == Init => TypeOK
<1> SUFFICES ASSUME Init PROVE TypeOK
  OBVIOUS
<1>1. CASE listing = [id \in Ids |-> None]
  BY <1>1 DEF Init, TypeOK
<1>2. ASSUME NEW c \in Codes, NEW p \in Payload, NEW b \in Pastes,
             listing = [id \in Ids |-> [codes |-> {c}, payload |-> p, block |-> b, vouched |-> "legacy"]]
      PROVE  TypeOK
  <2>1. b \in Block /\ {c} \in SUBSET Codes /\ {c} # {}
    BY PasteType
  <2>2. [codes |-> {c}, payload |-> p, block |-> b, vouched |-> "legacy"] \in Listing
    BY <2>1 DEF Listing
  <2> QED BY <1>2, <2>2 DEF Init, TypeOK
<1> QED BY ZenonT(40), <1>1, <1>2 DEF Init

LEMMA TypesStep == TypeOK /\ [Next]_vars => TypeOK'
<1> SUFFICES ASSUME TypeOK, [Next]_vars PROVE TypeOK'
  OBVIOUS
<1> USE DEF TypeOK
<1>1. ASSUME NEW b \in Pastes, NEW s \in Sites, SignIn(b, s) PROVE TypeOK'
  <2>1. b \in Block /\ b.text.kind = "site"
    BY <1>1, PasteType DEF SignIn
  <2>2. b.text.code \in Codes
    BY <2>1 DEF Block, Texts
  <2> QED BY <1>1, <2>2 DEF SignIn
<1>2. ASSUME NEW b \in Pastes, NEW s \in Sites, ClaimDomain(b, s) PROVE TypeOK'
  <2>1. [site |-> s, block |-> Repair(b)] \in Claim
    BY PasteType DEF Claim
  <2> QED BY <1>2, <2>1 DEF ClaimDomain
<1>3. ASSUME NEW b \in Pastes, NEW s \in Sites, NEW c \in Codes, ImportClaim(c, b, s) PROVE TypeOK'
  <2>1. [site |-> s, block |-> b] \in Claim
    BY PasteType DEF Claim
  <2> QED BY <1>3, <2>1 DEF ImportClaim
<1>4. ASSUME NEW id \in Ids, NEW b \in Pastes, ApplySigned(id, b) PROVE TypeOK'
  <2> DEFINE r == Repair(b)
             p == [url |-> r.text.url, version |-> r.text.version]
  <2>1. listing[id] \in Listing /\ r \in Block /\ p \in Payload
    BY <1>4, PasteType, CoveredPayload DEF ApplySigned
  <2>2. listing' = [listing EXCEPT ![id] = [listing[id] EXCEPT !.payload = p, !.block = r, !.vouched = "owner"]]
    BY <1>4 DEF ApplySigned
  <2>3. [listing[id] EXCEPT !.payload = p, !.block = r, !.vouched = "owner"] \in Listing
    BY <2>1 DEF Listing
  <2> QED BY <1>4, <2>2, <2>3 DEF ApplySigned
<1>5. ASSUME NEW id \in Ids, NEW b \in Pastes, NEW p \in Payload, Submit(id, p, b) PROVE TypeOK'
  <2>1. listing[id] # None => listing[id].codes \in SUBSET Codes
    BY ListingParts
  <2>2. [codes |-> {session} \cup (IF listing[id] = None THEN {} ELSE listing[id].codes),
         payload |-> p, block |-> Repair(b), vouched |-> "owner"] \in Listing
    BY <1>5, <2>1, PasteType, ListingType DEF Submit
  <2> QED BY <1>5, <2>2 DEF Submit
<1>6. ASSUME NEW id \in Ids, NEW b \in Pastes, NEW p \in Payload, EditPairing(id, p, b) PROVE TypeOK'
  <2>1. listing[id] \in Listing /\ Repair(b) \in Block
    BY <1>6, PasteType DEF EditPairing
  <2>2. listing' = [listing EXCEPT ![id] =
                      [listing[id] EXCEPT !.payload = p, !.block = Repair(b), !.vouched = "owner"]]
    BY <1>6 DEF EditPairing
  <2>3. [listing[id] EXCEPT !.payload = p, !.block = Repair(b), !.vouched = "owner"] \in Listing
    BY <2>1 DEF Listing
  <2> QED BY <1>6, <2>2, <2>3 DEF EditPairing
<1>7. ASSUME NEW id \in Ids, NEW b \in Pastes, NEW p \in Payload, Import(id, p, b) PROVE TypeOK'
  <2>1. PICK cs \in (SUBSET Codes) \ {{}} : listing' =
           [listing EXCEPT ![id] = [codes |-> cs, payload |-> p, block |-> b, vouched |-> "peer"]]
    BY <1>7 DEF Import
  <2>2. [codes |-> cs, payload |-> p, block |-> b, vouched |-> "peer"] \in Listing
    BY PasteType, ListingType
  <2> QED BY <1>7, <2>1, <2>2 DEF Import
<1>8. ASSUME NEW id \in Ids, Delete(id) PROVE TypeOK'
  BY <1>8 DEF Delete
<1>9. ASSUME NEW id \in Ids, FixVersion(id) PROVE TypeOK'
  <2>1. listing[id] \in Listing /\ listing[id].block \in Block
    BY <1>9, ListingParts DEF FixVersion
  <2>2. listing[id].block.text.version \in Versions
    BY <1>9, <2>1, CoveredPayload DEF FixVersion
  <2>3. [listing[id] EXCEPT !.payload = [@ EXCEPT !.version = listing[id].block.text.version]] \in Listing
    BY <2>1, <2>2 DEF Listing, Payload
  <2> QED BY <1>9, <2>3 DEF FixVersion
<1>10. ASSUME NEW p \in Pools, NEW c \in Codes, TakePool(p, c) PROVE TypeOK'
  BY <1>10 DEF TakePool
<1>11. CASE UNCHANGED vars
  BY <1>11 DEF vars
<1> QED BY <1>1, <1>2, <1>3, <1>4, <1>5, <1>6, <1>7, <1>8, <1>9, <1>10, <1>11 DEF Next

THEOREM TypeCorrect == Spec => []TypeOK
BY TypesStart, TypesStep, PTL DEF Spec

-----------------------------------------------------------------------------
(***************************************************************************)
(* The listings.                                                           *)
(***************************************************************************)
\* One step of each gate, and what it leaves of one listing: it is as it was,
\* it is gone, or it has been written with what was verified.
Written(l) == \/ l.vouched = "owner" /\ Audit(l)
              \/ l.vouched = "peer" /\ VerifySignedPayload(l.block, l.payload, Keys)

LEMMA GatesVerify ==
    ASSUME TypeOK, [Next]_vars, NEW id \in Ids
    PROVE  \/ listing'[id] = listing[id]
           \/ listing'[id] = None
           \/ listing[id] = None /\ Written(listing'[id])
           \/ Audit(listing'[id]) /\ listing'[id].vouched = "owner"
           \/ /\ listing[id] # None /\ listing[id].block.text.kind = "pairing"
              /\ listing[id].block.text.url = listing[id].payload.url
              /\ listing[id].block.text.version # listing[id].payload.version
              /\ listing'[id] = [listing[id] EXCEPT !.payload.version = listing[id].block.text.version]
<1> USE DEF TypeOK
<1>1. ASSUME NEW i \in Ids, NEW b \in Pastes, ApplySigned(i, b)
      PROVE  listing'[id] = listing[id] \/ (Audit(listing'[id]) /\ listing'[id].vouched = "owner")
  <2> DEFINE r == Repair(b)
             p == [url |-> r.text.url, version |-> r.text.version]
             l == [listing[i] EXCEPT !.payload = p, !.block = r, !.vouched = "owner"]
  <2>1. listing[i] \in Listing /\ r.text.code \in listing[i].codes
        /\ VerifySignedPayload(r, p, Notification(r.text.code))
        /\ listing' = [listing EXCEPT ![i] = l]
    BY <1>1 DEF ApplySigned
  <2>2. l.codes = listing[i].codes /\ l.payload = p /\ l.block = r /\ l.vouched = "owner"
    BY <2>1, ListingParts
  <2>3. Audit(l)
    BY <2>1, <2>2 DEF Audit
  <2> QED BY <2>1, <2>2, <2>3
<1>2. ASSUME NEW i \in Ids, NEW b \in Pastes, NEW p \in Payload, Submit(i, p, b)
      PROVE  listing'[id] = listing[id] \/ (Audit(listing'[id]) /\ listing'[id].vouched = "owner")
  <2> DEFINE l == [codes |-> {session} \cup (IF listing[i] = None THEN {} ELSE listing[i].codes),
                   payload |-> p, block |-> Repair(b), vouched |-> "owner"]
  <2>1. Audit(l) /\ listing' = [listing EXCEPT ![i] = l]
    BY <1>2 DEF Submit, Audit
  <2> QED BY <2>1
<1>3. ASSUME NEW i \in Ids, NEW b \in Pastes, NEW p \in Payload, EditPairing(i, p, b)
      PROVE  listing'[id] = listing[id] \/ (Audit(listing'[id]) /\ listing'[id].vouched = "owner")
  <2> DEFINE l == [listing[i] EXCEPT !.payload = p, !.block = Repair(b), !.vouched = "owner"]
  <2>1. listing[i] \in Listing /\ session \in listing[i].codes
        /\ VerifySignedPayload(Repair(b), p, Notification(session))
        /\ listing' = [listing EXCEPT ![i] = l]
    BY <1>3 DEF EditPairing
  <2>2. l.codes = listing[i].codes /\ l.payload = p /\ l.block = Repair(b) /\ l.vouched = "owner"
    BY <2>1, ListingParts
  <2>3. Audit(l)
    BY <2>1, <2>2 DEF Audit
  <2> QED BY <2>1, <2>2, <2>3
<1>4. ASSUME NEW i \in Ids, NEW b \in Pastes, NEW p \in Payload, Import(i, p, b)
      PROVE  listing'[id] = listing[id] \/ (listing[id] = None /\ Written(listing'[id]))
  <2>1. PICK cs \in (SUBSET Codes) \ {{}} : listing' =
             [listing EXCEPT ![i] = [codes |-> cs, payload |-> p, block |-> b, vouched |-> "peer"]]
    BY <1>4 DEF Import
  <2>2. listing[i] = None /\ VerifySignedPayload(b, p, Keys)
    BY <1>4 DEF Import
  <2>3. Written([codes |-> cs, payload |-> p, block |-> b, vouched |-> "peer"])
    BY <2>2 DEF Written
  <2> QED BY <2>1, <2>2, <2>3
<1>5. ASSUME NEW i \in Ids, Delete(i) PROVE listing'[id] = listing[id] \/ listing'[id] = None
  BY <1>5 DEF Delete
<1>6. ASSUME NEW i \in Ids, FixVersion(i)
      PROVE  \/ listing'[id] = listing[id]
             \/ /\ listing[id] # None /\ listing[id].block.text.kind = "pairing"
                /\ listing[id].block.text.url = listing[id].payload.url
                /\ listing[id].block.text.version # listing[id].payload.version
                /\ listing'[id] = [listing[id] EXCEPT !.payload.version = listing[id].block.text.version]
  BY <1>6 DEF FixVersion
<1>7. (\E b \in Pastes, s \in Sites : SignIn(b, s) \/ ClaimDomain(b, s)
          \/ \E c \in Codes : ImportClaim(c, b, s)) => listing' = listing
  BY DEF SignIn, ClaimDomain, ImportClaim
<1>8. (\E p \in Pools, c \in Codes : TakePool(p, c)) => listing' = listing
  BY DEF TakePool
<1>9. UNCHANGED vars => listing' = listing
  BY DEF vars
<1> QED BY <1>1, <1>2, <1>3, <1>4, <1>5, <1>6, <1>7, <1>8, <1>9 DEF Next

\* Putting the signed version back where it differs: the record did not pass.
LEMMA FixedDiffers ==
    ASSUME NEW l \in Listing, l.block.text.version # l.payload.version
    PROVE  /\ ~Audit(l)
           /\ ~VerifySignedPayload(l.block, l.payload, Keys)
BY DEF Audit, VerifySignedPayload, Covers

(***************************************************************************)
(* What this directory vouches for verifies, for ever.                     *)
(***************************************************************************)
THEOREM EveryListingVerifies == Spec => []ListingsVerify
<1>1. Init => ListingsVerify
  BY DEF Init, Legacy, ListingsVerify
<1>2. TypeOK /\ ListingsVerify /\ [Next]_vars => ListingsVerify'
  <2> SUFFICES ASSUME TypeOK, ListingsVerify, [Next]_vars, NEW id \in Ids, listing'[id] # None
               PROVE  /\ listing'[id].vouched = "owner" => Audit(listing'[id])
                      /\ listing'[id].vouched = "peer" =>
                           VerifySignedPayload(listing'[id].block, listing'[id].payload, Keys)
    BY DEF ListingsVerify
  <2>1. CASE listing'[id] = listing[id]
    BY <2>1 DEF ListingsVerify
  <2>2. CASE Written(listing'[id])
    BY <2>2 DEF Written
  <2>3. CASE Audit(listing'[id]) /\ listing'[id].vouched = "owner"
    BY <2>3
  <2>4. CASE /\ listing[id] # None
             /\ listing[id].block.text.version # listing[id].payload.version
             /\ listing'[id] = [listing[id] EXCEPT !.payload.version = listing[id].block.text.version]
    <3>1. listing[id] \in Listing
      BY <2>4 DEF TypeOK
    <3>2. listing[id].vouched = "legacy"
      BY <2>4, <3>1, FixedDiffers, ListingParts DEF ListingsVerify
    <3>3. listing'[id].vouched = listing[id].vouched
      BY <2>4, <3>1, ListingParts
    <3> QED BY <3>2, <3>3
  <2> QED BY <2>1, <2>2, <2>3, <2>4, GatesVerify
<1> QED BY <1>1, <1>2, TypeCorrect, PTL DEF Spec

(***************************************************************************)
(* No gate and no tool breaks a listing that passes the audit.             *)
(***************************************************************************)
THEOREM AuditLasts == Spec => AuditNeverLost
<1>1. TypeOK /\ [Next]_vars =>
        [\A id \in Ids : listing[id] # None => (Audit(listing[id]) =>
            (listing'[id] # None => Audit(listing'[id])))]_listing
  <2> SUFFICES ASSUME TypeOK, [Next]_vars, NEW id \in Ids,
                      listing[id] # None, Audit(listing[id]), listing'[id] # None
               PROVE  Audit(listing'[id])
    OBVIOUS
  <2>1. listing[id] \in Listing
    BY DEF TypeOK
  <2> QED BY <2>1, GatesVerify, FixedDiffers
<1> QED BY <1>1, TypeCorrect, PTL DEF Spec, AuditNeverLost

-----------------------------------------------------------------------------
(***************************************************************************)
(* The claims and the pool.                                                *)
(***************************************************************************)
\* What the gate of the claims asks of a block.
LEMMA ClaimGate ==
    ASSUME NEW b, NEW s, NEW c \in Codes, VerifySignedUrlClaim(b, s, c)
    PROVE  /\ b.key = KeyOf[c] /\ b.over = b.text
           /\ b.text.site = s /\ b.text.code = c
BY DEF VerifySignedUrlClaim, Notification, Verifies

(***************************************************************************)
(* Every claim is signed by the key of its code, imported or not.          *)
(***************************************************************************)
THEOREM EveryClaimOwned == Spec => []ClaimsOwned
<1>1. Init => ClaimsOwned
  BY DEF Init, ClaimsOwned
<1>2. TypeOK /\ ClaimsOwned /\ [Next]_vars => ClaimsOwned'
  <2> SUFFICES ASSUME TypeOK, ClaimsOwned, [Next]_vars PROVE ClaimsOwned'
    OBVIOUS
  <2> USE DEF ClaimsOwned, TypeOK
  <2>1. ASSUME NEW b \in Pastes, NEW s \in Sites, ClaimDomain(b, s) PROVE ClaimsOwned'
    BY <2>1, ClaimGate DEF ClaimDomain
  <2>2. ASSUME NEW b \in Pastes, NEW s \in Sites, NEW c \in Codes, ImportClaim(c, b, s)
        PROVE ClaimsOwned'
    BY <2>2, ClaimGate DEF ImportClaim
  <2>3. CASE UNCHANGED claim
    BY <2>3
  <2>4. \/ UNCHANGED claim
        \/ \E b \in Pastes, s \in Sites : ClaimDomain(b, s) \/ \E c \in Codes : ImportClaim(c, b, s)
    <3>1. \A b \in Pastes, s \in Sites : SignIn(b, s) => UNCHANGED claim
      BY DEF SignIn
    <3>2. \A id \in Ids, b \in Pastes : ApplySigned(id, b) => UNCHANGED claim
      BY DEF ApplySigned
    <3>3. \A id \in Ids, b \in Pastes, p \in Payload :
             Submit(id, p, b) \/ EditPairing(id, p, b) \/ Import(id, p, b) => UNCHANGED claim
      BY DEF Submit, EditPairing, Import
    <3>4. \A id \in Ids : Delete(id) \/ FixVersion(id) => UNCHANGED claim
      BY DEF Delete, FixVersion
    <3>5. \A p \in Pools, c \in Codes : TakePool(p, c) => UNCHANGED claim
      BY DEF TakePool
    <3>6. UNCHANGED vars => UNCHANGED claim
      BY DEF vars
    <3> QED BY <3>1, <3>2, <3>3, <3>4, <3>5, <3>6 DEF Next
  <2> QED BY <2>1, <2>2, <2>3, <2>4
<1> QED BY <1>1, <1>2, TypeCorrect, PTL DEF Spec

\* What verifyPool accepts is one store's, and gives each address once.
LEMMA PoolVerified ==
    ASSUME NEW p \in Pools, NEW c \in Codes, VerifyPool(p, c)
    PROVE  \E k \in Keys : \A i, j \in DOMAIN p.records :
             /\ p.records[i].key = k /\ p.records[i].over = p.records[i].rec
             /\ p.records[i].rec.code = p.code
             /\ p.records[i].rec = p.records[j].rec => i = j
<1>1. KeyOf[c] \in Keys
  OBVIOUS
<1>2. ASSUME NEW i \in DOMAIN p.records, NEW j \in DOMAIN p.records
      PROVE  /\ p.records[i].key = KeyOf[c] /\ p.records[i].over = p.records[i].rec
             /\ p.records[i].rec.code = p.code
             /\ p.records[i].rec = p.records[j].rec => i = j
  BY DEF VerifyPool, VerifySignedAddress, Notification
<1> QED BY <1>1, <1>2

(***************************************************************************)
(* The pool in use is one store's, and gives each address to one order.    *)
(***************************************************************************)
THEOREM EveryPoolSound == Spec => []PoolSound
<1>1. Init => PoolSound
  BY DEF Init, PoolSound
<1>2. TypeOK /\ PoolSound /\ [Next]_vars => PoolSound'
  <2> SUFFICES ASSUME TypeOK, PoolSound, [Next]_vars PROVE PoolSound'
    OBVIOUS
  <2>1. CASE pool' = pool
    BY <2>1 DEF PoolSound
  <2>2. ASSUME NEW p \in Pools, NEW c \in Codes, TakePool(p, c) PROVE PoolSound'
    BY <2>2, PoolVerified DEF TakePool, PoolSound
  <2>3. pool' = pool \/ \E p \in Pools, c \in Codes : TakePool(p, c)
    BY ZenonT(40) DEF Next, vars, SignIn, ClaimDomain, ImportClaim, Submit, EditPairing, Import,
           ApplySigned, Delete, FixVersion
  <2> QED BY <2>1, <2>2, <2>3
<1> QED BY <1>1, <1>2, TypeCorrect, PTL DEF Spec

-----------------------------------------------------------------------------
(***************************************************************************)
(* Lookup: what a conversation with each resolver leaves behind.           *)
(***************************************************************************)
USE LookupAssumption

Heard == /\ ask.on => ask \in Asking
         /\ ask.on \/ ask = Nothing

LEMMA AskedShape ==
    ASSUME LookupTypeOK PROVE Heard
<1>1. CASE ask \in Asking
  <2>1. ask.on = TRUE
    BY <1>1 DEF Asking
  <2> QED BY <1>1, <2>1 DEF Heard
<1>2. CASE ask = Nothing
  <2>1. ask.on = FALSE
    BY <1>2 DEF Nothing
  <2> QED BY <1>2, <2>1 DEF Heard
<1> QED BY <1>1, <1>2 DEF LookupTypeOK

LEMMA AskingParts ==
    ASSUME NEW a \in Asking
    PROVE  /\ a.on = TRUE /\ a.site \in Names /\ a.code \in Codes
           /\ a.at \in [Resolvers \cap Wanted -> Stages]
           /\ a.was \in SUBSET BOOLEAN /\ a.was # {} /\ a.told \in BOOLEAN
           /\ a.edits \in 0..MaxEdits
BY DEF Asking

\* One resolver's conversation moves on; the rest of the lookup does not.
LEMMA StepParts ==
    ASSUME LookupTypeOK, NEW r \in Resolvers, NEW from, NEW to \in Stages, Step(r, from, to)
    PROVE  /\ ask \in Asking /\ ask' \in Asking
           /\ r \in DOMAIN ask.at /\ ask.at[r] = from
           /\ ask' = [ask EXCEPT !.at[r] = to]
           /\ ask'.at = [ask.at EXCEPT ![r] = to] /\ ask'.site = ask.site /\ ask'.code = ask.code
           /\ ask'.was = ask.was /\ ask'.told = ask.told
           /\ UNCHANGED <<vars, zone, obeyed>>
<1>1. ask \in Asking
  BY AskedShape DEF Step, Heard
<1>2. r \in DOMAIN ask.at
  BY <1>1, AskingParts DEF Step
<1>3. ask' = [ask EXCEPT !.at = [ask.at EXCEPT ![r] = to]]
  BY <1>1 DEF Step
<1> DEFINE new == [ask.at EXCEPT ![r] = to]
<1>4. new \in [Resolvers \cap Wanted -> Stages]
  BY <1>1, AskingParts
<1> HIDE DEF new
<1>5. [ask EXCEPT !.at = new] \in Asking
  BY <1>1, <1>4 DEF Asking
<1>6. /\ ask'.at = new /\ ask'.site = ask.site /\ ask'.code = ask.code
      /\ ask'.was = ask.was /\ ask'.told = ask.told
  BY <1>1, <1>3 DEF Asking, new
<1> QED BY <1>1, <1>2, <1>3, <1>5, <1>6 DEF new, Step

\* A change of the zones, as a lookup under way notices it.
LEMMA ZoneParts ==
    ASSUME NEW z, ask \in Asking, ask.edits < MaxEdits, Zone(z)
    PROVE  /\ ask' \in Asking
           /\ ask'.at = ask.at /\ ask'.site = ask.site /\ ask'.code = ask.code
           /\ ask.was \subseteq ask'.was /\ There(z, ask.site, ask.code) \in ask'.was
           /\ ask'.told => ask.told /\ <<ask.site, ask.code>> \in obeyed'
<1> DEFINE yes == There(z, ask.site, ask.code)
           still == ask.told /\ <<ask.site, ask.code>> \in obeyed'
<1>1. yes \in BOOLEAN /\ still \in BOOLEAN
  BY DEF There
<1>2. still => ask.told /\ <<ask.site, ask.code>> \in obeyed'
  OBVIOUS
<1>3. ask' = [ask EXCEPT !.edits = @ + 1, !.was = @ \cup {yes}, !.told = still]
  BY AskingParts DEF Zone
<1> HIDE DEF yes, still
<1> DEFINE moved == [[[ask EXCEPT !.edits = @ + 1] EXCEPT !.was = @ \cup {yes}] EXCEPT !.told = still]
<1>4. ask' = moved
  BY <1>3
<1>5. ask.edits + 1 \in 0..MaxEdits
  <2>1. ask.edits \in 0..MaxEdits
    BY AskingParts
  <2> QED BY <2>1
<1>6. ask.was \cup {yes} \in (SUBSET BOOLEAN) \ {{}}
  BY <1>1, AskingParts
<1>7. moved \in Asking /\ moved.told = still /\ moved.was = ask.was \cup {yes}
      /\ moved.at = ask.at /\ moved.site = ask.site /\ moved.code = ask.code
  BY <1>1, <1>5, <1>6 DEF Asking
<1> QED BY <1>2, <1>4, <1>7 DEF yes

\* A code that was published as the directory said is where that put it.
Obeyed == \A o \in obeyed : \E f \in {"label", "full"} : <<Place(o[1], f), o[2]>> \in zone

\* What honest resolver r has said was so while it was asked, and an operator
\* who did as told was not denied.
Said(a, r) ==
    /\ a.at[r] = "match" => TRUE \in a.was
    /\ a.at[r] = "other" => FALSE \in a.was /\ ~(a.told /\ ZoneOf[a.site] = a.site)

Witnessed ==
    ask.on => /\ There(zone, ask.site, ask.code) \in ask.was
              /\ ask.told => <<ask.site, ask.code>> \in obeyed
              /\ \A r \in (DOMAIN ask.at) \ Liars : Said(ask, r)

LInv == TypeOK /\ LookupTypeOK /\ Obeyed /\ Witnessed

\* Where the name is its own zone both forms name the record the resolvers ask for.
LEMMA ToldIsThere ==
    ASSUME Obeyed, NEW d, NEW c, <<d, c>> \in obeyed, ZoneOf[d] = d
    PROVE  There(zone, d, c)
<1>1. PICK f \in {"label", "full"} : <<Place(d, f), c>> \in zone
  BY DEF Obeyed
<1>2. <<d, c>> \in zone
  BY <1>1 DEF Place, TxtName
<1>3. c \in Records(zone, d)
  <2>1. <<d, c>> \in {s \in zone : s[1] = TxtName(d)}
    BY <1>2 DEF TxtName
  <2> QED BY <2>1 DEF Records
<1> QED BY <1>3 DEF There, TxtMatches

\* What an honest resolver finds is what is there.
LEMMA HonestOutcome ==
    ASSUME NEW r, r \notin Liars, NEW p \in Replies(r)
    PROVE  /\ Outcome(p) = "match" => There(zone, ask.site, ask.code)
           /\ Outcome(p) = "other" => ~There(zone, ask.site, ask.code)
           /\ Outcome(p) \in Ended
<1>1. /\ p \in Reply
      /\ p.status = "NOERROR" => p.records = Records(zone, ask.site)
      /\ p.status = "NXDOMAIN" => Records(zone, ask.site) = {}
  BY DEF Replies
<1>2. p.status \in {"NOERROR", "NXDOMAIN", "SERVFAIL"}
  BY <1>1 DEF Reply
<1>3. Parsed(p) # None => Parsed(p) = Records(zone, ask.site)
  BY <1>1, <1>2 DEF Parsed
<1> QED BY <1>3 DEF Outcome, There, Ended

LEMMA OutcomeStage ==
    ASSUME NEW p PROVE Outcome(p) \in Stages
BY DEF Outcome, Stages

\* A step that says nothing new of an honest resolver.
LEMMA QuietStep ==
    ASSUME LInv, NEW r \in Resolvers, NEW from, NEW to \in Stages, Step(r, from, to),
           r \notin Liars =>
              /\ to = "match" => There(zone, ask.site, ask.code)
              /\ to = "other" => ~There(zone, ask.site, ask.code)
    PROVE  LInv'
<1>1. /\ ask \in Asking /\ ask' \in Asking /\ r \in DOMAIN ask.at
      /\ ask'.at = [ask.at EXCEPT ![r] = to] /\ ask'.site = ask.site /\ ask'.code = ask.code
      /\ ask'.was = ask.was /\ ask'.told = ask.told
      /\ UNCHANGED <<vars, zone, obeyed>>
  BY StepParts DEF LInv
<1>2. ask.on /\ ask'.on
  BY <1>1, AskingParts
<1>3. TypeOK'
  BY <1>1 DEF LInv, TypeOK, vars
<1>4. LookupTypeOK'
  BY <1>1 DEF LInv, LookupTypeOK
<1>5. Obeyed'
  BY <1>1 DEF LInv, Obeyed, Place, TxtName
<1>6. /\ There(zone, ask.site, ask.code)' = There(zone, ask.site, ask.code)
      /\ There(zone, ask.site, ask.code) \in ask.was
      /\ ask.told => <<ask.site, ask.code>> \in obeyed
      /\ \A x \in (DOMAIN ask.at) \ Liars : Said(ask, x)
  BY ZenonT(40), <1>1, <1>2 DEF LInv, Witnessed, There, Records, TxtName, TxtMatches
<1>7. ASSUME NEW x \in (DOMAIN ask'.at) \ Liars PROVE Said(ask', x)
  <2>1. x \in (DOMAIN ask.at) \ Liars
    BY <1>1
  <2>2. CASE x # r
    BY <1>1, <1>6, <2>1, <2>2 DEF Said
  <2>3. CASE x = r
    <3>1. ask'.at[x] = to
      BY <1>1, <2>3
    <3>2. to = "match" => TRUE \in ask'.was
      BY <1>1, <1>6, <2>1, <2>3 DEF There
    <3>3. ASSUME to = "other" PROVE FALSE \in ask'.was /\ ~(ask'.told /\ ZoneOf[ask'.site] = ask'.site)
      <4>1. ~There(zone, ask.site, ask.code)
        BY <2>1, <2>3, <3>3
      <4>2. FALSE \in ask.was
        BY <1>6, <4>1 DEF There
      <4>3. ~(ask.told /\ ZoneOf[ask.site] = ask.site)
        BY <1>6, <4>1, ToldIsThere DEF LInv
      <4> QED BY <1>1, <4>2, <4>3
    <3> QED BY <3>1, <3>2, <3>3 DEF Said
  <2> QED BY <2>2, <2>3
<1>8. Witnessed'
  <2>1. There(zone, ask.site, ask.code)' \in ask'.was
    BY <1>1, <1>6
  <2>2. ask'.told => <<ask'.site, ask'.code>> \in obeyed'
    BY <1>1, <1>6
  <2> QED BY <1>7, <2>1, <2>2 DEF Witnessed
<1> QED BY <1>3, <1>4, <1>5, <1>8 DEF LInv

\* The zones change, and nobody who is on record as obedient is left without his record.
LEMMA ZoneStep ==
    ASSUME LInv, MayEdit, NEW z, Zone(z), UNCHANGED vars,
           z \subseteq Names \X Codes, (obeyed \subseteq Names \X Codes)', Obeyed'
    PROVE  LInv'
<1>1. TypeOK'
  BY DEF LInv, TypeOK, vars
<1>2. zone' = z /\ (ask.on => ask \in Asking) /\ (ask.on \/ ask = Nothing)
  BY AskedShape DEF Zone, LInv, Heard
<1>3. CASE ~ask.on
  <2>1. ask' = ask /\ ask' = Nothing
    BY <1>2, <1>3 DEF Zone
  <2>2. LookupTypeOK'
    BY <1>2, <2>1 DEF LookupTypeOK
  <2>3. Witnessed'
    BY <1>3, <2>1 DEF Witnessed
  <2> QED BY <1>1, <2>2, <2>3 DEF LInv
<1>4. CASE ask.on
  <2>1. /\ ask \in Asking /\ ask' \in Asking
        /\ ask'.at = ask.at /\ ask'.site = ask.site /\ ask'.code = ask.code
        /\ ask.was \subseteq ask'.was /\ There(z, ask.site, ask.code) \in ask'.was
        /\ ask'.told => ask.told /\ <<ask.site, ask.code>> \in obeyed'
    BY <1>2, <1>4, ZoneParts DEF MayEdit
  <2>2. LookupTypeOK'
    BY <1>2, <2>1 DEF LookupTypeOK
  <2>3. \A r \in (DOMAIN ask.at) \ Liars : Said(ask, r)
    BY <1>4 DEF LInv, Witnessed
  <2>4. \A r \in (DOMAIN ask'.at) \ Liars : Said(ask', r)
    BY <2>1, <2>3 DEF Said
  <2>5. There(zone, ask.site, ask.code)' \in ask'.was
    BY <1>2, <2>1 DEF There, Records, TxtName, TxtMatches
  <2>6. Witnessed'
    BY <2>1, <2>4, <2>5 DEF Witnessed
  <2> QED BY <1>1, <2>2, <2>6 DEF LInv
<1> QED BY <1>3, <1>4

LEMMA PublishStep ==
    ASSUME LInv, NEW t \in Typings, NEW f \in {"label", "full"}, Publish(t, f)
    PROVE  LInv'
<1> DEFINE d == NormaliseDomain(t)
<1>1. d \in Names
  BY DEF Publish, NormaliseDomain
<1>2. session \in Codes
  BY DEF Publish, LInv, TypeOK
<1>3. Place(d, f) \in Names
  BY <1>1 DEF Place, TxtName
<1>4. /\ Zone(zone \cup {<<Place(d, f), session>>}) /\ obeyed' = obeyed \cup {<<d, session>>}
      /\ MayEdit /\ UNCHANGED vars
  BY DEF Publish
<1> HIDE DEF d
<1>5. zone' = zone \cup {<<Place(d, f), session>>}
  BY <1>4 DEF Zone
<1>6. Obeyed'
  <2>1. ASSUME NEW o \in obeyed' PROVE \E g \in {"label", "full"} : <<Place(o[1], g), o[2]>> \in zone'
    <3>1. CASE o \in obeyed
      BY <1>5, <3>1 DEF LInv, Obeyed
    <3>2. CASE o = <<d, session>>
      BY <1>5, <3>2
    <3> QED BY <1>4, <2>1, <3>1, <3>2
  <2> QED BY <2>1 DEF Obeyed, Place, TxtName
<1>7. zone \cup {<<Place(d, f), session>>} \subseteq Names \X Codes /\ obeyed' \subseteq Names \X Codes
  BY <1>1, <1>2, <1>3, <1>4 DEF LInv, LookupTypeOK
<1> QED BY <1>4, <1>6, <1>7, ZoneStep

LEMMA WithdrawStep ==
    ASSUME LInv, NEW r, Withdraw(r)
    PROVE  LInv'
<1>1. /\ Zone(zone \ {r}) /\ zone' = zone \ {r} /\ MayEdit /\ UNCHANGED vars
      /\ obeyed' = {o \in obeyed : o[2] # r[2]}
  BY DEF Withdraw, Zone
<1>2. Obeyed'
  <2>1. ASSUME NEW o \in obeyed' PROVE \E g \in {"label", "full"} : <<Place(o[1], g), o[2]>> \in zone'
    <3>1. o \in obeyed /\ o[2] # r[2]
      BY <1>1, <2>1
    <3>2. PICK g \in {"label", "full"} : <<Place(o[1], g), o[2]>> \in zone
      BY <3>1 DEF LInv, Obeyed
    <3>3. <<Place(o[1], g), o[2]>> # r
      BY <3>1
    <3> QED BY <1>1, <3>2, <3>3
  <2> QED BY <2>1 DEF Obeyed, Place, TxtName
<1>3. zone \ {r} \subseteq Names \X Codes /\ obeyed' \subseteq Names \X Codes
  BY <1>1 DEF LInv, LookupTypeOK
<1> QED BY <1>1, <1>2, <1>3, ZoneStep

LEMMA AskStep ==
    ASSUME LInv, NEW c \in Codes, Ask(c)
    PROVE  LInv'
<1> DEFINE d == claim[c].site
           yes == There(zone, d, c)
           obeys == <<d, c>> \in obeyed
           at == [r \in Resolvers \cap Wanted |-> "socks"]
<1>1. yes \in BOOLEAN /\ obeys \in BOOLEAN
  BY DEF There
<1>2. at \in [Resolvers \cap Wanted -> Stages] /\ \A r \in DOMAIN at : at[r] = "socks"
  BY DEF Stages
<1>3. /\ ask' = [on |-> TRUE, site |-> d, code |-> c, at |-> at, was |-> {yes}, told |-> obeys, edits |-> 0]
      /\ d \in Names /\ UNCHANGED <<vars, zone, obeyed>>
  BY DEF Ask
<1>4. obeys => <<d, c>> \in obeyed
  OBVIOUS
<1>5. There(zone, d, c)' = yes
  BY <1>3 DEF There, Records, TxtName, TxtMatches, vars
<1>6. TypeOK'
  BY <1>3 DEF LInv, TypeOK, vars
<1>7. Obeyed'
  BY <1>3 DEF LInv, Obeyed, Place, TxtName
<1> HIDE DEF d, obeys, at
<1>8. There(zone', d, c) = yes
  BY <1>3 DEF There, Records, TxtName, TxtMatches
<1> HIDE DEF yes
<1>9. /\ ask'.site = d /\ ask'.code = c /\ ask'.at = at /\ ask'.was = {yes} /\ ask'.told = obeys
  BY <1>3
<1>10. ask' \in Asking
  <2>1. 0 \in 0..MaxEdits /\ {yes} \in (SUBSET BOOLEAN) \ {{}}
    BY <1>1
  <2> QED BY <1>1, <1>2, <1>3, <2>1 DEF Asking
<1>11. Witnessed'
  <2>1. \A r \in (DOMAIN ask'.at) \ Liars : Said(ask', r)
    BY <1>2, <1>9 DEF Said
  <2>2. There(zone', ask'.site, ask'.code) \in ask'.was
    BY <1>8, <1>9
  <2>3. ask'.told => <<ask'.site, ask'.code>> \in obeyed'
    BY <1>3, <1>4, <1>9
  <2> QED BY <2>1, <2>2, <2>3 DEF Witnessed
<1>12. LookupTypeOK'
  BY <1>3, <1>10 DEF LInv, LookupTypeOK
<1> QED BY <1>6, <1>7, <1>11, <1>12 DEF LInv

LEMMA LookupStarts == LookupInit => LInv
BY TypesStart DEF LookupInit, LInv, LookupTypeOK, Obeyed, Witnessed, Nothing

LEMMA LookupStep == LInv /\ [LookupNext]_<<vars, lookup>> => LInv'
<1> SUFFICES ASSUME LInv, [LookupNext]_<<vars, lookup>> PROVE LInv'
  OBVIOUS
<1>1. ASSUME [Next]_vars, UNCHANGED lookup PROVE LInv'
  <2>1. TypeOK'
    BY <1>1, TypesStep DEF LInv
  <2>2. LookupTypeOK' /\ Obeyed' /\ Witnessed'
    BY <1>1 DEF LInv, lookup, LookupTypeOK, Obeyed, Place, TxtName, Witnessed, There, Records, TxtMatches, Said
  <2> QED BY <2>1, <2>2 DEF LInv
<1>2. ASSUME NEW r \in Resolvers, Connected(r) \/ Secured(r) \/ Broken(r) \/ Expired(r) PROVE LInv'
  <2>1. PICK from \in {"socks", "tls", "sent"}, to \in {"tls", "sent", "failed"} : Step(r, from, to)
    BY <1>2 DEF Connected, Secured, Broken, Expired
  <2> QED BY <2>1, QuietStep DEF Stages
<1>3. ASSUME NEW r \in Resolvers, Answered(r) PROVE LInv'
  <2>1. PICK p \in Replies(r) : Step(r, "sent", Outcome(p))
    BY <1>3 DEF Answered
  <2> QED BY <2>1, HonestOutcome, OutcomeStage, QuietStep
<1>4. ASSUME Told PROVE LInv'
  <2>1. ask' = Nothing /\ UNCHANGED <<vars, zone, obeyed>>
    BY <1>4 DEF Told
  <2>2. TypeOK' /\ Obeyed'
    BY <2>1 DEF LInv, TypeOK, vars, Obeyed, Place, TxtName
  <2>3. LookupTypeOK'
    BY <2>1 DEF LInv, LookupTypeOK
  <2>4. ~ask'.on
    BY <2>1 DEF Nothing
  <2> QED BY <2>2, <2>3, <2>4 DEF LInv, Witnessed
<1> QED BY <1>1, <1>2, <1>3, <1>4, PublishStep, WithdrawStep, AskStep DEF LookupNext, lookup

(***************************************************************************)
(* LookupTypeOK, for any resolvers, zones and typings.                     *)
(***************************************************************************)
THEOREM LookupTypes == LookupSpec => []LookupTypeOK
<1>1. LInv => LookupTypeOK
  BY DEF LInv
<1> QED BY <1>1, LookupStarts, LookupStep, PTL DEF LookupSpec

(***************************************************************************)
(* VerdictEarned: as many resolvers as must agree are more than the liars, *)
(* so one of them is honest; and where the liars cannot make up a denial,  *)
(* the honest who were heard found the record away.                        *)
(***************************************************************************)
THEOREM VerdictsAreEarned == LookupSpec => []VerdictEarned
<1>1. LInv => VerdictEarned
  <2> SUFFICES ASSUME LInv, Settled PROVE
               /\ Verdict = "ok" => TRUE \in ask.was
               /\ Verdict = "absent" => FALSE \in ask.was \/ LiarDenied
               /\ ask.told /\ ZoneOf[ask.site] = ask.site /\ ~HonestFailed
                    /\ Cardinality(DOMAIN ask.at \ Liars) >= Agreement
                  => Verdict = "ok"
    BY DEF VerdictEarned
  <2> DEFINE D == DOMAIN ask.at
             usable == {r \in D : ask.at[r] # "failed"}
             agreed == {r \in usable : ask.at[r] = "match"}
  <2>1. ask.on /\ ask \in Asking /\ \A r \in D : ask.at[r] \in Ended
    BY AskedShape DEF Settled, LInv, Heard
  <2>2. \A r \in D \ Liars : Said(ask, r)
    BY <2>1 DEF LInv, Witnessed
  <2>3. D = Resolvers \cap Wanted
    BY <2>1, AskingParts
  <2>4. /\ IsFiniteSet(D) /\ IsFiniteSet(usable) /\ IsFiniteSet(agreed) /\ IsFiniteSet(Liars)
        /\ Cardinality(D) \in Nat /\ Cardinality(usable) \in Nat /\ Cardinality(agreed) \in Nat
        /\ Cardinality(Liars) \in Nat
    <3>1. D \in SUBSET Resolvers /\ usable \in SUBSET D /\ agreed \in SUBSET usable /\ Liars \in SUBSET Resolvers
      BY <2>3
    <3> HIDE DEF D, usable, agreed
    <3>2. IsFiniteSet(D) /\ IsFiniteSet(Liars)
      BY <3>1, FS_Subset
    <3>3. IsFiniteSet(usable)
      BY <3>1, <3>2, FS_Subset
    <3>4. IsFiniteSet(agreed)
      BY <3>1, <3>3, FS_Subset
    <3> QED BY <3>2, <3>3, <3>4, FS_CardinalityType
  <2>5. Verdict = IF Cardinality(usable) < Agreement THEN "inconclusive"
                  ELSE IF Cardinality(agreed) >= Agreement THEN "ok" ELSE "absent"
    BY DEF Verdict
  <2>6. Verdict = "ok" => TRUE \in ask.was
    <3> SUFFICES ASSUME Cardinality(agreed) >= Agreement PROVE TRUE \in ask.was
      BY <2>5
    <3>1. ~(agreed \subseteq Liars)
      <4> HIDE DEF agreed
      <4>1. agreed \subseteq Liars => Cardinality(agreed) <= Cardinality(Liars)
        BY <2>4, FS_Subset
      <4> QED BY <2>4, <4>1
    <3>2. PICK r \in D \ Liars : ask.at[r] = "match"
      BY <3>1
    <3> QED BY <2>2, <3>2 DEF Said
  <2>7. Verdict = "absent" => FALSE \in ask.was \/ LiarDenied
    <3> SUFFICES ASSUME Verdict = "absent" PROVE FALSE \in ask.was \/ LiarDenied
      OBVIOUS
    <3>1. usable # agreed
      <4> HIDE DEF D, usable, agreed
      <4> QED BY <2>4, <2>5
    <3>2. PICK r \in D : ask.at[r] = "other"
      BY <2>1, <3>1 DEF Ended
    <3>3. CASE r \in Liars
      BY <3>2, <3>3 DEF LiarDenied
    <3>4. CASE r \notin Liars
      BY <2>2, <3>2, <3>4 DEF Said
    <3> QED BY <3>3, <3>4
  <2>8. ASSUME ask.told, ZoneOf[ask.site] = ask.site, ~HonestFailed,
               Cardinality(D \ Liars) >= Agreement
        PROVE  Verdict = "ok"
    <3>1. ASSUME NEW r \in D \ Liars PROVE ask.at[r] = "match"
      BY <2>1, <2>2, <2>8, <3>1 DEF HonestFailed, Said, Ended
    <3>2. D \ Liars \in SUBSET agreed /\ D \ Liars \in SUBSET usable
      BY <3>1
    <3> HIDE DEF D, usable, agreed
    <3>3. Cardinality(D \ Liars) <= Cardinality(agreed) /\ Cardinality(D \ Liars) <= Cardinality(usable)
      BY <2>4, <3>2, FS_Subset
    <3>4. Cardinality(D \ Liars) \in Nat
      <4>1. D \ Liars \in SUBSET D
        OBVIOUS
      <4> QED BY <2>4, <4>1, FS_Subset, FS_CardinalityType
    <3> QED BY <2>4, <2>5, <2>8, <3>3, <3>4
  <2> QED BY <2>6, <2>7, <2>8
<1> QED BY <1>1, LookupStarts, LookupStep, PTL DEF LookupSpec
=============================================================================
