# A TLA+ verification of mise

mise is a small self-hosted directory of Bitcoin Dojo nodes. Operators submit
their node, an admin approves it, and a probe cycle over Tor measures it every
ten minutes. A marketplace gateway hands out payment addresses, operators can
prove that they own a domain, and an instance can update its own code. All of
it is Node.js: every process is one JavaScript thread whose handlers interleave
at each `await`, and all state is in JSON files that are replaced by an atomic
rename. There is no database, no lock and no queue. That is what these modules
are about: **what one handler reads before an `await` and writes after it, what
two processes do to one file, what a kill between two steps leaves, and what a
page shows when answers arrive late.**

Paths below are relative to the repository.

## 1. Inventory

| Part | State | Operations | Talks to |
|---|---|---|---|
| Index counter, `gateway/index-state.ts` | `index-state.<network>.json` and its copy in memory: `next`, `reclaimed`, `issued` | `allocate`, `release`, `settle`, `load`, `persist` | called by the gateway's requests |
| Gateway, `gateway/gateway.mjs`, `bootstrap.ts` | active network, receivers, one index store per network, the seed file and the state file | `next`, `release`, `settle`, `bind-receiver`, `set-active`, `set-dojo`; line-based replies | the backend through `server/gateway-client.mjs` (one connection per request, with a timeout) |
| Keys and addresses, `gateway/derive.ts`, `deposit.ts`, `identity.ts`, `pool.mjs` | none; a pool file made offline | payment, notification and deposit addresses, signed records, the pool | the gateway, the operator's wallet |
| Store, `server/store.ts` | nonces, sessions, submissions, domains, products, invoices: one object loaded once, saved after each change | put, get, delete, prune for each kind | every route and the update cycle (each process has its own copy) |
| Login, `server/index.ts:206-264`, `507-512` | nonces, sessions | challenge, wallet callback, poll, logout | the wallet, the browser |
| Submissions and moderation, `server/index.ts:464-505`, `529-794`, `1048-1056` | submissions | submit, edit, pairing, delete; approve, reject, remove | a probe over Tor, the PayNym service, `rebuild()` |
| Signatures, `server/crypto.ts`, `audit-signed.mjs`, `apply-signed-payload.ts`, `fix-payload-version.mjs`, `dojo-version.ts` | the signed block of a listing, of a claim | verify, repair, audit, judge a version | every gate that takes a paste |
| Domains, `server/domains.ts`, `server/dns.ts`, `server/index.ts:1058-1290` | one claim per payment code: `verified`, `revoked`, `fail_since`, `last_check` | prepare, claim, re-check, delete, revoke, the periodic sweep | several DNS-over-HTTPS resolvers over Tor |
| Public list, `server/build-public.ts` | `dojos.json`, `history.json`, `history-daily.json` | `rebuild()` after each decision and at the start of each cycle | reads the store and `pending-probe.json` |
| Update cycle, `scripts/update.mjs` (its own process, a systemd timer) | the same files and `pending-probe.json` | reconcile, probe with a pool of workers, write back, probe the pending | Tor, every listed node |
| Import, `scripts/bootstrap-import.mjs` and its job in `server/index.ts` | the one job slot | plan and apply: adds records and claims of another instance | the peer, the store |
| Self-update, `server/self-update.mjs`, `scripts/apply-update.mjs` | the web root, `data/version.json`, `data/backups/`, the job object | fetch, unzip, stage, back up, spawn the helper; install, overlay, mark, restart | GitHub or a peer, npm, systemd |
| Update check, `server/updates.mjs` | a cached answer, a floor between forced checks | compare the installed commit with the newest, count releases | GitHub |
| Public page, `assets/js/app.js`, `sw.js` | the list, the history, the dialog, the panel, the worker's cache | refresh, redraw, read, sign in, manage | the routes above |
| Operator's console, `assets/js/app.js` | the jobs it follows, the shop's card | plan and apply an import, update, bind a receiver, switch networks | the backend, and through it the gateway |
| Machine, `scripts/install.mjs`, `installer-lib.mjs`, `reconcile-system.mjs`, `uninstall.mjs`, the units | torrc, files under `/etc`, what systemd and nginx have read of them, the onion key, the account | install, reconcile, uninstall, scripts on the store | tor, systemd, nginx, the operator |
| Products and invoices, packaging, static server, tests | see §6 | | |

### What is hard here

* **Read, await, write.** Every handler that waits (probe, PayNym, resolvers,
  request body) writes a record it read before the wait. The lines are in
  `PROJECT.json` under `hazards`.
* **First load.** A store that is read lazily can be read twice.
* **Renames out of order.** Two snapshots on their way to one file.
* **Two processes, same files.** The cycle works for minutes on a list and a
  history the backend rewrites meanwhile.
* **Kills.** systemd ends the whole control group, the detached update helper
  included. Every timeout of a caller leaves the callee at work.
* **Timers and grace periods.** A badge or a history entry is kept for a while
  after its reason is gone: it must neither go early nor stay for ever.
* **Answers out of order.** A page asks over Tor, repeats what failed, redraws
  under a dialog, and writes each answer into whatever it shows by then.
* **Replies of strangers.** Nodes, resolvers, peers and archives may stall,
  stop half way or send something else; a closed connection ends a reply.
* **Programs that stop half way.** The installer can be left at any question
  and fail at any command; what it did so far stays.
* **Signed texts.** What is stored as signed is edited, repaired and imported.

### What makes each part correct

* Index counter: no address on two live orders, none reissued once paid, none
  reissued before its quarantine, whatever overlaps, fails or is killed.
* Gateway: an address is only quoted for a receiver bound on its own network;
  what the panel confirmed survives restarts; a kill never leaves a shop that
  cannot start; the two networks' addresses do not mix.
* Keys: the operator's wallet watches and spends what is quoted, nobody else
  does; the shop keeps its keys as long as its state is kept.
* Signatures: what is published as signed verifies against its owner and stays
  so; a claim belongs to who signed it.
* Domains: a badge is shown only for a record this instance saw; it comes back
  with the record and goes down when the record stays away; a lookup ends, in a
  verdict the zone has earned.
* Moderation: names are unique, nobody takes over another's record, the admin's
  last word counts, what was deleted stays deleted.
* Public list: it becomes the approved submissions and stays so; a history
  begins with the checks made while pending. What a cycle publishes of a node
  it heard from that node, and every cycle ends.
* Self-update: the service never runs a mixture; the marker tells the truth; a
  mixture can be repaired from a backup; an archive never touches the data (it
  does by an odd name, and a peer's leaves the gateway as it is: §3).
* Login: a challenge leads to one session, handed to one page; the session lives
  through restarts until its time is over or its logout, and a logout lasts.
* Pages: what is shown is what the page knows, or it says that it is old; a
  button does what stands on it.
* Machine: the operator's torrc, records and keys survive; files that are not
  in force are reported; an install that ended well goes on publishing.

## 2. Modules

| Module | Models | Composes or refines |
|---|---|---|
| `IndexStore` | the index counter with its callers | implements `IndexLedger` |
| `IndexLedger` | what the counter promises: no files, memory or calls | abstract specification |
| `IndexStore_proofs` | proofs about `IndexStore` and `Console` | extends them |
| `Gateway` | the shop's identity and its file, the requests over two networks | uses one counter per network, each as `IndexLedger` promises it |
| `Desk`, `MCGateway`, `Gateway_proofs` | the shop's card on the console, and the routes between; proofs about both | extends `Gateway` |
| `Wallet` | derivations, signed records, deposits, the start on two files | |
| `Attest` | what is signed and every gate and repair that takes it | |
| `Lookup` | typed domains, what the operator is told, a lookup as a conversation | extends `Attest` |
| `MCAttest`, `Attest_proofs` | composition; proofs about all three | composes `Lookup` and `Wallet` |
| `Domains` | domain claims, sweep, resolver agreement | takes a lookup as one verdict |
| `Moderation`, `MCModeration` | submissions as a heap of objects, and waiting handlers | |
| `Publish` | `rebuild()` and the update cycle over the public files | takes the probing as one step |
| `Probe`, `MCProbe` | the update cycle from the inside: workers, timers, replies | |
| `Moderation_proofs` | proofs about `Moderation` and `Probe` | extends them |
| `SelfUpdate` | update job and helper | |
| `Upstream`, `MCSelfUpdate` | archives, their fetching and unpacking, the update check | extends `SelfUpdate` |
| `SelfUpdate_proofs` | proofs about `SelfUpdate` and `Upstream` | extends `Upstream` |
| `Login`, `MCLogin` | nonces and sessions, the store's load and saves | |
| `Login_proofs` | proofs about `Login` and `Domains` | extends them |
| `Console`, `MCConsole` | jobs, polls and the update check between page and backend | |
| `Page`, `MCPage` | the public page, its panel and the service worker | |
| `Cards` | the cards, strips and dialogs of the page | composed with `Page` in `MCPage` |
| `Page_proofs` | proofs about `Page` and `Cards` | extends them |
| `Host`, `MCHost`, `Host_proofs` | installer, reconciler, uninstaller, scripts, systemd | |

Where one module of proofs serves two components, these never meet in a theorem:
each is proved of its own specification. Every module of the model ends with its
type invariant and its properties. A variable whose
comment says *history* is not in the code: it remembers something a property
speaks of, mostly that a behaviour has met a weakness that is already known.
Such a property reads "until ... has happened" and the weakness is a finding.

### IndexStore

An order's call moves through `pc`: `load` (the file is being read), `loaded`
(read, not yet resumed), `rename` (its snapshot is on the way to the file),
`idle`. An operation on a state that is in memory is **one** step
(`RunAllocate`, `RunRelease`, `RunSettle` with `Persist`) because there is no
`await` between its look-up and the serialisation. `Fail` is an error of the
write; the memory stays changed, as in the code. `HangUp` is the client's
timeout: the gateway goes on. `Crash` ends all calls and keeps the file. The
list `reclaimed` keeps its time stamps, because `allocate` takes the first
entry that is ready. `overwrote` and `reordered` record that a load replaced a
state that was already there, or that a rename put an older snapshot over a
newer one.

`IndexLedger` has four actions: `Issue` (an index that is free), `Expire`,
`Pay`, `Tick`. Under the refinement mapping an index is held from the reply
that carries it; an index whose reply was lost is nobody's and never returns.
`ImplementsLedger` says that every step is one of the ledger's, or leaves it
alone, until one of the two races has happened; after a race nothing is claimed
of the ledger.

### Gateway and Desk

`Ask` changes the state in memory and takes its text in one step, as `makeShop`
does before the first `await`. A save is `Open`, `Write`, `Rename` on a temporary
file that all saves of the process share, so the descriptor of one save may end
up in the file another has renamed (`into`, `Moved`), and two writers may leave
a file that does not parse (`Written`). `Fail` answers with an error and leaves
the memory changed. `Start` is `loadOrCreate`; with a file that does not parse
it is disabled, which is how the process behaves: it ends at each start. The
index counters are one step per operation (their details are `IndexStore`), and
`Release` and `Settle` act on the counter of the network that is active.
`overlapped` and `strayed` are history: two saves were under way at once, an
index was given back while another network was active. `told` follows one
confirmed request at a time, chosen when it is confirmed.

`Desk` is the card in front of it. `page` is what the script knows (`SHOP`,
`SHOP_NET`), `screen` what is drawn: a redraw waits for a session check and
takes what is known when that is answered. A request goes through `Relay`,
`Saved` or `Refused`, and `Unanswered`, after which `api.call` sends it again
although it may have been done. `Foreign` is a second administrator.

### Wallet

Keys are terms: a payment code is a seed and a coin type, a payment key a child
of the receiver's code moved by the secret it shares with the sender's first
key. So it is visible who can spend an address, and calling the library on the
wrong one of its two objects gives an address that verifies and that the store
can spend. `ReadSeed` and `ReadBook` are the two halves of `loadOrCreate`: the
seed is made when its file is absent, the state is made, healed (a network or a
deposit that an earlier version did not write) or refused when it is of another
seed. `LoseSeed`, `RestoreSeed` and `LoseBook` are what may happen to the files;
`TakeRecords` is the shop's pool, made offline with the operator's code.

### Attest and Lookup

A signature is the key that made it and the text it covers; nobody makes one
for another key. A paste is any block of `Pastes`; `Submit`, `EditPairing`,
`Import`, `ClaimDomain`, `ImportClaim`, `ApplySigned`, `FixVersion` and
`TakePool` are the gates and repairs, each with the verification its code makes
and no other. `vouched` says who checked a listing's signature: its owner's
gate, a peer, or nobody (records older than the gate).

In `Lookup` an operator publishes a record under the label or the full name the
panel shows (`Publish`); a lookup is a stage per resolver, from the SOCKS
handshake through TLS to a reply that is whole, cut, an error or too large, and
a timer that may fire at each (`Expired`). The zone changes meanwhile, at most
`MaxEdits` times, and `was` remembers which answers were true. `Verdict` is
`txtRecordAgreed`.

### Domains

`Submit`, `AskRecheck` and `SweepAsk` keep the claim they read;
`SubmitAnswered`, `RecheckAnswered` and `SweepAnswered` store a record built
from it, whatever the store holds by then. `Verdicts(published)` is the set of
verdicts the agreement rule can reach when honest resolvers answer the truth or
nothing and liars anything. Time stamps are ages that stop growing when no test
of the code can tell them apart (`Grace`, `Recheck`), so the state space is
finite without a clock that runs out. `proved` is history: the record was
published at a moment this instance asked for it.

### Moderation

The store hands out records by reference, so `heap` holds objects, `slot` maps
ids to objects, and a waiting handler (`job`) keeps the object it read. That is
how an approval that waits for the seed file, or a pairing that waits for a
probe, puts back an object that is no longer in the store. Objects nobody
refers to are collected, so four of them are enough for two ids and two
handlers. `overlapped` is history: two operations on one id or name overlapped.

### Publish and Probe

`rb[w]` is a rebuild of a backend request or of the cycle: `ListApproved`,
`ReadPending`, `PublishList`, `ReadHistory`, `SaveHistory`, one action per wait
between a read and the write it feeds. `cyc` is the update cycle: the opening
rebuild, the list and the history as they were before the probes, then either
`Learned` and `WriteHistory`, or `AllFailed` and `RecordFault`, and at the end
`ProbePending`. The store is loaded once per process, so the cycle's view of
the pending submissions (`waiting`) is that of its beginning.

`Probe` opens up what `Publish` takes as one step. A worker takes the next item
of the pool by index (`Take`) and goes through the SOCKS greeting, the
connection and up to three HTTP requests (login, chain tip, version and
indexer). What a node has sent so far is one of five: nothing, bytes that are
not HTTP, another status than 200, a 200 without the body asked for, a good
reply; then more data, a close, a flood or the timer decides. The results go by
index into the list, the rolling checks and the daily roll-up, three writes
with a kill possible between them and midnight possible before. `said`
remembers what each node really reported in this cycle.

### SelfUpdate and Upstream

A tree is a version per top-level entry: of the files its last archive brought,
for the overlay merges and removes nothing. What the backend runs on (`Served`)
is in every archive; `gateway/` is in GitHub's and in no peer's (`brings`,
`pack-source.mjs:40`). `Ask` and `Accept` are the two sides of `await readBody`.
`FetchGitHub` and `FetchPeer` stage a version, the entries it brings and the
label that will be written to the marker; `peered` remembers that an archive
without the gateway was laid since the gateway was. The backup (`BackUp`, `PassOver`) and
the overlay (`Overlay`) go entry by entry. `HandOff` spawns the helper **and
ends the job**, as in the code. `Restart` and `Crash` end every process in the
control group.

`Upstream` says where a staged tree comes from: a request, redirects up to
`MaxHops`, and an archive that may be cut short, have too many entries, inflate
too far, hold entries for folders, names outside its top folder, names that
lead elsewhere, a `data/` of its own, or names such as `mise/./data/x`, which
are compared as they stand and joined to a path of `data/` afterwards; `Staged`
is `unzip`, `stripTopLevel` and the copy, `data` what reached `data/`. The update check asks for the comparison, the releases and the
tags one after the other (`Compared`, `Listed`, `Reported`, each may fail)
while upstream goes on (`Commit`, `Release`).

### Login

A handler is a chain of store operations (`NextOp`): a challenge prunes and then
stores its nonce; a callback takes the nonce, makes a session and stores the
claim the page will pick up. Each operation changes the store in memory and
serialises it in one step (`Run...`), then waits for the rename of that snapshot
(`Proceed`, `Answer`, `AnswerLost`, or `Fail`). The first ones after a start wait
for the read of the file (`ReadFile`, `Resume`). `Fail` leaves the memory
changed. `Other` is any other handler that saves: it writes the nonces of all.
Nonces and ids are random in the code; here they are used again when nothing
refers to them (`Renew`, `FreshSids`). The snapshots that wait for their rename
are ordered by `newer`; those that a newer one has overtaken are `late`. `overwrote` and `reordered` are those of
`IndexStore`, for the same form of `load` and `persist` in `server/store.ts`.

### Console

The two jobs have one form: a slot in the backend, a POST that starts the job
(`Arrive`, `Accept`, `Posted`, repeated by `PostLost`), and an interval that
asks for the slot without waiting for its last answer (`Poll`, `Status`,
`ImportPolled`, `UpdatePolled`). The update check is `Check`, `Compare`,
`Checked`, `CheckFails` over the cache and the floor; `SignIn` empties the cache
and leaves the checks that are under way, which fill it again with what main was
before; `known` is main as it was at the sign-in. `Elsewhere` is a second person, `Restart` the
backend's. `trouble` is history: an answer was overtaken, a job was hidden
before it was answered, the backend of a running one restarted, or somebody
else started one.

### Page and Cards

Every function of the page that awaits is a task: `Answer` makes its answer,
`Land` goes on with it in whatever the page has become. Dialog and document are
built anew by each redraw; `drawn` is what the document was built with, `dojos`
what the page has. `Network`, `Age` and `Publish` are the instance being out of
reach, the list growing old, and a new list; `worker` and `kept` the service
worker and its cache; `Elsewhere` another tab that shares the cookie.

`Cards` follows one page's three files by the cycle that wrote them: the order
of the cards, the load of the daily history each strip waits for, the dialogs
with commands, the picker of the port that rewrites a dialog, and what is
copied.

### Host

torrc is a sequence of lines, so that `MergeTorrc` and `StripTorrc` take out
what their regular expressions take out. A file under `/etc` exists three times:
as written (`etc`), as systemd has read it (`read`), as it works (`inForce`);
`told` has those an operator knows about. A program is a chain of steps (`at`),
each of which may be its last (`Fails`); `Trial(ok)` is a command whose failure
the program survives. `Copy`, from a checkout that is not the
web root, may bring a store of the checkout's own, which takes the place of the
instance's (`overwritten` remembers the records it displaced). `StartTimer` finds
the timer active at a second install: nothing is read again and nothing is said
(`unsaid` is the file it left so). A restart of the timer that fails may leave it
stopped (`RestartTimers`). Backend, timer, reboots, edits by hand and a new version
of the shipped files go on between and during programs.

## 3. Runs

| Run | Instance | Shows |
|---|---|---|
| `index_calls` | 3 orders, 2 calls at once, 1 crash, time 0..1, quarantine 1 | `ImplementsLedger`: until a race, the counter keeps all its promises through overlap, failures, lost replies and a kill; `OnlyKnownRaces`: sharing an address needs one of the two races; `SnapshotsCoherent` even then |
| `gateway` | 2 networks, 1 code, 2 orders, 2 indexes a network, 2 saves at once, 1 kill; at the card 2 requests at once, 1 redraw, 2 tries, 4 clicks | `StartsAgain`, `ConfirmedLasts`, `QuotedAsBound`, `OrdersApart`; `DeskHonest`: a receiver is bound for the network its card names, and a card at rest is true |
| `attest` | 3 codes of 2 keys, 1 listing, 2 URLs, 2 versions, blocks that are genuine or have one thing wrong; 3 resolvers, 1 liar, agreement 2, 1 change of the zone; a shop with 2 mnemonics, 1 mishap | `ListingsVerify`, `AuditNeverLost`, `ClaimsOwned`, `PoolSound`; `LookupsHonest`; `PaymentsArrive` |
| `domains_sweep` | 1 code, 2 domains, 3 resolvers, 1 liar, agreement 2 | `BadgeProven`; under fairness `BadgeFollowsRecord` |
| `moderation_isolated` | 2 operators, 3 names, 2 ids, 2 handlers, up to the first overlap | `NamesUnique`, `LastWordCounts`, `IsolatedWrites` |
| `publish_converge` | 1 followed node, 1 request's rebuild, the cycle, 1 kill or skipped rebuild | under fairness `ListFollowsVerdict`, `ChecksSeedHistory` |
| `probe` | 5 nodes of 4 kinds, 2 workers, 2 cycles, 2 days, 1 kill | `ProbesHonest`, `RollupAgrees`; under fairness `EveryCycleEnds` |
| `selfupdate_alone` | 2 updates in turn, 3 entries and the two that no backup has, 2 versions, archives with at most one thing wrong; upstream with 5 events, 1 redirect | `InstalledWhole`: what the backend runs on is one version, the marker's, and so is the gateway until an archive of a peer is laid; `Recoverable`; `ArchiveSafe`: of names as the archive has them; `ReportTrue` |
| `login` | 1 challenge at a time, 2 sessions, 2 handlers at once, 1 crash, up to the first lost save | `SingleUse`, `SessionsHold` |
| `console` | 2 directories, 2 tries, 3 jobs asked for, 2 polls at once, 1 loss, restart, push and check | `ApplyMatchesPlan`; under fairness `PanelSettles` |
| `page` | 2 tasks, 2 codes, 2 challenges, 2 lists, 2 clicks, 1 outage, 1 other tab; cards of 2 nodes over 3 cycles, 2 refreshes, 2 clicks | `ScreenHonest` (its second half under fairness), `PanelHonest`, `CardsTrue` |
| `host` | 1 record, 3 onion keys, 2 programs, 1 failure, edit, new version, reboot | `NothingLost`, `LagsAreTold`, `TorrcElse`; under fairness `InstallComesAlive` |

What each property says stands above its definition. A property that is a
conjunction has named parts (`SessionsHold == LogoutSticks /\ CookieLives`), so
that a violation can be narrowed down by checking the parts.

The type invariants (`TypeOK`, and `DeskTypeOK`, `LookupTypeOK`, `WalletTypeOK`,
`UpstreamTypeOK`, `CardsTypeOK` of the modules that share a run) hold in all of
these instances. All but those of `Desk`, `Upstream` and `Publish` are theorems (§5); the
cfgs do not repeat them, and a line
`INVARIANT TypeOK` in one of them checks it again.

Ten definitions state what a document or a comment of the repository promises and
the code does not keep. Each has a cfg of its own, apart from the runs above: with
it TLC finds the definition violated, and its trace shows how.

| Module, cfg | Definition, and who promises it | What the trace shows |
|---|---|---|
| `IndexStore`, `IndexStore_race.cfg` | `AddressesExclusive` (`index-state.ts:122-125`) | two first loads after a start, and two orders with one index |
| `Domains`, `Domains_revoked.cfg` | `RevokedBadgeStaysDown` (`README.md:380`) | a re-check brings a revoked badge back |
| `MCModeration`, `Moderation_hijack.cfg` | `NoneHijacked` (`index.ts:147-148`) | a submission replaces a record that was stored while it was probed |
| `Publish`, `Publish_stale.cfg` | `StalenessHonest` (`update.mjs:690-692`) | a list with `probe_fault` dated by its own rebuild |
| `SelfUpdate`, `SelfUpdate_overlap.cfg` | `UpdatesDoNotMix` (`index.ts:799-801`) | the restart of one helper cuts the overlay of another |
| `MCSelfUpdate`, `SelfUpdate_peer.cfg` | `UpdateBringsAll` (`pack-source.mjs:3-4, 15`) | an update from a peer leaves the old gateway |
| `MCSelfUpdate`, `SelfUpdate_names.cfg` | `DataUntouched` (`self-update.mjs:149`) | a name with a `.` segment ends up in `data/` |
| `MCConsole`, `Console_signin.cfg` | `AnswersSinceSignIn` (`index.ts:242-248`) | a check from before a sign-in fills the cache after it |
| `MCHost`, `Host_copy.cfg` | `ConfirmedKept` (`install.mjs:22`) | the checkout's store over the instance's |
| `MCHost`, `Host_timer.cfg` | `EveryLagTold` (`reconcile-system.mjs:289-293`) | a second install leaves the old schedule in force and says nothing |

They have the constants of the passing run of their module or smaller ones, and
its constraint unless that would leave the case out.

These and the other disagreements are described, with the lines they contradict,
under `findings` in `PROJECT.json`. Many of them are a premise of a property that
a passing run checks (`~overlapped`, `~hasty`, `~late`, `~mixed`, `clip.late`,
`~overtaken`, `trouble`, `waived`, `overwritten`, `unsaid`, `peered`, `Adjoins`):
without it TLC finds the property violated. So the passing property does not cover
the hazard the premise names; the finding does.

### Bounds, and why they are enough

* Two orders make an address shared, the third reclaims in between; a crash
  needs one call before and one after; a quarantine of one tick, and time 0..1,
  separate "too early" from "due".
* The conditions of `allocate` and of the handlers compare two records or two
  actors. Three names over two ids give renames to a free name, to another's
  name and to another's id.
* One code is enough for `Domains`: claims are keyed by code and no action
  reads another's claim. Two domains let a verdict about one be stored with the
  other. Grace 2 and recheck 2 let a check happen inside, at the end of and
  after the period.
* `Publish` follows one submission. The list's steps treat ids one by one
  (`ListApproved`, `Retire` and `WithEntries` are pointwise); the one place
  where others matter, whether any rebuild runs and whether all probes fail,
  is nondeterministic (`ModerateOther`, `AllFailed`, the choice in
  `ProbePending`). A second node or a second backend rebuild is beyond what the
  liveness check finishes. `MaxFails` bounds kills of the cycle and skipped
  opening rebuilds, without which no run of the cycle need ever complete.
* `Probe` has one node of each kind that the code treats differently: with an
  apikey, without, over https, with an address that does not parse. Two workers
  are what it takes for results to arrive out of order, two cycles for a window
  of two checks to be full, two days for a roll-up to begin anew.
* Two self-updates: the second backs up what the first left. Three backed-up
  entries distinguish a whole backup, one of two entries and a useless one.
  Five events upstream are two commits and three releases, or three and two:
  releases before, of and after the commit that runs.
* Two codes of one key and one of another separate "signed by the owner" from
  "signed for this code"; a block that is wrong in one thing reaches each
  conjunct of a gate alone. One liar of three with agreement two is the largest
  number of liars the code's default stands.
* The operator's wallet, the shop's seed and one more are enough seeds for money
  to go to the wrong one; index 0 is where notification and first payment meet,
  index 1 any other.
* Two clicks on the page open a dialog and do something under it; two tasks let
  one answer overtake another. At the card, four: sign in, choose a network,
  bind, switch.
* `host` has two programs: an install and what is done after it, or an
  uninstall. A failure or a reboot at any step is covered by one.

What a constraint or an MC module's next-state relation leaves out:

* `moderation_isolated`, `selfupdate_alone` and `login` stop at the first state
  with `overlapped`, or with a lost save, and `console` at `trouble`: their
  properties claim nothing beyond it.
* `gateway` stops at the first index given back on the wrong network, and
  follows overlapping saves of a shop that has quoted nothing yet; what the
  properties say beyond is proved. `Dojos` is empty there: `set-dojo` then only
  saves, and its value, which is kept like a receiver's, is left to the proof.
  The card is used on a gateway that has quoted nothing, was not killed and saves
  in single steps (`Apart`), for the details of saving do not reach the card.
* `selfupdate_alone` follows the update check while no update was asked for
  (`Quiet`), `attest` the lookups on a directory that has the one claim
  (`Apart`) and the shop's keys on an empty one (`Empty`): they share no
  variable, so that their product would only multiply states.
* `console` has one of its three parts in use at a time; `page` has either a
  reader and new, old and missing lists, or a signed-in operator and one list
  (list and panel share only the dialog), or the cards of a page that was just
  loaded; `host` lets people touch one of the store, the files under `/etc`,
  torrc and the key between programs, and the programs touch all.
* `CHECK_DEADLOCK FALSE` stands where everything may stop: a shop whose file
  does not parse, and where the bounds on clicks, programs, lists or cycles are
  used up.
* Symmetry: orders, saves and requests of `gateway`, the updates of
  `selfupdate_alone`. Both runs check invariants only.

### Fairness

`Spec` is without fairness in every module that states safety only.

* `Domains!FairSpec`: the interval timer fires (`StartSweep`, `SweepSkip`, `Tick`,
  weak), every lookup has a time limit (`SweepAsk`, `SweepAnswered`, strong,
  because a restart may disable a lookup that waits), and a lookup repeated for
  ever is not inconclusive or left to liars each time. That last part is an
  assumption on the network, not on the code, and both parts of
  `BadgeFollowsRecord` are false without it.
* `Publish!FairSpec`: the timer of `mise-update.timer` starts a cycle after the
  last has ended, and a cycle takes its steps, each of which has a time limit
  (that a cycle ends is `EveryCycleEnds`). Nothing is assumed of the backend's
  rebuilds: they may stop anywhere (`RebuildFails`), and the cycle alone makes
  the list converge.
* `Probe`: the process takes its next item, its timers fire, it writes what it
  has. Nothing is assumed of Tor and the nodes: no `Data`, `Closed` or
  `Connected` need ever happen.
* `Lookup`: the timers of a conversation fire and a promise that has settled is
  looked at; nothing of the resolvers.
* `Console`: the page's interval fires, requests are handled and answered, jobs
  end. An answer that is lost is an action without fairness and bounded.
* `Page`: a request is answered or fails (`Answer`) and what awaits it goes on
  (`Land`), weakly; the refresh interval strongly, because it cannot fire while
  the model's tasks are all at work, which happens again and again.
* `Host`: only the timer's cycles (`Cycle`), which need what they need: an
  active timer, the account, its files. Nobody has to answer a program.

Nothing is assumed of people anywhere.

## 4. What the properties wait for

The hazards of this code, each at its line and with the properties about it,
are in `PROJECT.json`. Three more are exposed but not covered: `retireUnlisted`
(`server/build-public.ts:157`) counts a grace period from a stamp that a rebuild
could set anew, of which only the convergence in `Publish` is checked; an import
starts a probe cycle of its own beside the timer's (`server/index.ts:912`),
which `Publish` does not follow (a second cycle is beyond what its liveness
check finishes); and a session is removed only when somebody comes with it after
its time, or logs out, so that sessions of lost cookies stay in the store
(`server/store.ts:129`), which no property of bounded models tells.

## 5. Proofs

All are for every value of the constants that satisfies the named assumptions.
Each module of the model declares its own (`BoundsAssumption` and
`NoStateAssumption` in `IndexStore`, `ConsoleAssumption` in `Console`, and so on).
Most say that a bound is a number, or that a model value like "no claim" is not
one of the records it stands in for. Those that say more:

* `ObjectsAssumption` (`Moderation`): there is an object left to allocate for
  every id and every waiting handler, as a heap always has; without it the model
  could stop where the code goes on.
* `DomainsAssumption`, `LookupAssumption`: fewer resolvers lie than have to agree.
* `ProbeAssumption`: an entry occurs once in a list, and a submission that is
  pending is not listed yet: ids are the keys of the store, and a rebuild lists
  the approved ones.
* `CardsAssumption`: the list that is shipped is empty, cycles are numbered, and
  there are finitely many nodes.

* `IndexStore_proofs` on `IndexStore`: `TypeCorrect` and `StaysCoherent`. The inductive
  invariant `Shaped` is the type invariant together with `SnapshotsCoherent`.
  The latter has to speak of the snapshots on their way to the file (`buf`) as
  well as of memory and file, because a crash or a late rename makes any of
  them the state from which the next call starts. The lemmas about
  `TakeFresh`, `TakeReclaimed`, `GiveBack` and `Retire` say that each operation
  takes a coherent snapshot to a coherent one; the step lemma then only has to
  say which snapshot goes where. Nothing is assumed about overlap: the two
  known races do not break coherence, they break exclusiveness.
  `NoOtherRaces` and `LedgerImplemented` need more, and only until a race
  happened. `IInv` adds `Chain`, which relates every snapshot that may still be
  read or written (memory, file, and the calls' buffers) to the orders: memory is
  the newest; no two orders own an index; the index an order owns is free in no
  snapshot that has its allocation in it; an index that was given back rests, with
  its time stamp, in every snapshot since; and whoever owns it now waited out the
  quarantine. Revision numbers order the snapshots, so that "since" is a
  comparison of `rev`. The subtle conjunct is `ReleaseInTime`: after a restart a
  release may still wait for the first load while other orders come and go, and
  must be the release of an index nobody has had since. `LedgerImplemented`
  then takes the calls one by one: the reply that carries an index is `Issue`,
  `Expire` and `Pay` are the orders' own ends, the clock is `Tick`, and
  everything the files and the memory do is a stutter.
* `Login_proofs` on `Domains`: `ClaimsTyped` and `BadgesProven`. `BadgeProven` is not
  inductive: the sweep stores a copy of a claim it read earlier, and may only
  do so because that copy, too, was verified for a record that was seen. `IInv`
  adds `SweepProven` (the same of every claim the sweep still holds) and
  `AskingListed` (the sweep asks only for claims it holds). `OkMeansPublished`
  is where the assumption on liars is used: with fewer liars than the agreement,
  a verdict of "ok" contains an honest resolver that saw the record. It rests
  on a cardinality argument over any finite set of resolvers.
* `Gateway_proofs` on `Gateway`: every property. `QuotesAreBound` holds whatever
  overlaps: `AllNamed` says that in every state the gateway may derive from,
  in memory, in the files and in the text of a save, each receiver was bound for
  its own network. `CanStartAgain` and `ConfirmedStays` rest on `Orderly`: with
  one save at a time the text of the save is the state in memory, the temporary
  file holds nothing or that text, and a followed request shows in memory as
  well as in the file (in memory, because the next save of another request
  writes the memory). `AppliedTwice` and `AppliedBesides` say that requests are
  idempotent and that those of different fields do not disturb each other.
  `OrdersStayApart` rests on `Kept`: an order's index is below the next fresh
  one and not free.
* `Attest_proofs` on `Attest`: every property. `GatesVerify` says that the block
  a gate has passed verifies over the payload that is then stored, the repair of
  a lost blank line included; `EveryListingVerifies` carries that over every
  later edit, which either brings a block of its own or changes nothing that is
  signed. `AuditLasts` is an action property and needs no invariant beyond the
  types: `FixedDiffers` says that a payload is only rewritten when it does not
  match its block, and such a listing does not pass the audit. `EveryClaimOwned`
  and `EveryPoolSound` follow from `ClaimGate` and `PoolVerified`, which say what
  the two verifications establish of one record.
* `Attest_proofs` on `Wallet`: `WalletTypesHold` and `EveryPaymentArrives`. The inductive
  invariant is the types together with `Coherent` (the state names one seed,
  every code and deposit in it is of that seed, and a gateway that serves has
  that seed and a healed state) and `Remembered` (what went out is of the seed
  the state names, unless the state of a used shop was lost). The second is what
  a lost and restored seed file would break if `loadOrCreate` did not compare.
  `QuotesAreTheOperators` then needs no history at all: every record has the form
  `recordFor` gives it (`RecordForm`), a receiver whose notification address the
  operator's wallet knows has that wallet's seed and coin (`KnownReceiver`), and
  `SharedApart` and `NoDeposit` keep payment keys, notification keys and deposits
  from being each other's.
* `SelfUpdate_proofs`: every safety property of `SelfUpdate` and `Upstream`.
  `UInv` consists of `OneAtATime` (as long as no two updates were let in, only
  one is busy), `NothingCopied`, `OneVersion` and `Recovery`. `OneVersion` is
  what makes `InstalledWhole` inductive: at every moment the tree is *one*
  version with a layer of the update's own entries over it, the entries copied so
  far, and the running service started on a whole tree. `Recovery` says whose
  backup is good: before the copying starts the update's own, if it found one
  version in the tree, or else that of an update before it (an attempt after a
  failure backs up the mixture, and must not replace the good backup).
  `UpdatesInstallOneVersion` and `UpdatesAreRecoverable` are proved of the
  specification that includes the fetching (`UpstreamSpec`), in which a step is
  one of the update's own or leaves all its variables alone. Both speak of what
  every archive brings; of the gateway the first says only that it is of the
  marker's version while no archive of a peer was laid since it was (`peered`).
  `ArchivesAreSafe` needs what a fetched file may be at each place, and speaks of
  names as the archive has them. `ReportsAreTrue` has an
  inductive invariant of its own, `CInv`: commits are numbered by time, a release
  is of a commit older than itself and no commit is released twice, so that what
  was true of the comparison's answer stays true while upstream grows (`Grows`).
* `Moderation_proofs` on `Moderation`: every safety property. `MInv` has to know
  what each waiting handler has looked at before it waited: `Current` says, for
  each kind of handler, that this is still so (the ids its name matched, their
  owner, the object it will write to), `Apart` that two waiting handlers touch
  different ids and names. Both hold until two operations on one id or name
  overlap, and from them follows, action by action, that nothing stale is
  written: `Unique` and `Approved` are the two properties as they are preserved.
  `HandlersAreIsolated` is an action property. That a write in a new place is of
  a *new* object is a fact about allocation: `ObjectsAssumption` and a
  cardinality argument (at most one object per id and per handler is referred to)
  show that there is a free one.
* `Login_proofs` on `Login`: both properties. What the next handler may read is
  not only the store in memory but, after a restart, the file, and what the file
  may still become: `Live` is the set of those stores, and `Since(k)` that of the
  stores made since call `k` made its own. `Ordered` says that the snapshots
  under way are ordered (`newer`), so that when one that is not `late` becomes the
  file, every live store is one made since (`LiveAfter`). The invariant `LInv`
  then speaks of each call for as long as it waits: what it did stays done in
  every store made since (`Done`), nobody else takes the same nonce or picks up
  the same session (`First`), a challenge or a session being made is nobody
  else's yet (`Birth`, `Claiming`); and no live store contradicts what has been
  told (`Agrees`). The operations that store nothing new are one case
  (`QuietOrderly`); the three that do are each one (`NonceOrderly`,
  `SessionOrderly`, `ClaimOrderly`). The shapes hold whatever overlaps, the rest
  until `overwrote` or `reordered`.

* `Host_proofs`: `LagsTold`, `NothingIsLost`, `OperatorsLines`, `HostTypes`. A
  program may die between writing a file and the daemon-reload, or between that
  and the restart, so `LagsAreTold`, which speaks of the time when none runs,
  needs to know for each step which files its remaining steps will deal with:
  `Deferred` says that a file which lags untold is among those (`Pending`), and
  that after the reload systemd has read what is there. `Safe` is that with the
  types and `Work` (what a program still has to write is what it was asked to).
  The attempt showed that `Lagging` has to count a unit that systemd has not read:
  without it an edit by hand, undone after a reload of others, leaves a file that
  "works as it is there" until the next reload, beyond what the run's bounds
  reach. The one file that may lag untold is the timer's, exactly as an installer
  left it that found the timer active (`unsaid`): the next version of it, an edit
  or a reconciliation are told. `NothingIsLost` leaves out the records an installer
  displaced with a checkout's store (`overwritten`), and adds `Edited` (a script writes back the store it read,
  plus its records) and `Archived` (an uninstall that goes on has archived what it
  was asked to, or the operator waived it). `OperatorsLines` is about torrc as a
  sequence: what is the operator's in it is a recursive function, and that no line
  of the operator's disappears is shown by the least prefix for which it would
  (`NatInductionSet`: a set of naturals that has 0 and is closed under successor).
* `Gateway_proofs` on `Desk`: `DeskIsHonest`, of the specification that contains
  `Gateway`'s. `Meant` speaks of the requests under way as well as of what is
  bound; `Fresh` of the newest answer under way as well as of the page: while
  nothing is to be asked any more, one of the two has the shop as it is. `Shown`
  relates the card to the page between a redraw's start and its end.
* `Attest_proofs` on `Lookup`: `LookupTypes` and `VerdictsAreEarned`, the safety
  half of `LookupsHonest`. `Witnessed` says of each reply that is counted that it
  was true at some moment of the lookup or came of a liar, whatever the zone does
  meanwhile; then, as in `Domains`, enough agreeing replies contain an honest one.
* `Page_proofs` on `Page`: `PanelIsHonest`, `ScreenIsCurrent` (the safety half of
  `ScreenHonest`), `PageTypes`. Each property of the screen is kept by a fact
  about what has not reached it yet: `Loaded`, which redraw still waits and for
  what; `Polled`, which task will yet write over a challenge nobody polls for;
  `Own`, whose session the cookie, `/api/me` and `/api/domain` may still speak of.
  The proof found the premise `~mixed` too narrow for longer behaviours than the
  run's: with four clicks, an answer of `/api/me` that lands between the answer of
  a sign-out and its own landing empties ME and leaves DOMAIN, and the next
  person's panel shows it. `mixed` now includes a sign-in while a sign-out is not
  over (`Leaving`).
* `Page_proofs` on `Cards`: `CardsAreTrue`, `CardsTypes`.
  `CardsCurrent` says that what is drawn, and the load that is cached, are of the
  list the page has, or a redraw is due; `DialogKept` that a dialog is what its
  button wrote for one node and one list, and that `REOPEN` would write it again
  for the same two. `Ordered` says that the cards are an enumeration of a list that
  is in order for the history `render` had, `DaysKnown` that unless an older load
  landed last this history is the cached load's and that of the strips. That every
  list can be put in order by `byUptime` (`RowExists`) is shown by the number of its
  nodes: averages are integers (`SumType`, `MeanType`), so that the comparison is an
  order (`UptimeOrders`), and among finitely many nodes one may come last.
* `IndexStore_proofs` on `Console`: `AppliedAsShown`, `ConsoleTypes`. `Paired` ties the POST under way, the
  timer, the polls and the panel to the job that was started last.
* `Moderation_proofs` on `Probe`: `WhatIsPublishedWasEarned`,
  `RollupCountsTheChecks`, `ProbeTypes`. `PoolShared` says that each index of the
  pool is one worker's, or done, or not begun; `Earned` that what a worker and a
  result have of a node the node said in this cycle. `RollInv` compares two files
  written one after the other with a kill possible between: `Counted` says of each
  day's record, and of those still to come, that it counts the checks of that day
  but one for each kill, and for the one this cycle has put into the history and
  not yet into the roll-up; `Dated` that the records are in order and none is of a
  day that is not yet; `Ahead` bounds the checks of a node by the cycles, so that
  within the premise of `RollupAgrees` the window has dropped none.

Only model-checked:

* Liveness (the proof system does not cover it under fairness, nor ENABLED):
  `BadgeFollowsRecord`, `ListFollowsVerdict`, `ChecksSeedHistory`, `EveryCycleEnds`,
  `PanelSettles`, `InstallComesAlive`, and the liveness halves of `ScreenHonest`
  and `LookupsHonest`, whose safety halves are theorems.
* `Publish`, whose properties are liveness.

Where a proof needs a fact about a list of any length, as for torrc, the checks
of a node, a sum of percentages or the order of a list, it takes the least counterexample in Nat; the
library's induction theorems take an operator as a parameter, which the provers
cannot instantiate.

## 6. Not modelled

* **Products and invoices** (`server/index.ts:353-420`, `server/store.ts:226-338`).
  A product is one record that an administrator puts and deletes in one step.
  `putInvoice` is a list of guards that no route or script calls, so that
  nothing creates or advances an invoice.
* **Packaging and the static server** (`scripts/pack-source.mjs` beyond what an
  archive holds, `scripts/serve.mjs`): they write or serve files.
* **Markup, Markdown, the QR code** and the forms of the pages, the installer's
  questions and terminal (`installer-ui`, `tui`), the read-only diagnoses.
* **Cryptography**: a signature is a key and a text, an address a key and its
  encoding. What the libraries compute is external.
* The text of records and zips, the wording of errors, the line protocol of the
  gateway (it answers the requests of one connection as their handlers end,
  without an id; the repository's client opens one connection per request).
* `urlOnDomain` (`server/domains.ts:153`), which nothing calls.
* `history-daily.json` and the seed anchor in `Publish`: kept by the same
  write-back as the history; the roll-up is in `Probe`.
* A second update cycle at once (an import may start one) and overlapping sweeps.
  `Moderation` and `Domains` take the store as atomic; its load and save are in
  `Login`.
* The payment code of a session. A logout whose save failed and which is then
  repeated is confirmed although the file keeps the session; `LogoutSticks`
  speaks of logouts that saved.
* That the sweep's stale write also undoes a revocation, a deletion or a new
  claim made while it asked is visible in `Domains` (`SweepAnswered` stores
  `todo[c]`); no property forbids it, because no document promises more than
  the badge properties above.
* The tests, which were read as documentation of what the code promises.

## 7. Plan

1. **Proofs**: every safety property a passing run checks is a theorem. What remains is
   liveness, which needs another prover.
2. **Import beside the timer**: a second cycle in `Publish`, without the backend.
3. **Invoices**, once a route creates them: the order from `next` to `settle`
   across the backend, the gateway and the chain.
