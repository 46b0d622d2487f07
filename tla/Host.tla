--------------------------------- MODULE Host ---------------------------------
(***************************************************************************)
(* One machine and the programs an operator runs on it as root: the guided *)
(* installer (scripts/install.mjs), the reconciler of the files under /etc *)
(* (scripts/reconcile-system.mjs), the uninstaller (scripts/uninstall.mjs) *)
(* and the scripts that edit the store. They run for minutes, can be left  *)
(* at any question and fail at any command, while the backend takes        *)
(* submissions, the timer starts cycles, the operator edits files by hand  *)
(* and the machine reboots. One such program runs at a time.               *)
(***************************************************************************)
EXTENDS Naturals, Sequences, SequencesExt

CONSTANTS
    Records,     \* listings that may be in the store
    Vanity,      \* onion keys an operator may bring along
    Fresh,       \* onion keys tor may make
    MaxRuns,     \* bound: programs started
    MaxFailures, \* bound: programs that end early, commands that fail
    MaxEdits,    \* bound: edits by hand of torrc and of files under /etc
    MaxShips,    \* bound: versions of the shipped files after the first
    MaxReboots,  \* bound: reboots and crashes of the backend
    None

ASSUME HostAssumption ==
    /\ {MaxRuns, MaxFailures, MaxEdits, MaxShips, MaxReboots} \subseteq Nat
    /\ Vanity \cap Fresh = {} /\ None \notin Vanity \cup Fresh \cup Records

Keys == Vanity \cup Fresh

\* Files under /etc; the gateway unit is one the installer does not write.
Units == {"server", "update", "timer", "gateway"}
Files == Units \cup {"nginx", "polkit"}

\* A file: the version of its template, the onion rendered into it, and whether
\* it was edited by hand.
File == [ver: 0..MaxShips, onion: Keys \cup {None}, hand: BOOLEAN]

\* Lines of torrc: other options, an operator's own hidden services, the mark
\* of the managed block, its two lines (as one), and empty lines.
Line == {"option", "service", "mark", "ours", "gap"}

VARIABLES
    torrc, onion,    \* the lines of torrc; the key under /var/lib/tor/mise
    etc, read, inForce, \* files under /etc, as systemd has read them, and as they work
    ships,           \* the version of the files in the checkout
    account,         \* the account mise exists
    mine,            \* everything under the web root belongs to it
    web, seed,       \* the web root exists; the onion its operator.json and anchor are of
    disk, backend,   \* store.json; the store in memory of the backend, None when it is down
    timer, boot,     \* the timer is active; units enabled for boot
    fresh, listed,   \* the list was written by a recent cycle; it has the anchor
    run, at, opt,    \* the program under way, its next step, what it was told
    kept,            \* records and keys in the archives of the uninstaller
    runs, failures, edits, reboots,
    \* history
    acked,    \* records whose storing was confirmed, or keys in use, and never taken back
    waived,   \* the store was written by two at once, or while it was being
              \* removed; a key was replaced; or archiving was declined
    told,     \* files an operator was told, or knows, are not in force yet
    sound,    \* the last installer finished, without a warning, and nothing was undone since
    overwritten, \* records on disk whose place an installer gave to the checkout's store
    unsaid       \* the timer's file that an installer left out of force without a word

machine == <<torrc, onion, etc, read, inForce, ships, account, mine, web, seed, disk,
             backend, timer, boot, fresh, listed>>
bounds  == <<runs, failures, edits, reboots>>
lapses  == <<overwritten, unsaid>>
history == <<acked, waived, told, sound, lapses>>
vars    == <<machine, run, at, opt, kept, bounds, history>>

NoOpt == [host |-> None, ask |-> {}, todo |-> {}, buf |-> {}]

TypeOK ==
    /\ torrc \in Seq(Line) /\ onion \in Keys \cup {None}
    /\ \A w \in {etc, read, inForce} : w \in [Files -> File \cup {None}]
    /\ ships \in 0..MaxShips /\ seed \in Keys \cup {None}
    /\ {account, mine, web, timer, fresh, listed, waived, sound} \subseteq BOOLEAN
    /\ disk \subseteq Records /\ backend \in (SUBSET Records) \cup {None}
    /\ boot \subseteq {"server", "timer"} /\ told \subseteq Files
    /\ run \in {"none", "install", "reconcile", "uninstall", "script"}
    /\ kept \subseteq Records \cup Keys /\ acked \subseteq Records \cup Keys
    /\ overwritten \subseteq Records /\ unsaid \in File \cup {None}

Nothing == [f \in Files |-> None]

\* A machine before its first install. Debian's torrc has options, and may have
\* an operator's own hidden service.
Init ==
    /\ torrc \in {<<"option">>, <<"option", "gap", "service">>} /\ onion = None
    /\ etc = Nothing /\ read = Nothing /\ inForce = Nothing /\ ships = 0
    /\ account = FALSE /\ mine = FALSE /\ web = FALSE /\ seed = None
    /\ disk = {} /\ backend = None /\ timer = FALSE /\ boot = {}
    /\ fresh = FALSE /\ listed = FALSE
    /\ run = "none" /\ at = "none" /\ opt = NoOpt /\ kept = {}
    /\ runs = 0 /\ failures = 0 /\ edits = 0 /\ reboots = 0
    /\ acked = {} /\ waived = FALSE /\ told = {} /\ sound = FALSE
    /\ overwritten = {} /\ unsaid = None

Begin(p, a, o) ==
    /\ run = "none" /\ runs < MaxRuns
    /\ run' = p /\ at' = a /\ opt' = o /\ runs' = runs + 1
    /\ UNCHANGED <<failures, edits, reboots>>

\* The step a of program p, after which it is at b.
Step(p, a, b) ==
    /\ run = p /\ at = a
    /\ run' = p /\ at' = b /\ UNCHANGED <<bounds>>

Over == run' = "none" /\ at' = "none" /\ opt' = NoOpt

\* A step that may go wrong: ok is whether it does not.
Trial(ok) == IF ok THEN failures' = failures
                   ELSE failures < MaxFailures /\ failures' = failures + 1

\* Files that do not work the way they are under /etc, or that systemd has not
\* read the way they are there, so that its next start will not either.
Lagging == {f \in Files : etc[f] # None /\ \/ inForce[f] # etc[f]
                                           \/ f \in Units /\ read[f] # etc[f]}

\* The operator learns that these files do not work yet, those of them that do not.
Tell(files) == told' = (told \cup files) \cap Lagging'

\* The files are written in a fixed order: the first of those still to be written.
First(order, todo) ==
    CHOOSE f \in todo : \A i, j \in DOMAIN order : order[i] = f /\ order[j] \in todo => i <= j

\* What the renderers make of a template: the onion goes into the backend unit.
Rendered(f, host) == [ver |-> ships, onion |-> IF f = "server" THEN host ELSE None,
                      hand |-> FALSE]

-----------------------------------------------------------------------------
(***************************************************************************)
(* torrc: mergeTorrc and stripTorrc replace or remove the mark and every   *)
(* line after it that begins with HiddenService.                           *)
(***************************************************************************)
Hidden  == {"ours", "service"}
Marks(t)   == {i \in DOMAIN t : t[i] = "mark"}
\* The lines that are not the installer's, in their order.
Foreign(t) ==
    LET upTo[i \in 0..Len(t)] ==
          IF i = 0 THEN <<>>
          ELSE upTo[i - 1] \o (IF t[i] \in {"option", "service"} THEN <<t[i]>> ELSE <<>>)
    IN upTo[Len(t)]
\* An operator's own hidden service right below the managed block.
Adjoins(t) == \E i \in 3..Len(t) : t[i - 2] = "mark" /\ t[i - 1] = "ours" /\ t[i] = "service"

BlockEnd(t, i) == CHOOSE j \in i..Len(t) :
                    /\ \A k \in (i + 1)..j : t[k] \in Hidden
                    /\ j = Len(t) \/ t[j + 1] \notin Hidden

LastText(t) == CHOOSE j \in 0..Len(t) :
                 /\ j = 0 \/ t[j] # "gap"
                 /\ \A k \in (j + 1)..Len(t) : t[k] = "gap"
\* Without the empty lines at the end, and at the beginning.
TrimEnd(t) == SubSeq(t, 1, LastText(t))
TrimStart(t) == Reverse(TrimEnd(Reverse(t)))

Merged(t) ==
    IF Marks(t) = {} THEN TrimEnd(t) \o <<"gap", "mark", "ours">>
    ELSE LET i == CHOOSE i \in Marks(t) : TRUE
         IN SubSeq(t, 1, i - 1) \o <<"mark", "ours">> \o SubSeq(t, BlockEnd(t, i) + 1, Len(t))

\* Bug: everything below the mark goes with it.
StrippedToEnd(t) ==
    IF Marks(t) = {} THEN t
    ELSE LET i == CHOOSE i \in Marks(t) : TRUE IN TrimEnd(SubSeq(t, 1, i - 1))

Stripped(t) ==
    IF Marks(t) = {} THEN t
    ELSE LET i == CHOOSE i \in Marks(t) : TRUE
         IN TrimStart(TrimEnd(SubSeq(t, 1, i - 1)) \o SubSeq(t, BlockEnd(t, i) + 1, Len(t)))

-----------------------------------------------------------------------------
(***************************************************************************)
(* The installer. Its first half asks, and already writes torrc and the    *)
(* onion key; the second writes the rest. Every command can fail and every *)
(* question be left: Fails, below.                                         *)
(***************************************************************************)
site == <<account, mine, web, seed, disk, backend, timer, boot, fresh, listed>>
unit == <<etc, read, inForce, ships>>
same == <<kept, history>>

StartInstall ==
    /\ Begin("install", "key", NoOpt)
    /\ sound' = FALSE
    /\ UNCHANGED <<machine, kept, acked, waived, told, lapses>>

\* A key the operator brings is copied over the one that is there.
ImportKey ==
    /\ Step("install", "key", "torrc")
    /\ \E k \in Vanity \cup {None} :
         /\ onion' = IF k = None THEN onion ELSE k
         /\ acked' = (acked \cup {k}) \ {None}
    /\ waived' = (waived \/ onion \notin {None, onion'})
    /\ UNCHANGED <<torrc, unit, site, opt, kept, told, sound, lapses>>

MergeTorrc ==
    /\ Step("install", "torrc", "tor")
    /\ torrc' = Merged(torrc)
    /\ UNCHANGED <<onion, unit, site, opt, same>>

\* tor makes a key where there is none, and the name is read.
RestartTor ==
    /\ Step("install", "tor", "answers")
    /\ ~(onion = None /\ Fresh \subseteq acked)
    /\ onion' = IF onion # None THEN onion ELSE CHOOSE k \in Fresh \ acked : TRUE
    /\ acked' = acked \cup {onion'}
    /\ opt' = [opt EXCEPT !.host = onion']
    /\ UNCHANGED <<torrc, unit, site, kept, waived, told, sound, lapses>>

\* The import and the right to restart, asked for with the review.
Asks == SUBSET {"polkit", "import"}

\* The operator's signature over this name, a node that answers over Tor with a
\* version that is new enough, and its signed payload: each is asked for again
\* until it verifies. Nothing is written.
Answers ==
    /\ Step("install", "answers", "copy")
    /\ \E ask \in Asks : opt' = [opt EXCEPT !.ask = ask]
    /\ UNCHANGED <<machine, same>>

\* Into a web root that is not the checkout everything is copied: its data/, and
\* its server/data/ when a backend or an import has run from the checkout, whose
\* store then takes the place of the instance's under the backend that runs.
Copy ==
    /\ Step("install", "copy", "seed")
    /\ web' = TRUE
    /\ \/ /\ mine' = FALSE /\ seed' = None /\ listed' = FALSE /\ fresh' = FALSE
          /\ disk' = disk \/ \E store \in SUBSET Records : disk' = store
       \/ UNCHANGED <<mine, seed, listed, fresh, disk>>
    /\ overwritten' = overwritten \cup (disk \ disk')
    /\ UNCHANGED <<torrc, onion, unit, account, backend, timer, boot, opt, kept,
                   acked, waived, told, sound, unsaid>>

Installed == <<"nginx", "server", "update", "timer">>

WriteSeed ==
    /\ Step("install", "seed", "files")
    /\ seed' = opt.host /\ account' = TRUE
    /\ opt' = [opt EXCEPT !.todo = ToSet(Installed)]
    /\ UNCHANGED <<torrc, onion, unit, mine, web, disk, backend, timer, boot,
                   fresh, listed, same>>

InstallFile ==
    /\ LET f == First(Installed, opt.todo) IN
         /\ Step("install", "files", IF opt.todo = {f} THEN "reload" ELSE "files")
         /\ etc' = [etc EXCEPT ![f] = Rendered(f, opt.host)]
         /\ opt' = [opt EXCEPT !.todo = @ \ {f}]
    /\ UNCHANGED <<torrc, onion, read, inForce, ships, site, same>>

\* systemctl daemon-reload: a cycle is started with what was read, a service or
\* a timer that runs keeps what it was started with.
DaemonReload ==
    /\ read' = [f \in Files |-> IF f \in Units THEN etc[f] ELSE read[f]]
    /\ inForce' = [inForce EXCEPT !["update"] = etc["update"]]

Reload ==
    /\ Step("install", "reload", "polkit")
    /\ DaemonReload
    /\ UNCHANGED <<torrc, onion, etc, ships, site, opt, same>>

\* The rule that lets the backend be restarted by its own account.
GrantRestart ==
    /\ Step("install", "polkit", "import")
    /\ IF "polkit" \in opt.ask
         THEN /\ etc' = [etc EXCEPT !["polkit"] = Rendered("polkit", None)]
              /\ inForce' = [inForce EXCEPT !["polkit"] = etc'["polkit"]]
         ELSE UNCHANGED <<etc, inForce>>
    /\ UNCHANGED <<torrc, onion, read, ships, site, opt, same>>

\* The import runs in the installer, which has a store of its own in memory.
ImportReads ==
    /\ Step("install", "import", IF "import" \in opt.ask THEN "importing" ELSE "build")
    /\ opt' = [opt EXCEPT !.buf = disk]
    /\ UNCHANGED <<machine, same>>

\* What it brings, or nothing: its failure is swallowed.
ImportWrites ==
    /\ Step("install", "importing", "build")
    /\ \E new \in SUBSET (Records \ opt.buf) :
         IF new = {} THEN UNCHANGED <<disk, acked, waived>>
         ELSE /\ disk' = opt.buf \cup new /\ acked' = acked \cup new
              /\ waived' = (waived \/ backend # None)
    /\ UNCHANGED <<torrc, onion, unit, account, mine, web, seed, backend, timer, boot,
                   fresh, listed, opt, kept, told, sound, lapses>>

\* The list is built and the source packed by root, whose files the account of
\* the services cannot replace.
Build ==
    /\ Step("install", "build", "chown")
    /\ listed' = (seed # None) /\ mine' = FALSE
    /\ UNCHANGED <<torrc, onion, unit, account, web, seed, disk, backend, timer, boot,
                   fresh, opt, same>>

Chown ==
    /\ Step("install", "chown", "writable")
    /\ mine' = TRUE
    /\ UNCHANGED <<torrc, onion, unit, account, web, seed, disk, backend, timer, boot,
                   fresh, listed, opt, same>>

\* Bug: the timer is only started, not enabled for the next boot.
EnableTimerNot ==
    /\ Step("install", "writable", "start") /\ mine
    /\ UNCHANGED <<machine, opt, same>>

\* The account can write, or the installer refuses to go on. The timer is only
\* enabled: started now, it would run into the installer's own cycle.
EnableTimer ==
    /\ Step("install", "writable", "start") /\ mine
    /\ boot' = boot \cup {"timer"}
    /\ UNCHANGED <<torrc, onion, unit, account, mine, web, seed, disk, backend, timer,
                   fresh, listed, opt, same>>

StartServices ==
    /\ Step("install", "start", "first")
    /\ boot' = boot \cup {"server"} /\ backend' = disk
    /\ inForce' = [inForce EXCEPT !["server"] = read["server"], !["nginx"] = etc["nginx"]]
    /\ UNCHANGED <<etc, read>>
    /\ Tell({})
    /\ UNCHANGED <<torrc, onion, ships, account, mine, web, seed, disk, timer,
                   fresh, listed, opt, kept, acked, waived, sound, lapses>>

\* The first cycle, whose failure is swallowed.
FirstCycle ==
    /\ Step("install", "first", "timer")
    /\ \/ fresh' = TRUE /\ listed' = (seed # None)
       \/ UNCHANGED <<fresh, listed>>
    /\ UNCHANGED <<torrc, onion, unit, account, mine, web, seed, disk, backend, timer,
                   boot, opt, same>>

\* systemctl start does nothing where it is already active: an older schedule
\* goes on, and nothing says so.
StartTimer ==
    /\ Step("install", "timer", "check")
    /\ timer' = TRUE
    /\ inForce' = IF timer THEN inForce ELSE [inForce EXCEPT !["timer"] = read["timer"]]
    /\ unsaid' = IF timer /\ inForce["timer"] # etc["timer"] THEN etc["timer"] ELSE unsaid
    /\ UNCHANGED <<etc, read>>
    /\ Tell({})
    /\ UNCHANGED <<torrc, onion, ships, account, mine, web, seed, disk, backend,
                   boot, fresh, listed, opt, kept, acked, waived, sound, overwritten>>

\* The timer has a next run.
FinishInstall ==
    /\ run = "install" /\ at = "check"
    /\ Over /\ sound' = timer
    /\ UNCHANGED <<machine, kept, bounds, acked, waived, told, lapses>>

-----------------------------------------------------------------------------
(***************************************************************************)
(* The reconciler: every file that is installed is compared with what the  *)
(* checkout would render with the values of the installed backend unit.    *)
(***************************************************************************)
Reconciled == <<"server", "gateway", "update", "timer", "nginx", "polkit">>

StartReconcile ==
    LET host == etc["server"].onion
        todo == {f \in Files : etc[f] \notin {None, Rendered(f, host)}}
    IN /\ etc["server"] # None /\ todo # {}
       /\ Begin("reconcile", "files",
                [NoOpt EXCEPT !.host = host, !.todo = todo, !.ask = todo])
       /\ UNCHANGED <<machine, same>>

\* polkit alone notices a file by itself.
ReconcileFile ==
    /\ LET f == First(Reconciled, opt.todo) IN
         /\ Step("reconcile", "files", IF opt.todo = {f} THEN "reload" ELSE "files")
         /\ etc' = [etc EXCEPT ![f] = Rendered(f, opt.host)]
         /\ inForce' = IF f = "polkit" THEN [inForce EXCEPT ![f] = etc'[f]] ELSE inForce
         /\ opt' = [opt EXCEPT !.todo = @ \ {f}]
    /\ UNCHANGED <<torrc, onion, read, ships, site, same>>

\* A step after a failed one is taken all the same; the operator reads of each.
ReloadUnits(ok) ==
    /\ run = "reconcile" /\ at = "reload" /\ at' = "timers"
    /\ Trial(ok) /\ (~ok => opt.ask \cap Units # {})
    /\ IF ok /\ opt.ask \cap Units # {} THEN DaemonReload ELSE UNCHANGED <<read, inForce>>
    /\ UNCHANGED etc
    /\ Tell(IF ok THEN {} ELSE opt.ask \cap Units)
    /\ UNCHANGED <<torrc, onion, ships, site, run, opt, runs, edits, reboots, kept,
                   acked, waived, sound, lapses>>

\* Bug: the timer keeps its old schedule.
RestartTimersNot(ok) ==
    /\ run = "reconcile" /\ at = "timers" /\ at' = "nginx" /\ ok
    /\ told' = told \cup (opt.ask \cap {"server", "gateway"})
    /\ UNCHANGED <<machine, run, opt, bounds, kept, acked, waived, sound, lapses>>

\* A restart that fails may leave the timer stopped. Services are left to the
\* operator, by name.
RestartTimers(ok) ==
    /\ run = "reconcile" /\ at = "timers" /\ at' = "nginx"
    /\ Trial(ok) /\ (~ok => "timer" \in opt.ask)
    /\ IF ok /\ "timer" \in opt.ask
         THEN /\ timer' = TRUE
              /\ inForce' = [inForce EXCEPT !["timer"] = read["timer"]]
         ELSE /\ timer' \in {timer, timer /\ ok}
              /\ inForce' = inForce
    /\ sound' = (sound /\ (ok \/ timer'))
    /\ UNCHANGED <<etc, read>>
    /\ Tell((opt.ask \cap {"server", "gateway"}) \cup (IF ok THEN {} ELSE {"timer"}))
    /\ UNCHANGED <<torrc, onion, ships, account, mine, web, seed, disk, backend,
                   boot, fresh, listed, run, opt, runs, edits, reboots, kept,
                   acked, waived, lapses>>

\* nginx -t, and only then the reload.
ReloadNginx(ok) ==
    /\ run = "reconcile" /\ at = "nginx" /\ Over
    /\ Trial(ok) /\ (~ok => "nginx" \in opt.ask)
    /\ inForce' = IF ok /\ "nginx" \in opt.ask
                    THEN [inForce EXCEPT !["nginx"] = etc["nginx"]] ELSE inForce
    /\ UNCHANGED <<etc, read>>
    /\ Tell(IF ok THEN {} ELSE {"nginx"})
    /\ UNCHANGED <<torrc, onion, ships, site, runs, edits, reboots, kept,
                   acked, waived, sound, lapses>>

-----------------------------------------------------------------------------
(***************************************************************************)
(* The uninstaller. What it is asked to purge it archives first, while the *)
(* service still runs; a command that fails is passed over.                *)
(***************************************************************************)
StartUninstall(ask) ==
    /\ ask # {"archive"}
    /\ ~(onion = None /\ ~web /\ Marks(torrc) = {} /\ etc = Nothing)
    /\ Begin("uninstall", "archive", [NoOpt EXCEPT !.ask = ask])
    /\ sound' = FALSE
    /\ UNCHANGED <<machine, kept, acked, waived, told, lapses>>

Purged == opt.ask \cap {"data", "onion"}

Archive ==
    /\ Step("uninstall", "archive", "stop timer")
    /\ IF "archive" \in opt.ask
         THEN kept' = kept \cup (IF "data" \in opt.ask THEN disk ELSE {})
                           \cup (IF "onion" \in opt.ask THEN {onion} \ {None} ELSE {})
         ELSE kept' = kept
    /\ waived' = (waived \/ (Purged # {} /\ "archive" \notin opt.ask))
    /\ UNCHANGED <<machine, opt, acked, told, sound, lapses>>

StopTimer(ok) ==
    /\ run = "uninstall" /\ at = "stop timer" /\ at' = "stop server"
    /\ Trial(ok)
    /\ IF ok THEN timer' = FALSE /\ boot' = boot \ {"timer"}
             ELSE UNCHANGED <<timer, boot>>
    /\ UNCHANGED <<torrc, onion, unit, account, mine, web, seed, disk, backend, fresh,
                   listed, run, opt, runs, edits, reboots, same>>

StopServer(ok) ==
    /\ run = "uninstall" /\ at = "stop server" /\ at' = "units"
    /\ Trial(ok)
    /\ IF ok THEN backend' = None /\ boot' = boot \ {"server"} ELSE UNCHANGED <<backend, boot>>
    /\ UNCHANGED <<torrc, onion, unit, account, mine, web, seed, disk, timer, fresh,
                   listed, run, opt, runs, edits, reboots, same>>

\* Three units and the site; the gateway unit, the polkit rule and the account stay.
RemoveFiles ==
    /\ Step("uninstall", "units", "torrc")
    /\ LET gone == {"server", "update", "timer", "nginx"} IN
         /\ etc' = [f \in Files |-> IF f \in gone THEN None ELSE etc[f]]
         /\ read' = [f \in Files |-> IF f \in Units THEN etc'[f] ELSE read[f]]
         /\ inForce' = [f \in Files |->
               IF f \in gone /\ ~(f = "server" /\ backend # None) /\ ~(f = "timer" /\ timer)
                 THEN None ELSE inForce[f]]
         /\ told' = told \ gone
    /\ UNCHANGED <<torrc, onion, ships, site, opt, kept, acked, waived, sound, lapses>>

StripTorrc ==
    /\ Step("uninstall", "torrc", "purge")
    /\ torrc' = Stripped(torrc)
    /\ UNCHANGED <<onion, unit, site, opt, same>>

\* Bug: the key goes with the data.
PurgeBoth ==
    /\ run = "uninstall" /\ at = "purge" /\ Over
    /\ IF "data" \in opt.ask
         THEN web' = FALSE /\ seed' = None /\ disk' = {} /\ mine' = FALSE
              /\ fresh' = FALSE /\ listed' = FALSE
         ELSE UNCHANGED <<web, seed, disk, mine, fresh, listed>>
    /\ onion' = IF Purged # {} THEN None ELSE onion
    /\ UNCHANGED <<torrc, unit, account, backend, timer, boot, bounds, same>>

Purge ==
    /\ run = "uninstall" /\ at = "purge" /\ Over
    /\ IF "data" \in opt.ask
         THEN web' = FALSE /\ seed' = None /\ disk' = {} /\ mine' = FALSE
              /\ fresh' = FALSE /\ listed' = FALSE
         ELSE UNCHANGED <<web, seed, disk, mine, fresh, listed>>
    /\ onion' = IF "onion" \in opt.ask THEN None ELSE onion
    /\ UNCHANGED <<torrc, unit, account, backend, timer, boot, bounds, same>>

-----------------------------------------------------------------------------
(***************************************************************************)
(* The scripts that read store.json, change a record and write it back:    *)
(* some refuse to while the backend is up unless they are forced, the      *)
(* moderation CLI and the migration of the seed never look.                *)
(***************************************************************************)
StartScript(looks) ==
    /\ web /\ (looks => backend = None)
    /\ Begin("script", "editing", [NoOpt EXCEPT !.buf = disk])
    /\ UNCHANGED <<machine, same>>

ScriptWrites(r) ==
    /\ run = "script" /\ at = "editing" /\ Over
    /\ \/ disk' = opt.buf \cup {r} /\ acked' = acked \cup {r}
       \/ disk' = opt.buf \ {r} /\ acked' = acked \ {r}
    /\ waived' = (waived \/ backend # None)
    /\ UNCHANGED <<torrc, onion, unit, account, mine, web, seed, backend, timer, boot,
                   fresh, listed, kept, bounds, told, sound, lapses>>

\* A question left, a command that failed, or the terminal closed: what was
\* written stays, and the operator knows where it stopped.
Fails ==
    /\ run # "none" /\ Trial(FALSE)
    /\ Over /\ told' = told \cup Lagging
    /\ UNCHANGED <<machine, runs, edits, reboots, kept, acked, waived, sound, lapses>>

-----------------------------------------------------------------------------
(***************************************************************************)
(* Meanwhile: submissions, the timer and its cycles, systemd, the operator.*)
(***************************************************************************)
\* The store is written by two at once, or after it was archived to be purged.
Overlaps ==
    \/ run \in {"install", "script"} /\ at \in {"importing", "editing"}
    \/ run = "uninstall" /\ at # "archive" /\ "data" \in opt.ask

\* A save needs the directory; the store in memory is changed before it.
Submit(r) ==
    /\ backend # None /\ r \notin backend
    /\ backend' = backend \cup {r}
    /\ IF web /\ mine THEN disk' = backend' /\ acked' = acked \cup {r}
                      ELSE UNCHANGED <<disk, acked>>
    /\ waived' = (waived \/ Overlaps)
    /\ UNCHANGED <<torrc, onion, unit, account, mine, web, seed, timer, boot, fresh,
                   listed, run, at, opt, kept, bounds, told, sound, lapses>>

\* The timer starts a cycle as the account of the services, which it ends with
\* a new list if it can write one (Publish.tla and Probe.tla are its inside).
Cycle(ok) ==
    /\ timer /\ inForce["update"] # None /\ account /\ Trial(ok)
    /\ IF ok /\ mine /\ web THEN fresh' = TRUE /\ listed' = (seed # None)
                            ELSE UNCHANGED <<fresh, listed>>
    /\ UNCHANGED <<torrc, onion, unit, account, mine, web, seed, disk, backend, timer, boot,
                   run, at, opt, kept, runs, edits, reboots, history>>

\* Ten minutes pass.
Age ==
    /\ fresh /\ fresh' = FALSE
    /\ UNCHANGED <<torrc, onion, unit, account, mine, web, seed, disk, backend, timer, boot,
                   listed, run, at, opt, kept, bounds, history>>

\* By systemd after a crash, or by the operator.
StartBackend ==
    /\ backend = None /\ read["server"] # None /\ account /\ web
    /\ backend' = disk
    /\ inForce' = [inForce EXCEPT !["server"] = read["server"]]
    /\ UNCHANGED <<etc, read>>
    /\ Tell({})
    /\ UNCHANGED <<torrc, onion, ships, account, mine, web, seed, disk, timer,
                   boot, fresh, listed, run, at, opt, kept, bounds, acked, waived, sound, lapses>>

StopBackend ==
    /\ backend # None /\ backend' = None
    /\ UNCHANGED <<torrc, onion, unit, account, mine, web, seed, disk, timer, boot,
                   fresh, listed, run, at, opt, kept, bounds, history>>

Reboot ==
    /\ reboots < MaxReboots /\ reboots' = reboots + 1
    /\ Over /\ backend' = None
    /\ timer' = ("timer" \in boot /\ etc["timer"] # None)
    /\ read' = etc /\ inForce' = etc /\ told' = {}
    /\ UNCHANGED <<torrc, onion, etc, ships, account, mine, web, seed, disk, boot, fresh,
                   listed, kept, runs, failures, edits, acked, waived, sound, lapses>>

\* A deploy or a self-update brings new templates; nothing under /etc changes.
Ship ==
    /\ run = "none" /\ ships < MaxShips /\ ships' = ships + 1
    /\ UNCHANGED <<torrc, onion, etc, read, inForce, site, run, at, opt, kept, bounds, history>>

\* The operator adds a hidden service of his own, at the end or set apart.
EditTorrc ==
    /\ edits < MaxEdits /\ edits' = edits + 1
    /\ torrc' \in {Append(torrc, "service"), torrc \o <<"gap", "service">>,
                   <<"option">> \o torrc}
    /\ UNCHANGED <<onion, unit, site, run, at, opt, kept, runs, failures, reboots, history>>

\* Edits a file, or puts the gateway unit in place.
EditFile(f) ==
    /\ edits < MaxEdits /\ edits' = edits + 1
    /\ etc[f] # None \/ f = "gateway"
    /\ etc' = [etc EXCEPT ![f] = IF etc[f] = None THEN Rendered(f, None)
                                 ELSE [etc[f] EXCEPT !.hand = TRUE]]
    /\ told' = told \cup {f} /\ sound' = (sound /\ f \notin {"update", "timer"})
    /\ UNCHANGED <<torrc, onion, read, inForce, ships, site, run, at, opt, kept, runs,
                   failures, reboots, acked, waived, lapses>>

Next ==
    \/ StartInstall \/ ImportKey \/ MergeTorrc \/ RestartTor \/ Answers \/ Copy
    \/ WriteSeed \/ InstallFile \/ Reload \/ GrantRestart \/ ImportReads \/ ImportWrites
    \/ Build \/ Chown \/ EnableTimer \/ StartServices \/ FirstCycle \/ StartTimer
    \/ FinishInstall
    \/ StartReconcile \/ ReconcileFile
    \/ \E ok \in BOOLEAN : ReloadUnits(ok) \/ RestartTimers(ok) \/ ReloadNginx(ok)
                             \/ StopTimer(ok) \/ StopServer(ok) \/ Cycle(ok)
    \/ \E ask \in SUBSET {"data", "onion", "archive"} : StartUninstall(ask)
    \/ Archive \/ RemoveFiles \/ StripTorrc \/ Purge
    \/ \E looks \in BOOLEAN : StartScript(looks)
    \/ \E r \in Records : ScriptWrites(r) \/ Submit(r)
    \/ Fails \/ Age \/ StartBackend \/ StopBackend \/ Reboot \/ Ship \/ EditTorrc
    \/ \E f \in Files : EditFile(f)

\* The timer is systemd's, and a cycle ends (EveryCycleEnds of Probe.tla).
\* Nobody has to answer a program, start one, or keep the backend up.
Fairness == WF_vars(\E ok \in BOOLEAN : Cycle(ok))

Spec == Init /\ [][Next]_vars /\ Fairness

-----------------------------------------------------------------------------
(***************************************************************************)
(* "Take out the block we put in, and nothing else" (stripTorrc): no step  *)
(* of a program loses a line of torrc that is the operator's, there is at  *)
(* most one managed block, and none after an uninstall. An operator's own  *)
(* hidden service right below the block is taken for a part of it, so that *)
(* nothing is said of a torrc that has one there.                          *)
(***************************************************************************)
TorrcElse ==
    [][at' # at =>
         /\ Adjoins(torrc) \/ Foreign(torrc') = Foreign(torrc)
         /\ \A i, j \in Marks(torrc') : i = j
         /\ at' = "purge" => Marks(torrc') = {}]_vars

(***************************************************************************)
(* A record that was confirmed and an onion key that was in use are where  *)
(* the backend will find them, or in an archive, through installs,         *)
(* uninstalls, scripts and reboots - unless the operator declined the      *)
(* archive or brought another key, two wrote the store at once, or a       *)
(* record came after the archive (waived), or an installer run from a      *)
(* checkout that has a store of its own copied it over the instance's      *)
(* (overwritten).                                                          *)
(***************************************************************************)
Held(x) == x \in kept \/ x = onion \/ (x \in disk /\ (backend = None \/ x \in backend))

NothingLost == waived \/ \A x \in acked \ overwritten : Held(x)

(***************************************************************************)
(* "Instance data is never touched by a re-run" (install.mjs): so read,    *)
(* nothing is exempt for having been overwritten. It does not hold: the    *)
(* copy of the checkout takes its store along (Copy).                      *)
(***************************************************************************)
ConfirmedKept == waived \/ \A x \in acked : Held(x)

(***************************************************************************)
(* Files under /etc that do not work yet are known: a program said so, or  *)
(* died in view, or the operator edited them - but for the timer's file as *)
(* an installer left it, which found the timer active, so that its start   *)
(* did nothing and nothing was said (unsaid). The reconciler, and the next *)
(* version of that file, leave no such gap.                                *)
(***************************************************************************)
LagsAreTold ==
    run = "none" => \A f \in Lagging \ told : f = "timer" /\ etc[f] = unsaid

(***************************************************************************)
(* "A timer whose file changed keeps its old schedule until it is          *)
(* restarted": the reconciler does so because nothing about the machine    *)
(* would look wrong. So no program leaves a file that does not work yet    *)
(* without a word; the installer does, on a machine installed before       *)
(* (StartTimer).                                                           *)
(***************************************************************************)
EveryLagTold == run = "none" => Lagging \subseteq told

(***************************************************************************)
(* After an installer that ended without a warning, and as long as nobody  *)
(* undoes it, the list is rewritten again and again and has the operator's *)
(* own node, also after reboots and failed cycles: the timer is enabled    *)
(* and active, the account exists and owns what cycles write.              *)
(***************************************************************************)
InstallComesAlive == <>[]sound => []<>(fresh /\ listed)
=============================================================================
