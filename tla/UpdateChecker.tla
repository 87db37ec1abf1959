---------------------------- MODULE UpdateChecker ----------------------------
(***************************************************************************)
(* internal/update: the checker that asks GitHub for the latest release,     *)
(* stages its installer and, when asked, runs it; what it keeps in the        *)
(* settings table and in the staging directory across restarts; and the       *)
(* requests of the update API that run beside its own loop.                   *)
(*                                                                         *)
(* A version is its rank in the order of semver.Compare, 0 is none.  A         *)
(* release has one ETag, which stands for it, and may be sent in full again.   *)
(* Whether checking and downloading are switched on is looked up by each pass   *)
(* and may change between two passes.  A save may fail, and so may the removal  *)
(* of a file or the reading of the settings at startup.                       *)
(***************************************************************************)
EXTENDS Naturals, FiniteSets

CONSTANTS
    MaxVersion,   \* the newest version there will be
    Requests,     \* installs asked of one process
    MaxReleases,  \* bounds the changes of the latest release
    MaxRestarts,  \* bounds crashes, restarts and upgrades
    MaxFaults     \* bounds saves, reads and removals that fail, and files lost
                  \* or changed behind the checker's back

ASSUME VersionAssumption == MaxVersion \in Nat \ {0}
ASSUME BoundsAssumption  == {MaxReleases, MaxRestarts, MaxFaults} \subseteq Nat

Versions == 1 .. MaxVersion
None == 0
Newer(current, candidate) == candidate > current

VARIABLES
    current,    \* the version that runs
    server,     \* /releases/latest
    db,         \* the updates_* rows of the settings table
    files,      \* the staging directory
    mem,        \* Checker.rel and Status.State; the texts are left out
    run,        \* where Checker.Run is, and what reconcile read
    pass,       \* what holds passMu
    dl,         \* a download request
    launching,  \* installs answered, their installer not yet started
    installing, \* installers that run
    deserted,   \* history: an installer ended and left the service running
    tidy,       \* history: what is recorded was put there or checked under
                \* passMu, and no discard, damage or failed save came since
    budget      \* what is left of the bounds

world == <<current, server, installing, deserted>>
vars == <<world, db, files, mem, run, pass, dl, launching, tidy, budget>>

State   == {"idle", "available", "downloading", "ready", "installing", "error"}
Settings == [ etag : Versions \cup {None}, latest : Versions \cup {None},
              ready : Versions \cup {None}, installAt : BOOLEAN ]
FileStates == {"none", "good", "bad"}

\* What reconcile reads and uses.  "unchecked" is the loop after a startup that
\* could not do its work.
Recorded == [latest : Versions \cup {None}, ready : Versions \cup {None}, installAt : BOOLEAN]
Startup == [pc : {"read", "loop", "unchecked"}] \cup [pc : {"hash"}, seen : Recorded]
           \cup [pc : {"act"}, seen : Recorded, file : FileStates]
           \cup [pc : {"forget"}, emptied : BOOLEAN]

\* A pass keeps what it still needs of what it has read; mine: Download waits for
\* it.  Discard: a discard under passMu, and the state it is to leave.
Asking   == [ pc : {"ask"}, etag : Versions \cup {None}, ready : Versions \cup {None},
              mine : BOOLEAN ]
Deciding == [pc : {"decide"}, rel : Versions, ready : Versions \cup {None}, mine : BOOLEAN]
Staging  == [pc : {"stage", "get", "staged", "sweep"}, rel : Versions, mine : BOOLEAN]
Discard  == [pc : {"forget"}, shown : {"idle", "unstaged", "error"}, mine : BOOLEAN]
NoPass == [pc |-> "none"]

Budget == [releases : 0 .. MaxReleases, restarts : 0 .. MaxRestarts, faults : 0 .. MaxFaults]
Order == [req : Requests, version : Versions, settled : BOOLEAN]

Request == [pc : {"idle", "once", "checking"}] \cup [pc : {"checked"}, answered : BOOLEAN]
           \cup [pc : {"lock"}, rel : Versions]
NoDownload == [pc |-> "idle"]

TypeOK ==
    /\ current \in Versions /\ server \in Versions \cup {None}
    /\ db \in Settings
    /\ files \in [Versions -> FileStates]
    /\ mem \in [rel : Versions \cup {None}, state : State]
    /\ run \in Startup
    /\ pass \in Asking \cup Deciding \cup Staging \cup Discard \cup {NoPass}
    /\ dl \in Request
    /\ dl.pc = "lock" => Newer(current, dl.rel)
    /\ launching \subseteq Order
    /\ installing \subseteq Versions
    /\ deserted \in BOOLEAN /\ tidy \in BOOLEAN
    /\ budget \in Budget

Fresh == [rel |-> None, state |-> "idle"]

Init ==
    /\ current = 1 /\ server = None
    /\ db = [etag |-> None, latest |-> None, ready |-> None, installAt |-> FALSE]
    /\ files = [v \in Versions |-> "none"]
    /\ mem = Fresh
    /\ run = [pc |-> "read"] /\ pass = NoPass /\ dl = NoDownload
    /\ launching = {} /\ installing = {} /\ deserted = FALSE /\ tidy = TRUE
    /\ budget = [releases |-> MaxReleases, restarts |-> MaxRestarts, faults |-> MaxFaults]

-----------------------------------------------------------------------------
(* Helpers.                                                                 *)

Empty == [v \in Versions |-> "none"]

Fault ==
    /\ budget.faults > 0
    /\ budget' = [budget EXCEPT !.faults = @ - 1]

\* A save that fails is logged and no more.
save(d) ==
    \/ db' = d /\ UNCHANGED budget
    \/ db' = db /\ Fault
saved == budget' = budget

\* The files outside keep are removed, or all but one of them.
Remove(keep) ==
    LET without(kept) == [v \in Versions |-> IF v \in kept THEN files[v] ELSE "none"]
    IN  \/ files' = without(keep) /\ UNCHANGED budget
        \/ Fault /\ \E v \in Versions : files' = without(keep \cup {v})

\* Mutant: only the launch is forgotten.
ForgetLaunch(d) == [d EXCEPT !.installAt = FALSE]

forget(d) == [d EXCEPT !.ready = None, !.installAt = FALSE]

\* The state shown once the staged installer is discarded.
Unstaged(state) == IF state \in {"ready", "installing"} THEN "idle" ELSE state

\* discardStaged, first its files and then, as a step of its own, what is
\* recorded of them: see ReconcileForgets and Discarded.
discardStaged ==
    /\ Remove({})
    /\ tidy' = FALSE
    /\ UNCHANGED <<db, mem>>

-----------------------------------------------------------------------------
(* reconcile, which holds no lock: it reads, hashes the file it read of, and  *)
(* acts on both; an API request may run a pass between.                       *)

ReconcileRead ==
    /\ run.pc = "read"
    /\ mem' = [mem EXCEPT !.state = "idle"]
    /\ run' = [ pc |-> "hash", seen |->
                  [latest |-> db.latest, ready |-> db.ready, installAt |-> db.installAt] ]
    /\ UNCHANGED <<world, db, files, pass, dl, launching, tidy, budget>>

\* The settings cannot be read: the loop starts on what is there.
ReconcileFails ==
    /\ run.pc = "read" /\ Fault
    /\ run' = [pc |-> "unchecked"]
    /\ UNCHANGED <<world, db, files, mem, pass, dl, launching, tidy>>

ReconcileHash ==
    /\ run.pc = "hash"
    /\ LET file == IF run.seen.ready = None THEN "none" ELSE files[run.seen.ready]
       IN  /\ run' = [pc |-> "act", seen |-> run.seen, file |-> file]
           /\ tidy' = (tidy \/ (pass = NoPass /\ run.seen.ready = db.ready /\ file = "good"))
    /\ UNCHANGED <<world, db, files, mem, pass, dl, launching, budget>>

\* Nothing was staged: offerIfNewer.
NothingStaged ==
    /\ run.pc = "act" /\ run.seen.ready = None
    /\ IF run.seen.installAt THEN save(forget(db)) ELSE UNCHANGED <<db, budget>>
    /\ mem' = IF Newer(current, run.seen.latest) THEN [mem EXCEPT !.state = "available"] ELSE mem
    /\ run' = [pc |-> "loop"]
    /\ UNCHANGED <<world, files, pass, dl, launching, tidy>>

\* Mutant: only an installer older than the running version is stale.
OutdatedOnly(seen) == seen.ready < current

\* Applied, or overtaken.
Applied(seen) == ~Newer(current, seen.ready)

\* Applied, gone, or no longer what was checked.
StagedIsStale ==
    /\ run.pc = "act" /\ run.seen.ready # None
    /\ Applied(run.seen) \/ run.file # "good"
    /\ discardStaged
    /\ run' = [pc |-> "forget", emptied |-> files' = Empty]
    /\ UNCHANGED <<world, pass, dl, launching>>

ReconcileForgets ==
    /\ run.pc = "forget"
    /\ save(forget(db))
    /\ mem' = [mem EXCEPT !.state = Unstaged(@)]
    /\ tidy' = (tidy \/ (pass = NoPass /\ saved))
    /\ run' = [pc |-> IF run.emptied THEN "loop" ELSE "unchecked"]
    /\ UNCHANGED <<world, files, pass, dl, launching>>

StagedIsReady ==
    /\ run.pc = "act" /\ run.seen.ready # None
    /\ ~Applied(run.seen) /\ run.file = "good"
    /\ mem' = [mem EXCEPT !.state = "ready"]
    /\ IF run.seen.installAt THEN save([db EXCEPT !.installAt = FALSE])
       ELSE UNCHANGED <<db, budget>>
    /\ run' = [pc |-> "loop"]
    /\ UNCHANGED <<world, files, pass, dl, launching, tidy>>

-----------------------------------------------------------------------------
(* Once, under passMu.                                                      *)

\* Frees passMu; a download that was waiting for this pass goes on.
\* answered is history: whether GitHub could be asked.
Leave(answered) ==
    /\ pass' = NoPass
    /\ dl' = IF pass.mine THEN [pc |-> "checked", answered |-> answered] ELSE dl
EndPass == Leave(TRUE)

\* Run's loop or POST /api/update/check; or Download, which knows no release.
BeginPass(mine) ==
    /\ pass = NoPass
    /\ IF mine THEN dl.pc = "once" ELSE TRUE
    /\ pass' = [pc |-> "ask", etag |-> db.etag, ready |-> db.ready, mine |-> mine]
    /\ dl' = IF mine THEN [pc |-> "checking"] ELSE dl
    /\ UNCHANGED <<world, db, files, mem, run, launching, tidy, budget>>

\* 304, or nothing published.
NoNews ==
    /\ pass.pc = "ask" /\ server \in {None, pass.etag}
    /\ save([db EXCEPT !.etag = server])
    /\ EndPass
    /\ UNCHANGED <<world, files, mem, run, launching, tidy>>

CheckFails ==
    /\ pass.pc = "ask"
    /\ Leave(FALSE)
    /\ UNCHANGED <<world, db, files, mem, run, launching, tidy, budget>>

\* Mutant: the release is recorded only once its installer is staged.
EtagOnly(d, v) == [d EXCEPT !.etag = v]

Record(d, v) == [d EXCEPT !.etag = v, !.latest = v]

\* 200: a release not seen before, or the same one in full.
News ==
    /\ pass.pc = "ask" /\ server # None
    /\ save(Record(db, server))
    /\ mem' = [mem EXCEPT !.rel = server]
    /\ pass' = [pc |-> "decide", rel |-> server, ready |-> pass.ready, mine |-> pass.mine]
    /\ UNCHANGED <<world, files, run, dl, launching, tidy>>

\* The latest release is not newer: whatever was staged goes.
NotNewer ==
    /\ pass.pc = "decide" /\ ~Newer(current, pass.rel)
    /\ \/ /\ pass.ready # None
          /\ discardStaged
          /\ pass' = [pc |-> "forget", shown |-> "idle", mine |-> pass.mine]
          /\ UNCHANGED dl
       \/ /\ pass.ready = None
          /\ mem' = [mem EXCEPT !.state = "idle"]
          /\ EndPass
          /\ UNCHANGED <<db, files, tidy, budget>>
    /\ UNCHANGED <<world, run, launching>>

\* The second half of a discard under passMu, by NotNewer or by Install.
Discarded ==
    /\ pass.pc = "forget"
    /\ save(forget(db))
    /\ mem' = [mem EXCEPT !.state = IF pass.shown = "unstaged" THEN Unstaged(@) ELSE pass.shown]
    /\ tidy' = (tidy \/ saved)
    /\ EndPass
    /\ UNCHANGED <<world, files, run, launching>>

AlreadyStaged == pass.ready = pass.rel /\ mem.state = "ready"

\* Downloading on its own is switched on or not.
Offer ==
    /\ pass.pc = "decide" /\ Newer(current, pass.rel)
    /\ \/ EndPass
       \/ /\ ~AlreadyStaged
          /\ pass' = [pc |-> "stage", rel |-> pass.rel, mine |-> pass.mine]
          /\ UNCHANGED dl
    /\ mem' = IF AlreadyStaged THEN mem ELSE [mem EXCEPT !.state = "available"]
    /\ UNCHANGED <<world, db, files, run, launching, tidy, budget>>

-----------------------------------------------------------------------------
(* stage                                                                   *)

\* The assets, the directory and the checksum are there.
StageBegin ==
    /\ pass.pc = "stage"
    /\ pass' = [pass EXCEPT !.pc = "get"]
    /\ mem' = [mem EXCEPT !.state = "downloading"]
    /\ UNCHANGED <<world, db, files, run, dl, launching, tidy, budget>>

\* The partial file is hashed, then renamed.
Fetched ==
    /\ pass.pc = "get"
    /\ pass' = [pass EXCEPT !.pc = "staged"]
    /\ files' = [files EXCEPT ![pass.rel] = "good"]
    /\ UNCHANGED <<world, db, mem, run, dl, launching, tidy, budget>>

\* Mutant: a cancelled download leaves the state as it was.
CancelledInPlace(state) == state

AfterCancel(state) == "available"

StageEnds ==
    /\ pass.pc \in {"stage", "get"}
    /\ \/ mem' = [mem EXCEPT !.state = "error"]
       \/ pass.pc = "get" /\ mem' = [mem EXCEPT !.state = AfterCancel(@)]
    /\ EndPass
    /\ UNCHANGED <<world, db, files, run, launching, tidy, budget>>

\* Recorded.  A save that fails leaves the record on the file the sweep takes.
Staged ==
    /\ pass.pc = "staged"
    /\ save([db EXCEPT !.ready = pass.rel])
    /\ tidy' = (tidy /\ saved)
    /\ mem' = [mem EXCEPT !.state = "ready"]
    /\ pass' = [pass EXCEPT !.pc = "sweep"]
    /\ UNCHANGED <<world, files, run, dl, launching>>

sweep ==
    /\ pass.pc = "sweep"
    /\ Remove({pass.rel})
    /\ EndPass
    /\ UNCHANGED <<world, db, mem, run, launching, tidy>>

-----------------------------------------------------------------------------
(* Download.  The release is read outside passMu.                            *)

Decided(rel) ==
    IF rel # None /\ Newer(current, rel) THEN [pc |-> "lock", rel |-> rel] ELSE NoDownload

\* "once" goes on without a pass when checking is off or the settings cannot be
\* read.
Download ==
    /\ \/ /\ dl.pc = "idle"
          /\ dl' = IF mem.rel = None THEN [pc |-> "once"] ELSE Decided(mem.rel)
       \/ dl.pc = "checked" /\ dl' = Decided(mem.rel)
       \/ dl.pc = "once" /\ pass = NoPass /\ dl' = Decided(mem.rel)
    /\ UNCHANGED <<world, db, files, mem, run, pass, launching, tidy, budget>>

DownloadStage ==
    /\ dl.pc = "lock" /\ pass = NoPass
    /\ pass' = [pc |-> "stage", rel |-> dl.rel, mine |-> FALSE]
    /\ dl' = NoDownload
    /\ UNCHANGED <<world, db, files, mem, run, launching, tidy, budget>>

-----------------------------------------------------------------------------
(* Install, under passMu; the installer is started two seconds later.         *)

InstallStaged(r) ==
    /\ files[db.ready] = "good"
    /\ save([db EXCEPT !.installAt = TRUE])
    /\ mem' = [mem EXCEPT !.state = "installing"]
    /\ launching' = launching \cup
          {[req |-> r, version |-> db.ready, settled |-> run.pc = "loop"]}
    /\ tidy' = TRUE
    /\ UNCHANGED <<files, pass>>

InstallRefused ==
    /\ files[db.ready] # "good"
    /\ discardStaged
    /\ pass' = [ pc |-> "forget", mine |-> FALSE,
                 shown |-> IF files[db.ready] = "none" THEN "unstaged" ELSE "error" ]
    /\ UNCHANGED launching

Install(r) ==
    /\ pass = NoPass /\ db.ready # None
    /\ \A p \in launching : p.req # r
    /\ InstallStaged(r) \/ InstallRefused
    /\ UNCHANGED <<world, run, dl>>

Launch(p) ==
    /\ launching' = launching \ {p}
    /\ \/ /\ files[p.version] # "none"
          /\ installing' = installing \cup {p.version}
          /\ UNCHANGED <<db, mem, budget>>
       \/ /\ mem' = [mem EXCEPT !.state = "error"]
          /\ save([db EXCEPT !.installAt = FALSE])
          /\ UNCHANGED installing
    /\ UNCHANGED <<current, server, deserted, files, run, pass, dl, tidy>>

-----------------------------------------------------------------------------
(* The world outside.                                                       *)

Restarts(version) ==
    /\ current' = version
    /\ mem' = Fresh
    /\ run' = [pc |-> "read"] /\ pass' = NoPass /\ dl' = NoDownload /\ launching' = {}
    /\ deserted' = FALSE
    /\ UNCHANGED <<server, db, files, tidy>>

\* The installer stops the service and starts what it has installed, or fails
\* and starts what was there; or it ends before it has stopped anything.
InstallerEnds(v) ==
    /\ installing' = installing \ {v}
    /\ \/ Restarts(v) \/ Restarts(current)
       \/ /\ deserted' = TRUE
          /\ UNCHANGED <<current, server, db, files, mem, run, pass, dl, launching, tidy>>
    /\ UNCHANGED budget

\* A crash or a restart, with a newer version put in place by hand or not.
Crash ==
    /\ budget.restarts > 0
    /\ budget' = [budget EXCEPT !.restarts = @ - 1]
    /\ \E v \in Versions : v >= current /\ Restarts(v)
    /\ UNCHANGED installing

Publish ==
    /\ budget.releases > 0
    /\ budget' = [budget EXCEPT !.releases = @ - 1]
    /\ server' \in (Versions \cup {None}) \ {server}
    /\ UNCHANGED <<current, installing, deserted, db, files, mem, run, pass, dl, launching, tidy>>

\* A staged file is removed or changed, at any time but between the check in
\* Install and the start of the installer, which nothing can protect.
Damage ==
    /\ Fault /\ launching = {} /\ installing = {}
    /\ tidy' = FALSE
    /\ \E v \in Versions : files[v] = "good" /\ \E f \in {"none", "bad"} :
          files' = [files EXCEPT ![v] = f]
    /\ UNCHANGED <<world, db, mem, run, pass, dl, launching>>

Reconcile == ReconcileRead \/ ReconcileFails \/ ReconcileHash \/ NothingStaged
             \/ StagedIsStale \/ ReconcileForgets \/ StagedIsReady
Once == NoNews \/ CheckFails \/ News \/ NotNewer \/ Discarded \/ Offer
Stage == StageBegin \/ Fetched \/ StageEnds \/ Staged \/ sweep

Next ==
    \/ Reconcile
    \/ \E mine \in BOOLEAN : BeginPass(mine)
    \/ Once \/ Stage
    \/ Download \/ DownloadStage
    \/ \E r \in Requests : Install(r)
    \/ \E p \in launching : Launch(p)
    \/ \E v \in installing : InstallerEnds(v)
    \/ Crash \/ Publish \/ Damage

Spec == Init /\ [][Next]_vars

-----------------------------------------------------------------------------
\* What the page shows goes on: "downloading" while a pass downloads, and
\* "installing" until the installer has started, failed to start or replaced the
\* process, whatever is cancelled, discarded or restarted meanwhile.  An installer
\* that ends and leaves the service running is named: see InstallingEnds (stage,
\* Install, discardStaged, launchInstaller).
ShownStateIsReal ==
    /\ mem.state = "downloading" => pass.pc \in {"get", "staged"}
    /\ mem.state = "installing" => launching # {} \/ installing # {} \/ deserted

\* "The service is about to be stopped by it, so this state is rarely observed for
\* long": while it is shown there is an installer about to stop the service.
InstallingEnds == mem.state = "installing" => launching # {} \/ installing # {}

\* A release whose ETag is kept is the one that is recorded: the next answer
\* about it is a 304 that carries nothing, so what was not kept is lost (Once).
EtagNamesLatest == db.etag # None => db.latest = db.etag

\* The installer that is recorded is in the staging directory, through sweeps,
\* pulled releases, late downloads, upgrades and crashes.  A discard that a crash
\* or a failed save cuts in two, a failed save in stage and a file damaged can
\* leave a record without its file; the next startup, install or discard that
\* works through has put that right (reconcile, Install, discardStaged, stage).
ReadyIsStaged == tidy /\ db.ready # None => files[db.ready] = "good"

\* An installer that is started is the file that was checked, although it is
\* started outside passMu; and it is for a newer version if it was asked for
\* after a startup that could read the settings and remove what it had to,
\* whatever failed, crashed or was installed by hand before and since: Install
\* itself does not compare versions (reconcile, Once, stage, Install).
OnlyNewerInstalled ==
    [][ \A p \in launching \ launching' : p.version \in installing' \ installing =>
           /\ files[p.version] = "good"
           /\ p.settled => Newer(current, p.version) ]_vars

\* A download request that had to check first, and could, knows the release
\* that is published (Download: "so it works on a machine that has just started").
DownloadFindsRelease ==
    dl.pc = "checked" /\ dl.answered /\ db.etag = server /\ Newer(current, server)
       => mem.rel = server
=============================================================================
