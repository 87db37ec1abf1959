------------------------- MODULE UpdateChecker_proofs -------------------------
(***************************************************************************)
(* Proofs about module UpdateChecker, for every number of versions, of       *)
(* requests, and of releases, restarts and faults.                          *)
(***************************************************************************)
EXTENDS UpdateChecker, TLAPS

-----------------------------------------------------------------------------
(* The rows of the settings table.                                          *)

\* discardStaged keeps the ETag and the release it stands for (forget).
LEMMA ForgetKeepsEtag ==
    ASSUME NEW d \in Settings
    PROVE  /\ forget(d) \in Settings /\ forget(d).ready = None
           /\ forget(d).etag = d.etag /\ forget(d).latest = d.latest
<1> DEFINE a == [d EXCEPT !.ready = None]
<1>1. a \in Settings /\ a.etag = d.etag /\ a.latest = d.latest /\ a.ready = None
  BY DEF Settings
<1>2. forget(d) = [a EXCEPT !.installAt = FALSE]
  BY DEF forget
<1> HIDE DEF a
<1>3. QED
  BY <1>1, <1>2 DEF Settings

\* The launch of an installer changes nothing else (Install, Launch).
LEMMA InstallAtKeeps ==
    ASSUME NEW d \in Settings
    PROVE  \A b \in BOOLEAN :
              /\ [d EXCEPT !.installAt = b] \in Settings
              /\ [d EXCEPT !.installAt = b].etag = d.etag
              /\ [d EXCEPT !.installAt = b].latest = d.latest
              /\ [d EXCEPT !.installAt = b].ready = d.ready
BY DEF Settings

\* Recording a staged installer touches neither the ETag nor the release (stage).
LEMMA ReadyKeepsEtag ==
    ASSUME NEW d \in Settings, NEW v \in Versions \cup {None}
    PROVE  /\ [d EXCEPT !.ready = v] \in Settings
           /\ [d EXCEPT !.ready = v].etag = d.etag
           /\ [d EXCEPT !.ready = v].latest = d.latest
           /\ [d EXCEPT !.ready = v].ready = v
BY DEF Settings

\* An answer without a release changes the ETag alone (Once, NoNews).
LEMMA EtagUpdate ==
    ASSUME NEW d \in Settings, NEW v \in Versions \cup {None}
    PROVE  /\ [d EXCEPT !.etag = v] \in Settings
           /\ [d EXCEPT !.etag = v].etag = v
           /\ [d EXCEPT !.etag = v].latest = d.latest
           /\ [d EXCEPT !.etag = v].ready = d.ready
BY DEF Settings

\* An answer with a release keeps both of them, and they agree (Once, News).
LEMMA RecordNames ==
    ASSUME NEW d \in Settings, NEW v \in Versions
    PROVE  /\ Record(d, v) \in Settings
           /\ Record(d, v).etag = v /\ Record(d, v).latest = v
           /\ Record(d, v).ready = d.ready
<1> DEFINE a == [d EXCEPT !.etag = v]
<1>1. a \in Settings /\ a.etag = v /\ a.ready = d.ready
  BY DEF Settings
<1>2. Record(d, v) = [a EXCEPT !.latest = v]
  BY DEF Record
<1> HIDE DEF a
<1>3. QED
  BY <1>1, <1>2 DEF Settings

\* A fault is taken from what is left of them.
LEMMA FaultType ==
    ASSUME TypeOK, Fault \/ UNCHANGED budget
    PROVE  budget' \in Budget
BY BoundsAssumption DEF TypeOK, Fault, Budget

\* A save leaves what it was given or what was there.
LEMMA SaveType ==
    ASSUME TypeOK, NEW d \in Settings, save(d)
    PROVE  db' \in {d, db} /\ db' \in Settings /\ budget' \in Budget
BY FaultType DEF save, TypeOK

\* A removal leaves a file as it was, or none, and the files to be kept alone.
LEMMA RemoveType ==
    ASSUME TypeOK, NEW keep \in SUBSET Versions, Remove(keep)
    PROVE  /\ files' \in [Versions -> FileStates] /\ budget' \in Budget
           /\ \A v \in Versions : files'[v] \in {files[v], "none"}
           /\ \A v \in keep : files'[v] = files[v]
<1> DEFINE without(kept) == [v \in Versions |-> IF v \in kept THEN files[v] ELSE "none"]
<1>1. ASSUME NEW kept, keep \subseteq kept
      PROVE  /\ without(kept) \in [Versions -> FileStates]
             /\ \A v \in Versions : without(kept)[v] \in {files[v], "none"}
             /\ \A v \in keep : without(kept)[v] = files[v]
  BY <1>1 DEF TypeOK, FileStates
<1>2. \/ files' = without(keep) /\ UNCHANGED budget
      \/ Fault /\ \E v \in Versions : files' = without(keep \cup {v})
  BY DEF Remove
<1>3. budget' \in Budget
  BY <1>2, FaultType
<1> HIDE DEF without
<1>4. CASE files' = without(keep)
  BY <1>1, <1>3, <1>4
<1>5. ASSUME NEW v \in Versions, files' = without(keep \cup {v})
      PROVE  /\ files' \in [Versions -> FileStates]
             /\ \A w \in Versions : files'[w] \in {files[w], "none"}
             /\ \A w \in keep : files'[w] = files[w]
  BY <1>1, <1>5
<1>6. QED
  BY <1>2, <1>3, <1>4, <1>5

\* The places of a pass.
LEMMA PassTypes ==
    ASSUME pass \in Asking \cup Deciding \cup Staging \cup Discard \cup {NoPass}
    PROVE  /\ pass.pc = "ask" => pass \in Asking
           /\ pass.pc = "decide" => pass \in Deciding
           /\ pass.pc \in {"stage", "get", "staged", "sweep"} => pass \in Staging
           /\ pass.pc = "forget" => pass \in Discard
BY DEF Asking, Deciding, Staging, Discard, NoPass

\* A pass that downloads goes on with its release.
LEMMA StagingAdvances ==
    ASSUME NEW p \in Staging
    PROVE  \A c \in {"stage", "get", "staged", "sweep"} :
              /\ [p EXCEPT !.pc = c] \in Staging /\ [p EXCEPT !.pc = c].pc = c
              /\ [p EXCEPT !.pc = c].rel = p.rel
BY DEF Staging

\* A pass that ends leaves nothing behind but an answer to the download request.
LEMMA LeaveType ==
    ASSUME TypeOK, NEW answered \in BOOLEAN, Leave(answered)
    PROVE  /\ pass' = NoPass /\ dl' \in Request
           /\ dl'.pc = "lock" => dl' = dl
BY DEF TypeOK, Leave, Request

-----------------------------------------------------------------------------
(* Types                                                                    *)

\* The first state of a new process has the types.
LEMMA InitType == Init => TypeOK
<1> SUFFICES ASSUME Init
             PROVE  TypeOK
  OBVIOUS
<1>1. budget \in Budget
  BY BoundsAssumption DEF Init, Budget
<1>2. current \in Versions /\ server \in Versions \cup {None} /\ db \in Settings
  BY VersionAssumption DEF Init, Versions, None, Settings
<1>3. files \in [Versions -> FileStates] /\ mem \in [rel : Versions \cup {None}, state : State]
  BY DEF Init, FileStates, Fresh, State
<1>4. run \in Startup /\ dl \in Request /\ dl.pc # "lock"
  BY DEF Init, Startup, Request, NoDownload
<1>5. QED
  BY <1>1, <1>2, <1>3, <1>4 DEF Init, TypeOK

\* Startup keeps the types.
LEMMA ReconcileType == TypeOK /\ Reconcile => TypeOK'
<1> SUFFICES ASSUME TypeOK, Reconcile
             PROVE  TypeOK'
  OBVIOUS
<1>0. db \in Settings /\ mem \in [rel : Versions \cup {None}, state : State]
  BY DEF TypeOK
<1>1. CASE ReconcileRead
  <2>1. run' \in Startup
    BY <1>0, <1>1 DEF ReconcileRead, Startup, Settings, Recorded
  <2>2. QED
    BY <1>1, <2>1 DEF TypeOK, ReconcileRead, State, world
<1>2. CASE ReconcileFails
  BY <1>2, FaultType DEF TypeOK, ReconcileFails, Startup, world
<1>3. CASE ReconcileHash
  <2>1. run \in [pc : {"hash"}, seen : Recorded]
    BY <1>3 DEF TypeOK, ReconcileHash, Startup
  <2> DEFINE f == IF run.seen.ready = None THEN "none" ELSE files[run.seen.ready]
  <2>2. f \in FileStates
    BY <2>1 DEF TypeOK, Recorded, FileStates
  <2>3. run' = [pc |-> "act", seen |-> run.seen, file |-> f]
    BY <1>3 DEF ReconcileHash
  <2>4. tidy' \in BOOLEAN
    BY <1>3 DEF ReconcileHash, TypeOK
  <2> HIDE DEF f
  <2>5. run' \in Startup
    BY <2>1, <2>2, <2>3 DEF Startup
  <2>6. QED
    BY <1>3, <2>4, <2>5 DEF TypeOK, ReconcileHash, world
<1>4. CASE NothingStaged
  <2>1. db' \in Settings /\ budget' \in Budget
    BY <1>0, <1>4, ForgetKeepsEtag, SaveType DEF NothingStaged, TypeOK
  <2>2. QED
    BY <1>4, <2>1 DEF TypeOK, NothingStaged, Startup, State, world
<1>5. CASE StagedIsStale
  <2>1. files' \in [Versions -> FileStates] /\ budget' \in Budget
    BY <1>5, RemoveType DEF StagedIsStale, discardStaged
  <2>2. run' \in Startup
    BY <1>5 DEF StagedIsStale, Startup
  <2>3. QED
    BY <1>5, <2>1, <2>2 DEF TypeOK, StagedIsStale, discardStaged, world
<1>6. CASE ReconcileForgets
  <2>1. db' \in Settings /\ budget' \in Budget
    BY <1>0, <1>6, ForgetKeepsEtag, SaveType DEF ReconcileForgets
  <2>2. tidy' \in BOOLEAN /\ mem' \in [rel : Versions \cup {None}, state : State]
    BY <1>0, <1>6 DEF ReconcileForgets, Unstaged, State, TypeOK, saved
  <2>3. run' \in Startup
    BY <1>6 DEF ReconcileForgets, Startup
  <2>4. QED
    BY <1>6, <2>1, <2>2, <2>3 DEF TypeOK, ReconcileForgets, world
<1>7. CASE StagedIsReady
  <2>1. db' \in Settings /\ budget' \in Budget
    BY <1>0, <1>7, InstallAtKeeps, SaveType DEF StagedIsReady, TypeOK
  <2>2. QED
    BY <1>7, <2>1 DEF TypeOK, StagedIsReady, Startup, State, world
<1>8. QED
  BY <1>1, <1>2, <1>3, <1>4, <1>5, <1>6, <1>7 DEF Reconcile

\* So does a pass.
LEMMA PassType == TypeOK /\ (Once \/ Stage) => TypeOK'
<1> SUFFICES ASSUME TypeOK, Once \/ Stage
             PROVE  TypeOK'
  OBVIOUS
<1>0. /\ db \in Settings /\ mem \in [rel : Versions \cup {None}, state : State]
      /\ pass \in Asking \cup Deciding \cup Staging \cup Discard \cup {NoPass}
      /\ server \in Versions \cup {None} /\ dl \in Request
  BY DEF TypeOK
<1>1. CASE NoNews
  <2>1. db' \in Settings /\ budget' \in Budget
    BY <1>0, <1>1, EtagUpdate, SaveType DEF NoNews
  <2>2. QED
    BY <1>1, <2>1, LeaveType DEF TypeOK, NoNews, EndPass, world
<1>2. CASE CheckFails
  BY <1>2, LeaveType DEF TypeOK, CheckFails, world
<1>3. CASE News
  <2>1. server \in Versions /\ pass \in Asking
    BY <1>0, <1>3, PassTypes DEF News
  <2>2. db' \in Settings /\ budget' \in Budget
    BY <1>0, <1>3, <2>1, RecordNames, SaveType DEF News
  <2>3. pass' \in Deciding
    BY <1>3, <2>1 DEF News, Asking, Deciding
  <2>4. mem' \in [rel : Versions \cup {None}, state : State]
    BY <1>0, <1>3, <2>1 DEF News
  <2>5. QED
    BY <1>3, <2>2, <2>3, <2>4 DEF TypeOK, News, world
<1>4. CASE NotNewer
  <2>1. pass \in Deciding
    BY <1>0, <1>4, PassTypes DEF NotNewer
  <2>2. CASE discardStaged /\ UNCHANGED dl
              /\ pass' = [pc |-> "forget", shown |-> "idle", mine |-> pass.mine]
    <3>1. pass' \in Discard
      BY <2>1, <2>2 DEF Deciding, Discard
    <3>2. files' \in [Versions -> FileStates] /\ budget' \in Budget
      BY <2>2, RemoveType DEF discardStaged
    <3>3. QED
      BY <1>4, <2>2, <3>1, <3>2 DEF TypeOK, NotNewer, discardStaged, world
  <2>3. CASE EndPass /\ mem' = [mem EXCEPT !.state = "idle"]
              /\ UNCHANGED <<db, files, tidy, budget>>
    BY <1>4, <2>3, LeaveType DEF TypeOK, NotNewer, EndPass, State, world
  <2>4. QED
    BY <1>4, <2>2, <2>3 DEF NotNewer
<1>5. CASE Discarded
  <2>1. pass \in Discard
    BY <1>0, <1>5, PassTypes DEF Discarded
  <2>2. db' \in Settings /\ budget' \in Budget
    BY <1>0, <1>5, ForgetKeepsEtag, SaveType DEF Discarded
  <2>3. mem' \in [rel : Versions \cup {None}, state : State] /\ tidy' \in BOOLEAN
    BY <1>0, <1>5, <2>1 DEF Discarded, Discard, Unstaged, State, TypeOK, saved
  <2>4. QED
    BY <1>5, <2>2, <2>3, LeaveType DEF TypeOK, Discarded, EndPass, world
<1>6. CASE Offer
  <2>1. pass \in Deciding
    BY <1>0, <1>6, PassTypes DEF Offer
  <2>2. mem' \in [rel : Versions \cup {None}, state : State]
    BY <1>0, <1>6 DEF Offer, State
  <2>3. CASE EndPass
    BY <1>6, <2>2, <2>3, LeaveType DEF TypeOK, Offer, EndPass, world
  <2>4. CASE pass' = [pc |-> "stage", rel |-> pass.rel, mine |-> pass.mine] /\ UNCHANGED dl
    <3>1. pass' \in Staging
      BY <2>1, <2>4 DEF Deciding, Staging
    <3>2. QED
      BY <1>6, <2>2, <2>4, <3>1 DEF TypeOK, Offer, world
  <2>5. QED
    BY <1>6, <2>3, <2>4 DEF Offer
<1>7. CASE StageBegin
  <2>1. pass' \in Staging
    BY <1>0, <1>7, PassTypes, StagingAdvances DEF StageBegin
  <2>2. QED
    BY <1>7, <2>1 DEF TypeOK, StageBegin, State, world
<1>8. CASE Fetched
  <2>1. pass' \in Staging
    BY <1>0, <1>8, PassTypes, StagingAdvances DEF Fetched
  <2>2. files' \in [Versions -> FileStates]
    BY <1>8 DEF TypeOK, Fetched, FileStates
  <2>3. QED
    BY <1>8, <2>1, <2>2 DEF TypeOK, Fetched, world
<1>9. CASE StageEnds
  <2>1. mem' \in [rel : Versions \cup {None}, state : State]
    BY <1>0, <1>9 DEF StageEnds, State, AfterCancel
  <2>2. QED
    BY <1>9, <2>1, LeaveType DEF TypeOK, StageEnds, EndPass, world
<1>10. CASE Staged
  <2>1. pass \in Staging
    BY <1>0, <1>10, PassTypes DEF Staged
  <2>2. pass' \in Staging /\ pass.rel \in Versions
    BY <1>10, <2>1, StagingAdvances DEF Staged, Staging
  <2>3. db' \in Settings /\ budget' \in Budget
    BY <1>0, <1>10, <2>2, ReadyKeepsEtag, SaveType DEF Staged
  <2>4. mem' \in [rel : Versions \cup {None}, state : State] /\ tidy' \in BOOLEAN
    BY <1>0, <1>10 DEF Staged, State, TypeOK, saved
  <2>5. QED
    BY <1>10, <2>2, <2>3, <2>4 DEF TypeOK, Staged, world
<1>11. CASE sweep
  <2>1. {pass.rel} \in SUBSET Versions
    BY <1>0, <1>11, PassTypes DEF sweep, Staging
  <2>2. files' \in [Versions -> FileStates] /\ budget' \in Budget
    BY <1>11, <2>1, RemoveType DEF sweep
  <2>3. QED
    BY <1>11, <2>2, LeaveType DEF TypeOK, sweep, EndPass, world
<1>12. QED
  BY <1>1, <1>2, <1>3, <1>4, <1>5, <1>6, <1>7, <1>8, <1>9, <1>10, <1>11 DEF Once, Stage

\* The requests of the page and the world outside keep them too.
LEMMA StepType == TypeOK /\ [Next]_vars => TypeOK'
<1> SUFFICES ASSUME TypeOK, [Next]_vars
             PROVE  TypeOK'
  OBVIOUS
<1>0. /\ db \in Settings /\ mem \in [rel : Versions \cup {None}, state : State]
      /\ dl \in Request
  BY DEF TypeOK
<1>1. CASE Reconcile
  BY <1>1, ReconcileType
<1>2. CASE Once \/ Stage
  BY <1>2, PassType
<1>3. ASSUME NEW mine \in BOOLEAN, BeginPass(mine)
      PROVE  TypeOK'
  <2>1. pass' \in Asking
    BY <1>0, <1>3 DEF BeginPass, Asking, Settings
  <2>2. dl' \in Request /\ (dl'.pc = "lock" => dl' = dl)
    BY <1>0, <1>3 DEF BeginPass, Request
  <2>3. QED
    BY <1>3, <2>1, <2>2 DEF TypeOK, BeginPass, world
<1>4. CASE Download
  <2>1. dl' \in Request /\ (dl'.pc = "lock" => Newer(current, dl'.rel))
    BY <1>0, <1>4 DEF Download, Decided, NoDownload, Request, None
  <2>2. QED
    BY <1>4, <2>1 DEF TypeOK, Download, world
<1>5. CASE DownloadStage
  <2>1. pass' \in Staging
    BY <1>0, <1>5 DEF DownloadStage, Request, Staging
  <2>2. QED
    BY <1>5, <2>1 DEF TypeOK, DownloadStage, NoDownload, Request, world
<1>6. ASSUME NEW r \in Requests, Install(r)
      PROVE  TypeOK'
  <2>1. db.ready \in Versions
    BY <1>0, <1>6 DEF Install, Settings
  <2>2. CASE InstallStaged(r)
    <3>1. db' \in Settings /\ budget' \in Budget
      BY <1>0, <2>2, InstallAtKeeps, SaveType DEF InstallStaged
    <3>2. launching' \subseteq Order
      <4> DEFINE p == [req |-> r, version |-> db.ready, settled |-> run.pc = "loop"]
      <4>1. p \in Order
        BY <2>1 DEF Order
      <4>2. launching' = launching \cup {p}
        BY <2>2 DEF InstallStaged
      <4> HIDE DEF p
      <4>3. QED
        BY <4>1, <4>2 DEF TypeOK
    <3>3. QED
      BY <1>6, <2>2, <3>1, <3>2 DEF TypeOK, Install, InstallStaged, State, world
  <2>3. CASE InstallRefused
    <3>1. pass' \in Discard
      BY <2>3 DEF InstallRefused, Discard
    <3>2. files' \in [Versions -> FileStates] /\ budget' \in Budget
      BY <2>3, RemoveType DEF InstallRefused, discardStaged
    <3>3. QED
      BY <1>6, <2>3, <3>1, <3>2 DEF TypeOK, Install, InstallRefused, discardStaged, world
  <2>4. QED
    BY <1>6, <2>2, <2>3 DEF Install
<1>7. ASSUME NEW p \in launching, Launch(p)
      PROVE  TypeOK'
  <2>1. p \in Order
    BY DEF TypeOK
  <2>2. db' \in Settings /\ budget' \in Budget
    BY <1>0, <1>7, InstallAtKeeps, SaveType DEF Launch, TypeOK
  <2>3. mem' \in [rel : Versions \cup {None}, state : State]
    BY <1>0, <1>7 DEF Launch, State
  <2>4. launching' \subseteq Order /\ installing' \subseteq Versions
    BY <1>7, <2>1 DEF TypeOK, Launch, Order
  <2>5. QED
    BY <1>7, <2>2, <2>3, <2>4 DEF TypeOK, Launch
<1>8. ASSUME NEW v \in Versions, Restarts(v), installing' \subseteq Versions, budget' \in Budget
      PROVE  TypeOK'
  BY <1>8 DEF TypeOK, Restarts, Fresh, Startup, NoDownload, Request, State, None, NoPass
<1>9. ASSUME NEW v \in installing, InstallerEnds(v)
      PROVE  TypeOK'
  <2>1. /\ v \in Versions /\ current \in Versions /\ installing' \subseteq Versions
        /\ budget' \in Budget
    BY <1>9 DEF TypeOK, InstallerEnds
  <2>2. CASE Restarts(v) \/ Restarts(current)
    BY <1>8, <2>1, <2>2
  <2>3. CASE deserted' = TRUE
              /\ UNCHANGED <<current, server, db, files, mem, run, pass, dl, launching, tidy>>
    BY <1>9, <2>1, <2>3 DEF TypeOK
  <2>4. QED
    BY <1>9, <2>2, <2>3 DEF InstallerEnds
<1>10. CASE Crash
  <2>1. PICK v \in Versions : Restarts(v)
    BY <1>10 DEF Crash
  <2>2. budget' \in Budget /\ installing' \subseteq Versions
    BY <1>10, BoundsAssumption DEF TypeOK, Crash, Budget
  <2>3. QED
    BY <1>8, <2>1, <2>2
<1>11. CASE Publish
  <2>1. budget' \in Budget
    BY <1>11, BoundsAssumption DEF TypeOK, Publish, Budget
  <2>2. QED
    BY <1>11, <2>1 DEF TypeOK, Publish
<1>12. CASE Damage
  <2>1. files' \in [Versions -> FileStates]
    BY <1>12 DEF TypeOK, Damage, FileStates
  <2>2. budget' \in Budget
    BY <1>12, FaultType DEF Damage
  <2>3. QED
    BY <1>12, <2>1, <2>2 DEF TypeOK, Damage, world
<1>13. CASE UNCHANGED vars
  BY <1>13 DEF TypeOK, vars, world
<1>14. QED
  BY <1>1, <1>2, <1>3, <1>4, <1>5, <1>6, <1>7, <1>9, <1>10, <1>11, <1>12, <1>13 DEF Next

\* Every variable of the update checker keeps its type.
THEOREM TypeCorrect == Spec => []TypeOK
<1>1. Init => TypeOK
  BY InitType
<1>2. TypeOK /\ [Next]_vars => TypeOK'
  BY StepType
<1>3. QED
  BY <1>1, <1>2, PTL DEF Spec

-----------------------------------------------------------------------------
(* The ETag.                                                                *)

\* While a pass waits for GitHub nobody else changes the ETag it has read: passMu
\* keeps other passes out, and what runs beside it leaves the ETag alone.
AskedWithEtag == pass.pc = "ask" => pass.etag = db.etag

EtagInv == EtagNamesLatest /\ AskedWithEtag

\* Nothing is kept at first, and nothing asked.
LEMMA InitEtag == Init => EtagInv
BY DEF Init, EtagInv, EtagNamesLatest, AskedWithEtag, NoPass, None

\* Steps that leave the ETag, the release and the pass alone.
LEMMA EtagStutters ==
    ASSUME EtagInv, db'.etag = db.etag, db'.latest = db.latest,
           pass'.pc = "ask" => pass' = pass
    PROVE  EtagInv'
BY DEF EtagInv, EtagNamesLatest, AskedWithEtag

\* A save of something else, done or failed.
LEMMA SaveKeepsEtag ==
    ASSUME TypeOK, NEW d \in Settings, d.etag = db.etag, d.latest = db.latest, save(d)
    PROVE  db'.etag = db.etag /\ db'.latest = db.latest
BY SaveType

\* Only News and NoNews touch the ETag, and both leave it on the recorded release.
LEMMA StepEtag == TypeOK /\ EtagInv /\ [Next]_vars => EtagInv'
<1> SUFFICES ASSUME TypeOK, EtagInv, [Next]_vars
             PROVE  EtagInv'
  OBVIOUS
<1>0. /\ db \in Settings
      /\ pass \in Asking \cup Deciding \cup Staging \cup Discard \cup {NoPass}
  BY DEF TypeOK
<1>1. CASE Reconcile
  <2>1. db'.etag = db.etag /\ db'.latest = db.latest
    <3>1. CASE ReconcileRead \/ ReconcileFails \/ ReconcileHash \/ StagedIsStale
      BY <3>1 DEF ReconcileRead, ReconcileFails, ReconcileHash, StagedIsStale, discardStaged
    <3>2. CASE NothingStaged \/ ReconcileForgets
      BY <1>0, <3>2, ForgetKeepsEtag, SaveKeepsEtag DEF NothingStaged, ReconcileForgets
    <3>3. CASE StagedIsReady
      BY <1>0, <3>3, InstallAtKeeps, SaveKeepsEtag DEF StagedIsReady
    <3>4. QED
      BY <1>1, <3>1, <3>2, <3>3 DEF Reconcile
  <2>2. pass' = pass
    BY <1>1 DEF Reconcile, ReconcileRead, ReconcileFails, ReconcileHash, NothingStaged,
           StagedIsStale, ReconcileForgets, StagedIsReady
  <2>3. QED
    BY <2>1, <2>2, EtagStutters
<1>2. ASSUME NEW mine \in BOOLEAN, BeginPass(mine)
      PROVE  EtagInv'
  BY <1>2 DEF BeginPass, EtagInv, EtagNamesLatest, AskedWithEtag
<1>3. CASE NoNews
  <2>1. /\ server \in {None, db.etag} /\ server \in Versions \cup {None}
        /\ pass' = NoPass
    BY <1>3 DEF NoNews, EndPass, Leave, TypeOK, EtagInv, AskedWithEtag
  <2>2. db' = [db EXCEPT !.etag = server] \/ db' = db
    BY <1>3 DEF NoNews, save
  <2>3. db'.latest = db.latest /\ db'.etag \in {server, db.etag}
    <3>1. /\ [db EXCEPT !.etag = server].etag = server
          /\ [db EXCEPT !.etag = server].latest = db.latest
      BY <1>0, <2>1, EtagUpdate
    <3>2. QED
      BY <2>2, <3>1
  <2>4. QED
    BY <2>1, <2>3 DEF EtagInv, EtagNamesLatest, AskedWithEtag, NoPass
<1>4. CASE News
  <2>1. server \in Versions
    BY <1>4 DEF TypeOK, News
  <2>2. db' = Record(db, server) \/ db' = db
    BY <1>4 DEF News, save
  <2>3. pass'.pc = "decide"
    BY <1>4 DEF News
  <2>4. db'.etag # None => db'.latest = db'.etag
    BY <1>0, <2>1, <2>2, RecordNames DEF EtagInv, EtagNamesLatest
  <2>5. QED
    BY <2>3, <2>4 DEF EtagInv, EtagNamesLatest, AskedWithEtag
<1>5. CASE CheckFails \/ NotNewer \/ Discarded \/ Offer \/ Stage
  <2>1. db'.etag = db.etag /\ db'.latest = db.latest
    <3>1. CASE CheckFails \/ NotNewer \/ Offer \/ StageBegin \/ Fetched \/ StageEnds \/ sweep
      BY <3>1
         DEF CheckFails, NotNewer, discardStaged, Offer, StageBegin, Fetched, StageEnds, sweep
    <3>2. CASE Discarded
      BY <1>0, <3>2, ForgetKeepsEtag, SaveKeepsEtag DEF Discarded
    <3>3. CASE Staged
      <4>1. pass.rel \in Versions
        BY <1>0, <3>3, PassTypes DEF Staged, Staging
      <4>2. QED
        BY <1>0, <3>3, <4>1, ReadyKeepsEtag, SaveKeepsEtag DEF Staged
    <3>4. QED
      BY <1>5, <3>1, <3>2, <3>3 DEF Stage
  <2>2. pass'.pc # "ask"
    <3>1. CASE StageBegin \/ Fetched \/ Staged
      BY <1>0, <3>1, PassTypes, StagingAdvances DEF StageBegin, Fetched, Staged
    <3>2. CASE pass' = NoPass
      BY <3>2 DEF NoPass
    <3>3. CASE NotNewer \/ Offer
      BY <3>2, <3>3 DEF NotNewer, Offer, EndPass, Leave
    <3>4. CASE CheckFails \/ Discarded \/ StageEnds \/ sweep
      BY <3>2, <3>4 DEF CheckFails, Discarded, StageEnds, sweep, EndPass, Leave
    <3>5. QED
      BY <1>5, <3>1, <3>3, <3>4 DEF Stage
  <2>3. QED
    BY <2>1, <2>2, EtagStutters
<1>6. CASE Download \/ DownloadStage
  BY <1>6, EtagStutters DEF Download, DownloadStage
<1>7. ASSUME NEW r \in Requests, Install(r)
      PROVE  EtagInv'
  <2>1. CASE InstallStaged(r)
    BY <1>0, <2>1, InstallAtKeeps, SaveKeepsEtag, EtagStutters DEF InstallStaged
  <2>2. CASE InstallRefused
    BY <2>2, EtagStutters DEF InstallRefused, discardStaged
  <2>3. QED
    BY <1>7, <2>1, <2>2 DEF Install
<1>8. ASSUME NEW p \in launching, Launch(p)
      PROVE  EtagInv'
  BY <1>0, <1>8, InstallAtKeeps, SaveKeepsEtag, EtagStutters DEF Launch
<1>9. CASE Crash \/ Publish \/ Damage \/ \E v \in installing : InstallerEnds(v)
  <2>1. db' = db /\ (pass' = pass \/ pass' = NoPass)
    BY <1>9 DEF Crash, Publish, Damage, InstallerEnds, Restarts
  <2>2. QED
    BY <2>1, EtagStutters DEF NoPass
<1>10. CASE UNCHANGED vars
  BY <1>10, EtagStutters DEF vars
<1>11. QED
  BY <1>1, <1>2, <1>3, <1>4, <1>5, <1>6, <1>7, <1>8, <1>9, <1>10 DEF Next, Once

\* The release an ETag is kept of is the one that is recorded, in every
\* behaviour of the checker and whatever stops it or fails (Once).
THEOREM EtagCorrect == Spec => []EtagNamesLatest
<1>1. Init => TypeOK /\ EtagInv
  BY InitType, InitEtag
<1>2. TypeOK /\ EtagInv /\ [Next]_vars => (TypeOK /\ EtagInv)'
  BY StepType, StepEtag
<1>3. EtagInv => EtagNamesLatest
  BY DEF EtagInv
<1>4. QED
  BY <1>1, <1>2, <1>3, PTL DEF Spec

-----------------------------------------------------------------------------
(* The state on the page.                                                   *)

\* A step that ends what is shown changes what is shown.
LEMMA StepShown == TypeOK /\ ShownStateIsReal /\ [Next]_vars => ShownStateIsReal'
<1> SUFFICES ASSUME TypeOK, ShownStateIsReal, [Next]_vars
             PROVE  ShownStateIsReal'
  OBVIOUS
<1> DEFINE Quiet(s) == s \notin {"downloading", "installing"}
<1>0. /\ mem \in [rel : Versions \cup {None}, state : State]
      /\ pass \in Asking \cup Deciding \cup Staging \cup Discard \cup {NoPass}
  BY DEF TypeOK
<1>1. CASE ReconcileRead \/ StagedIsReady \/ Staged \/ StageEnds
  <2>1. Quiet(mem'.state)
    BY <1>0, <1>1 DEF ReconcileRead, StagedIsReady, Staged, StageEnds, AfterCancel
  <2>2. QED
    BY <2>1 DEF ShownStateIsReal
<1>2. CASE ReconcileFails \/ ReconcileHash \/ Publish \/ Damage \/ Download \/ UNCHANGED vars
  BY <1>2
     DEF ReconcileFails, ReconcileHash, Publish, Damage, Download, vars, world, ShownStateIsReal
<1>3. CASE NothingStaged
  BY <1>0, <1>3 DEF NothingStaged, world, ShownStateIsReal
<1>4. CASE StagedIsStale
  BY <1>4 DEF StagedIsStale, discardStaged, world, ShownStateIsReal
<1>5. CASE ReconcileForgets
  <2>1. mem'.state = Unstaged(mem.state)
    BY <1>0, <1>5 DEF ReconcileForgets
  <2>2. QED
    BY <1>5, <2>1 DEF ReconcileForgets, Unstaged, world, ShownStateIsReal
<1>6. ASSUME NEW mine \in BOOLEAN, BeginPass(mine)
      PROVE  ShownStateIsReal'
  BY <1>6 DEF BeginPass, ShownStateIsReal, NoPass, world
<1>7. CASE NoNews \/ CheckFails
  BY <1>7 DEF NoNews, CheckFails, EndPass, Leave, world, ShownStateIsReal
<1>8. CASE News
  <2>1. mem'.state = mem.state
    BY <1>0, <1>8 DEF News
  <2>2. QED
    BY <1>8, <2>1 DEF News, world, ShownStateIsReal
<1>9. CASE NotNewer
  <2>1. mem' = mem \/ mem'.state = "idle"
    BY <1>0, <1>9 DEF NotNewer, discardStaged
  <2>2. QED
    BY <1>9, <2>1 DEF NotNewer, world, ShownStateIsReal
<1>10. CASE Discarded
  <2>1. pass.shown \in {"idle", "unstaged", "error"}
    BY <1>0, <1>10, PassTypes DEF Discarded, Discard
  <2>2. mem'.state \in {"idle", "error", Unstaged(mem.state)}
    BY <1>0, <1>10, <2>1 DEF Discarded
  <2>3. QED
    BY <1>10, <2>2 DEF Discarded, Unstaged, world, ShownStateIsReal
<1>11. CASE Offer
  <2>1. mem'.state = mem.state \/ mem'.state = "available"
    BY <1>0, <1>11 DEF Offer
  <2>2. QED
    BY <1>11, <2>1 DEF Offer, world, ShownStateIsReal
<1>12. CASE StageBegin
  <2>1. mem'.state = "downloading" /\ pass'.pc = "get"
    BY <1>0, <1>12, PassTypes, StagingAdvances DEF StageBegin
  <2>2. QED
    BY <2>1 DEF ShownStateIsReal
<1>13. CASE Fetched
  <2>1. pass'.pc = "staged"
    BY <1>0, <1>13, PassTypes, StagingAdvances DEF Fetched
  <2>2. QED
    BY <1>13, <2>1 DEF Fetched, world, ShownStateIsReal
<1>14. CASE sweep \/ DownloadStage
  BY <1>14 DEF sweep, DownloadStage, NoPass, world, ShownStateIsReal
<1>15. ASSUME NEW r \in Requests, Install(r)
       PROVE  ShownStateIsReal'
  <2>1. CASE InstallStaged(r)
    <3>1. mem'.state = "installing" /\ launching' # {}
      BY <1>0, <2>1 DEF InstallStaged
    <3>2. QED
      BY <3>1 DEF ShownStateIsReal
  <2>2. CASE InstallRefused
    BY <1>15, <2>2 DEF Install, InstallRefused, discardStaged, NoPass, world, ShownStateIsReal
  <2>3. QED
    BY <1>15, <2>1, <2>2 DEF Install
<1>16. ASSUME NEW p \in launching, Launch(p)
       PROVE  ShownStateIsReal'
  <2>1. \/ mem' = mem /\ installing' # {}
        \/ mem'.state = "error"
    BY <1>0, <1>16 DEF Launch
  <2>2. QED
    BY <1>16, <2>1 DEF Launch, ShownStateIsReal
<1>17. CASE Crash \/ \E v \in installing : InstallerEnds(v)
  <2>1. \/ mem' = Fresh
        \/ deserted' = TRUE /\ UNCHANGED <<mem, pass>>
    BY <1>17 DEF Crash, InstallerEnds, Restarts
  <2>2. QED
    BY <2>1 DEF Fresh, ShownStateIsReal
<1>18. QED
  BY <1>1, <1>2, <1>3, <1>4, <1>5, <1>6, <1>7, <1>8, <1>9, <1>10, <1>11, <1>12, <1>13, <1>14, <1>15, <1>16, <1>17
     DEF Next, Reconcile, Once, Stage

\* "Downloading" and "installing" are shown only while that goes on, or after an
\* installer that left the service running.
THEOREM ShownStateCorrect == Spec => []ShownStateIsReal
<1>1. Init => TypeOK /\ ShownStateIsReal
  BY InitType DEF Init, Fresh, ShownStateIsReal
<1>2. TypeOK /\ ShownStateIsReal /\ [Next]_vars => (TypeOK /\ ShownStateIsReal)'
  BY StepType, StepShown
<1>3. QED
  BY <1>1, <1>2, PTL DEF Spec

-----------------------------------------------------------------------------
(* What is staged, and what is installed.                                   *)

\* A file that was fetched is there until the pass ends: passMu is held.
FetchedIsThere ==
    tidy /\ pass.pc \in {"staged", "sweep"} => files[pass.rel] = "good"

\* What the sweep removes is not what is recorded.
SweepsOthers == tidy /\ pass.pc = "sweep" => db.ready \in {pass.rel, None}

\* What is being staged is newer than what runs, which changes only at a start.
StagingNewer ==
    pass.pc \in {"stage", "get", "staged", "sweep"} => Newer(current, pass.rel)

\* An installer that is not newer is left from before the start: reconcile has
\* read of it, and where it is done the file is gone.
Leftover(v) == v # None /\ ~Newer(current, v)
LeftoverSeen ==
    Leftover(db.ready) /\ files[db.ready] = "good" =>
       \/ run.pc \in {"read", "unchecked"}
       \/ run.pc \in {"hash", "act"} /\ run.seen.ready = db.ready
       \/ run.pc = "forget" /\ ~run.emptied

\* An installer about to be started is as it was checked, or gone; and it is newer
\* if it was asked for once startup was over.
LaunchesChecked ==
    \A p \in launching :
       /\ files[p.version] # "bad"
       /\ p.settled => Newer(current, p.version)

StagedInv ==
    /\ ReadyIsStaged /\ FetchedIsThere /\ SweepsOthers
    /\ StagingNewer /\ LeftoverSeen /\ LaunchesChecked

\* At first nothing is staged.
LEMMA InitStaged == Init => StagedInv
BY DEF Init, StagedInv, ReadyIsStaged, FetchedIsThere, SweepsOthers, StagingNewer, LeftoverSeen,
       Leftover, LaunchesChecked, NoPass, None

\* Steps that touch neither the files nor what is recorded of them, and go no
\* further with a pass or with startup.
LEMMA StagedStutters ==
    ASSUME StagedInv, UNCHANGED <<current, files, run, tidy>>, db'.ready = db.ready,
           launching' \subseteq launching,
           pass' = pass \/ pass'.pc \in {"none", "ask", "decide"}
    PROVE  StagedInv'
BY DEF StagedInv, ReadyIsStaged, FetchedIsThere, SweepsOthers, StagingNewer, LeftoverSeen,
       Leftover, LaunchesChecked

\* A save of something else, done or failed, leaves what is recorded as staged.
LEMMA SaveKeepsReady ==
    ASSUME TypeOK, NEW d \in Settings, d.ready = db.ready, save(d)
    PROVE  db'.ready = db.ready
BY SaveType

\* A save that has not failed has written what it was given.
LEMMA SavedIsWritten ==
    ASSUME budget \in Budget, NEW d, save(d), saved
    PROVE  db' = d
<1>1. CASE Fault
  <2>1. budget.faults \in Nat /\ budget'.faults = budget.faults - 1
    BY <1>1, BoundsAssumption DEF Fault, Budget
  <2>2. QED
    BY <2>1 DEF saved
<1>2. QED
  BY <1>1 DEF save

\* A forget leaves what was recorded, or nothing; nothing, if it was saved.
LEMMA SaveForgets ==
    ASSUME TypeOK, save(forget(db))
    PROVE  /\ db'.ready \in {db.ready, None}
           /\ saved => db'.ready = None
<1>1. db'.ready \in {db.ready, None}
  BY ForgetKeepsEtag, SaveType DEF TypeOK
<1>2. saved => db' = forget(db)
  BY SavedIsWritten DEF TypeOK
<1>3. forget(db).ready = None
  BY ForgetKeepsEtag DEF TypeOK
<1>4. QED
  BY <1>1, <1>2, <1>3

\* What holds of the directory when files only go, nothing new is recorded, and
\* what is recorded is not relied on any more.
LEMMA DiscardKeeps ==
    ASSUME TypeOK, StagedInv, discardStaged, UNCHANGED <<current, launching>>,
           pass' = pass \/ pass'.pc = "forget",
           LeftoverSeen'
    PROVE  StagedInv'
<1>1. db' = db /\ ~tidy' /\ \A v \in Versions : files'[v] \in {files[v], "none"}
  BY RemoveType DEF discardStaged
<1>2. \A p \in launching : p.version \in Versions
  BY DEF TypeOK, Order
<1>3. LaunchesChecked'
  BY <1>1, <1>2 DEF StagedInv, LaunchesChecked
<1>4. StagingNewer'
  BY DEF StagedInv, StagingNewer
<1>5. QED
  BY <1>1, <1>3, <1>4 DEF StagedInv, ReadyIsStaged, FetchedIsThere, SweepsOthers

\* A removal keeps the reasons for which an installer that is not newer may be there.
LEMMA RemovalKeepsLeftover ==
    ASSUME TypeOK, LeftoverSeen, NEW keep \in SUBSET Versions, Remove(keep),
           UNCHANGED <<current, db, run>>
    PROVE  LeftoverSeen'
<1>1. \A v \in Versions : files'[v] \in {files[v], "none"}
  BY RemoveType
<1>2. db.ready \in Versions \cup {None}
  BY DEF TypeOK, Settings
<1>3. QED
  BY <1>1, <1>2 DEF LeftoverSeen, Leftover

\* A new process finds what is recorded and in the directory as it was.
LEMMA RestartKeeps ==
    ASSUME StagedInv, NEW v, Restarts(v)
    PROVE  StagedInv'
BY DEF Restarts, StagedInv, ReadyIsStaged, FetchedIsThere, SweepsOthers, StagingNewer, LeftoverSeen,
       Leftover, LaunchesChecked, NoPass

\* Startup: what was left over is discarded before the loop, or the loop is not
\* one that relies on it.
LEMMA ReconcileStaged ==
    ASSUME TypeOK, StagedInv, Reconcile
    PROVE  StagedInv'
<1> USE DEF world
<1>0. /\ db \in Settings /\ db.ready \in Versions \cup {None}
      /\ files \in [Versions -> FileStates]
  BY DEF TypeOK, Settings
<1>1. CASE ReconcileRead \/ ReconcileFails
  <2>1. /\ UNCHANGED <<current, db, files, pass, launching, tidy>>
        /\ \/ run'.pc = "hash" /\ run'.seen.ready = db.ready
           \/ run'.pc = "unchecked"
    BY <1>1 DEF ReconcileRead, ReconcileFails
  <2>2. LeftoverSeen'
    BY <2>1 DEF LeftoverSeen
  <2>3. QED
    BY <2>1, <2>2
       DEF StagedInv, ReadyIsStaged, FetchedIsThere, SweepsOthers, StagingNewer, LaunchesChecked
<1>2. CASE ReconcileHash
  <2>1. /\ UNCHANGED <<current, db, files, pass, launching>>
        /\ run.pc = "hash" /\ run'.pc = "act" /\ run'.seen = run.seen
    BY <1>2 DEF ReconcileHash
  <2>2. tidy' => tidy \/ (pass = NoPass /\ (db.ready # None => files[db.ready] = "good"))
    BY <1>2 DEF ReconcileHash
  <2>3. LeftoverSeen'
    BY <2>1 DEF StagedInv, LeftoverSeen, Leftover
  <2>4. QED
    BY <2>1, <2>2, <2>3
       DEF StagedInv, ReadyIsStaged, FetchedIsThere, SweepsOthers, StagingNewer, LaunchesChecked,
           NoPass
<1>3. CASE NothingStaged
  <2>1. /\ UNCHANGED <<current, files, pass, launching, tidy>>
        /\ run.pc = "act" /\ run.seen.ready = None
        /\ db' = db \/ save(forget(db))
    BY <1>3 DEF NothingStaged
  <2>2. ~(Leftover(db.ready) /\ files[db.ready] = "good")
    BY <2>1 DEF StagedInv, LeftoverSeen, Leftover
  <2>3. db'.ready \in {db.ready, None}
    BY <2>1, SaveForgets
  <2>4. LeftoverSeen'
    BY <2>1, <2>2, <2>3 DEF LeftoverSeen, Leftover
  <2>5. QED
    BY <2>1, <2>3, <2>4
       DEF StagedInv, ReadyIsStaged, FetchedIsThere, SweepsOthers, StagingNewer, LaunchesChecked
<1>4. CASE StagedIsStale
  <2>1. /\ discardStaged /\ UNCHANGED <<current, db, pass, launching>>
        /\ run' = [pc |-> "forget", emptied |-> files' = Empty]
    BY <1>4 DEF StagedIsStale, discardStaged
  <2>2. LeftoverSeen'
    <3>1. CASE files' = Empty
      BY <1>0, <2>1, <3>1 DEF LeftoverSeen, Leftover, Empty
    <3>2. CASE files' # Empty
      BY <2>1, <3>2 DEF LeftoverSeen
    <3>3. QED
      BY <3>1, <3>2
  <2>3. QED
    BY <2>1, <2>2, DiscardKeeps
<1>5. CASE ReconcileForgets
  <2>1. /\ UNCHANGED <<current, files, pass, launching>>
        /\ run.pc = "forget" /\ run' = [pc |-> IF run.emptied THEN "loop" ELSE "unchecked"]
        /\ (tidy' => tidy \/ (pass = NoPass /\ saved))
    BY <1>5 DEF ReconcileForgets
  <2>2. db'.ready \in {db.ready, None} /\ (saved => db'.ready = None)
    BY <1>5, SaveForgets DEF ReconcileForgets
  <2>3. LeftoverSeen'
    <3>1. CASE run.emptied
      BY <2>1, <2>2, <3>1 DEF StagedInv, LeftoverSeen, Leftover
    <3>2. CASE ~run.emptied
      BY <2>1, <3>2 DEF LeftoverSeen
    <3>3. QED
      BY <3>1, <3>2
  <2>4. ReadyIsStaged' /\ FetchedIsThere' /\ SweepsOthers'
    BY <2>1, <2>2 DEF StagedInv, ReadyIsStaged, FetchedIsThere, SweepsOthers, NoPass
  <2>5. StagingNewer' /\ LaunchesChecked'
    BY <2>1 DEF StagedInv, StagingNewer, LaunchesChecked
  <2>6. QED
    BY <2>3, <2>4, <2>5 DEF StagedInv
<1>6. CASE StagedIsReady
  <2>1. /\ UNCHANGED <<current, files, pass, launching, tidy>>
        /\ run.pc = "act" /\ Newer(current, run.seen.ready)
        /\ db' = db \/ save([db EXCEPT !.installAt = FALSE])
    BY <1>6 DEF StagedIsReady, Applied
  <2>2. ~(Leftover(db.ready) /\ files[db.ready] = "good")
    BY <2>1 DEF StagedInv, LeftoverSeen, Leftover
  <2>3. db'.ready = db.ready
    BY <1>0, <2>1, InstallAtKeeps, SaveKeepsReady
  <2>4. QED
    BY <2>1, <2>2, <2>3
       DEF StagedInv, ReadyIsStaged, FetchedIsThere, SweepsOthers, StagingNewer, LeftoverSeen,
           Leftover, LaunchesChecked
<1>7. QED
  BY <1>1, <1>2, <1>3, <1>4, <1>5, <1>6 DEF Reconcile

\* A pass up to its decision.
LEMMA OnceStaged ==
    ASSUME TypeOK, StagedInv, Once
    PROVE  StagedInv'
<1> USE DEF world
<1>0. /\ db \in Settings /\ server \in Versions \cup {None}
      /\ pass \in Asking \cup Deciding \cup Staging \cup Discard \cup {NoPass}
  BY DEF TypeOK
<1>1. CASE NoNews
  <2>1. db'.ready = db.ready
    BY <1>0, <1>1, EtagUpdate, SaveKeepsReady DEF NoNews
  <2>2. QED
    BY <1>1, <2>1, StagedStutters DEF NoNews, EndPass, Leave, NoPass
<1>2. CASE CheckFails
  BY <1>2, StagedStutters DEF CheckFails, Leave, NoPass
<1>3. CASE News
  <2>1. server \in Versions
    BY <1>0, <1>3 DEF News
  <2>2. db'.ready = db.ready
    BY <1>0, <1>3, <2>1, RecordNames, SaveKeepsReady DEF News
  <2>3. QED
    BY <1>3, <2>2, StagedStutters DEF News
<1>4. CASE NotNewer
  <2>1. CASE discardStaged /\ pass'.pc = "forget"
    <3>1. Remove({}) /\ db' = db
      BY <2>1 DEF discardStaged
    <3>2. LeftoverSeen'
      BY <1>4, <3>1, RemovalKeepsLeftover DEF NotNewer, StagedInv
    <3>3. QED
      BY <1>4, <2>1, <3>2, DiscardKeeps DEF NotNewer
  <2>2. CASE EndPass /\ UNCHANGED <<db, files, tidy>>
    BY <1>4, <2>2, StagedStutters DEF NotNewer, EndPass, Leave, NoPass
  <2>3. QED
    BY <1>4, <2>1, <2>2 DEF NotNewer
<1>5. CASE Discarded
  <2>1. /\ UNCHANGED <<current, files, run, launching>> /\ pass' = NoPass
        /\ tidy' = (tidy \/ saved)
    BY <1>5 DEF Discarded, EndPass, Leave
  <2>2. db'.ready \in {db.ready, None} /\ (saved => db'.ready = None)
    BY <1>5, SaveForgets DEF Discarded
  <2>3. QED
    BY <2>1, <2>2
       DEF StagedInv, ReadyIsStaged, FetchedIsThere, SweepsOthers, StagingNewer, LeftoverSeen,
           Leftover, LaunchesChecked, NoPass
<1>6. CASE Offer
  <2>1. CASE EndPass
    BY <1>6, <2>1, StagedStutters DEF Offer, EndPass, Leave, NoPass
  <2>2. CASE pass' = [pc |-> "stage", rel |-> pass.rel, mine |-> pass.mine]
    BY <1>6, <2>2
       DEF Offer, StagedInv, ReadyIsStaged, FetchedIsThere, SweepsOthers, StagingNewer,
           LeftoverSeen, Leftover, LaunchesChecked
  <2>3. QED
    BY <1>6, <2>1, <2>2 DEF Offer
<1>7. QED
  BY <1>1, <1>2, <1>3, <1>4, <1>5, <1>6 DEF Once

\* A pass that downloads: only Fetched puts a file there, and only Staged records
\* one.
LEMMA StageStaged ==
    ASSUME TypeOK, StagedInv, Stage
    PROVE  StagedInv'
<1> USE DEF world
<1>0. /\ db \in Settings /\ db.ready \in Versions \cup {None}
      /\ files \in [Versions -> FileStates]
      /\ pass \in Asking \cup Deciding \cup Staging \cup Discard \cup {NoPass}
      /\ \A p \in launching : p.version \in Versions
  BY DEF TypeOK, Settings, Order
<1>1. CASE StageBegin
  <2>1. pass'.pc = "get" /\ pass'.rel = pass.rel
    BY <1>0, <1>1, PassTypes, StagingAdvances DEF StageBegin
  <2>2. QED
    BY <1>1, <2>1
       DEF StageBegin, StagedInv, ReadyIsStaged, FetchedIsThere, SweepsOthers, StagingNewer,
           LeftoverSeen, Leftover, LaunchesChecked
<1>2. CASE Fetched
  <2>1. pass'.pc = "staged" /\ pass'.rel = pass.rel /\ pass.rel \in Versions
    BY <1>0, <1>2, PassTypes, StagingAdvances DEF Fetched, Staging
  <2>2. files'[pass.rel] = "good" /\ \A v \in Versions : files'[v] \in {files[v], "good"}
    BY <1>0, <1>2, <2>1 DEF Fetched
  <2>3. \A v \in Versions \ {pass.rel} : files'[v] = files[v]
    BY <1>0, <1>2 DEF Fetched
  <2>4. UNCHANGED <<current, db, run, launching, tidy>> /\ Newer(current, pass.rel)
    BY <1>2 DEF Fetched, StagedInv, StagingNewer
  <2>5. LeftoverSeen'
    BY <1>0, <2>3, <2>4 DEF StagedInv, LeftoverSeen, Leftover
  <2>6. LaunchesChecked'
    BY <1>0, <2>2, <2>4 DEF StagedInv, LaunchesChecked
  <2>7. ReadyIsStaged'
    BY <1>0, <2>2, <2>4 DEF StagedInv, ReadyIsStaged
  <2>8. QED
    BY <2>1, <2>2, <2>4, <2>5, <2>6, <2>7 DEF StagedInv, FetchedIsThere, SweepsOthers, StagingNewer
<1>3. CASE StageEnds
  BY <1>3, StagedStutters DEF StageEnds, EndPass, Leave, NoPass
<1>4. CASE Staged
  <2>1. /\ pass'.pc = "sweep" /\ pass'.rel = pass.rel /\ pass.rel \in Versions
        /\ pass.pc = "staged"
    BY <1>0, <1>4, PassTypes, StagingAdvances DEF Staged, Staging
  <2>2. db'.ready \in {pass.rel, db.ready} /\ (saved => db'.ready = pass.rel)
    <3>1. db' = [db EXCEPT !.ready = pass.rel] \/ db' = db
      BY <1>4 DEF Staged, save
    <3>2. [db EXCEPT !.ready = pass.rel].ready = pass.rel
      BY <1>0 DEF Settings
    <3>3. saved => db' = [db EXCEPT !.ready = pass.rel]
      BY <1>4, SavedIsWritten DEF Staged, TypeOK
    <3>4. QED
      BY <3>1, <3>2, <3>3
  <2>3. /\ UNCHANGED <<current, files, run, launching>>
        /\ tidy' = (tidy /\ saved)
        /\ Newer(current, pass.rel)
    BY <1>4, <2>1 DEF Staged, StagedInv, StagingNewer
  <2>4. LeftoverSeen'
    BY <2>2, <2>3 DEF StagedInv, LeftoverSeen, Leftover
  <2>5. QED
    BY <2>1, <2>2, <2>3, <2>4
       DEF StagedInv, ReadyIsStaged, FetchedIsThere, SweepsOthers, StagingNewer, LaunchesChecked
<1>5. CASE sweep
  <2>1. pass.pc = "sweep" /\ pass.rel \in Versions /\ pass' = NoPass
    BY <1>0, <1>5, PassTypes DEF sweep, EndPass, Leave, Staging
  <2>2. Remove({pass.rel}) /\ UNCHANGED <<current, db, run, launching, tidy>>
    BY <1>5 DEF sweep
  <2>3. {pass.rel} \in SUBSET Versions
    BY <2>1
  <2>4. /\ files'[pass.rel] = files[pass.rel]
        /\ \A v \in Versions : files'[v] \in {files[v], "none"}
    BY <2>2, <2>3, RemoveType
  <2>5. LeftoverSeen'
    BY <2>2, <2>3, RemovalKeepsLeftover DEF StagedInv
  <2>6. LaunchesChecked'
    BY <1>0, <2>2, <2>4 DEF StagedInv, LaunchesChecked
  <2>7. ReadyIsStaged'
    BY <2>1, <2>2, <2>4 DEF StagedInv, ReadyIsStaged, FetchedIsThere, SweepsOthers
  <2>8. QED
    BY <2>1, <2>5, <2>6, <2>7 DEF StagedInv, FetchedIsThere, SweepsOthers, StagingNewer, NoPass
<1>6. QED
  BY <1>1, <1>2, <1>3, <1>4, <1>5 DEF Stage

\* The requests of the page, which wait for passMu or hold nothing.
LEMMA RequestStaged ==
    ASSUME TypeOK, StagedInv,
           \/ Download \/ DownloadStage \/ \E mine \in BOOLEAN : BeginPass(mine)
           \/ \E r \in Requests : Install(r)
           \/ \E p \in launching : Launch(p)
    PROVE  StagedInv'
<1> USE DEF world
<1>0. db \in Settings /\ files \in [Versions -> FileStates]
  BY DEF TypeOK
<1>1. CASE Download \/ \E mine \in BOOLEAN : BeginPass(mine)
  BY <1>1, StagedStutters DEF Download, BeginPass
<1>2. CASE DownloadStage
  <2>1. pass'.pc = "stage" /\ pass'.rel = dl.rel /\ Newer(current, dl.rel)
    BY <1>2 DEF DownloadStage, TypeOK
  <2>2. QED
    BY <1>2, <2>1
       DEF DownloadStage, StagedInv, ReadyIsStaged, FetchedIsThere, SweepsOthers, StagingNewer,
           LeftoverSeen, Leftover, LaunchesChecked
<1>3. ASSUME NEW r \in Requests, Install(r)
      PROVE  StagedInv'
  <2>1. UNCHANGED <<current, run>> /\ pass.pc = "none" /\ db.ready # None
    BY <1>3 DEF Install, NoPass
  <2>2. CASE InstallStaged(r)
    <3> DEFINE q == [req |-> r, version |-> db.ready, settled |-> run.pc = "loop"]
    <3>1. /\ UNCHANGED <<files, pass>> /\ files[db.ready] = "good"
          /\ launching' = launching \cup {q}
      BY <2>2 DEF InstallStaged
    <3>2. db'.ready = db.ready
      BY <1>0, <2>2, InstallAtKeeps, SaveKeepsReady DEF InstallStaged
    <3>3. q.version = db.ready /\ (q.settled => run.pc = "loop")
      OBVIOUS
    <3>4. q.settled => Newer(current, db.ready)
      BY <2>1, <3>1, <3>3 DEF StagedInv, LeftoverSeen, Leftover
    <3> HIDE DEF q
    <3>5. LaunchesChecked'
      BY <2>1, <3>1, <3>3, <3>4 DEF StagedInv, LaunchesChecked
    <3>6. QED
      BY <2>1, <3>1, <3>2, <3>5
         DEF StagedInv, ReadyIsStaged, FetchedIsThere, SweepsOthers, StagingNewer, LeftoverSeen,
             Leftover
  <2>3. CASE InstallRefused
    <3>1. discardStaged /\ Remove({}) /\ db' = db /\ launching' = launching /\ pass'.pc = "forget"
      BY <2>3 DEF InstallRefused, discardStaged
    <3>2. LeftoverSeen'
      BY <2>1, <3>1, RemovalKeepsLeftover DEF StagedInv
    <3>3. QED
      BY <2>1, <3>1, <3>2, DiscardKeeps
  <2>4. QED
    BY <1>3, <2>2, <2>3 DEF Install
<1>4. ASSUME NEW p \in launching, Launch(p)
      PROVE  StagedInv'
  <2>1. db'.ready = db.ready
    BY <1>0, <1>4, InstallAtKeeps, SaveKeepsReady DEF Launch
  <2>2. QED
    BY <1>4, <2>1, StagedStutters DEF Launch
<1>5. QED
  BY <1>1, <1>2, <1>3, <1>4

\* Every step keeps what is known of the staging directory.
LEMMA StepStaged == TypeOK /\ StagedInv /\ [Next]_vars => StagedInv'
<1> SUFFICES ASSUME TypeOK, StagedInv, [Next]_vars
             PROVE  StagedInv'
  OBVIOUS
<1>1. CASE Reconcile
  BY <1>1, ReconcileStaged
<1>2. CASE Once
  BY <1>2, OnceStaged
<1>3. CASE Stage
  BY <1>3, StageStaged
<1>4. CASE \/ Download \/ DownloadStage \/ \E mine \in BOOLEAN : BeginPass(mine)
           \/ \E r \in Requests : Install(r)
           \/ \E p \in launching : Launch(p)
  BY <1>4, RequestStaged
<1>5. CASE Crash
  BY <1>5, RestartKeeps DEF Crash
<1>6. ASSUME NEW v \in installing, InstallerEnds(v)
      PROVE  StagedInv'
  <2>1. CASE Restarts(v) \/ Restarts(current)
    BY <2>1, RestartKeeps
  <2>2. CASE UNCHANGED <<current, server, db, files, mem, run, pass, dl, launching, tidy>>
    BY <2>2, StagedStutters
  <2>3. QED
    BY <1>6, <2>1, <2>2 DEF InstallerEnds
<1>7. CASE Publish \/ UNCHANGED vars
  BY <1>7, StagedStutters DEF Publish, vars, world
<1>8. CASE Damage
  <2>1. PICK v \in Versions, f \in {"none", "bad"} : files' = [files EXCEPT ![v] = f]
    BY <1>8 DEF Damage
  <2>2. /\ UNCHANGED <<current, db, run, pass, launching>> /\ ~tidy' /\ launching = {}
    BY <1>8 DEF Damage, world
  <2>3. \A w \in Versions : files'[w] \in {files[w], f}
    BY <2>1 DEF TypeOK
  <2>4. db.ready \in Versions \cup {None}
    BY DEF TypeOK, Settings
  <2>5. LeftoverSeen'
    BY <2>2, <2>3, <2>4 DEF StagedInv, LeftoverSeen, Leftover
  <2>6. QED
    BY <2>2, <2>5
       DEF StagedInv, ReadyIsStaged, FetchedIsThere, SweepsOthers, StagingNewer, LaunchesChecked
<1>9. QED
  BY <1>1, <1>2, <1>3, <1>4, <1>5, <1>6, <1>7, <1>8 DEF Next

\* The invariants together, in every reachable state.
LEMMA StagedInvariance == Spec => [](TypeOK /\ StagedInv)
<1>1. Init => TypeOK /\ StagedInv
  BY InitType, InitStaged
<1>2. TypeOK /\ StagedInv /\ [Next]_vars => (TypeOK /\ StagedInv)'
  BY StepType, StepStaged
<1>3. QED
  BY <1>1, <1>2, PTL DEF Spec

\* The installer that is recorded is staged, through discards and sweeps of which
\* each step may fail or be the last one before a crash, and again once a startup,
\* an install or a discard has worked through.
THEOREM StagedCorrect == Spec => []ReadyIsStaged
<1>1. TypeOK /\ StagedInv => ReadyIsStaged
  BY DEF StagedInv
<1>2. QED
  BY <1>1, StagedInvariance, PTL

\* An installer that is started is the file that was checked; and it is newer than
\* what runs if it was asked for after a startup that did its work.
THEOREM NeverDowngrades == Spec => OnlyNewerInstalled
<1>1. ASSUME TypeOK, StagedInv, [Next]_vars, NEW p \in launching \ launching',
             p.version \in installing' \ installing
      PROVE  files[p.version] = "good" /\ (p.settled => Newer(current, p.version))
  <2>1. PICK q \in launching : Launch(q)
    BY <1>1
       DEF Next, world, Reconcile, ReconcileRead, ReconcileFails, ReconcileHash, NothingStaged,
           StagedIsStale, ReconcileForgets, StagedIsReady, BeginPass, Once, NoNews, CheckFails,
           News, NotNewer, Discarded, Offer, Stage, StageBegin, Fetched, StageEnds, Staged, sweep,
           Download, DownloadStage, Install, InstallerEnds, Crash, Publish, Damage, vars
  <2>2. p = q
    BY <1>1, <2>1 DEF Launch
  <2>3. p.version \in Versions /\ files[p.version] # "none"
    BY <1>1, <2>1, <2>2 DEF Launch, TypeOK, Order
  <2>4. QED
    BY <1>1, <2>3 DEF StagedInv, LaunchesChecked, TypeOK, FileStates
<1>2. TypeOK /\ StagedInv /\ [Next]_vars
        => [ \A p \in launching \ launching' : p.version \in installing' \ installing =>
               /\ files[p.version] = "good"
               /\ p.settled => Newer(current, p.version) ]_vars
  BY <1>1
<1>3. QED
  BY <1>2, StagedInvariance, PTL DEF Spec, OnlyNewerInstalled
=============================================================================
