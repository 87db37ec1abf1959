------------------------------ MODULE Evaluator ------------------------------
(***************************************************************************)
(* The evaluator goroutine (core.runEvaluator, evaluate, dispatch), the two *)
(* tables it writes (devices, incidents), the collapse buffer it fills and  *)
(* the outbox it feeds, through crashes, graceful stops, restarts and       *)
(* failed database calls.                                                  *)
(*                                                                         *)
(* evaluate is not atomic with respect to the disk: each database call is   *)
(* an action of its own, so the process can die, or be told to stop, in     *)
(* between.  With respect to everything else it is: one goroutine evaluates *)
(* results and flushes the buffer, so no two evaluations interleave.        *)
(*                                                                         *)
(* A probe result may be about any device and carry any outcome, and the    *)
(* effective settings may have been edited between any two results; both    *)
(* are chosen when the result is taken.  A result for a device that left    *)
(* the effective set changes nothing and is no step.  Heartbeats and event  *)
(* publication do not touch this state; which alerts the flush picks, and   *)
(* when the hourly cap withholds one, are module AlertBuffer's.             *)
(***************************************************************************)
EXTENDS DeviceState, Sequences, FiniteSets

CONSTANTS
    Devices,
    Effectives,   \* settings an operator may switch between
    Reminder,     \* alert.reminder_sec; 0 sends none
    Collapse,     \* alert.collapse_sec > 0: alerts wait in the buffer
    FaultModels,  \* each a set of the things that may go wrong in a behaviour
    MaxNow,       \* bounds the clock, and so the number of results
    MaxRestarts   \* bounds how often the process ends

\* crash: the process may die; stop: it may be told to stop; db: a database
\* call may fail; cap: the hourly cap may withhold a mail; unaddressed: a
\* device may have no recipients.
Faults == {"crash", "stop", "db", "cap", "unaddressed"}

ASSUME EffectivesAssumption == Effectives \subseteq Effective
ASSUME ReminderAssumption   == Reminder \in Nat
ASSUME CollapseAssumption   == Collapse \in BOOLEAN
ASSUME FaultsAssumption     == FaultModels \subseteq SUBSET Faults
ASSUME BoundsAssumption     == MaxNow \in Nat /\ MaxRestarts \in Nat

VARIABLES
    faults,     \* what may go wrong in this behaviour; never changes
    now,        \* the clock: one tick per result
    up,         \* "running", "stopping" (the run context is cancelled), "off"
    snaps,      \* App.snaps, lost with the process
    work,       \* the evaluation in progress, or Idle
    buffer,     \* alertBuffer, lost with the process
    rows,       \* devices table: the columns SaveState writes
    incidents,  \* incidents table; an id is an index (AUTOINCREMENT)
    outbox,     \* alert_outbox: the mails handed to the notifier
    torn,       \* history: devices with a transition only half on disk
    unsaved,    \* history: devices with an outage's start or end not written whole
    restarts    \* history: how often the process has ended

memory == <<snaps, work, buffer>>
disk   == <<rows, incidents, outbox>>
vars   == <<faults, now, up, memory, disk, torn, unsaved, restarts>>

Row      == [ status : Status, consecutiveFailures : Nat,
              consecutiveSuccesses : Nat, firstFailureAt : Nat ]
Incident == [ device : Devices, startedAt : Nat, resolved : BOOLEAN,
              alertSent : BOOLEAN, recoverySent : BOOLEAN, lastAlertAt : Nat ]
Alert    == [ kind : {"down", "recovery", "reminder"}, device : Devices,
              incident : Nat, firstFail : Nat, at : Nat ]

\* wrote: the transition's incident row is on disk.
Work == [ pc : {"open", "close", "save", "dispatch", "mark"}, device : Devices,
          at : Nat, tr : Transition, wrote : BOOLEAN ]
Idle == [ pc |-> "idle" ]

TypeOK ==
    /\ faults \subseteq Faults
    /\ now \in Nat
    /\ up \in {"running", "stopping", "off"}
    /\ snaps \in [Devices -> Snapshot]
    /\ work \in Work \cup {Idle}
    /\ buffer \subseteq Alert
    /\ rows \in [Devices -> Row]
    /\ incidents \in Seq(Incident)
    /\ outbox \subseteq Alert
    /\ torn \subseteq Devices
    /\ unsaved \subseteq Devices
    /\ restarts \in Nat

Fresh == [d \in Devices |-> NewSnapshot]

Init ==
    /\ faults \in FaultModels
    /\ now = 1
    /\ up = "running"
    /\ snaps = Fresh
    /\ work = Idle
    /\ buffer = {}
    /\ rows = [d \in Devices |->
                 [ status |-> "UNKNOWN", consecutiveFailures |-> 0,
                   consecutiveSuccesses |-> 0, firstFailureAt |-> Never ]]
    /\ incidents = <<>>
    /\ outbox = {}
    /\ torn = {}
    /\ unsaved = {}
    /\ restarts = 0

-----------------------------------------------------------------------------
(* Database calls.  One on a cancelled context fails; one on a live context *)
(* succeeds unless the database itself fails.                              *)

CanWrite == up = "running"
CanFail  == up = "stopping" \/ "db" \in faults

OpenIncidents(d) ==
    { i \in DOMAIN incidents : incidents[i].device = d /\ ~incidents[i].resolved }

-----------------------------------------------------------------------------
(* evaluate                                                                *)

\* Incident rows are written before the device row, when the transition asks.
FirstStep(tr) ==
    IF tr.openIncident THEN "open" ELSE IF tr.closeIncident THEN "close" ELSE "save"

\* reminderInterval: a setting that cannot be read means no reminders.
Reminders == (IF CanWrite THEN {Reminder} ELSE {}) \cup (IF CanFail THEN {0} ELSE {})

\* A result is taken and folded into the snapshot.
Take(d, class, eff) ==
    /\ up # "off"
    /\ work = Idle
    /\ now < MaxNow
    /\ \E reminder \in Reminders :
          LET step == Apply(snaps[d], eff, [class |-> class, at |-> now], reminder, now)
          IN  /\ snaps' = [snaps EXCEPT ![d] = step.snap]
              /\ work' = IF step.tr.ignored THEN Idle
                         ELSE [ pc |-> FirstStep(step.tr), device |-> d, at |-> now,
                                tr |-> step.tr, wrote |-> FALSE ]
    /\ now' = now + 1
    /\ UNCHANGED <<faults, up, buffer, disk, torn, unsaved, restarts>>

\* The incident row goes in and its id comes back to the snapshot.
OpenIncident ==
    /\ work.pc = "open"
    /\ \/ /\ CanWrite
          /\ LET id == Len(incidents) + 1 IN
             /\ incidents' = Append(incidents,
                    [ device       |-> work.device,
                      startedAt    |-> work.tr.incidentStart,
                      resolved     |-> FALSE,
                      alertSent    |-> work.tr.sendDown,
                      recoverySent |-> FALSE,
                      lastAlertAt  |-> IF work.tr.sendDown THEN work.at ELSE Never ])
             /\ snaps' = [snaps EXCEPT ![work.device].openIncidentID = id]
             /\ work' = [work EXCEPT !.pc = "save", !.tr.incidentID = id,
                                     !.wrote = TRUE]
       \/ /\ CanFail
          /\ work' = [work EXCEPT !.pc = "save"]
          /\ UNCHANGED <<incidents, snaps>>
    /\ UNCHANGED <<faults, now, up, buffer, rows, outbox, torn, unsaved, restarts>>

\* Mutant: the row keeps its NULL resolved_at.
ResolveNothing(id, recovered) == [incidents EXCEPT ![id].recoverySent = recovered]

Resolve(id, recovered) ==
    [ incidents EXCEPT ![id].resolved = TRUE, ![id].recoverySent = recovered ]

\* The incident row is resolved.
CloseIncident ==
    /\ work.pc = "close"
    /\ \/ /\ CanWrite
          /\ LET id == work.tr.incidentID IN
             incidents' =
                IF incidents[id].resolved THEN incidents
                ELSE Resolve(id, work.tr.sendRecovery)
          /\ work' = [work EXCEPT !.pc = "save", !.wrote = TRUE]
       \/ /\ CanFail
          /\ work' = [work EXCEPT !.pc = "save"]
          /\ UNCHANGED incidents
    /\ UNCHANGED <<faults, now, up, snaps, buffer, rows, outbox, torn, unsaved, restarts>>

TouchesIncident(tr) == tr.openIncident \/ tr.closeIncident

Announces(tr) == tr.sendDown \/ tr.sendRecovery \/ tr.sendReminder

AfterSave == IF Announces(work.tr) THEN [work EXCEPT !.pc = "dispatch"] ELSE Idle

\* The device row is written.  The transition is torn when exactly one of its
\* two rows reached the disk, or when neither did and the process lives on; it
\* is unsaved when the evaluation goes on to its mail without both.
SaveState ==
    /\ work.pc = "save"
    /\ \/ /\ CanWrite
          /\ LET s == snaps[work.device] IN
             rows' = [rows EXCEPT ![work.device] =
                        [ status               |-> s.status,
                          consecutiveFailures  |-> s.consecutiveFailures,
                          consecutiveSuccesses |-> s.consecutiveSuccesses,
                          firstFailureAt       |-> s.firstFailureAt ]]
          /\ torn' = IF TouchesIncident(work.tr) /\ ~work.wrote
                     THEN torn \cup {work.device} ELSE torn
          /\ unsaved' = IF TouchesIncident(work.tr) /\ ~work.wrote
                        THEN unsaved \cup {work.device} ELSE unsaved
       \/ /\ CanFail
          /\ UNCHANGED rows
          /\ unsaved' = IF TouchesIncident(work.tr)
                        THEN unsaved \cup {work.device} ELSE unsaved
          /\ torn' = IF TouchesIncident(work.tr) /\ (work.wrote \/ up = "running")
                     THEN torn \cup {work.device} ELSE torn
    /\ work' = AfterSave
    /\ UNCHANGED <<faults, now, up, snaps, buffer, incidents, outbox, restarts>>

-----------------------------------------------------------------------------
(* dispatch                                                                *)

\* send: the mail goes to the outbox, unless the cap withholds it or the
\* insert fails.
Send(mail) ==
    \/ CanWrite /\ outbox' = outbox \cup {mail}
    \/ (CanFail \/ "cap" \in faults) /\ UNCHANGED outbox

\* alertPolicy falls back to the 15 s default when the context is cancelled,
\* and to whatever it held, at first no window at all, when the read fails.
Windows == {Collapse} \cup (IF up = "stopping" THEN {TRUE} ELSE {})
                      \cup (IF "db" \in faults THEN {FALSE} ELSE {})

\* queueAlert: parked when there is a collapse window, sent at once otherwise.
QueueAlert(alert) ==
    \E window \in Windows :
        \/ window  /\ buffer' = buffer \cup {alert} /\ UNCHANGED outbox
        \/ ~window /\ Send(alert) /\ UNCHANGED buffer

\* What an alert is about: the transition's incident, else the snapshot's.
AlertFor(kind, start) ==
    LET open == snaps[work.device].openIncidentID
    IN  [ kind |-> kind, device |-> work.device,
          incident  |-> IF work.tr.incidentID # NoIncident
                        THEN work.tr.incidentID ELSE open,
          firstFail |-> start, at |-> work.at ]

Suppress ==
    /\ work.pc = "dispatch"
    /\ "unaddressed" \in faults
    /\ work' = Idle
    /\ UNCHANGED <<faults, now, up, snaps, buffer, disk, torn, unsaved, restarts>>

DispatchDown ==
    /\ work.pc = "dispatch"
    /\ work.tr.sendDown
    /\ LET alert == AlertFor("down", work.tr.incidentStart) IN
       /\ QueueAlert(alert)
       /\ work' = IF alert.incident = NoIncident THEN Idle
                  ELSE [work EXCEPT !.pc = "mark", !.tr.incidentID = alert.incident]
    /\ UNCHANGED <<faults, now, up, snaps, rows, incidents, torn, unsaved, restarts>>

Flag(id, at) ==
    [ incidents EXCEPT ![id].alertSent = TRUE, ![id].lastAlertAt = at ]

\* MarkIncidentAlerted, after the alert was parked or sent.
MarkIncidentAlerted ==
    /\ work.pc = "mark"
    /\ \/ /\ CanWrite
          /\ incidents' = Flag(work.tr.incidentID, work.at)
       \/ CanFail /\ UNCHANGED incidents
    /\ work' = Idle
    /\ UNCHANGED <<faults, now, up, snaps, buffer, rows, outbox, torn, unsaved, restarts>>

DispatchRecovery ==
    /\ work.pc = "dispatch"
    /\ work.tr.sendRecovery
    /\ QueueAlert(AlertFor("recovery", work.tr.incidentStart))
    /\ work' = Idle
    /\ UNCHANGED <<faults, now, up, snaps, rows, incidents, torn, unsaved, restarts>>

\* Reminders never wait for company.
DispatchReminder ==
    /\ work.pc = "dispatch"
    /\ work.tr.sendReminder
    /\ Send(AlertFor("reminder", snaps[work.device].openIncidentStart))
    /\ work' = Idle
    /\ UNCHANGED <<faults, now, up, snaps, buffer, rows, incidents, torn, unsaved, restarts>>

-----------------------------------------------------------------------------
(* The flush, the end of the process and its restart                       *)

Lossy == "db" \in faults \/ "cap" \in faults

\* flushAlerts on the ticker: some of the buffer goes out.  The ticker may win
\* against ctx.Done in the select after the run context is cancelled; what is
\* due then leaves the buffer and reaches nobody.
Flush ==
    /\ up # "off"
    /\ work = Idle
    /\ \E batch \in SUBSET buffer \ {{}} :
          /\ buffer' = buffer \ batch
          /\ \E sent \in SUBSET batch :
                /\ IF CanWrite THEN Lossy \/ sent = batch ELSE sent = {}
                /\ outbox' = outbox \cup sent
    /\ UNCHANGED <<faults, now, up, snaps, work, rows, incidents, torn, unsaved, restarts>>

\* Shutdown cancels the run context; an evaluation in progress carries on.
Stop ==
    /\ "stop" \in faults
    /\ up = "running"
    /\ restarts < MaxRestarts
    /\ up' = "stopping"
    /\ restarts' = restarts + 1
    /\ UNCHANGED <<faults, now, memory, disk, torn, unsaved>>

\* runEvaluator's ctx.Done branch: everything pending goes out, on a fresh
\* context, and the process ends.
FinalFlush ==
    /\ up = "stopping"
    /\ work = Idle
    /\ \E sent \in SUBSET buffer :
          /\ Lossy \/ sent = buffer
          /\ outbox' = outbox \cup sent
    /\ buffer' = {}
    /\ snaps' = Fresh
    /\ up' = "off"
    /\ UNCHANGED <<faults, now, work, rows, incidents, torn, unsaved, restarts>>

\* The process dies between two steps.
Crash ==
    /\ "crash" \in faults
    /\ up # "off"
    /\ restarts < MaxRestarts
    /\ up' = "off"
    /\ restarts' = restarts + 1
    /\ torn' = IF work.pc = "save" /\ work.wrote THEN torn \cup {work.device} ELSE torn
    /\ snaps' = Fresh
    /\ work' = Idle
    /\ buffer' = {}
    /\ UNCHANGED <<faults, now, disk, unsaved>>

Newest(S) == CHOOSE i \in S : \A j \in S : j <= i

\* Mutant: the status column is not read.
LoadedRowUnread(d) ==
    [ NewSnapshot EXCEPT !.status               = "UP",
                         !.consecutiveFailures  = rows[d].consecutiveFailures,
                         !.consecutiveSuccesses = rows[d].consecutiveSuccesses,
                         !.firstFailureAt       = rows[d].firstFailureAt ]

\* The device's own columns, as LoadSnapshots reads them.
LoadedRow(d) ==
    [ NewSnapshot EXCEPT !.status               = rows[d].status,
                         !.consecutiveFailures  = rows[d].consecutiveFailures,
                         !.consecutiveSuccesses = rows[d].consecutiveSuccesses,
                         !.firstFailureAt       = rows[d].firstFailureAt ]

\* Mutants: the join with the open incident is forgotten; alert_sent counts as
\* soon as it is not NULL.
LoadedAlone(d) == LoadedRow(d)

LoadedAsAlerted(d) ==
    LET open == OpenIncidents(d)
        last == Newest(open)
    IN  IF open = {} THEN LoadedRow(d)
        ELSE [ LoadedRow(d) EXCEPT !.openIncidentID    = last,
                                   !.openIncidentStart = incidents[last].startedAt,
                                   !.alertSent         = TRUE,
                                   !.lastAlertAt       = incidents[last].lastAlertAt ]

\* LoadSnapshots for one device.  The join yields a row per open incident, in
\* index order, and the last one read wins.
Loaded(d) ==
    LET open == OpenIncidents(d)
        last == Newest(open)
    IN  IF open = {} THEN LoadedRow(d)
        ELSE [ LoadedRow(d) EXCEPT !.openIncidentID    = last,
                                   !.openIncidentStart = incidents[last].startedAt,
                                   !.alertSent         = incidents[last].alertSent,
                                   !.lastAlertAt       = incidents[last].lastAlertAt ]

Start ==
    /\ up = "off"
    /\ up' = "running"
    /\ snaps' = [d \in Devices |-> Loaded(d)]
    /\ UNCHANGED <<faults, now, work, buffer, disk, torn, unsaved, restarts>>

-----------------------------------------------------------------------------

Evaluate ==
    \/ \E d \in Devices, class \in Class, eff \in Effectives : Take(d, class, eff)
    \/ OpenIncident
    \/ CloseIncident
    \/ SaveState
    \/ Suppress
    \/ DispatchDown
    \/ MarkIncidentAlerted
    \/ DispatchRecovery
    \/ DispatchReminder
    \/ Flush

Lifecycle == Stop \/ FinalFlush \/ Crash \/ Start

Next == Evaluate \/ Lifecycle

Spec == Init /\ [][Next]_vars

-----------------------------------------------------------------------------
(* Properties.                                                             *)

\* The device's incident row is ahead of its device row for the moment
\* between OpenIncident or CloseIncident and SaveState.
MidTransition(d) == work # Idle /\ work.device = d /\ work.pc = "save" /\ work.wrote

\* The two tables tell the same story of device d.
Agrees(d) ==
    /\ rows[d].status = "DOWN" <=> OpenIncidents(d) # {}
    /\ \A i, j \in OpenIncidents(d) : i = j

\* On disk, a device is DOWN exactly when it has an open incident, and it
\* never has two, unless one of its transitions reached the disk only in part
\* (evaluate writes the two tables in separate calls, evaluator.go:82-116).
DiskAgrees == \A d \in Devices \ torn : MidTransition(d) \/ Agrees(d)

Announcements == buffer \cup outbox

\* A RECOVERY mail is about an incident whose row says a DOWN mail was sent
\* (state.go:92), for every device whose transitions all reached the disk
\* whole.  After a torn one a new outage may be taken for the old incident.
RecoveryOnlyIfAlerted ==
    \A m \in Announcements :
        (m.kind = "recovery" /\ m.device \notin torn) =>
            /\ m.incident \in DOMAIN incidents
            /\ incidents[m.incident].alertSent

\* No outage, told by the instant of its first failure, is announced twice,
\* and no incident has two recoveries, through crashes, stops, restarts and
\* failed calls, for every device each of whose outages was written whole: "a
\* service restart mid-outage resumes rather than re-alerting" (state.go:13).
\* evaluate mails a transition whether its two rows were written or not
\* (evaluator.go:82-119); the devices this befell are unsaved.
NoReAlert ==
    \A m, n \in Announcements :
        m.device = n.device /\ m.device \notin unsaved =>
            /\ m.kind = "down" /\ n.kind = "down" /\ m.firstFail = n.firstFail
                  => m = n
            /\ m.kind = "recovery" /\ n.kind = "recovery" /\ m.incident = n.incident
                  => m = n

\* The same of every device: it is "loaded from the database at startup, so a
\* service restart mid-outage resumes rather than re-alerting" (state.go:13-15).
RestartResumes ==
    \A m, n \in Announcements :
        m.kind = "down" /\ n.kind = "down" /\ m.device = n.device
            /\ m.firstFail = n.firstFail => m = n

\* Stopping the service loses no alert: an incident recorded as alerted has
\* its mail in the buffer or the outbox once the evaluation that opened it is
\* over: "anything still waiting for company goes out now: a pending alert
\* lost to a restart is an outage nobody was told about" (evaluator.go:30).
NoSilentOutage ==
    (Collapse /\ faults \subseteq {"stop"}) =>
        \A i \in DOMAIN incidents :
            \/ ~incidents[i].alertSent
            \/ work # Idle /\ work.device = incidents[i].device
            \/ \E m \in Announcements : m.kind = "down" /\ m.incident = i

-----------------------------------------------------------------------------
(* The inductive invariant behind DiskAgrees.                              *)

\* The process ends only between evaluations, or takes the one in progress
\* with it.
Halted == up = "off" => work = Idle

Owned(d, id) == id \in DOMAIN incidents /\ incidents[id].device = d

\* Incident ids in memory name incidents of the device they are held for.
SnapsOwned ==
    \A d \in Devices : snaps[d].openIncidentID # NoIncident =>
                          Owned(d, snaps[d].openIncidentID)

\* So do those of the evaluation in progress, whose step is one its transition
\* asks for.
WorkOwned ==
    work # Idle =>
        /\ work.tr.incidentID # NoIncident => Owned(work.device, work.tr.incidentID)
        /\ work.pc = "open" => work.tr.openIncident
        /\ work.pc = "close" => work.tr.closeIncident
        /\ work.pc \in {"close", "mark"} => work.tr.incidentID # NoIncident
        /\ work.wrote => work.pc \notin {"open", "close"} /\ TouchesIncident(work.tr)

\* The snapshot's status and incident id are those of the incident table.
Holds(d) ==
    /\ snaps[d].status = "DOWN" =>
           /\ snaps[d].openIncidentID # NoIncident
           /\ OpenIncidents(d) = {snaps[d].openIncidentID}
    /\ snaps[d].status # "DOWN" =>
           /\ snaps[d].openIncidentID = NoIncident
           /\ OpenIncidents(d) = {}

InSync(d) == Holds(d) /\ (snaps[d].status = "DOWN" <=> rows[d].status = "DOWN")

Busy(d) == work # Idle /\ work.device = d /\ work.pc \in {"open", "close", "save"}

\* What each step of an evaluation of d finds, while writes still succeed.
BusyInSync(d) ==
    /\ work.pc = "open" =>
           /\ snaps[d].status = "DOWN"
           /\ snaps[d].openIncidentID = NoIncident
           /\ OpenIncidents(d) = {}
    /\ work.pc = "close" =>
           /\ snaps[d].status # "DOWN"
           /\ snaps[d].openIncidentID = NoIncident
           /\ OpenIncidents(d) = {work.tr.incidentID}
    /\ work.pc = "save" /\ work.wrote => Holds(d)
    /\ work.pc = "save" /\ ~TouchesIncident(work.tr) => InSync(d)

\* A device with no torn transition: its tables agree, except in the middle of
\* a transition, and while the process runs its snapshot agrees with them.
Sound(d) ==
    /\ MidTransition(d) \/ Agrees(d)
    /\ up = "running" => IF Busy(d) THEN BusyInSync(d) ELSE InSync(d)

IInv == TypeOK /\ Halted /\ SnapsOwned /\ WorkOwned /\ \A d \in Devices \ torn : Sound(d)

=============================================================================
