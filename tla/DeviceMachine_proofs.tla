------------------------- MODULE DeviceMachine_proofs -------------------------
(* The device machine over any number of probes, for every set of settings:  *)
(* its types; that a recovery is only ever announced after its outage; that  *)
(* the status and the incident table are what the whole history calls for;   *)
(* and that reminders keep their distance.                                   *)
EXTENDS DeviceMachine, FiniteSetTheorems, TLAPS

-----------------------------------------------------------------------------
(* What Apply does to a snapshot, for every snapshot, setting and result.    *)

\* Counting a success or a failure leaves a snapshot.
LEMMA CountType ==
    ASSUME NEW s \in Snapshot, NEW at \in Nat
    PROVE  CountSuccess(s) \in Snapshot /\ CountFailure(s, at) \in Snapshot
<1>1. CountSuccess(s) \in Snapshot
  <2> DEFINE a == [s EXCEPT !.consecutiveSuccesses = @ + 1]
             b == [a EXCEPT !.consecutiveFailures = 0]
  <2>1. a \in Snapshot
    BY DEF Snapshot
  <2>2. b \in Snapshot
    BY <2>1 DEF Snapshot
  <2>3. [b EXCEPT !.firstFailureAt = Never] \in Snapshot
    BY <2>2 DEF Snapshot, Never
  <2>4. QED
    BY <2>3 DEF CountSuccess
<1>2. CountFailure(s, at) \in Snapshot
  <2> DEFINE a == [s EXCEPT !.consecutiveFailures = @ + 1]
             b == [a EXCEPT !.consecutiveSuccesses = 0]
  <2>1. a \in Snapshot
    BY DEF Snapshot
  <2>2. b \in Snapshot
    BY <2>1 DEF Snapshot
  <2>3. [b EXCEPT !.firstFailureAt = IF @ = Never THEN at ELSE @] \in Snapshot
    BY <2>2 DEF Snapshot, Never
  <2>4. QED
    BY <2>3 DEF CountFailure
<1>3. QED
  BY <1>1, <1>2

\* Recovering, going down and reminding yield a snapshot and a transition.
LEMMA RecoverType ==
    ASSUME NEW s \in Snapshot, NEW eff \in Effective
    PROVE  Recover(s, eff).snap \in Snapshot /\ Recover(s, eff).tr \in Transition
<1> DEFINE c == CountSuccess(s)
<1>1. c \in Snapshot
  BY CountType
<1>2. Recover(s, eff).snap \in Snapshot
  <2> HIDE DEF c
  <2> DEFINE a == [c EXCEPT !.status = "UP"]
             b == [a EXCEPT !.openIncidentID = NoIncident]
             e == [b EXCEPT !.openIncidentStart = Never]
             f == [e EXCEPT !.alertSent = FALSE]
  <2>1. a \in Snapshot
    BY <1>1 DEF Snapshot, Status
  <2>2. b \in Snapshot
    BY <2>1 DEF Snapshot, NoIncident
  <2>3. e \in Snapshot
    BY <2>2 DEF Snapshot, Never
  <2>4. f \in Snapshot
    BY <2>3 DEF Snapshot
  <2>5. [f EXCEPT !.lastAlertAt = Never] \in Snapshot
    BY <2>4 DEF Snapshot, Never
  <2>6. QED
    BY <2>5 DEF Recover, c
<1>3. Recover(s, eff).tr \in Transition
  BY DEF Recover, AnnouncesRecovery, Snapshot, Effective, NoTransition, Transition, Never, NoIncident
<1>4. QED
  BY <1>2, <1>3

LEMMA GoDownType ==
    ASSUME NEW s \in Snapshot, NEW eff \in Effective, NEW at \in Nat, NEW clock \in Nat
    PROVE  /\ GoDown(s, eff, at, clock).snap \in Snapshot
           /\ GoDown(s, eff, at, clock).tr \in Transition
<1> DEFINE c     == CountFailure(s, at)
           alert == eff.notify /\ s.status # "UNKNOWN"
<1>1. c \in Snapshot /\ alert \in BOOLEAN
  BY CountType DEF Effective
<1> HIDE DEF c, alert
<1>2. GoDown(s, eff, at, clock).snap \in Snapshot
  <2> DEFINE a == [c EXCEPT !.status = "DOWN"]
             b == [a EXCEPT !.openIncidentStart = c.firstFailureAt]
             e == [b EXCEPT !.alertSent = alert]
  <2>1. a \in Snapshot
    BY <1>1 DEF Snapshot, Status
  <2>2. b \in Snapshot
    BY <1>1, <2>1 DEF Snapshot
  <2>3. e \in Snapshot
    BY <1>1, <2>2 DEF Snapshot
  <2>4. [e EXCEPT !.lastAlertAt = IF alert THEN clock ELSE @] \in Snapshot
    BY <2>3 DEF Snapshot
  <2>5. QED
    BY <2>4 DEF GoDown, c, alert
<1>3. GoDown(s, eff, at, clock).tr \in Transition
  <2>1. c.firstFailureAt \in Nat
    BY <1>1 DEF Snapshot
  <2>2. QED
    BY <1>1, <2>1 DEF GoDown, NoTransition, Transition, Never, NoIncident, c, alert
<1>4. QED
  BY <1>2, <1>3

LEMMA RemindType ==
    ASSUME NEW s \in Snapshot, NEW at \in Nat, NEW clock \in Nat
    PROVE  /\ Remind(s, at, clock).snap \in Snapshot
           /\ Remind(s, at, clock).tr \in Transition
<1> DEFINE c == CountFailure(s, at)
<1>1. c \in Snapshot
  BY CountType
<1>2. Remind(s, at, clock).tr \in Transition
  BY DEF Remind, Snapshot, NoTransition, Transition, Never, NoIncident
<1> HIDE DEF c
<1>3. [c EXCEPT !.lastAlertAt = clock] \in Snapshot
  BY <1>1 DEF Snapshot
<1>4. QED
  BY <1>2, <1>3 DEF Remind, c

\* Apply returns a snapshot and a transition.
LEMMA ApplyType ==
    ASSUME NEW s \in Snapshot, NEW eff \in Effective, NEW res \in Result,
           NEW reminder \in Nat, NEW clock \in Nat
    PROVE  /\ Apply(s, eff, res, reminder, clock).snap \in Snapshot
           /\ Apply(s, eff, res, reminder, clock).tr \in Transition
<1> DEFINE step == Apply(s, eff, res, reminder, clock)
<1>1. NoTransition \in Transition
  BY DEF NoTransition, Transition, Never, NoIncident
<1>2. CASE res.class = "canceled"
  <2>1. [NoTransition EXCEPT !.ignored = TRUE] \in Transition
    BY DEF NoTransition, Transition, Never, NoIncident
  <2>2. QED
    BY <1>2, <2>1 DEF Apply
<1>3. CASE res.class = "ok"
  <2>1. step = ApplySuccess(s, eff)
    BY <1>3 DEF Apply
  <2>2. [CountSuccess(s) EXCEPT !.status = "UP"] \in Snapshot
    <3> DEFINE c == CountSuccess(s)
    <3>1. c \in Snapshot
      BY CountType
    <3> HIDE DEF c
    <3>2. [c EXCEPT !.status = "UP"] \in Snapshot
      BY <3>1 DEF Snapshot, Status
    <3>3. QED
      BY <3>2 DEF c
  <2>3. [NoTransition EXCEPT !.changed = TRUE] \in Transition
    BY DEF NoTransition, Transition, Never, NoIncident
  <2>4. CountSuccess(s) \in Snapshot
    BY CountType
  <2>5. QED
    BY <1>1, <2>1, <2>2, <2>3, <2>4, RecoverType DEF ApplySuccess
<1>4. CASE res.class = "failed"
  <2>1. step = ApplyFailure(s, eff, res.at, reminder, clock) /\ res.at \in Nat
    BY <1>4 DEF Apply, Result
  <2>2. CountFailure(s, res.at) \in Snapshot
    BY <2>1, CountType
  <2>3. /\ GoDown(s, eff, res.at, clock).snap \in Snapshot
        /\ GoDown(s, eff, res.at, clock).tr \in Transition
    BY <2>1, GoDownType
  <2>4. /\ Remind(s, res.at, clock).snap \in Snapshot
        /\ Remind(s, res.at, clock).tr \in Transition
    BY <2>1, RemindType
  <2>5. QED
    BY <1>1, <2>1, <2>2, <2>3, <2>4 DEF ApplyFailure
<1>5. QED
  BY <1>2, <1>3, <1>4 DEF Result, Class

-----------------------------------------------------------------------------
(* The five things a result can do, field by field.                         *)

\* The transition opens no incident, closes none and sends no mail of either.
Quiet(tr) ==
    /\ ~tr.openIncident /\ ~tr.closeIncident
    /\ ~tr.sendDown /\ ~tr.sendRecovery

\* The streaks after a success, and after a failure.
SuccessCounted(s, after) ==
    /\ after.consecutiveSuccesses = s.consecutiveSuccesses + 1
    /\ after.consecutiveFailures = 0
    /\ after.firstFailureAt = Never

FailureCounted(s, after, at) ==
    /\ after.consecutiveFailures = s.consecutiveFailures + 1
    /\ after.consecutiveSuccesses = 0
    /\ after.firstFailureAt = IF s.firstFailureAt = Never THEN at ELSE s.firstFailureAt

\* What the snapshot says of its incident is what it said before.
IncidentHeld(s, after) ==
    /\ after.openIncidentID = s.openIncidentID
    /\ after.openIncidentStart = s.openIncidentStart
    /\ after.alertSent = s.alertSent

Ignored(s, after, tr) ==
    /\ after = s
    /\ tr.ignored /\ Quiet(tr) /\ ~tr.sendReminder /\ tr.incidentID = NoIncident

Recovered(s, eff, after, tr) ==
    /\ s.status = "DOWN" /\ s.consecutiveSuccesses + 1 >= eff.recoveryThreshold
    /\ after.status = "UP"
    /\ SuccessCounted(s, after)
    /\ after.openIncidentID = NoIncident /\ ~after.alertSent
    /\ after.lastAlertAt = Never
    /\ ~tr.ignored /\ ~tr.openIncident /\ ~tr.sendDown /\ ~tr.sendReminder
    /\ tr.incidentID = s.openIncidentID
    /\ tr.closeIncident <=> s.openIncidentID # NoIncident
    /\ tr.sendRecovery <=> s.openIncidentID # NoIncident /\ eff.notify /\ s.alertSent

Answered(s, eff, after, tr) ==
    /\ ~(s.status = "DOWN" /\ s.consecutiveSuccesses + 1 >= eff.recoveryThreshold)
    /\ after.status = IF s.status = "UNKNOWN" THEN "UP" ELSE s.status
    /\ SuccessCounted(s, after) /\ IncidentHeld(s, after)
    /\ after.lastAlertAt = s.lastAlertAt
    /\ ~tr.ignored /\ Quiet(tr) /\ ~tr.sendReminder /\ tr.incidentID = NoIncident

WentDown(s, eff, at, clock, after, tr) ==
    /\ s.status # "DOWN" /\ s.consecutiveFailures + 1 >= eff.failureThreshold
    /\ after.status = "DOWN"
    /\ FailureCounted(s, after, at)
    /\ after.openIncidentID = s.openIncidentID
    /\ after.alertSent <=> eff.notify /\ s.status # "UNKNOWN"
    /\ after.lastAlertAt = IF after.alertSent THEN clock ELSE s.lastAlertAt
    /\ ~tr.ignored /\ tr.openIncident /\ ~tr.closeIncident
    /\ ~tr.sendRecovery /\ ~tr.sendReminder
    /\ tr.incidentID = NoIncident
    /\ tr.incidentStart = after.firstFailureAt
    /\ tr.sendDown = after.alertSent

Failed(s, eff, at, reminder, clock, after, tr) ==
    /\ ~(s.status # "DOWN" /\ s.consecutiveFailures + 1 >= eff.failureThreshold)
    /\ after.status = s.status
    /\ FailureCounted(s, after, at) /\ IncidentHeld(s, after)
    /\ ~tr.ignored /\ Quiet(tr)
    /\ tr.sendReminder <=> ReminderDue(s, eff, reminder, clock)
    /\ after.lastAlertAt = IF tr.sendReminder THEN clock ELSE s.lastAlertAt
    /\ tr.incidentID = IF tr.sendReminder THEN s.openIncidentID ELSE NoIncident

\* The fields of a snapshot whose streaks were counted.
LEMMA Counted ==
    ASSUME NEW s \in Snapshot, NEW at \in Nat
    PROVE  /\ SuccessCounted(s, CountSuccess(s)) /\ IncidentHeld(s, CountSuccess(s))
           /\ FailureCounted(s, CountFailure(s, at), at)
           /\ IncidentHeld(s, CountFailure(s, at))
           /\ \A c \in {CountSuccess(s), CountFailure(s, at)} :
                 c.status = s.status /\ c.lastAlertAt = s.lastAlertAt
<1> DEFINE streak == IF s.firstFailureAt = Never THEN at ELSE s.firstFailureAt
<1>1. SuccessCounted(s, CountSuccess(s)) /\ IncidentHeld(s, CountSuccess(s))
  BY DEF CountSuccess, Snapshot, SuccessCounted, IncidentHeld
<1>2. CountFailure(s, at) = [ s EXCEPT !.consecutiveFailures  = @ + 1,
                                       !.consecutiveSuccesses = 0,
                                       !.firstFailureAt       = streak ]
  BY DEF CountFailure, Snapshot
<1>3. CountSuccess(s).status = s.status /\ CountSuccess(s).lastAlertAt = s.lastAlertAt
  BY DEF CountSuccess, Snapshot
<1> HIDE DEF streak
<1>4. /\ CountFailure(s, at).consecutiveFailures = s.consecutiveFailures + 1
      /\ CountFailure(s, at).consecutiveSuccesses = 0
      /\ CountFailure(s, at).firstFailureAt = streak
      /\ IncidentHeld(s, CountFailure(s, at))
      /\ CountFailure(s, at).status = s.status
      /\ CountFailure(s, at).lastAlertAt = s.lastAlertAt
  BY <1>2 DEF Snapshot, IncidentHeld
<1>5. QED
  BY <1>1, <1>3, <1>4 DEF FailureCounted, streak

\* A probe that answered recovers a DOWN device or only counts.
LEMMA SuccessCases ==
    ASSUME NEW s \in Snapshot, NEW eff \in Effective,
           NEW after, after = ApplySuccess(s, eff).snap,
           NEW tr, tr = ApplySuccess(s, eff).tr
    PROVE  Recovered(s, eff, after, tr) \/ Answered(s, eff, after, tr)
<1> DEFINE c == CountSuccess(s)
<1>1. c \in Snapshot /\ SuccessCounted(s, c) /\ IncidentHeld(s, c)
      /\ c.status = s.status /\ c.lastAlertAt = s.lastAlertAt
  BY CountType, Counted
<1>2. CASE Recovers(s, eff)
  <2> DEFINE known == s.openIncidentID # NoIncident
             start == IF known THEN s.openIncidentStart ELSE Never
             mail  == AnnouncesRecovery(s, eff)
  <2>1. /\ after = [ c EXCEPT !.status            = "UP",
                              !.openIncidentID    = NoIncident,
                              !.openIncidentStart = Never,
                              !.alertSent         = FALSE,
                              !.lastAlertAt       = Never ]
        /\ tr = [ NoTransition EXCEPT !.changed       = TRUE,
                                      !.closeIncident = known,
                                      !.incidentID    = s.openIncidentID,
                                      !.incidentStart = start,
                                      !.sendRecovery  = mail ]
    BY <1>2 DEF ApplySuccess, Recover
  <2>2. mail <=> known /\ eff.notify /\ s.alertSent
    BY DEF AnnouncesRecovery
  <2>3. known <=> s.openIncidentID # NoIncident
    OBVIOUS
  <2> HIDE DEF c, known, start, mail
  <2>4. /\ after.status = "UP" /\ after.openIncidentID = NoIncident
        /\ after.alertSent = FALSE /\ after.lastAlertAt = Never
    BY <1>1, <2>1 DEF Snapshot
  <2>5. SuccessCounted(s, after)
    BY <1>1, <2>1 DEF Snapshot, SuccessCounted
  <2>6. /\ tr.ignored = FALSE /\ tr.openIncident = FALSE /\ tr.sendDown = FALSE
        /\ tr.sendReminder = FALSE
        /\ tr.incidentID = s.openIncidentID
        /\ tr.closeIncident = known /\ tr.sendRecovery = mail
    BY <2>1 DEF NoTransition
  <2>7. QED
    BY <1>2, <2>2, <2>3, <2>4, <2>5, <2>6 DEF Recovered, Recovers
<1>3. CASE ~Recovers(s, eff)
  <2>1. /\ after = IF s.status = "UNKNOWN" THEN [c EXCEPT !.status = "UP"] ELSE c
        /\ tr \in {NoTransition, [NoTransition EXCEPT !.changed = TRUE]}
    BY <1>3 DEF ApplySuccess
  <2> HIDE DEF c
  <2>2. ~tr.ignored /\ Quiet(tr) /\ ~tr.sendReminder /\ tr.incidentID = NoIncident
    BY <2>1 DEF NoTransition, Quiet
  <2>3. /\ after.status = IF s.status = "UNKNOWN" THEN "UP" ELSE s.status
        /\ after.lastAlertAt = s.lastAlertAt
    BY <1>1, <2>1 DEF Snapshot
  <2>4. SuccessCounted(s, after) /\ IncidentHeld(s, after)
    BY <1>1, <2>1 DEF Snapshot, SuccessCounted, IncidentHeld
  <2>5. QED
    BY <1>3, <2>2, <2>3, <2>4 DEF Answered, Recovers
<1>4. QED
  BY <1>2, <1>3

\* A probe that failed takes the device down, reminds, or only counts.
LEMMA FailureCases ==
    ASSUME NEW s \in Snapshot, NEW eff \in Effective, NEW at \in Nat,
           NEW reminder \in Nat, NEW clock \in Nat,
           NEW after, after = ApplyFailure(s, eff, at, reminder, clock).snap,
           NEW tr, tr = ApplyFailure(s, eff, at, reminder, clock).tr
    PROVE  \/ WentDown(s, eff, at, clock, after, tr)
           \/ Failed(s, eff, at, reminder, clock, after, tr)
<1> DEFINE c == CountFailure(s, at)
<1>1. c \in Snapshot /\ FailureCounted(s, c, at) /\ IncidentHeld(s, c)
      /\ c.status = s.status /\ c.lastAlertAt = s.lastAlertAt
  BY CountType, Counted
<1>2. CASE GoesDown(s, eff)
  <2> DEFINE start == c.firstFailureAt
             alert == eff.notify /\ s.status # "UNKNOWN"
             sent  == IF alert THEN clock ELSE c.lastAlertAt
  <2>1. /\ after = [ c EXCEPT !.status            = "DOWN",
                              !.openIncidentStart = start,
                              !.alertSent         = alert,
                              !.lastAlertAt       = sent ]
        /\ tr = [ NoTransition EXCEPT !.changed       = TRUE,
                                      !.openIncident  = TRUE,
                                      !.incidentStart = start,
                                      !.sendDown      = alert ]
    BY <1>1, <1>2 DEF ApplyFailure, GoDown, Snapshot
  <2>2. alert <=> eff.notify /\ s.status # "UNKNOWN"
    OBVIOUS
  <2>3. sent = IF alert THEN clock ELSE s.lastAlertAt
    BY <1>1
  <2>4. start = c.firstFailureAt
    OBVIOUS
  <2> HIDE DEF c, start, alert, sent
  <2>5. /\ after.status = "DOWN" /\ after.alertSent = alert /\ after.lastAlertAt = sent
        /\ after.openIncidentID = c.openIncidentID
        /\ after.firstFailureAt = c.firstFailureAt
    BY <1>1, <2>1 DEF Snapshot
  <2>6. FailureCounted(s, after, at)
    BY <1>1, <2>1 DEF Snapshot, FailureCounted
  <2>7. /\ tr.ignored = FALSE /\ tr.openIncident = TRUE /\ tr.closeIncident = FALSE
        /\ tr.sendRecovery = FALSE /\ tr.sendReminder = FALSE
        /\ tr.incidentID = NoIncident /\ tr.incidentStart = start /\ tr.sendDown = alert
    BY <2>1 DEF NoTransition
  <2>8. after.openIncidentID = s.openIncidentID
    BY <1>1, <2>5 DEF IncidentHeld
  <2>9. QED
    BY <1>2, <2>2, <2>3, <2>4, <2>5, <2>6, <2>7, <2>8 DEF WentDown, GoesDown
<1>3. CASE ~GoesDown(s, eff) /\ ReminderDue(s, eff, reminder, clock)
  <2> DEFINE id == s.openIncidentID
  <2>1. /\ after = [c EXCEPT !.lastAlertAt = clock]
        /\ tr = [NoTransition EXCEPT !.sendReminder = TRUE, !.incidentID = id]
    BY <1>3 DEF ApplyFailure, Remind
  <2> HIDE DEF c, id
  <2>2. /\ after.status = s.status /\ after.lastAlertAt = clock
        /\ FailureCounted(s, after, at) /\ IncidentHeld(s, after)
    BY <1>1, <2>1 DEF Snapshot, FailureCounted, IncidentHeld
  <2>3. ~tr.ignored /\ Quiet(tr) /\ tr.sendReminder = TRUE /\ tr.incidentID = id
    BY <2>1 DEF NoTransition, Quiet
  <2>4. QED
    BY <1>3, <2>2, <2>3 DEF Failed, GoesDown, id
<1>4. CASE ~GoesDown(s, eff) /\ ~ReminderDue(s, eff, reminder, clock)
  <2>1. after = c /\ tr = NoTransition
    BY <1>4 DEF ApplyFailure
  <2>2. ~tr.ignored /\ Quiet(tr) /\ tr.sendReminder = FALSE /\ tr.incidentID = NoIncident
    BY <2>1 DEF NoTransition, Quiet
  <2>3. QED
    BY <1>1, <1>4, <2>1, <2>2 DEF Failed, GoesDown
<1>5. QED
  BY <1>2, <1>3, <1>4

\* Apply does one of the five.
LEMMA ApplyCases ==
    ASSUME NEW s \in Snapshot, NEW eff \in Effective, NEW res \in Result,
           NEW reminder \in Nat, NEW clock \in Nat,
           NEW after, after = Apply(s, eff, res, reminder, clock).snap,
           NEW tr, tr = Apply(s, eff, res, reminder, clock).tr
    PROVE  \/ res.class = "canceled" /\ Ignored(s, after, tr)
           \/ res.class = "ok" /\ Recovered(s, eff, after, tr)
           \/ res.class = "ok" /\ Answered(s, eff, after, tr)
           \/ res.class = "failed" /\ WentDown(s, eff, res.at, clock, after, tr)
           \/ res.class = "failed" /\ Failed(s, eff, res.at, reminder, clock, after, tr)
<1>1. res.at \in Nat
  BY DEF Result
<1>2. CASE res.class = "canceled"
  <2>1. after = s /\ tr = [NoTransition EXCEPT !.ignored = TRUE]
    BY <1>2 DEF Apply
  <2>2. QED
    BY <1>2, <2>1 DEF Ignored, NoTransition, Quiet
<1>3. CASE res.class = "ok"
  <2>1. Apply(s, eff, res, reminder, clock) = ApplySuccess(s, eff)
    BY <1>3 DEF Apply
  <2>2. QED
    BY <1>3, <2>1, SuccessCases
<1>4. CASE res.class = "failed"
  <2>1. Apply(s, eff, res, reminder, clock) = ApplyFailure(s, eff, res.at, reminder, clock)
    BY <1>4 DEF Apply
  <2>2. QED
    BY <1>1, <1>4, <2>1, FailureCases
<1>5. QED
  BY <1>2, <1>3, <1>4 DEF Result, Class

\* How Apply moves the status and the incident id together.  A transition that
\* opens an incident starts from a device that is not DOWN; one that closes an
\* incident starts from a DOWN device, names the incident the snapshot held
\* and makes the snapshot let go of it.
LEMMA ApplyShape ==
    ASSUME NEW s \in Snapshot, NEW eff \in Effective, NEW res \in Result,
           NEW reminder \in Nat, NEW clock \in Nat,
           NEW after, after = Apply(s, eff, res, reminder, clock).snap,
           NEW tr, tr = Apply(s, eff, res, reminder, clock).tr
    PROVE  /\ tr.openIncident =>
                  /\ ~tr.closeIncident /\ tr.incidentID = NoIncident
                  /\ s.status # "DOWN" /\ after.status = "DOWN"
                  /\ after.openIncidentID = s.openIncidentID
           /\ tr.closeIncident =>
                  /\ s.status = "DOWN" /\ after.status # "DOWN"
                  /\ s.openIncidentID # NoIncident
                  /\ tr.incidentID = s.openIncidentID
                  /\ after.openIncidentID = NoIncident
           /\ ~tr.openIncident /\ ~tr.closeIncident =>
                  \/ /\ after.openIncidentID = s.openIncidentID
                     /\ after.status = "DOWN" <=> s.status = "DOWN"
                  \/ /\ s.status = "DOWN" /\ after.status # "DOWN"
                     /\ s.openIncidentID = NoIncident
                     /\ after.openIncidentID = NoIncident
           /\ tr.incidentID \in {NoIncident, s.openIncidentID}
           /\ tr.ignored => ~tr.openIncident /\ ~tr.closeIncident
<1>1. \/ Ignored(s, after, tr)
      \/ Recovered(s, eff, after, tr)
      \/ Answered(s, eff, after, tr)
      \/ WentDown(s, eff, res.at, clock, after, tr)
      \/ Failed(s, eff, res.at, reminder, clock, after, tr)
  BY ApplyCases
<1>2. CASE Ignored(s, after, tr)
  BY <1>2, ApplyType DEF Ignored, Quiet
<1>3. CASE Recovered(s, eff, after, tr)
  BY <1>3 DEF Recovered
<1>4. CASE Answered(s, eff, after, tr)
  BY <1>4 DEF Answered, Quiet, IncidentHeld
<1>5. CASE WentDown(s, eff, res.at, clock, after, tr)
  BY <1>5 DEF WentDown
<1>6. CASE Failed(s, eff, res.at, reminder, clock, after, tr)
  BY <1>6 DEF Failed, Quiet, IncidentHeld
<1>7. QED
  BY <1>1, <1>2, <1>3, <1>4, <1>5, <1>6

-----------------------------------------------------------------------------
(* What Apply says of the mails.                                            *)

\* A DOWN mail comes with a new incident, a RECOVERY with the end of an
\* announced one; a snapshot says that mail was sent for its incident when it
\* opened with one, and otherwise only as long as it said so before.
LEMMA MailShape ==
    ASSUME NEW s \in Snapshot, NEW eff \in Effective, NEW res \in Result,
           NEW reminder \in Nat, NEW time \in Nat,
           NEW after, after = Apply(s, eff, res, reminder, time).snap,
           NEW tr, tr = Apply(s, eff, res, reminder, time).tr
    PROVE  /\ tr.sendDown => tr.openIncident
           /\ tr.openIncident /\ after.alertSent => tr.sendDown
           /\ tr.sendRecovery => tr.closeIncident /\ s.alertSent
           /\ ~tr.openIncident /\ after.alertSent => s.alertSent
<1>1. \/ Ignored(s, after, tr)
      \/ Recovered(s, eff, after, tr)
      \/ Answered(s, eff, after, tr)
      \/ WentDown(s, eff, res.at, time, after, tr)
      \/ Failed(s, eff, res.at, reminder, time, after, tr)
  BY ApplyCases
<1>2. CASE Ignored(s, after, tr)
  BY <1>2 DEF Ignored, Quiet
<1>3. CASE Recovered(s, eff, after, tr)
  BY <1>3 DEF Recovered
<1>4. CASE Answered(s, eff, after, tr)
  BY <1>4 DEF Answered, Quiet, IncidentHeld
<1>5. CASE WentDown(s, eff, res.at, time, after, tr)
  BY <1>5 DEF WentDown
<1>6. CASE Failed(s, eff, res.at, reminder, time, after, tr)
  BY <1>6 DEF Failed, Quiet, IncidentHeld
<1>7. QED
  BY <1>1, <1>2, <1>3, <1>4, <1>5, <1>6

-----------------------------------------------------------------------------
(* The history when one more result is folded in.                           *)

\* The entries of the run of P that ends at k.
Run(P, k) == {j \in 1..k : \A i \in j..k : P[i]}

\* A run grows by the entry that continues it and is empty after one that does
\* not.
LEMMA RunStep ==
    ASSUME NEW k \in Nat, NEW P \in [1..k -> BOOLEAN], NEW Q \in [1..k+1 -> BOOLEAN],
           \A i \in 1..k : Q[i] = P[i]
    PROVE  /\ Cardinality(Run(P, k)) \in Nat
           /\ Cardinality(Run(Q, k + 1)) = IF Q[k + 1] THEN Cardinality(Run(P, k)) + 1 ELSE 0
<1>1. IsFiniteSet(Run(P, k)) /\ k + 1 \notin Run(P, k)
  <2>1. Run(P, k) \in SUBSET (1..k)
    BY DEF Run
  <2>2. IsFiniteSet(1..k)
    BY FS_Interval
  <2>3. QED
    BY <2>1, <2>2, FS_Subset
<1>2. CASE Q[k + 1]
  <2>1. Run(Q, k + 1) = Run(P, k) \cup {k + 1}
    BY <1>2 DEF Run
  <2>2. QED
    BY <1>1, <1>2, <2>1, FS_AddElement, FS_CardinalityType
<1>3. CASE ~Q[k + 1]
  <2>1. Run(Q, k + 1) = {}
    BY <1>3 DEF Run
  <2>2. QED
    BY <1>1, <1>3, <2>1, FS_EmptySet, FS_CardinalityType
<1>4. QED
  BY <1>2, <1>3

\* The entries of a log that failed, and those that answered.
Bad(l, k)  == [i \in 1..k |-> ~l[i].ok]
Good(l, k) == [i \in 1..k |-> l[i].ok]

\* The runs of the reference definitions are runs of those.
LEMMA RunsAreRuns ==
    ASSUME NEW l, NEW k \in Nat
    PROVE  /\ {j \in 1..k : \A i \in j..k : ~l[i].ok} = Run(Bad(l, k), k)
           /\ {j \in 1..k : \A i \in j..k : l[i].ok} = Run(Good(l, k), k)
<1>1. \A j \in 1..k : \A i \in j..k : i \in 1..k
  OBVIOUS
<1>2. ASSUME NEW j \in 1..k
      PROVE  /\ (\A i \in j..k : ~l[i].ok) <=> (\A i \in j..k : Bad(l, k)[i])
             /\ (\A i \in j..k : l[i].ok) <=> (\A i \in j..k : Good(l, k)[i])
  <2>1. \A i \in j..k : i \in 1..k
    BY <1>1
  <2>2. \A i \in j..k : Bad(l, k)[i] <=> ~l[i].ok
    BY <2>1 DEF Bad
  <2>3. \A i \in j..k : Good(l, k)[i] <=> l[i].ok
    BY <2>1 DEF Good
  <2>4. QED
    BY <2>2, <2>3
<1>3. QED
  BY <1>2 DEF Run

\* No run ends before the first entry.
LEMMA NoRun == FailureRun(0) = 0 /\ SuccessRun(0) = 0
<1>1. /\ {j \in 1..0 : \A i \in j..0 : ~log[i].ok} = {}
      /\ {j \in 1..0 : \A i \in j..0 : log[i].ok} = {}
  OBVIOUS
<1>2. QED
  BY <1>1, FS_EmptySet DEF FailureRun, SuccessRun

\* What is said of the history depends on nothing but the log.
LEMMA LogSame ==
    ASSUME log' = log, NEW k
    PROVE  /\ FailureRun(k)' = FailureRun(k) /\ SuccessRun(k)' = SuccessRun(k)
           /\ DownAfter(k)' <=> DownAfter(k)
           /\ SeenUp(k)' <=> SeenUp(k)
           /\ StatusAfter(k)' = StatusAfter(k)
<1>1. ASSUME NEW i
      PROVE  FailureRun(i)' = FailureRun(i) /\ SuccessRun(i)' = SuccessRun(i)
  BY Zenon DEF FailureRun, SuccessRun
<1>2. ASSUME NEW i
      PROVE  (Trips(i)' <=> Trips(i)) /\ (Heals(i)' <=> Heals(i))
  BY <1>1, Zenon DEF Trips, Heals
<1>3. DownAfter(k)' <=> DownAfter(k)
  BY <1>2, Zenon DEF DownAfter
<1>4. SeenUp(k)' <=> SeenUp(k)
  BY Zenon DEF SeenUp
<1>5. QED
  BY <1>1, <1>3, <1>4 DEF StatusAfter

\* An entry more changes nothing that was said of the earlier ones; it
\* lengthens the run of its kind and ends the other, and the status after it is
\* the one a machine with those counters would move to.
LEMMA LogGrows ==
    ASSUME log \in Seq(Entry), NEW e \in Entry, log' = Append(log, e),
           NEW L, L = Len(log)
    PROVE  /\ L \in Nat /\ Len(log') = L + 1
           /\ \A i \in 1..L : log'[i] = log[i]
           /\ log'[L + 1] = e
           /\ \A k \in 0..L : /\ FailureRun(k)' = FailureRun(k)
                              /\ SuccessRun(k)' = SuccessRun(k)
                              /\ DownAfter(k)' <=> DownAfter(k)
                              /\ SeenUp(k)' <=> SeenUp(k)
           /\ FailureRun(L + 1)' = IF e.ok THEN 0 ELSE FailureRun(L) + 1
           /\ SuccessRun(L + 1)' = IF e.ok THEN SuccessRun(L) + 1 ELSE 0
           /\ DownAfter(L + 1)' <=> \/ FailureRun(L + 1)' >= e.eff.failureThreshold
                                    \/ /\ DownAfter(L)
                                       /\ ~(SuccessRun(L + 1)' >= e.eff.recoveryThreshold)
           /\ SeenUp(L + 1)' <=> SeenUp(L) \/ e.ok
<1>1. /\ L \in Nat /\ Len(log') = L + 1
      /\ \A i \in 1..L : log'[i] = log[i] /\ log[i].ok \in BOOLEAN
      /\ log'[L + 1] = e /\ e.ok \in BOOLEAN
  <2>1. L \in Nat /\ Len(log') = L + 1 /\ log'[L + 1] = e
    OBVIOUS
  <2>2. \A i \in 1..L : log'[i] = log[i] /\ log[i] \in Entry
    OBVIOUS
  <2>3. \A f \in Entry : f.ok \in BOOLEAN
    BY DEF Entry
  <2>4. QED
    BY <2>1, <2>2, <2>3
<1>2. \A k \in 0..L : FailureRun(k)' = FailureRun(k) /\ SuccessRun(k)' = SuccessRun(k)
  <2>1. SUFFICES ASSUME NEW k \in 0..L
                 PROVE  FailureRun(k)' = FailureRun(k) /\ SuccessRun(k)' = SuccessRun(k)
    OBVIOUS
  <2>2. \A i \in 1..k : log'[i] = log[i]
    BY <1>1
  <2>3. /\ {j \in 1..k : \A i \in j..k : ~log'[i].ok} = {j \in 1..k : \A i \in j..k : ~log[i].ok}
        /\ {j \in 1..k : \A i \in j..k : log'[i].ok} = {j \in 1..k : \A i \in j..k : log[i].ok}
    BY <2>2
  <2>4. QED
    BY <2>3 DEF FailureRun, SuccessRun
<1>3. /\ FailureRun(L + 1)' = IF e.ok THEN 0 ELSE FailureRun(L) + 1
      /\ SuccessRun(L + 1)' = IF e.ok THEN SuccessRun(L) + 1 ELSE 0
  <2>1. /\ FailureRun(L) = Cardinality(Run(Bad(log, L), L))
        /\ SuccessRun(L) = Cardinality(Run(Good(log, L), L))
    <3>1. /\ {j \in 1..L : \A i \in j..L : ~log[i].ok} = Run(Bad(log, L), L)
          /\ {j \in 1..L : \A i \in j..L : log[i].ok} = Run(Good(log, L), L)
      BY <1>1, RunsAreRuns
    <3>2. QED
      BY <3>1, Zenon DEF FailureRun, SuccessRun
  <2>2. /\ FailureRun(L + 1)' = Cardinality(Run(Bad(log', L + 1), L + 1))
        /\ SuccessRun(L + 1)' = Cardinality(Run(Good(log', L + 1), L + 1))
    <3>1. /\ {j \in 1..L+1 : \A i \in j..L+1 : ~log'[i].ok} = Run(Bad(log', L + 1), L + 1)
          /\ {j \in 1..L+1 : \A i \in j..L+1 : log'[i].ok} = Run(Good(log', L + 1), L + 1)
      <4> DEFINE M    == L + 1
                 next == log'
      <4>1. M \in Nat
        BY <1>1
      <4> HIDE DEF M, next
      <4>2. /\ {j \in 1..M : \A i \in j..M : ~next[i].ok} = Run(Bad(next, M), M)
            /\ {j \in 1..M : \A i \in j..M : next[i].ok} = Run(Good(next, M), M)
        BY <4>1, RunsAreRuns
      <4>3. QED
        BY <4>2 DEF M, next
    <3>2. QED
      BY <3>1, Zenon DEF FailureRun, SuccessRun
  <2>3. /\ Bad(log, L) \in [1..L -> BOOLEAN] /\ Bad(log', L + 1) \in [1..L+1 -> BOOLEAN]
        /\ \A i \in 1..L : Bad(log', L + 1)[i] = Bad(log, L)[i]
        /\ Bad(log', L + 1)[L + 1] = ~e.ok
    BY <1>1 DEF Bad
  <2>4. /\ Good(log, L) \in [1..L -> BOOLEAN] /\ Good(log', L + 1) \in [1..L+1 -> BOOLEAN]
        /\ \A i \in 1..L : Good(log', L + 1)[i] = Good(log, L)[i]
        /\ Good(log', L + 1)[L + 1] = e.ok
    BY <1>1 DEF Good
  <2>5. Cardinality(Run(Bad(log', L + 1), L + 1)) =
           IF Bad(log', L + 1)[L + 1] THEN Cardinality(Run(Bad(log, L), L)) + 1 ELSE 0
    BY <1>1, <2>3, RunStep
  <2>6. Cardinality(Run(Good(log', L + 1), L + 1)) =
           IF Good(log', L + 1)[L + 1] THEN Cardinality(Run(Good(log, L), L)) + 1 ELSE 0
    BY <1>1, <2>4, RunStep
  <2>7. QED
    BY <1>1, <2>1, <2>2, <2>3, <2>4, <2>5, <2>6
<1>4. \A k \in 1..L : (Trips(k)' <=> Trips(k)) /\ (Heals(k)' <=> Heals(k))
  BY <1>1, <1>2 DEF Trips, Heals
<1>5. \A k \in 0..L : (DownAfter(k)' <=> DownAfter(k)) /\ (SeenUp(k)' <=> SeenUp(k))
  <2>1. SUFFICES ASSUME NEW k \in 0..L
                 PROVE  (DownAfter(k)' <=> DownAfter(k)) /\ (SeenUp(k)' <=> SeenUp(k))
    OBVIOUS
  <2>2. \A j \in 1..k : j \in 1..L /\ \A i \in j+1..k : i \in 1..L
    BY <1>1
  <2>3. DownAfter(k)' <=> DownAfter(k)
    BY <1>4, <2>2 DEF DownAfter
  <2>4. SeenUp(k)' <=> SeenUp(k)
    BY <1>1, <2>2 DEF SeenUp
  <2>5. QED
    BY <2>3, <2>4
<1>6. /\ Trips(L + 1)' <=> FailureRun(L + 1)' >= e.eff.failureThreshold
      /\ Heals(L + 1)' <=> SuccessRun(L + 1)' >= e.eff.recoveryThreshold
  BY <1>1 DEF Trips, Heals
<1>7. DownAfter(L + 1)' <=> Trips(L + 1)' \/ (DownAfter(L)' /\ ~Heals(L + 1)')
  <2>1. /\ \A j \in 1..L+1 : j \in 1..L \/ j = L + 1
        /\ \A j \in 1..L : j \in 1..L+1
        /\ L + 1 \in 1..L+1
        /\ \A i \in (L+1)+1..L+1 : FALSE
        /\ \A j \in 1..L : \A i \in j+1..L+1 : i \in j+1..L \/ i = L + 1
        /\ \A j \in 1..L : L + 1 \in j+1..L+1 /\ \A i \in j+1..L : i \in j+1..L+1
    BY <1>1
  <2>2. DownAfter(L + 1)' =>  Trips(L + 1)' \/ (DownAfter(L)' /\ ~Heals(L + 1)')
    BY <2>1 DEF DownAfter
  <2>3. Trips(L + 1)' => DownAfter(L + 1)'
    BY <2>1 DEF DownAfter
  <2>4. DownAfter(L)' /\ ~Heals(L + 1)' => DownAfter(L + 1)'
    BY <2>1 DEF DownAfter
  <2>5. QED
    BY <2>2, <2>3, <2>4
<1>8. SeenUp(L + 1)' <=> SeenUp(L) \/ e.ok
  <2>1. SeenUp(L + 1)' <=> SeenUp(L)' \/ log'[L + 1].ok
    BY <1>1 DEF SeenUp
  <2>2. QED
    BY <1>1, <1>5, <2>1
<1>9. QED
  <2>1. DownAfter(L)' <=> DownAfter(L)
    BY <1>1, <1>5
  <2>2. QED
    BY <1>1, <1>2, <1>3, <1>5, <1>6, <1>7, <1>8, <2>1

-----------------------------------------------------------------------------
(* The inductive invariant.                                                 *)

Mails == DOMAIN mails

\* Ids name rows of the incidents table: the snapshot's, and every mail's.
IdsKnown ==
    /\ snap.openIncidentID \in 0..Len(outages)
    /\ \A n \in Mails : mails[n].incident \in 0..Len(outages)

\* What the snapshot says of its open incident is what the mails say.
OpenAnnounced ==
    snap.openIncidentID # NoIncident =>
        /\ snap.alertSent => \E m \in Mails : /\ mails[m].kind = "down"
                                              /\ mails[m].incident = snap.openIncidentID
        /\ \A m \in Mails : ~(mails[m].kind = "recovery"
                                /\ mails[m].incident = snap.openIncidentID)

Inv == TypeOK /\ IdsKnown /\ OpenAnnounced /\ RecoveryFollowsDown

\* A first state satisfies it.
LEMMA InitInv == Init => Inv
<1> SUFFICES ASSUME Init PROVE Inv
  OBVIOUS
<1>1. NewSnapshot \in Snapshot /\ NewSnapshot.openIncidentID = NoIncident
  BY DEF NewSnapshot, Snapshot, Status, Never, NoIncident
<1>2. mails = <<>> /\ outages = <<>> /\ log = <<>> /\ DOMAIN mails = {}
  BY DEF Init
<1>3. TypeOK
  BY <1>1, <1>2 DEF Init, TypeOK
<1>4. IdsKnown /\ OpenAnnounced /\ RecoveryFollowsDown
  BY <1>1, <1>2 DEF Init, IdsKnown, OpenAnnounced, RecoveryFollowsDown, Mails, NoIncident
<1>5. QED
  BY <1>3, <1>4 DEF Inv

-----------------------------------------------------------------------------
(* One probe.                                                               *)

\* The incidents table stays a table and only grows: by the row of the incident
\* that opens.
LEMMA RecordedType ==
    ASSUME outages \in Seq(Outage), NEW tr \in Transition, NEW at \in Nat,
           tr.closeIncident => tr.incidentID \in 1..Len(outages)
    PROVE  /\ Recorded(tr, at) \in Seq(Outage)
           /\ Len(Recorded(tr, at)) = Len(outages) + (IF tr.openIncident THEN 1 ELSE 0)
<1>1. CASE tr.openIncident
  <2> DEFINE row == [ startedAt |-> tr.incidentStart, detectedAt |-> at, resolvedAt |-> Never,
                      alertSent |-> tr.sendDown, recoverySent |-> FALSE ]
  <2>1. row \in Outage
    BY DEF Outage, Transition, Never
  <2>2. Recorded(tr, at) = Append(outages, row)
    BY <1>1 DEF Recorded
  <2> HIDE DEF row
  <2>3. QED
    BY <1>1, <2>1, <2>2
<1>2. CASE ~tr.openIncident /\ tr.closeIncident
  <2> DEFINE id  == tr.incidentID
             row == [outages[id] EXCEPT !.resolvedAt = at, !.recoverySent = tr.sendRecovery]
  <2>1. id \in 1..Len(outages) /\ outages[id] \in Outage
    BY <1>2
  <2>2. row \in Outage
    BY <2>1 DEF Outage, Transition
  <2>3. Recorded(tr, at) = [outages EXCEPT ![id] = row]
    BY <1>2, <2>1, <2>2 DEF Recorded, Outage
  <2> HIDE DEF row, id
  <2>4. QED
    BY <1>2, <2>1, <2>2, <2>3
<1>3. CASE ~tr.openIncident /\ ~tr.closeIncident
  BY <1>3 DEF Recorded
<1>4. QED
  BY <1>1, <1>2, <1>3

\* The mails either stay or grow by one, of the kind the transition asks for
\* and about its incident.
LEMMA AnnouncedType ==
    ASSUME mails \in Seq(Mail), now \in Nat, NEW tr \in Transition, NEW s \in Snapshot
    PROVE  \/ /\ Announced(tr, s) = mails
              /\ ~tr.sendDown /\ ~tr.sendRecovery /\ ~tr.sendReminder
           \/ \E kind \in Kind :
                 LET mail == [kind |-> kind, incident |-> IncidentOf(tr, s), at |-> now]
                 IN  /\ mail \in Mail
                     /\ Announced(tr, s) = Append(mails, mail)
                     /\ kind = "down" => tr.sendDown
                     /\ kind = "recovery" => tr.sendRecovery
                     /\ tr.sendDown => kind = "down"
<1>1. IncidentOf(tr, s) \in Nat
  BY DEF IncidentOf, Transition, Snapshot
<1>2. QED
  BY <1>1 DEF Announced, Kind, Mail

\* One probe keeps the invariant.
LEMMA ProbeInv ==
    ASSUME Inv, NEW class \in Class, NEW eff \in Effectives, Probe(class, eff)
    PROVE  Inv'
<1> DEFINE res  == [class |-> class, at |-> now]
           step == Apply(snap, eff, res, Reminder, now)
           tr   == step.tr
           kept == Adopted(step.snap, tr)
<1>0. /\ now \in Nat /\ snap \in Snapshot /\ outages \in Seq(Outage)
      /\ mails \in Seq(Mail) /\ log \in Seq(Entry)
  BY DEF Inv, TypeOK
<1>1. eff \in Effective /\ res \in Result /\ Reminder \in Nat
  BY <1>0, EffectivesAssumption, ReminderAssumption DEF Result
<1>2. step.snap \in Snapshot /\ tr \in Transition
  BY <1>0, <1>1, ApplyType
<1>3. /\ snap' = kept /\ outages' = Recorded(tr, now) /\ mails' = Announced(tr, kept)
      /\ log' = IF tr.ignored THEN log
                ELSE Append(log, [ok |-> class = "ok", at |-> now, eff |-> eff])
      /\ now' = now + 1
  BY DEF Probe
<1> HIDE DEF res
<1>4. PICK after, t :
        /\ after = step.snap /\ t = tr
        /\ t.openIncident =>
              /\ ~t.closeIncident /\ t.incidentID = NoIncident
              /\ after.openIncidentID = snap.openIncidentID
        /\ t.closeIncident =>
              /\ snap.openIncidentID # NoIncident
              /\ t.incidentID = snap.openIncidentID
              /\ after.openIncidentID = NoIncident
        /\ ~t.openIncident => after.openIncidentID \in {NoIncident, snap.openIncidentID}
        /\ t.incidentID \in {NoIncident, snap.openIncidentID}
        /\ t.sendDown => t.openIncident
        /\ t.openIncident /\ after.alertSent => t.sendDown
        /\ t.sendRecovery => t.closeIncident /\ snap.alertSent
        /\ ~t.openIncident /\ after.alertSent => snap.alertSent
  <2>1. PICK after, t : after = step.snap /\ t = step.tr
    OBVIOUS
  <2>2. /\ t.openIncident =>
              /\ ~t.closeIncident /\ t.incidentID = NoIncident
              /\ after.openIncidentID = snap.openIncidentID
        /\ t.closeIncident =>
              /\ snap.openIncidentID # NoIncident
              /\ t.incidentID = snap.openIncidentID
              /\ after.openIncidentID = NoIncident
        /\ ~t.openIncident /\ ~t.closeIncident =>
              \/ after.openIncidentID = snap.openIncidentID
              \/ after.openIncidentID = NoIncident
        /\ t.incidentID \in {NoIncident, snap.openIncidentID}
    BY <1>0, <1>1, <2>1, ApplyShape
  <2>3. /\ t.sendDown => t.openIncident
        /\ t.openIncident /\ after.alertSent => t.sendDown
        /\ t.sendRecovery => t.closeIncident /\ snap.alertSent
        /\ ~t.openIncident /\ after.alertSent => snap.alertSent
    BY <1>0, <1>1, <2>1, MailShape
  <2>4. QED
    BY <2>1, <2>2, <2>3
<1> HIDE DEF res, step, tr, kept
<1>5. snap.openIncidentID \in 0..Len(outages) /\ Len(outages) \in Nat
  BY <1>0 DEF Inv, IdsKnown
<1>6. /\ outages' \in Seq(Outage)
      /\ Len(outages') = Len(outages) + (IF tr.openIncident THEN 1 ELSE 0)
  BY <1>0, <1>2, <1>3, <1>4, <1>5, RecordedType DEF NoIncident
<1>7. /\ kept \in Snapshot
      /\ tr.openIncident => /\ kept.openIncidentID = Len(outages) + 1
                            /\ kept.alertSent = step.snap.alertSent
      /\ ~tr.openIncident => kept = step.snap
  <2> DEFINE next == step.snap
  <2>1. next \in Snapshot /\ kept = IF tr.openIncident
                                    THEN [next EXCEPT !.openIncidentID = Len(outages) + 1]
                                    ELSE next
    BY <1>2 DEF kept, Adopted
  <2> HIDE DEF next
  <2>2. \A id \in Nat : LET s == [next EXCEPT !.openIncidentID = id]
                       IN  /\ s \in Snapshot /\ s.openIncidentID = id
                           /\ s.alertSent = next.alertSent
    BY <2>1 DEF Snapshot
  <2>3. /\ kept \in Snapshot
        /\ tr.openIncident => /\ kept.openIncidentID = Len(outages) + 1
                              /\ kept.alertSent = next.alertSent
    BY <1>5, <2>1, <2>2
  <2>4. QED
    BY <2>1, <2>3 DEF next
<1>8. \/ mails' = mails /\ ~tr.sendDown /\ ~tr.sendRecovery /\ ~tr.sendReminder
      \/ \E kind \in Kind :
            LET mail == [kind |-> kind, incident |-> IncidentOf(tr, kept), at |-> now]
            IN  /\ mail \in Mail
                /\ mails' = Append(mails, mail)
                /\ kind = "down" => tr.sendDown
                /\ kind = "recovery" => tr.sendRecovery
                /\ tr.sendDown => kind = "down"
  BY <1>0, <1>2, <1>3, <1>7, AnnouncedType
<1>9. TypeOK'
  <2>1. mails' \in Seq(Mail)
    <3>1. mails' = mails \/ \E mail \in Mail : mails' = Append(mails, mail)
      BY <1>8
    <3>2. CASE mails' = mails
      BY <1>0, <3>2
    <3>3. ASSUME NEW mail \in Mail, mails' = Append(mails, mail)
          PROVE  mails' \in Seq(Mail)
      BY <1>0, <3>3
    <3>4. QED
      BY <3>1, <3>2, <3>3
  <2>2. [ok |-> class = "ok", at |-> now, eff |-> eff] \in Entry
    BY <1>0, <1>1 DEF Entry
  <2>3. log' \in Seq(Entry)
    BY <1>0, <1>3, <2>2
  <2>4. QED
    BY <1>0, <1>3, <1>6, <1>7, <2>1, <2>3 DEF TypeOK
<1>10. snap'.openIncidentID \in 0..Len(outages')
  BY <1>3, <1>4, <1>5, <1>6, <1>7 DEF NoIncident
<1>11. IncidentOf(tr, kept) \in 0..Len(outages')
  BY <1>3, <1>4, <1>5, <1>6, <1>10 DEF IncidentOf, NoIncident
<1>12. \A n \in Mails : mails[n] \in Mail /\ mails[n].incident \in 0..Len(outages)
  BY <1>0 DEF Inv, IdsKnown, Mails
<1>13. CASE mails' = mails /\ ~tr.sendDown /\ ~tr.sendRecovery
  <2>1. IdsKnown'
    BY <1>5, <1>6, <1>10, <1>12, <1>13 DEF IdsKnown, Mails
  <2>2. OpenAnnounced'
    <3>1. CASE tr.openIncident
      <4>1. ~snap'.alertSent /\ snap'.openIncidentID = Len(outages) + 1
        BY <1>3, <1>4, <1>7, <1>13, <3>1
      <4>2. QED
        BY <1>5, <1>12, <1>13, <4>1 DEF OpenAnnounced, Mails
    <3>2. CASE ~tr.openIncident
      BY <1>3, <1>4, <1>7, <1>13, <3>2 DEF Inv, OpenAnnounced, Mails
    <3>3. QED
      BY <3>1, <3>2
  <2>3. RecoveryFollowsDown'
    BY <1>13 DEF Inv, RecoveryFollowsDown
  <2>4. QED
    BY <1>9, <2>1, <2>2, <2>3 DEF Inv
<1>14. ASSUME NEW kind \in Kind, NEW mail \in Mail,
              mail = [kind |-> kind, incident |-> IncidentOf(tr, kept), at |-> now],
              mails' = Append(mails, mail),
              kind = "down" => tr.sendDown,
              kind = "recovery" => tr.sendRecovery,
              tr.sendDown => kind = "down"
       PROVE  Inv'
  <2> DEFINE L == Len(mails)
  <2>1. /\ L \in Nat /\ Mails = 1..L /\ Mails' = 1..(L + 1)
        /\ \A n \in 1..L : mails'[n] = mails[n]
        /\ mails'[L + 1] = mail
    BY <1>0, <1>14 DEF Mails
  <2>2. mail.kind = kind /\ mail.incident = IncidentOf(tr, kept) /\ mail.at = now
    BY <1>14
  <2>3. IdsKnown'
    <3>1. 0..Len(outages) \subseteq 0..Len(outages')
      BY <1>5, <1>6
    <3>2. \A n \in Mails' : n \in Mails \/ n = L + 1
      BY <2>1
    <3>3. \A n \in Mails' : mails'[n].incident \in 0..Len(outages')
      BY <1>11, <1>12, <2>1, <2>2, <3>1, <3>2
    <3>4. QED
      BY <1>10, <3>3 DEF IdsKnown
  <2>4. kind = "down" => tr.openIncident /\ mail.incident = Len(outages) + 1
    BY <1>4, <1>5, <1>7, <1>14, <2>2 DEF IncidentOf, NoIncident
  <2>5. kind = "recovery" =>
           /\ tr.closeIncident /\ ~tr.openIncident /\ snap.alertSent
           /\ snap.openIncidentID # NoIncident
           /\ mail.incident = snap.openIncidentID
           /\ snap'.openIncidentID = NoIncident
    BY <1>3, <1>4, <1>7, <1>14, <2>2 DEF IncidentOf
  <2>6. OpenAnnounced'
    <3>1. CASE tr.openIncident
      <4>1. /\ snap'.openIncidentID = Len(outages) + 1
            /\ snap'.alertSent => kind = "down"
            /\ kind # "recovery"
        BY <1>3, <1>4, <1>7, <1>14, <2>5, <3>1
      <4>2. snap'.alertSent => mails'[L + 1].kind = "down"
                                 /\ mails'[L + 1].incident = snap'.openIncidentID
        BY <2>1, <2>2, <2>4, <4>1
      <4>3. \A m \in Mails' : ~(mails'[m].kind = "recovery"
                                   /\ mails'[m].incident = snap'.openIncidentID)
        BY <1>5, <1>12, <2>1, <2>2, <4>1
      <4>4. L + 1 \in Mails'
        BY <2>1
      <4>5. QED
        BY <4>2, <4>3, <4>4 DEF OpenAnnounced
    <3>2. CASE ~tr.openIncident
      <4>1. SUFFICES ASSUME snap'.openIncidentID # NoIncident
                     PROVE  /\ snap'.alertSent =>
                                   \E m \in Mails' : /\ mails'[m].kind = "down"
                                                     /\ mails'[m].incident = snap'.openIncidentID
                            /\ \A m \in Mails' :
                                   ~(mails'[m].kind = "recovery"
                                       /\ mails'[m].incident = snap'.openIncidentID)
        BY DEF OpenAnnounced
      <4>2. /\ snap'.openIncidentID = snap.openIncidentID /\ kind # "recovery"
            /\ snap'.alertSent => snap.alertSent
        BY <1>3, <1>4, <1>7, <2>5, <3>2, <4>1
      <4>3. QED
        BY <2>1, <2>2, <4>1, <4>2 DEF Inv, OpenAnnounced
    <3>3. QED
      BY <3>1, <3>2
  <2>7. RecoveryFollowsDown'
    <3>1. SUFFICES ASSUME NEW n \in Mails', mails'[n].kind # "reminder"
                   PROVE  /\ \A m \in Mails' :
                                 (mails'[m].kind = mails'[n].kind
                                    /\ mails'[m].incident = mails'[n].incident) => m = n
                          /\ mails'[n].kind = "recovery" =>
                                 \E m \in 1..n-1 :
                                    mails'[m] = [ kind     |-> "down",
                                                  incident |-> mails'[n].incident,
                                                  at       |-> mails'[m].at ]
      BY DEF RecoveryFollowsDown, Mails
    \* A new mail is no second one of its kind about its incident.
    <3>2. \A m \in 1..L : mails[m].kind = kind /\ kind # "reminder"
                            => mails[m].incident # mail.incident
      <4>1. CASE kind = "down"
        BY <1>5, <1>12, <2>1, <2>4, <4>1
      <4>2. CASE kind = "recovery"
        BY <2>1, <2>5, <4>2 DEF Inv, OpenAnnounced
      <4>3. QED
        BY <4>1, <4>2 DEF Kind
    <3>3. CASE n \in 1..L
      <4>1. \A m \in 1..L :
                (mails[m].kind = mails[n].kind /\ mails[m].incident = mails[n].incident) => m = n
        BY <2>1, <3>1, <3>3 DEF Inv, RecoveryFollowsDown, Mails
      <4>2. mails[n].kind = "recovery" =>
               \E m \in 1..n-1 : mails[m] = [ kind |-> "down", incident |-> mails[n].incident,
                                              at |-> mails[m].at ]
        BY <2>1, <3>1, <3>3 DEF Inv, RecoveryFollowsDown, Mails
      <4>3. \A m \in 1..n-1 : mails'[m] = mails[m]
        BY <2>1, <3>3
      <4>4. mails'[n] = mails[n] /\ mails[n].kind # "reminder"
        BY <2>1, <3>1, <3>3
      <4>5. \A m \in Mails' : (mails'[m].kind = mails'[n].kind
                                  /\ mails'[m].incident = mails'[n].incident) => m = n
        <5>1. SUFFICES ASSUME NEW m \in Mails', mails'[m].kind = mails[n].kind,
                              mails'[m].incident = mails[n].incident
                       PROVE  m = n
          BY <4>4
        <5>2. CASE m \in 1..L
          BY <2>1, <4>1, <5>1, <5>2
        <5>3. CASE m = L + 1
          BY <2>1, <2>2, <3>2, <3>3, <4>4, <5>1, <5>3
        <5>4. QED
          BY <2>1, <5>2, <5>3
      <4>6. QED
        BY <4>2, <4>3, <4>4, <4>5
    <3>4. CASE n = L + 1
      <4>1. \A m \in Mails' : (mails'[m].kind = mails'[n].kind
                                  /\ mails'[m].incident = mails'[n].incident) => m = n
        BY <2>1, <2>2, <3>1, <3>2, <3>4
      <4>2. ASSUME kind = "recovery"
            PROVE  \E m \in 1..n-1 : mails'[m] = [ kind     |-> "down",
                                                   incident |-> mails'[n].incident,
                                                   at       |-> mails'[m].at ]
        <5>1. PICK m \in 1..L : mails[m].kind = "down" /\ mails[m].incident = mail.incident
          BY <2>1, <2>5, <4>2 DEF Inv, OpenAnnounced
        <5>2. mails[m] \in Mail
          BY <1>12, <2>1
        <5>3. mails[m] = [kind |-> "down", incident |-> mail.incident, at |-> mails[m].at]
          BY <5>1, <5>2 DEF Mail
        <5>4. m \in 1..n-1 /\ mails'[m] = mails[m] /\ mails'[n] = mail
          BY <2>1, <3>4
        <5>5. mails'[m] = [kind |-> "down", incident |-> mails'[n].incident, at |-> mails'[m].at]
          BY <5>3, <5>4
        <5>6. QED
          BY <5>4, <5>5
      <4>3. mails'[n].kind = kind
        BY <2>1, <2>2, <3>4
      <4>4. QED
        BY <4>1, <4>2, <4>3
    <3>5. n \in 1..L \/ n = L + 1
      BY <2>1
    <3>6. QED
      BY <3>3, <3>4, <3>5
  <2>8. QED
    BY <1>9, <2>3, <2>6, <2>7 DEF Inv
<1>15. QED
  BY <1>8, <1>13, <1>14

\* Every step does.
LEMMA NextInv == Inv /\ [Next]_vars => Inv'
<1> SUFFICES ASSUME Inv, [Next]_vars PROVE Inv'
  OBVIOUS
<1>1. CASE Next
  BY <1>1, ProbeInv DEF Next
<1>2. CASE UNCHANGED vars
  BY <1>2 DEF vars, Inv, TypeOK, IdsKnown, OpenAnnounced, RecoveryFollowsDown, Mails
<1>3. QED
  BY <1>1, <1>2

-----------------------------------------------------------------------------
(* The status and the history.                                              *)

\* The snapshot counts the runs that end at the last result.
Counters ==
    /\ snap.consecutiveFailures = FailureRun(Len(log))
    /\ snap.consecutiveSuccesses = SuccessRun(Len(log))

\* A first state satisfies both.
LEMMA InitHistory == Init => Counters /\ StatusIsHysteresis
<1> SUFFICES ASSUME Init PROVE Counters /\ StatusIsHysteresis
  OBVIOUS
<1>1. Len(log) = 0
  BY DEF Init
<1>2. /\ snap.status = "UNKNOWN" /\ snap.consecutiveFailures = 0
      /\ snap.consecutiveSuccesses = 0
  BY DEF Init, NewSnapshot
<1>3. ~DownAfter(0) /\ ~SeenUp(0)
  BY DEF DownAfter, SeenUp
<1>4. QED
  BY <1>1, <1>2, <1>3, NoRun DEF Counters, StatusIsHysteresis, StatusAfter

\* One probe: what Apply does, and what the history grows by.
LEMMA ProbeStep ==
    ASSUME TypeOK, NEW class \in Class, NEW eff \in Effectives, Probe(class, eff)
    PROVE  \E after, tr :
              LET e == [ok |-> class = "ok", at |-> now, eff |-> eff]
              IN  /\ after \in Snapshot /\ tr \in Transition /\ eff \in Effective
                  /\ snap' = Adopted(after, tr)
                  /\ outages' = Recorded(tr, now) /\ mails' = Announced(tr, snap')
                  /\ now' = now + 1
                  /\ \/ class = "canceled" /\ Ignored(snap, after, tr) /\ log' = log
                     \/ /\ class = "ok" /\ e \in Entry /\ log' = Append(log, e)
                        /\ Recovered(snap, eff, after, tr) \/ Answered(snap, eff, after, tr)
                     \/ /\ class = "failed" /\ e \in Entry /\ log' = Append(log, e)
                        /\ \/ WentDown(snap, eff, now, now, after, tr)
                           \/ Failed(snap, eff, now, Reminder, now, after, tr)
<1> DEFINE res  == [class |-> class, at |-> now]
           step == Apply(snap, eff, res, Reminder, now)
           e    == [ok |-> class = "ok", at |-> now, eff |-> eff]
<1>1. eff \in Effective /\ now \in Nat /\ snap \in Snapshot /\ Reminder \in Nat
  BY EffectivesAssumption, ReminderAssumption DEF TypeOK
<1>2. res \in Result /\ e \in Entry /\ res.class = class /\ res.at = now
  BY <1>1 DEF Result, Entry
<1>3. /\ snap' = Adopted(step.snap, step.tr)
      /\ outages' = Recorded(step.tr, now) /\ mails' = Announced(step.tr, snap')
      /\ log' = IF step.tr.ignored THEN log ELSE Append(log, e)
      /\ now' = now + 1
  BY DEF Probe
<1> HIDE DEF res, e
<1>4. PICK after, tr : after = step.snap /\ tr = step.tr
  OBVIOUS
<1>5. after \in Snapshot /\ tr \in Transition
  BY <1>1, <1>2, <1>4, ApplyType
<1>6. \/ res.class = "canceled" /\ Ignored(snap, after, tr)
      \/ res.class = "ok" /\ Recovered(snap, eff, after, tr)
      \/ res.class = "ok" /\ Answered(snap, eff, after, tr)
      \/ res.class = "failed" /\ WentDown(snap, eff, res.at, now, after, tr)
      \/ res.class = "failed" /\ Failed(snap, eff, res.at, Reminder, now, after, tr)
  BY <1>1, <1>2, <1>4, ApplyCases
<1> HIDE DEF step
<1>7. \/ class = "canceled" /\ Ignored(snap, after, tr) /\ log' = log
      \/ /\ class = "ok" /\ log' = Append(log, e)
         /\ Recovered(snap, eff, after, tr) \/ Answered(snap, eff, after, tr)
      \/ /\ class = "failed" /\ log' = Append(log, e)
         /\ \/ WentDown(snap, eff, now, now, after, tr)
            \/ Failed(snap, eff, now, Reminder, now, after, tr)
  <2>1. Ignored(snap, after, tr) => tr.ignored
    BY DEF Ignored
  <2>2. /\ Recovered(snap, eff, after, tr) => ~tr.ignored
        /\ Answered(snap, eff, after, tr) => ~tr.ignored
        /\ WentDown(snap, eff, now, now, after, tr) => ~tr.ignored
        /\ Failed(snap, eff, now, Reminder, now, after, tr) => ~tr.ignored
    BY DEF Recovered, Answered, WentDown, Failed
  <2>3. QED
    BY <1>2, <1>3, <1>4, <1>6, <2>1, <2>2
<1>8. QED
  BY <1>1, <1>2, <1>3, <1>4, <1>5, <1>7 DEF e

\* The id a snapshot adopts is all that changes in it.
LEMMA AdoptedShape ==
    ASSUME outages \in Seq(Outage), NEW after \in Snapshot, NEW tr
    PROVE  LET s == Adopted(after, tr)
           IN  /\ s.status = after.status
               /\ s.consecutiveFailures = after.consecutiveFailures
               /\ s.consecutiveSuccesses = after.consecutiveSuccesses
               /\ s.firstFailureAt = after.firstFailureAt
               /\ s.alertSent = after.alertSent
               /\ s.lastAlertAt = after.lastAlertAt
               /\ s.openIncidentID = IF tr.openIncident THEN Len(outages) + 1
                                     ELSE after.openIncidentID
<1> DEFINE id == Len(outages) + 1
<1>1. Adopted(after, tr) = IF tr.openIncident THEN [after EXCEPT !.openIncidentID = id]
                           ELSE after
  BY DEF Adopted
<1> HIDE DEF id
<1>2. QED
  BY <1>1 DEF Snapshot, id

\* A step that changes nothing does so too.
LEMMA HistoryUnchanged ==
    ASSUME Counters, StatusIsHysteresis, UNCHANGED vars
    PROVE  Counters' /\ StatusIsHysteresis'
<1>1. PICK L : L = Len(log)
  OBVIOUS
<1>2. log' = log /\ snap' = snap /\ Len(log') = L
  BY <1>1 DEF vars
<1>3. /\ FailureRun(L)' = FailureRun(L) /\ SuccessRun(L)' = SuccessRun(L)
      /\ StatusAfter(L)' = StatusAfter(L)
  BY <1>2, LogSame
<1>4. QED
  BY <1>1, <1>2, <1>3 DEF Counters, StatusIsHysteresis

\* A probe keeps the counters and the status those of the history.
LEMMA ProbeHistory ==
    ASSUME TypeOK, Counters, StatusIsHysteresis,
           NEW class \in Class, NEW eff \in Effectives, Probe(class, eff)
    PROVE  Counters' /\ StatusIsHysteresis'
<1> DEFINE e == [ok |-> class = "ok", at |-> now, eff |-> eff]
<1>0. PICK L : L = Len(log)
  OBVIOUS
<1>1. PICK after, tr :
         /\ after \in Snapshot /\ tr \in Transition /\ eff \in Effective
         /\ snap' = Adopted(after, tr)
         /\ \/ class = "canceled" /\ Ignored(snap, after, tr) /\ log' = log
            \/ /\ class = "ok" /\ e \in Entry /\ log' = Append(log, e)
               /\ Recovered(snap, eff, after, tr) \/ Answered(snap, eff, after, tr)
            \/ /\ class = "failed" /\ e \in Entry /\ log' = Append(log, e)
               /\ \/ WentDown(snap, eff, now, now, after, tr)
                  \/ Failed(snap, eff, now, Reminder, now, after, tr)
  BY ProbeStep
<1>2. /\ log \in Seq(Entry) /\ snap \in Snapshot /\ outages \in Seq(Outage)
      /\ e.ok = (class = "ok") /\ e.eff = eff
  BY DEF TypeOK
<1>3. /\ snap'.status = after.status
      /\ snap'.consecutiveFailures = after.consecutiveFailures
      /\ snap'.consecutiveSuccesses = after.consecutiveSuccesses
  BY <1>1, <1>2, AdoptedShape
<1>4. /\ snap.consecutiveFailures = FailureRun(L)
      /\ snap.consecutiveSuccesses = SuccessRun(L)
      /\ snap.status = StatusAfter(L)
  BY <1>0 DEF Counters, StatusIsHysteresis
<1>5. /\ snap.consecutiveFailures \in Nat /\ snap.consecutiveSuccesses \in Nat
      /\ snap.status \in Status
      /\ eff.failureThreshold \in Nat \ {0} /\ eff.recoveryThreshold \in Nat \ {0}
  BY <1>1, <1>2 DEF Snapshot, Effective
<1> HIDE DEF e
<1>6. CASE class = "canceled"
  <2>1. after = snap /\ log' = log
    BY <1>1, <1>6 DEF Ignored
  <2>2. /\ snap'.status = snap.status
        /\ snap'.consecutiveFailures = snap.consecutiveFailures
        /\ snap'.consecutiveSuccesses = snap.consecutiveSuccesses
    BY <1>3, <2>1
  <2>3. /\ FailureRun(L)' = FailureRun(L) /\ SuccessRun(L)' = SuccessRun(L)
        /\ StatusAfter(L)' = StatusAfter(L) /\ Len(log') = L
    BY <1>0, <2>1, LogSame
  <2>4. QED
    BY <1>4, <2>2, <2>3 DEF Counters, StatusIsHysteresis
<1>7. CASE class # "canceled"
  <2>1. e \in Entry /\ log' = Append(log, e)
    BY <1>1, <1>7
  <2>2. /\ Len(log') = L + 1
        /\ FailureRun(L + 1)' = IF e.ok THEN 0 ELSE FailureRun(L) + 1
        /\ SuccessRun(L + 1)' = IF e.ok THEN SuccessRun(L) + 1 ELSE 0
        /\ DownAfter(L + 1)' <=> \/ FailureRun(L + 1)' >= eff.failureThreshold
                                 \/ /\ DownAfter(L)
                                    /\ ~(SuccessRun(L + 1)' >= eff.recoveryThreshold)
        /\ SeenUp(L + 1)' <=> SeenUp(L) \/ e.ok
    BY <1>0, <1>2, <2>1, LogGrows
  <2> DEFINE down == DownAfter(L)
             seen == SeenUp(L)
             downNow == DownAfter(L + 1)'
             seenNow == SeenUp(L + 1)'
  <2>3. /\ snap.status = IF down THEN "DOWN" ELSE IF seen THEN "UP" ELSE "UNKNOWN"
        /\ StatusAfter(L + 1)' = IF downNow THEN "DOWN" ELSE IF seenNow THEN "UP" ELSE "UNKNOWN"
    BY <1>4 DEF StatusAfter
  <2>4. /\ downNow <=> \/ FailureRun(L + 1)' >= eff.failureThreshold
                       \/ down /\ ~(SuccessRun(L + 1)' >= eff.recoveryThreshold)
        /\ seenNow <=> seen \/ class = "ok"
    BY <1>2, <2>2
  <2> DEFINE fails == FailureRun(L + 1)'
             oks   == SuccessRun(L + 1)'
  <2>5. /\ class = "ok" => fails = 0 /\ oks = snap.consecutiveSuccesses + 1
        /\ class = "failed" => fails = snap.consecutiveFailures + 1 /\ oks = 0
    BY <1>2, <1>4, <2>2
  <2> HIDE DEF down, seen, downNow, seenNow, fails, oks
  <2>6. after.consecutiveFailures = fails /\ after.consecutiveSuccesses = oks
    BY <1>1, <1>7, <2>5 DEF Recovered, Answered, SuccessCounted, WentDown, Failed, FailureCounted
  <2>7. after.status = IF downNow THEN "DOWN" ELSE IF seenNow THEN "UP" ELSE "UNKNOWN"
    <3>1. CASE class = "ok" /\ Recovered(snap, eff, after, tr)
      <4>1. /\ snap.consecutiveSuccesses + 1 >= eff.recoveryThreshold /\ after.status = "UP"
        BY <3>1 DEF Recovered
      <4>2. ~downNow /\ seenNow
        BY <1>5, <2>4, <2>5, <3>1, <4>1 DEF fails, oks
      <4>3. QED
        BY <4>1, <4>2
    <3>2. CASE class = "ok" /\ Answered(snap, eff, after, tr)
      <4>1. /\ ~(snap.status = "DOWN" /\ snap.consecutiveSuccesses + 1 >= eff.recoveryThreshold)
            /\ after.status = IF snap.status = "UNKNOWN" THEN "UP" ELSE snap.status
        BY <3>2 DEF Answered
      <4>2. (downNow <=> down) /\ seenNow
        BY <1>5, <2>3, <2>4, <2>5, <3>2, <4>1 DEF fails, oks
      <4>3. QED
        BY <2>3, <4>1, <4>2
    <3>3. CASE class = "failed" /\ WentDown(snap, eff, now, now, after, tr)
      <4>1. snap.consecutiveFailures + 1 >= eff.failureThreshold /\ after.status = "DOWN"
        BY <3>3 DEF WentDown
      <4>2. downNow
        BY <2>4, <2>5, <3>3, <4>1 DEF fails, oks
      <4>3. QED
        BY <4>1, <4>2
    <3>4. CASE class = "failed" /\ Failed(snap, eff, now, Reminder, now, after, tr)
      <4>1. /\ ~(snap.status # "DOWN" /\ snap.consecutiveFailures + 1 >= eff.failureThreshold)
            /\ after.status = snap.status
        BY <3>4 DEF Failed
      <4>2. (downNow <=> down) /\ (seenNow <=> seen)
        BY <1>5, <2>3, <2>4, <2>5, <3>4, <4>1 DEF fails, oks
      <4>3. QED
        BY <2>3, <4>1, <4>2
    <3>5. QED
      BY <1>1, <1>7, <3>1, <3>2, <3>3, <3>4
  <2>8. QED
    BY <1>3, <2>2, <2>3, <2>6, <2>7 DEF Counters, StatusIsHysteresis, fails, oks
<1>8. QED
  BY <1>6, <1>7

-----------------------------------------------------------------------------
(* The incident rows and the snapshot's incident.                           *)

\* While the device is DOWN its snapshot names an open row, and agrees with it
\* on whether mail was sent; otherwise it names none.
OpenRow ==
    /\ snap.status = "DOWN" =>
          /\ snap.openIncidentID \in 1..Len(outages)
          /\ outages[snap.openIncidentID].resolvedAt = Never
          /\ outages[snap.openIncidentID].alertSent = snap.alertSent
    /\ snap.status # "DOWN" => snap.openIncidentID = NoIncident

\* The row of an incident that opens, and of one that is resolved.
NewRow(tr, at) == [ startedAt    |-> tr.incidentStart,
                    detectedAt   |-> at,
                    resolvedAt   |-> Never,
                    alertSent    |-> tr.sendDown,
                    recoverySent |-> FALSE ]

Resolved(row, tr, at) ==
    [ row EXCEPT !.resolvedAt = at, !.recoverySent = tr.sendRecovery ]

\* What a transition does to the incidents table.
LEMMA RecordedCases ==
    ASSUME outages \in Seq(Outage), NEW tr \in Transition, NEW at \in Nat
    PROVE  /\ tr.openIncident => Recorded(tr, at) = Append(outages, NewRow(tr, at))
           /\ ~tr.openIncident /\ ~tr.closeIncident => Recorded(tr, at) = outages
           /\ (/\ ~tr.openIncident /\ tr.closeIncident
               /\ tr.incidentID \in 1..Len(outages)) =>
                 Recorded(tr, at) =
                    [outages EXCEPT ![tr.incidentID] = Resolved(@, tr, at)]
<1>1. /\ tr.openIncident => Recorded(tr, at) = Append(outages, NewRow(tr, at))
      /\ ~tr.openIncident /\ ~tr.closeIncident => Recorded(tr, at) = outages
  BY DEF Recorded, NewRow
<1>2. ASSUME ~tr.openIncident, tr.closeIncident, tr.incidentID \in 1..Len(outages)
      PROVE  Recorded(tr, at) = [outages EXCEPT ![tr.incidentID] = Resolved(@, tr, at)]
  <2> DEFINE id  == tr.incidentID
             row == Resolved(outages[id], tr, at)
  <2>1. id \in 1..Len(outages) /\ outages[id] \in Outage
    BY <1>2
  <2>2. Recorded(tr, at) = [outages EXCEPT ![id] = row]
    BY <1>2, <2>1 DEF Recorded, Outage, Resolved
  <2>3. QED
    BY <2>2
<1>3. QED
  BY <1>1, <1>2

\* The fields of those rows.
LEMMA RowShape ==
    ASSUME NEW row \in Outage, NEW tr \in Transition, NEW at \in Nat
    PROVE  /\ NewRow(tr, at) \in Outage /\ Resolved(row, tr, at) \in Outage
           /\ NewRow(tr, at).resolvedAt = Never /\ NewRow(tr, at).alertSent = tr.sendDown
           /\ Resolved(row, tr, at).resolvedAt = at
           /\ Resolved(row, tr, at).alertSent = row.alertSent
           /\ Resolved(row, tr, at).detectedAt = row.detectedAt
<1>1. tr.incidentStart \in Nat /\ tr.sendDown \in BOOLEAN /\ tr.sendRecovery \in BOOLEAN
  BY DEF Transition
<1>2. QED
  BY <1>1 DEF NewRow, Resolved, Outage, Never

\* Rows that agree field by field are the same.
LEMMA SameRow ==
    ASSUME NEW r \in Outage, NEW s \in Outage,
           r.startedAt = s.startedAt, r.detectedAt = s.detectedAt,
           r.resolvedAt = s.resolvedAt, r.alertSent = s.alertSent,
           r.recoverySent = s.recoverySent
    PROVE  r = s
BY DEF Outage

\* A resolved row, field by field.
LEMMA ResolvedFields ==
    ASSUME NEW row \in Outage, NEW tr \in Transition, NEW at \in Nat
    PROVE  Resolved(row, tr, at) =
             [ startedAt    |-> row.startedAt,
               detectedAt   |-> row.detectedAt,
               resolvedAt   |-> at,
               alertSent    |-> row.alertSent,
               recoverySent |-> tr.sendRecovery ]
<1> DEFINE mail == tr.sendRecovery
           r == [row EXCEPT !.resolvedAt = at, !.recoverySent = mail]
           s == [ startedAt |-> row.startedAt, detectedAt |-> row.detectedAt,
                  resolvedAt |-> at, alertSent |-> row.alertSent, recoverySent |-> mail ]
<1>1. mail \in BOOLEAN
  BY DEF Transition
<1> HIDE DEF mail
<1>2. /\ r \in Outage /\ r.startedAt = row.startedAt /\ r.detectedAt = row.detectedAt
      /\ r.resolvedAt = at /\ r.alertSent = row.alertSent /\ r.recoverySent = mail
  BY <1>1 DEF Outage
<1>3. /\ s \in Outage /\ s.startedAt = row.startedAt /\ s.detectedAt = row.detectedAt
      /\ s.resolvedAt = at /\ s.alertSent = row.alertSent /\ s.recoverySent = mail
  BY <1>1 DEF Outage
<1> HIDE DEF r, s
<1>4. r = s
  BY <1>2, <1>3, SameRow
<1>5. QED
  BY <1>4 DEF r, s, mail, Resolved

\* A probe keeps that, and of the rows that were there it changes none but to
\* resolve it now.
LEMMA ProbeOpenRow ==
    ASSUME TypeOK, OpenRow, NEW class \in Class, NEW eff \in Effectives, Probe(class, eff)
    PROVE  /\ OpenRow'
           /\ outages' \in Seq(Outage) /\ Len(outages) <= Len(outages')
           /\ \A i \in 1..Len(outages) :
                 /\ outages'[i].alertSent = outages[i].alertSent
                 /\ outages'[i].resolvedAt \in {outages[i].resolvedAt, now}
<1>1. PICK after, tr :
         /\ after \in Snapshot /\ tr \in Transition
         /\ snap' = Adopted(after, tr) /\ outages' = Recorded(tr, now)
         /\ \/ Ignored(snap, after, tr)
            \/ Recovered(snap, eff, after, tr) \/ Answered(snap, eff, after, tr)
            \/ WentDown(snap, eff, now, now, after, tr)
            \/ Failed(snap, eff, now, Reminder, now, after, tr)
  BY ProbeStep
<1>2. outages \in Seq(Outage) /\ snap \in Snapshot /\ now \in Nat
  BY DEF TypeOK
<1>3. /\ snap'.status = after.status /\ snap'.alertSent = after.alertSent
      /\ snap'.openIncidentID = IF tr.openIncident THEN Len(outages) + 1
                                ELSE after.openIncidentID
  BY <1>1, <1>2, AdoptedShape
<1>4. CASE \/ Ignored(snap, after, tr) \/ Answered(snap, eff, after, tr)
           \/ Failed(snap, eff, now, Reminder, now, after, tr)
  <2>1. /\ ~tr.openIncident /\ ~tr.closeIncident
        /\ after.openIncidentID = snap.openIncidentID
        /\ after.alertSent = snap.alertSent
        /\ after.status = "DOWN" <=> snap.status = "DOWN"
    BY <1>4 DEF Ignored, Answered, Failed, Quiet, IncidentHeld
  <2>2. outages' = outages
    BY <1>1, <1>2, <2>1, RecordedCases
  <2>3. QED
    BY <1>2, <1>3, <2>1, <2>2 DEF OpenRow
<1>5. CASE Recovered(snap, eff, after, tr)
  <2> DEFINE id  == snap.openIncidentID
             row == Resolved(outages[id], tr, now)
  <2>1. id \in 1..Len(outages) /\ outages[id] \in Outage
    BY <1>2, <1>5 DEF OpenRow, Recovered
  <2>2. /\ ~tr.openIncident /\ tr.closeIncident /\ tr.incidentID = id
        /\ after.status = "UP" /\ after.openIncidentID = NoIncident
    BY <1>5, <2>1 DEF Recovered, NoIncident
  <2>3. outages' = [outages EXCEPT ![id] = row]
    BY <1>1, <1>2, <2>1, <2>2, RecordedCases
  <2>4. row \in Outage /\ row.resolvedAt = now /\ row.alertSent = outages[id].alertSent
    BY <1>1, <1>2, <2>1, RowShape
  <2> HIDE DEF id, row
  <2>5. /\ outages' \in Seq(Outage) /\ Len(outages') = Len(outages)
        /\ \A i \in 1..Len(outages) : outages'[i] = IF i = id THEN row ELSE outages[i]
    BY <1>2, <2>1, <2>3, <2>4
  <2>6. OpenRow'
    BY <1>3, <2>2 DEF OpenRow
  <2>7. QED
    BY <1>2, <2>4, <2>5, <2>6
<1>6. CASE WentDown(snap, eff, now, now, after, tr)
  <2> DEFINE row == NewRow(tr, now)
  <2>1. tr.openIncident /\ tr.sendDown = after.alertSent
    BY <1>6 DEF WentDown
  <2>2. outages' = Append(outages, row)
    BY <1>1, <1>2, <2>1, RecordedCases
  <2>3. row \in Outage /\ row.resolvedAt = Never /\ row.alertSent = after.alertSent
    <3>1. [ startedAt |-> 0, detectedAt |-> 0, resolvedAt |-> 0, alertSent |-> FALSE,
            recoverySent |-> FALSE ] \in Outage
      BY DEF Outage
    <3>2. QED
      BY <1>1, <1>2, <2>1, <3>1, RowShape
  <2> HIDE DEF row
  <2>4. /\ outages' \in Seq(Outage) /\ Len(outages') = Len(outages) + 1
        /\ Len(outages) \in Nat
        /\ \A i \in 1..Len(outages) : outages'[i] = outages[i]
        /\ outages'[Len(outages) + 1] = row
    BY <1>2, <2>2, <2>3
  <2>5. snap'.status = "DOWN" /\ snap'.openIncidentID = Len(outages) + 1
    BY <1>3, <1>6, <2>1 DEF WentDown
  <2>6. OpenRow'
    BY <1>3, <2>3, <2>4, <2>5 DEF OpenRow
  <2>7. QED
    BY <2>4, <2>6
<1>7. QED
  BY <1>1, <1>4, <1>5, <1>6

-----------------------------------------------------------------------------
(* Reminders.                                                               *)

\* A mail was sent before now; one that reminds is about a row of the table.
MailTimes ==
    /\ now > 0
    /\ \A n \in Mails : /\ mails[n].at < now
                        /\ mails[n].kind = "reminder" =>
                              mails[n].incident \in 1..Len(outages)

\* The snapshot remembers the latest mail of its incident.
LastAlert ==
    snap.status = "DOWN" /\ snap.alertSent =>
        \A m \in Mails : mails[m].incident = snap.openIncidentID =>
                            mails[m].at <= snap.lastAlertAt

\* What dispatch announces.
LEMMA AnnouncedCases ==
    ASSUME NEW tr \in Transition, NEW s \in Snapshot
    PROVE  LET mail(kind) == [kind |-> kind, incident |-> IncidentOf(tr, s), at |-> now]
           IN  /\ tr.sendDown => Announced(tr, s) = Append(mails, mail("down"))
               /\ ~tr.sendDown /\ tr.sendRecovery =>
                     Announced(tr, s) = Append(mails, mail("recovery"))
               /\ ~tr.sendDown /\ ~tr.sendRecovery /\ tr.sendReminder =>
                     Announced(tr, s) = Append(mails, mail("reminder"))
               /\ ~tr.sendDown /\ ~tr.sendRecovery /\ ~tr.sendReminder =>
                     Announced(tr, s) = mails
BY DEF Announced

\* Either no mail goes out and the snapshot's last alert is what it was, or one
\* goes out now, which the snapshot remembers while the device stays DOWN; a
\* reminder is about the open, announced incident and at least Reminder later
\* than its last mail.
LEMMA ProbeMails ==
    ASSUME TypeOK, OpenRow, NEW class \in Class, NEW eff \in Effectives, Probe(class, eff)
    PROVE  \/ /\ mails' = mails
              /\ snap'.status = "DOWN" /\ snap'.alertSent =>
                    /\ snap.status = "DOWN" /\ snap.alertSent
                    /\ snap'.openIncidentID = snap.openIncidentID
                    /\ snap'.lastAlertAt = snap.lastAlertAt
           \/ \E mail \in Mail :
                 /\ mails' = Append(mails, mail) /\ mail.at = now
                 /\ snap'.status = "DOWN" => snap'.lastAlertAt = now
                 /\ mail.kind = "reminder" =>
                       /\ snap.status = "DOWN" /\ snap.alertSent /\ outages' = outages
                       /\ mail.incident = snap.openIncidentID
                       /\ now >= snap.lastAlertAt + Reminder
<1>1. PICK after, tr :
         /\ after \in Snapshot /\ tr \in Transition
         /\ snap' = Adopted(after, tr) /\ outages' = Recorded(tr, now)
         /\ mails' = Announced(tr, snap')
         /\ \/ Ignored(snap, after, tr)
            \/ Recovered(snap, eff, after, tr) \/ Answered(snap, eff, after, tr)
            \/ WentDown(snap, eff, now, now, after, tr)
            \/ Failed(snap, eff, now, Reminder, now, after, tr)
  BY ProbeStep
<1>2. outages \in Seq(Outage) /\ snap \in Snapshot /\ now \in Nat
  BY DEF TypeOK
<1>3. /\ snap'.status = after.status /\ snap'.alertSent = after.alertSent
      /\ snap'.lastAlertAt = after.lastAlertAt
      /\ snap'.openIncidentID = IF tr.openIncident THEN Len(outages) + 1
                                ELSE after.openIncidentID
  BY <1>1, <1>2, AdoptedShape
<1>4. snap' \in Snapshot
  <2>1. \A id \in Nat : [after EXCEPT !.openIncidentID = id] \in Snapshot
    BY <1>1 DEF Snapshot
  <2>2. Len(outages) + 1 \in Nat
    <3>1. outages \in Seq(Outage)
      BY <1>2
    <3>2. Len(outages) \in Nat
      BY <3>1
    <3>3. QED
      BY <3>2
  <2>3. CASE tr.openIncident
    BY <1>1, <2>1, <2>2, <2>3 DEF Adopted
  <2>4. CASE ~tr.openIncident
    BY <1>1, <2>4 DEF Adopted
  <2>5. QED
    BY <2>3, <2>4
<1> DEFINE mail(kind) == [kind |-> kind, incident |-> IncidentOf(tr, snap'), at |-> now]
<1>5. \A kind \in Kind :
         /\ mail(kind) \in Mail /\ mail(kind).kind = kind /\ mail(kind).at = now
         /\ mail(kind).incident = IncidentOf(tr, snap')
  <2>1. IncidentOf(tr, snap') \in Nat
    BY <1>1, <1>4 DEF IncidentOf, Transition, Snapshot
  <2>2. QED
    BY <1>2, <2>1 DEF Mail
<1>6. /\ tr.sendDown => mails' = Append(mails, mail("down"))
      /\ ~tr.sendDown /\ tr.sendRecovery => mails' = Append(mails, mail("recovery"))
      /\ ~tr.sendDown /\ ~tr.sendRecovery /\ tr.sendReminder =>
            mails' = Append(mails, mail("reminder"))
      /\ ~tr.sendDown /\ ~tr.sendRecovery /\ ~tr.sendReminder => mails' = mails
  BY <1>1, <1>4, AnnouncedCases
<1> HIDE DEF mail
<1>7. "down" \in Kind /\ "recovery" \in Kind /\ "reminder" \in Kind
  BY DEF Kind
<1>8. CASE Ignored(snap, after, tr) \/ Answered(snap, eff, after, tr)
  <2>1. /\ ~tr.openIncident /\ ~tr.sendDown /\ ~tr.sendRecovery /\ ~tr.sendReminder
        /\ after.openIncidentID = snap.openIncidentID
        /\ after.alertSent = snap.alertSent /\ after.lastAlertAt = snap.lastAlertAt
        /\ after.status = "DOWN" => snap.status = "DOWN"
    BY <1>8 DEF Ignored, Answered, Quiet, IncidentHeld
  <2>2. QED
    BY <1>3, <1>6, <2>1
<1>9. CASE Recovered(snap, eff, after, tr)
  <2>1. ~tr.sendDown /\ ~tr.sendReminder /\ after.status = "UP"
    BY <1>9 DEF Recovered
  <2>2. QED
    BY <1>3, <1>5, <1>6, <1>7, <2>1
<1>10. CASE WentDown(snap, eff, now, now, after, tr)
  <2>1. /\ ~tr.sendRecovery /\ ~tr.sendReminder
        /\ tr.sendDown = after.alertSent
        /\ after.lastAlertAt = IF after.alertSent THEN now ELSE snap.lastAlertAt
    BY <1>10 DEF WentDown
  <2>2. CASE tr.sendDown
    BY <1>3, <1>5, <1>6, <1>7, <2>1, <2>2
  <2>3. CASE ~tr.sendDown
    BY <1>3, <1>6, <2>1, <2>3
  <2>4. QED
    BY <2>2, <2>3
<1>11. CASE Failed(snap, eff, now, Reminder, now, after, tr)
  <2>1. /\ ~tr.openIncident /\ ~tr.closeIncident /\ ~tr.sendDown /\ ~tr.sendRecovery
        /\ after.status = snap.status
        /\ after.openIncidentID = snap.openIncidentID /\ after.alertSent = snap.alertSent
        /\ after.lastAlertAt = IF tr.sendReminder THEN now ELSE snap.lastAlertAt
        /\ tr.incidentID = IF tr.sendReminder THEN snap.openIncidentID ELSE NoIncident
        /\ tr.sendReminder <=> ReminderDue(snap, eff, Reminder, now)
    BY <1>11 DEF Failed, Quiet, IncidentHeld
  <2>2. CASE tr.sendReminder
    <3>1. /\ snap.status = "DOWN" /\ snap.alertSent
          /\ now >= snap.lastAlertAt + Reminder
      BY <2>1, <2>2 DEF ReminderDue
    <3>2. outages' = outages
      BY <1>1, <1>2, <2>1, RecordedCases
    <3>3. IncidentOf(tr, snap') = snap.openIncidentID
      BY <1>3, <2>1, <2>2 DEF IncidentOf
    <3>4. mails' = Append(mails, mail("reminder"))
      BY <1>6, <2>1, <2>2
    <3>5. snap'.lastAlertAt = now
      BY <1>3, <2>1, <2>2
    <3>6. QED
      BY <1>5, <1>7, <3>1, <3>2, <3>3, <3>4, <3>5
  <2>3. CASE ~tr.sendReminder
    BY <1>3, <1>6, <2>1, <2>3
  <2>4. QED
    BY <2>2, <2>3
<1>12. QED
  BY <1>1, <1>8, <1>9, <1>10, <1>11

\* A probe keeps reminders apart.
LEMMA ProbeReminders ==
    ASSUME Inv, OpenRow, MailTimes, LastAlert, ReminderSpacing, TypeOK',
           NEW class \in Class, NEW eff \in Effectives, Probe(class, eff)
    PROVE  MailTimes' /\ LastAlert' /\ ReminderSpacing'
<1>1. /\ outages \in Seq(Outage) /\ mails \in Seq(Mail)
      /\ snap \in Snapshot /\ now \in Nat /\ now' = now + 1 /\ snap' \in Snapshot
  BY DEF Inv, TypeOK, Probe
<1>2. /\ outages' \in Seq(Outage) /\ Len(outages) <= Len(outages')
      /\ \A i \in 1..Len(outages) :
            /\ outages'[i].alertSent = outages[i].alertSent
            /\ outages'[i].resolvedAt \in {outages[i].resolvedAt, now}
  BY ProbeOpenRow DEF Inv
<1>3. Len(outages) \in Nat /\ Len(outages') \in Nat /\ 1..Len(outages) \subseteq 1..Len(outages')
  BY <1>1, <1>2
<1>4. \A n \in Mails : mails[n] \in Mail /\ mails[n].at \in Nat /\ mails[n].at < now
  <2>1. \A n \in Mails : mails[n] \in Mail
    BY <1>1 DEF Mails
  <2>2. \A mail \in Mail : mail.at \in Nat
    BY DEF Mail
  <2>3. \A n \in Mails : mails[n].at < now
    BY DEF MailTimes
  <2>4. QED
    BY <2>1, <2>2, <2>3
\* The reminders sent earlier.
<1>5. ASSUME NEW n \in Mails, mails[n].kind = "reminder"
      PROVE  /\ mails[n].incident \in 1..Len(outages)
             /\ outages'[mails[n].incident].alertSent
             /\ \/ outages'[mails[n].incident].resolvedAt = Never
                \/ outages'[mails[n].incident].resolvedAt > mails[n].at
             /\ \E m \in 1..n-1 : /\ mails[m].incident = mails[n].incident
                                  /\ mails[m].kind # "recovery"
             /\ \A m \in 1..n-1 : mails[m].incident = mails[n].incident =>
                                     mails[m].at + Reminder <= mails[n].at
  <2>1. mails[n].incident \in 1..Len(outages) /\ mails[n].at < now
    BY <1>5 DEF MailTimes
  <2>2. /\ outages[mails[n].incident].alertSent
        /\ \/ outages[mails[n].incident].resolvedAt = Never
           \/ outages[mails[n].incident].resolvedAt > mails[n].at
    BY <1>5 DEF ReminderSpacing, Mails
  <2>3. /\ \E m \in 1..n-1 : /\ mails[m].incident = mails[n].incident
                             /\ mails[m].kind # "recovery"
        /\ \A m \in 1..n-1 : mails[m].incident = mails[n].incident =>
                                mails[m].at + Reminder <= mails[n].at
    BY <1>5 DEF ReminderSpacing, Mails
  <2>4. /\ outages'[mails[n].incident].alertSent
        /\ \/ outages'[mails[n].incident].resolvedAt = Never
           \/ outages'[mails[n].incident].resolvedAt > mails[n].at
    BY <1>1, <1>2, <1>4, <2>1, <2>2
  <2>5. QED
    BY <2>1, <2>3, <2>4
<1>6. ASSUME mails' = mails,
             snap'.status = "DOWN" /\ snap'.alertSent =>
                /\ snap.status = "DOWN" /\ snap.alertSent
                /\ snap'.openIncidentID = snap.openIncidentID
                /\ snap'.lastAlertAt = snap.lastAlertAt
      PROVE  MailTimes' /\ LastAlert' /\ ReminderSpacing'
  <2>1. MailTimes'
    BY <1>1, <1>3, <1>4, <1>5, <1>6 DEF MailTimes, Mails
  <2>2. LastAlert'
    BY <1>6 DEF LastAlert, Mails
  <2>3. ReminderSpacing'
    BY <1>5, <1>6 DEF ReminderSpacing, Mails
  <2>4. QED
    BY <2>1, <2>2, <2>3
<1>7. ASSUME NEW mail \in Mail, mails' = Append(mails, mail), mail.at = now,
             snap'.status = "DOWN" => snap'.lastAlertAt = now,
             mail.kind = "reminder" =>
                /\ snap.status = "DOWN" /\ snap.alertSent /\ outages' = outages
                /\ mail.incident = snap.openIncidentID
                /\ now >= snap.lastAlertAt + Reminder
      PROVE  MailTimes' /\ LastAlert' /\ ReminderSpacing'
  <2> DEFINE L == Len(mails)
  <2>1. /\ L \in Nat /\ Mails = 1..L /\ Mails' = 1..(L + 1)
        /\ \A n \in 1..L : mails'[n] = mails[n]
        /\ mails'[L + 1] = mail
    BY <1>1, <1>7 DEF Mails
  <2>2. \A n \in Mails' : n \in 1..L \/ n = L + 1
    BY <2>1
  <2> HIDE DEF L
  \* The new reminder.
  <2>3. ASSUME mail.kind = "reminder"
        PROVE  /\ mail.incident \in 1..Len(outages)
               /\ outages'[mail.incident].alertSent
               /\ outages'[mail.incident].resolvedAt = Never
               /\ \E m \in 1..L : mails[m].incident = mail.incident /\ mails[m].kind # "recovery"
               /\ \A m \in 1..L : mails[m].incident = mail.incident =>
                                     mails[m].at + Reminder <= mail.at
    <3>1. /\ snap.status = "DOWN" /\ snap.alertSent /\ outages' = outages
          /\ mail.incident = snap.openIncidentID
          /\ now >= snap.lastAlertAt + Reminder
      BY <1>7, <2>3
    <3>2. /\ snap.openIncidentID \in 1..Len(outages)
          /\ outages[snap.openIncidentID].resolvedAt = Never
          /\ outages[snap.openIncidentID].alertSent
      BY <3>1 DEF OpenRow
    <3>3. PICK m \in 1..L : mails[m].kind = "down" /\ mails[m].incident = snap.openIncidentID
      BY <2>1, <3>1, <3>2 DEF Inv, OpenAnnounced, NoIncident
    <3>4. \A k \in 1..L : mails[k].incident = mail.incident => mails[k].at <= snap.lastAlertAt
      BY <2>1, <3>1 DEF LastAlert
    <3>5. snap.lastAlertAt \in Nat /\ Reminder \in Nat /\ \A k \in 1..L : mails[k].at \in Nat
      BY <1>1, <1>4, <2>1, ReminderAssumption DEF Snapshot
    <3>6. \A k \in 1..L : mails[k].incident = mail.incident => mails[k].at + Reminder <= mail.at
      BY <1>1, <1>7, <3>1, <3>4, <3>5
    <3>7. QED
      BY <3>1, <3>2, <3>3, <3>6
  <2>4. MailTimes'
    <3>1. SUFFICES ASSUME NEW n \in Mails'
                   PROVE  /\ mails'[n].at < now'
                          /\ mails'[n].kind = "reminder" =>
                                mails'[n].incident \in 1..Len(outages')
      BY <1>1 DEF MailTimes
    <3>2. CASE n \in 1..L
      <4>1. mails'[n] = mails[n] /\ n \in Mails
        BY <2>1, <3>2
      <4>2. mails[n].at \in Nat /\ mails[n].at < now
        BY <1>4, <4>1
      <4>3. mails[n].kind = "reminder" => mails[n].incident \in 1..Len(outages)
        BY <1>5, <4>1
      <4>4. QED
        BY <1>1, <1>3, <4>1, <4>2, <4>3
    <3>3. CASE n = L + 1
      <4>1. mails'[n] = mail
        BY <2>1, <3>3
      <4>2. QED
        BY <1>1, <1>3, <1>7, <2>3, <4>1
    <3>4. QED
      BY <2>2, <3>2, <3>3
  <2>5. LastAlert'
    <3>1. SUFFICES ASSUME snap'.status = "DOWN", NEW m \in Mails'
                   PROVE  mails'[m].at <= snap'.lastAlertAt
      BY DEF LastAlert
    <3>2. snap'.lastAlertAt = now
      BY <1>7, <3>1
    <3>3. CASE m \in 1..L
      <4>1. mails'[m] = mails[m] /\ m \in Mails
        BY <2>1, <3>3
      <4>2. mails[m].at \in Nat /\ mails[m].at < now
        BY <1>4, <4>1
      <4>3. QED
        BY <1>1, <3>2, <4>1, <4>2
    <3>4. CASE m = L + 1
      <4>1. mails'[m].at = now /\ now \in Nat
        BY <1>1, <1>7, <2>1, <3>4
      <4>2. QED
        BY <3>2, <4>1
    <3>5. QED
      BY <2>2, <3>3, <3>4
  <2>6. ReminderSpacing'
    <3>1. SUFFICES ASSUME NEW n \in Mails', mails'[n].kind = "reminder"
                   PROVE  /\ outages'[mails'[n].incident].alertSent
                          /\ \/ outages'[mails'[n].incident].resolvedAt = Never
                             \/ outages'[mails'[n].incident].resolvedAt > mails'[n].at
                          /\ \E m \in 1..n-1 : /\ mails'[m].incident = mails'[n].incident
                                               /\ mails'[m].kind # "recovery"
                          /\ \A m \in 1..n-1 : mails'[m].incident = mails'[n].incident =>
                                                  mails'[m].at + Reminder <= mails'[n].at
      BY DEF ReminderSpacing, Mails
    <3>2. CASE n \in 1..L
      <4>1. mails'[n] = mails[n] /\ n \in Mails /\ \A m \in 1..n-1 : mails'[m] = mails[m]
        BY <2>1, <3>2
      <4>2. QED
        BY <1>5, <3>1, <4>1
    <3>3. CASE n = L + 1
      <4>1. mails'[n] = mail /\ n - 1 = L /\ \A m \in 1..L : mails'[m] = mails[m]
        BY <2>1, <3>3
      <4>2. QED
        BY <2>3, <3>1, <4>1
    <3>4. QED
      BY <2>2, <3>2, <3>3
  <2>7. QED
    BY <2>4, <2>5, <2>6
<1>8. QED
  BY <1>6, <1>7, ProbeMails DEF Inv

-----------------------------------------------------------------------------
(* The outages of the history when one more result is folded in.            *)

\* The ends of the outage that begins at entry k: none while it lasts, else one.
EndsOf(k) == {e \in Ends : e > k /\ \A n \in k..e-1 : DownAfter(n)}

SomeOf(E) == CHOOSE e \in E : TRUE

\* The row of an outage, in those terms.
LEMMA ExpectedFields ==
    ASSUME NEW k
    PROVE  ExpectedOutage(k) =
             [ startedAt    |-> log[k - FailureRun(k) + 1].at,
               detectedAt   |-> log[k].at,
               resolvedAt   |-> IF EndsOf(k) = {} THEN Never ELSE log[SomeOf(EndsOf(k))].at,
               alertSent    |-> log[k].eff.notify /\ SeenUp(k - 1),
               recoverySent |-> /\ log[k].eff.notify
                                /\ SeenUp(k - 1)
                                /\ \E e \in EndsOf(k) : log[e].eff.notify ]
BY Zenon DEF ExpectedOutage, EndsOf, SomeOf

\* A run is at most as long as the history.
LEMMA RunBound ==
    ASSUME NEW k \in Nat
    PROVE  FailureRun(k) \in 0..k
<1> DEFINE run == {j \in 1..k : \A i \in j..k : ~log[i].ok}
<1>1. IsFiniteSet(1..k) /\ Cardinality(1..k) = k
  BY FS_Interval
<1>2. run \in SUBSET (1..k)
  OBVIOUS
<1> HIDE DEF run
<1>3. IsFiniteSet(run) /\ Cardinality(run) <= k
  BY <1>1, <1>2, FS_Subset
<1>4. Cardinality(run) \in Nat
  BY <1>3, FS_CardinalityType
<1>5. FailureRun(k) = Cardinality(run)
  BY DEF FailureRun, run
<1>6. QED
  BY <1>3, <1>4, <1>5

\* An outage begins with a run that is not empty.
LEMMA OnsetRun ==
    ASSUME log \in Seq(Entry), NEW k \in Onsets
    PROVE  k \in 1..Len(log) /\ FailureRun(k) \in 1..k
<1>1. k \in 1..Len(log) /\ k \in Nat /\ log[k] \in Entry
  BY DEF Onsets
<1>2. FailureRun(k) \in 0..k
  BY <1>1, RunBound
<1>3. Trips(k)
  <2>1. DownAfter(k) /\ ~DownAfter(k - 1)
    BY DEF Onsets
  <2>2. PICK j \in 1..k : Trips(j) /\ \A i \in j+1..k : ~Heals(i)
    BY <2>1 DEF DownAfter
  <2>3. ASSUME j # k
        PROVE  FALSE
    <3>1. j \in 1..k-1 /\ \A i \in j+1..k-1 : i \in j+1..k
      BY <1>1, <2>3
    <3>2. DownAfter(k - 1)
      BY <2>2, <3>1 DEF DownAfter
    <3>3. QED
      BY <2>1, <3>2
  <2>4. QED
    BY <2>2, <2>3
<1>4. log[k].eff.failureThreshold \in Nat \ {0}
  BY <1>1 DEF Entry, Effective
<1>5. QED
  BY <1>1, <1>2, <1>3, <1>4 DEF Trips

\* Outages begin and end where they did, but for one that begins or ends with
\* the new result.
LEMMA OnsetsGrow ==
    ASSUME log \in Seq(Entry), NEW e \in Entry, log' = Append(log, e),
           NEW L, L = Len(log)
    PROVE  /\ DownAfter(L + 1)' /\ ~DownAfter(L) => Onsets' = Onsets \cup {L + 1}
           /\ ~(DownAfter(L + 1)' /\ ~DownAfter(L)) => Onsets' = Onsets
           /\ \A k \in 1..L :
                 IF ~DownAfter(L + 1)' /\ \A m \in k..L : DownAfter(m)
                 THEN EndsOf(k)' = EndsOf(k) \cup {L + 1}
                 ELSE EndsOf(k)' = EndsOf(k)
           /\ EndsOf(L + 1)' = {}
<1>1. /\ L \in Nat /\ DOMAIN log = 1..L /\ DOMAIN log' = 1..L+1
      /\ \A k \in 0..L : DownAfter(k)' <=> DownAfter(k)
  <2>1. \A k \in 0..L : DownAfter(k)' <=> DownAfter(k)
    BY LogGrows
  <2>2. QED
    BY <2>1
<1>2. \A k \in 1..L+1 : /\ k \in 1..L \/ k = L + 1
                        /\ k - 1 \in 0..L
  BY <1>1
<1>3. /\ \A k \in 1..L : k \in Onsets' <=> k \in Onsets
      /\ L + 1 \in Onsets' <=> DownAfter(L + 1)' /\ ~DownAfter(L)
  BY <1>1, <1>2 DEF Onsets
<1>4. /\ \A k \in 1..L : k \in Ends' <=> k \in Ends
      /\ L + 1 \in Ends' <=> ~DownAfter(L + 1)' /\ DownAfter(L)
  BY <1>1, <1>2 DEF Ends
<1>5. /\ Onsets \subseteq 1..L /\ Onsets' \subseteq 1..L+1
      /\ Ends \subseteq 1..L /\ Ends' \subseteq 1..L+1
  BY <1>1 DEF Onsets, Ends
<1>6. /\ DownAfter(L + 1)' /\ ~DownAfter(L) => Onsets' = Onsets \cup {L + 1}
      /\ ~(DownAfter(L + 1)' /\ ~DownAfter(L)) => Onsets' = Onsets
  <2>1. \A k \in Onsets' : k \in 1..L \/ k = L + 1
    BY <1>2, <1>5
  <2>2. \A k \in Onsets : k \in 1..L /\ k # L + 1
    BY <1>1, <1>5
  <2>3. QED
    BY <1>3, <2>1, <2>2
<1>7. ASSUME NEW k \in 1..L
      PROVE  IF ~DownAfter(L + 1)' /\ \A m \in k..L : DownAfter(m)
             THEN EndsOf(k)' = EndsOf(k) \cup {L + 1}
             ELSE EndsOf(k)' = EndsOf(k)
  <2>1. ASSUME NEW n \in 1..L
        PROVE  n \in EndsOf(k)' <=> n \in EndsOf(k)
    <3>1. \A m \in k..n-1 : DownAfter(m)' <=> DownAfter(m)
      BY <1>1
    <3>2. QED
      BY <1>4, <3>1 DEF EndsOf
  <2>2. L + 1 \in EndsOf(k)' <=> ~DownAfter(L + 1)' /\ \A m \in k..L : DownAfter(m)
    <3>1. \A m \in k..L : DownAfter(m)' <=> DownAfter(m)
      BY <1>1
    <3>2. L + 1 > k /\ (L + 1) - 1 = L /\ L \in k..L
      BY <1>1
    <3>3. QED
      BY <1>4, <3>1, <3>2 DEF EndsOf
  <2>3. EndsOf(k) \subseteq 1..L /\ EndsOf(k)' \subseteq 1..L+1
    BY <1>5 DEF EndsOf
  <2>4. /\ \A n \in EndsOf(k)' : n \in 1..L \/ n = L + 1
        /\ \A n \in EndsOf(k) : n \in 1..L /\ n # L + 1
    BY <1>1, <1>2, <2>3
  <2> DEFINE old   == EndsOf(k)
             new   == EndsOf(k)'
             grows == ~DownAfter(L + 1)' /\ \A m \in k..L : DownAfter(m)
  <2>5. /\ \A n \in 1..L : n \in new <=> n \in old
        /\ L + 1 \in new <=> grows
        /\ \A n \in new : n \in 1..L \/ n = L + 1
        /\ \A n \in old : n \in 1..L /\ n # L + 1
    BY <2>1, <2>2, <2>4
  <2> HIDE DEF old, new, grows
  <2>6. (grows => new = old \cup {L + 1}) /\ (~grows => new = old)
    BY <2>5
  <2>7. QED
    BY <2>6 DEF old, new, grows
<1>8. EndsOf(L + 1)' = {}
  <2>1. \A n \in Ends' : ~(n > L + 1)
    BY <1>1, <1>5
  <2>2. QED
    BY <2>1 DEF EndsOf
<1>9. QED
  BY <1>6, <1>7, <1>8

\* The row of an earlier outage is what it was, unless the outage ends now.
LEMMA ExpectedKept ==
    ASSUME log \in Seq(Entry), NEW e \in Entry, log' = Append(log, e),
           NEW k \in Onsets
    PROVE  /\ EndsOf(k)' = EndsOf(k) => ExpectedOutage(k)' = ExpectedOutage(k)
           /\ EndsOf(k) = {} /\ EndsOf(k)' = {Len(log) + 1} =>
                 ExpectedOutage(k)' =
                    [ startedAt    |-> ExpectedOutage(k).startedAt,
                      detectedAt   |-> ExpectedOutage(k).detectedAt,
                      resolvedAt   |-> e.at,
                      alertSent    |-> ExpectedOutage(k).alertSent,
                      recoverySent |-> ExpectedOutage(k).alertSent /\ e.eff.notify ]
<1>0. PICK L : L = Len(log)
  OBVIOUS
<1>1. /\ L \in Nat /\ \A i \in 1..L : log'[i] = log[i]
      /\ log'[L + 1] = e
      /\ \A i \in 0..L : FailureRun(i)' = FailureRun(i) /\ (SeenUp(i)' <=> SeenUp(i))
  BY <1>0, LogGrows
<1>2. k \in 1..L /\ FailureRun(k) \in 1..k
  BY <1>0, OnsetRun
<1> DEFINE start  == log[k - FailureRun(k) + 1].at
           told   == log[k].eff.notify /\ SeenUp(k - 1)
           ends   == EndsOf(k)
           endsN  == EndsOf(k)'
           until  == IF ends = {} THEN Never ELSE log[SomeOf(ends)].at
           untilN == IF endsN = {} THEN Never ELSE log'[SomeOf(endsN)].at
           mailed  == \E n \in ends : log[n].eff.notify
           mailedN == \E n \in endsN : log'[n].eff.notify
<1>3. ExpectedOutage(k) = [ startedAt |-> start, detectedAt |-> log[k].at,
                            resolvedAt |-> until, alertSent |-> told,
                            recoverySent |-> told /\ mailed ]
  BY ExpectedFields, Zenon
<1>4. ExpectedOutage(k)' =
         [ startedAt    |-> log'[k - FailureRun(k)' + 1].at,
           detectedAt   |-> log'[k].at,
           resolvedAt   |-> untilN,
           alertSent    |-> log'[k].eff.notify /\ SeenUp(k - 1)',
           recoverySent |-> (log'[k].eff.notify /\ SeenUp(k - 1)') /\ mailedN ]
  BY Zenon DEF ExpectedOutage, EndsOf, SomeOf
<1>5. /\ log'[k] = log[k] /\ FailureRun(k)' = FailureRun(k)
      /\ (SeenUp(k - 1)' <=> SeenUp(k - 1))
      /\ log'[k - FailureRun(k) + 1] = log[k - FailureRun(k) + 1]
  <2>1. k - FailureRun(k) + 1 \in 1..L /\ k - 1 \in 0..L /\ k \in 0..L
    BY <1>1, <1>2
  <2>2. QED
    BY <1>1, <1>2, <2>1
<1>6. ExpectedOutage(k)' = [ startedAt |-> start, detectedAt |-> log[k].at,
                             resolvedAt |-> untilN, alertSent |-> told,
                             recoverySent |-> told /\ mailedN ]
  <2>1. (log'[k].eff.notify /\ SeenUp(k - 1)') = told
    BY <1>5
  <2>2. log'[k - FailureRun(k)' + 1].at = start /\ log'[k].at = log[k].at
    BY <1>5
  <2> HIDE DEF start, told, untilN, mailedN
  <2>3. QED
    BY <1>4, <2>1, <2>2, Zenon
<1>7. ends \subseteq 1..L
  BY <1>0 DEF EndsOf, Ends
<1>8. ASSUME endsN = ends
      PROVE  untilN = until /\ mailedN = mailed
  <2>1. ends # {} => SomeOf(ends) \in ends
    BY DEF SomeOf
  <2> HIDE DEF ends, endsN
  <2>2. QED
    BY <1>1, <1>7, <1>8, <2>1
<1>9. ASSUME ends = {}, endsN = {L + 1}
      PROVE  untilN = e.at /\ (told /\ mailedN) = (told /\ e.eff.notify)
  <2>1. SomeOf({L + 1}) = L + 1
    BY DEF SomeOf
  <2> HIDE DEF ends, endsN, told
  <2>2. untilN = e.at /\ (mailedN <=> e.eff.notify)
    BY <1>1, <1>9, <2>1
  <2>3. QED
    BY <2>2
<1>10. EndsOf(k)' = EndsOf(k) => ExpectedOutage(k)' = ExpectedOutage(k)
  <2> HIDE DEF start, told, until, untilN, mailed, mailedN
  <2>1. QED
    BY <1>3, <1>6, <1>8
<1>11. ASSUME EndsOf(k) = {}, EndsOf(k)' = {L + 1}
       PROVE  ExpectedOutage(k)' =
                 [ startedAt    |-> ExpectedOutage(k).startedAt,
                   detectedAt   |-> ExpectedOutage(k).detectedAt,
                   resolvedAt   |-> e.at,
                   alertSent    |-> ExpectedOutage(k).alertSent,
                   recoverySent |-> ExpectedOutage(k).alertSent /\ e.eff.notify ]
  <2>1. untilN = e.at /\ (told /\ mailedN) = (told /\ e.eff.notify)
    BY <1>9, <1>11
  <2> HIDE DEF start, until, untilN, mailed, mailedN, told
  <2>2. /\ ExpectedOutage(k).startedAt = start /\ ExpectedOutage(k).detectedAt = log[k].at
        /\ ExpectedOutage(k).alertSent = told
    BY <1>3
  <2>3. QED
    BY <1>6, <2>1, <2>2, Zenon
<1>12. QED
  BY <1>0, <1>10, <1>11

\* The first entry of the run of failures that the new result continues.
LEMMA StartOfRun ==
    ASSUME log \in Seq(Entry), NEW e \in Entry, log' = Append(log, e), ~e.ok,
           NEW L, L = Len(log)
    PROVE  log'[(L + 1) - FailureRun(L + 1)' + 1].at =
              IF FailureRun(L) = 0 THEN e.at ELSE log[L - FailureRun(L) + 1].at
<1>1. /\ L \in Nat /\ \A i \in 1..L : log'[i] = log[i]
      /\ log'[L + 1] = e /\ FailureRun(L + 1)' = FailureRun(L) + 1
  BY LogGrows
<1>2. FailureRun(L) \in 0..L
  BY <1>1, RunBound
<1>3. (L + 1) - FailureRun(L + 1)' + 1 = L - FailureRun(L) + 1
  <2> DEFINE f == FailureRun(L)
             g == FailureRun(L + 1)'
  <2>1. f \in 0..L /\ g = f + 1 /\ L \in Nat
    BY <1>1, <1>2
  <2> HIDE DEF f, g
  <2>2. (L + 1) - g + 1 = L - f + 1
    BY <2>1
  <2>3. QED
    BY <2>2 DEF f, g
<1>4. CASE FailureRun(L) = 0
  BY <1>1, <1>3, <1>4
<1>5. CASE FailureRun(L) # 0
  <2>1. L - FailureRun(L) + 1 \in 1..L
    BY <1>1, <1>2, <1>5
  <2>2. QED
    BY <1>1, <1>3, <1>5, <2>1
<1>6. QED
  BY <1>4, <1>5

\* The row of an outage that begins with the new result.
LEMMA ExpectedNew ==
    ASSUME log \in Seq(Entry), NEW e \in Entry, log' = Append(log, e), ~e.ok,
           NEW L, L = Len(log)
    PROVE  ExpectedOutage(L + 1)' =
             [ startedAt    |-> IF FailureRun(L) = 0 THEN e.at
                                ELSE log[L - FailureRun(L) + 1].at,
               detectedAt   |-> e.at,
               resolvedAt   |-> Never,
               alertSent    |-> e.eff.notify /\ SeenUp(L),
               recoverySent |-> FALSE ]
<1>1. /\ L \in Nat /\ \A i \in 1..L : log'[i] = log[i]
      /\ log'[L + 1] = e
      /\ FailureRun(L + 1)' = FailureRun(L) + 1
      /\ SeenUp(L)' <=> SeenUp(L)
  BY LogGrows
<1>2. EndsOf(L + 1)' = {}
  BY OnsetsGrow
<1> DEFINE M == L + 1
<1>3. ExpectedOutage(M)' =
         [ startedAt    |-> log'[M - FailureRun(M)' + 1].at,
           detectedAt   |-> log'[M].at,
           resolvedAt   |-> IF EndsOf(M)' = {} THEN Never ELSE log'[SomeOf(EndsOf(M)')].at,
           alertSent    |-> log'[M].eff.notify /\ SeenUp(M - 1)',
           recoverySent |-> /\ log'[M].eff.notify
                            /\ SeenUp(M - 1)'
                            /\ \E n \in EndsOf(M)' : log'[n].eff.notify ]
  BY Zenon DEF ExpectedOutage, EndsOf, SomeOf
<1>5. log'[M - FailureRun(M)' + 1].at = IF FailureRun(L) = 0 THEN e.at
                                        ELSE log[L - FailureRun(L) + 1].at
  BY StartOfRun
<1>6. (log'[M].eff.notify /\ SeenUp(M - 1)') = (e.eff.notify /\ SeenUp(L))
  <2>1. M - 1 = L
    BY <1>1
  <2>2. SeenUp(M - 1)' <=> SeenUp(L)
    BY <1>1, <2>1
  <2>3. QED
    BY <1>1, <2>2
<1>7. /\ log'[M].at = e.at
      /\ (IF EndsOf(M)' = {} THEN Never ELSE log'[SomeOf(EndsOf(M)')].at) = Never
      /\ (/\ log'[M].eff.notify
          /\ SeenUp(M - 1)'
          /\ \E n \in EndsOf(M)' : log'[n].eff.notify) = FALSE
  BY <1>1, <1>2
<1>8. QED
  BY <1>3, <1>5, <1>6, <1>7, Zenon

-----------------------------------------------------------------------------
(* The incident table and the history.                                      *)

\* The snapshot dates the run of failures that ends at the last result.
StreakStart ==
    snap.firstFailureAt =
       IF FailureRun(Len(log)) = 0 THEN Never
       ELSE log[Len(log) - FailureRun(Len(log)) + 1].at

\* Results were folded in one at a time, before now.
LogTimes ==
    /\ now > 0
    /\ \A i \in DOMAIN log : 0 < log[i].at /\ log[i].at < now
    /\ \A i, j \in DOMAIN log : i < j => log[i].at < log[j].at

\* No two rows are of the same instant.
RowTimes ==
    \A i, j \in DOMAIN outages :
        /\ outages[i].detectedAt < now
        /\ outages[i].detectedAt = outages[j].detectedAt => i = j

\* The row the snapshot names is that of the outage that lasts.
OpenOutage ==
    snap.status = "DOWN" =>
        \E k \in Onsets : /\ \A n \in k..Len(log) : DownAfter(n)
                          /\ outages[snap.openIncidentID] = ExpectedOutage(k)

\* The outages of the history are in the table, and nothing else is.
Matched ==
    /\ \A i \in DOMAIN outages : \E k \in Onsets : outages[i] = ExpectedOutage(k)
    /\ \A k \in Onsets : \E i \in DOMAIN outages : outages[i] = ExpectedOutage(k)

History == StreakStart /\ LogTimes /\ RowTimes /\ OpenOutage /\ Matched

\* That is what the property says of the table.
LEMMA MatchedIsMatch == Matched <=> OutagesMatchHistory
BY DEF Matched, OutagesMatchHistory

\* What is said of outages depends on nothing but the log.
LEMMA OutagesSame ==
    ASSUME log' = log
    PROVE  /\ Onsets' = Onsets
           /\ \A k : ExpectedOutage(k)' = ExpectedOutage(k)
<1>1. \A k : /\ FailureRun(k)' = FailureRun(k)
             /\ DownAfter(k)' <=> DownAfter(k)
             /\ SeenUp(k)' <=> SeenUp(k)
  BY LogSame
<1>2. Onsets' = Onsets /\ Ends' = Ends
  BY <1>1 DEF Onsets, Ends
<1>3. ASSUME NEW k
      PROVE  ExpectedOutage(k)' = ExpectedOutage(k)
  <2>1. EndsOf(k)' = EndsOf(k)
    BY <1>1, <1>2 DEF EndsOf
  <2>2. ExpectedOutage(k)' =
           [ startedAt    |-> log'[k - FailureRun(k)' + 1].at,
             detectedAt   |-> log'[k].at,
             resolvedAt   |-> IF EndsOf(k)' = {} THEN Never ELSE log'[SomeOf(EndsOf(k)')].at,
             alertSent    |-> log'[k].eff.notify /\ SeenUp(k - 1)',
             recoverySent |-> /\ log'[k].eff.notify
                              /\ SeenUp(k - 1)'
                              /\ \E e \in EndsOf(k)' : log'[e].eff.notify ]
    BY Zenon DEF ExpectedOutage, EndsOf, SomeOf
  <2>3. (log'[k].eff.notify /\ SeenUp(k - 1)') = (log[k].eff.notify /\ SeenUp(k - 1))
    BY <1>1
  <2>4. (/\ log'[k].eff.notify
         /\ SeenUp(k - 1)'
         /\ \E e \in EndsOf(k)' : log'[e].eff.notify)
        = (/\ log[k].eff.notify
           /\ SeenUp(k - 1)
           /\ \E e \in EndsOf(k) : log[e].eff.notify)
    BY <1>1, <2>1
  <2>5. /\ log'[k - FailureRun(k)' + 1].at = log[k - FailureRun(k) + 1].at
        /\ log'[k].at = log[k].at
        /\ (IF EndsOf(k)' = {} THEN Never ELSE log'[SomeOf(EndsOf(k)')].at)
              = (IF EndsOf(k) = {} THEN Never ELSE log[SomeOf(EndsOf(k))].at)
    BY <1>1, <2>1
  <2>6. QED
    BY <2>2, <2>3, <2>4, <2>5, ExpectedFields, Zenon
<1>4. QED
  BY <1>2, <1>3

\* The instants of results and of rows are numbers.
LEMMA TimesAreNumbers ==
    /\ log \in Seq(Entry) => \A i \in DOMAIN log : log[i].at \in Nat
    /\ outages \in Seq(Outage) => \A i \in DOMAIN outages : outages[i].detectedAt \in Nat
<1>1. (\A e \in Entry : e.at \in Nat) /\ (\A o \in Outage : o.detectedAt \in Nat)
  BY DEF Entry, Outage
<1>2. /\ log \in Seq(Entry) => \A i \in DOMAIN log : log[i] \in Entry
      /\ outages \in Seq(Outage) => \A i \in DOMAIN outages : outages[i] \in Outage
  OBVIOUS
<1>3. QED
  BY <1>1, <1>2

\* Nothing folded in: the history, the table and the snapshot agree as before.
LEMMA HistorySame ==
    ASSUME History, TypeOK, log' = log, outages' = outages, now' \in {now, now + 1},
           snap'.status = snap.status, snap'.openIncidentID = snap.openIncidentID,
           snap'.firstFailureAt = snap.firstFailureAt
    PROVE  History'
<1>0. PICK L : L = Len(log) /\ L = Len(log')
  OBVIOUS
<1>1. /\ Onsets' = Onsets
      /\ \A k : ExpectedOutage(k)' = ExpectedOutage(k)
      /\ \A k : DownAfter(k)' <=> DownAfter(k)
      /\ FailureRun(L)' = FailureRun(L)
  BY OutagesSame, LogSame
<1>2. now \in Nat /\ log \in Seq(Entry) /\ outages \in Seq(Outage)
  BY DEF TypeOK
<1>3. StreakStart'
  BY <1>0, <1>1 DEF History, StreakStart
<1>4. LogTimes'
  <2>1. \A i \in DOMAIN log : log[i].at \in Nat
    BY <1>2, TimesAreNumbers
  <2>2. \A i \in DOMAIN log : 0 < log[i].at /\ log[i].at < now'
    BY <1>2, <2>1 DEF History, LogTimes
  <2>3. QED
    BY <1>2, <2>2 DEF History, LogTimes
<1>5. RowTimes'
  <2>1. \A i \in DOMAIN outages : outages[i].detectedAt \in Nat
    BY <1>2, TimesAreNumbers
  <2>2. \A i \in DOMAIN outages : outages[i].detectedAt < now'
    BY <1>2, <2>1 DEF History, RowTimes
  <2>3. QED
    BY <2>2 DEF History, RowTimes
<1>6. OpenOutage'
  BY <1>0, <1>1 DEF History, OpenOutage
<1>7. Matched'
  BY <1>1 DEF History, Matched
<1>8. QED
  BY <1>3, <1>4, <1>5, <1>6, <1>7 DEF History

\* A result folded in now is later than the others, and continues the run of
\* failures the snapshot dates, or ends it.
LEMMA HistoryGrows ==
    ASSUME TypeOK, History, NEW e \in Entry, log' = Append(log, e), e.at = now,
           now' = now + 1,
           snap'.firstFailureAt = IF e.ok THEN Never
                                  ELSE IF snap.firstFailureAt = Never THEN now
                                  ELSE snap.firstFailureAt
    PROVE  StreakStart' /\ LogTimes'
<1>0. PICK L : L = Len(log)
  OBVIOUS
<1>1. /\ L \in Nat /\ Len(log') = L + 1 /\ DOMAIN log = 1..L /\ DOMAIN log' = 1..L+1
      /\ \A i \in 1..L : log'[i] = log[i]
      /\ log'[L + 1] = e
      /\ FailureRun(L + 1)' = IF e.ok THEN 0 ELSE FailureRun(L) + 1
  <2>1. log \in Seq(Entry)
    BY DEF TypeOK
  <2>2. /\ L \in Nat /\ Len(log') = L + 1
        /\ \A i \in 1..L : log'[i] = log[i]
        /\ log'[L + 1] = e
        /\ FailureRun(L + 1)' = IF e.ok THEN 0 ELSE FailureRun(L) + 1
    BY <1>0, <2>1, LogGrows
  <2>3. DOMAIN log = 1..L /\ DOMAIN log' = 1..L+1
    BY <1>0, <2>1
  <2>4. QED
    BY <2>2, <2>3
<1>2. now \in Nat /\ now > 0 /\ \A i \in 1..L : log[i].at \in Nat
  BY <1>1, TimesAreNumbers DEF TypeOK, History, LogTimes
<1>3. FailureRun(L) \in 0..L
  BY <1>1, RunBound
<1>4. LogTimes'
  <2>1. \A i \in 1..L : 0 < log[i].at /\ log[i].at < now
    BY <1>1 DEF History, LogTimes
  <2>2. \A i, j \in 1..L : i < j => log[i].at < log[j].at
    BY <1>1 DEF History, LogTimes
  <2>3. \A i \in 1..L+1 : i \in 1..L \/ i = L + 1
    BY <1>1
  <2>4. \A i \in 1..L+1 : 0 < log'[i].at /\ log'[i].at < now'
    <3>1. SUFFICES ASSUME NEW i \in 1..L+1
                   PROVE  0 < log'[i].at /\ log'[i].at < now'
      OBVIOUS
    <3>2. CASE i \in 1..L
      BY <1>1, <1>2, <2>1, <3>2
    <3>3. CASE i = L + 1
      BY <1>1, <1>2, <3>3
    <3>4. QED
      BY <2>3, <3>2, <3>3
  <2>5. \A i, j \in 1..L+1 : i < j => log'[i].at < log'[j].at
    <3>1. SUFFICES ASSUME NEW i \in 1..L+1, NEW j \in 1..L+1, i < j
                   PROVE  log'[i].at < log'[j].at
      OBVIOUS
    <3>2. i \in 1..L
      BY <1>1, <3>1
    <3>3. CASE j \in 1..L
      BY <1>1, <2>2, <3>1, <3>2, <3>3
    <3>4. CASE j = L + 1
      BY <1>1, <2>1, <3>2, <3>4
    <3>5. QED
      BY <2>3, <3>3, <3>4
  <2>6. now' > 0
    BY <1>2
  <2>7. QED
    BY <1>1, <2>4, <2>5, <2>6 DEF LogTimes
<1>5. StreakStart'
  <2>1. CASE e.ok
    BY <1>1, <2>1 DEF StreakStart
  <2>2. CASE ~e.ok
    <3>1. log'[(L + 1) - FailureRun(L + 1)' + 1].at =
             IF FailureRun(L) = 0 THEN now ELSE log[L - FailureRun(L) + 1].at
      BY <1>0, <2>2, StartOfRun DEF TypeOK
    <3>2. snap.firstFailureAt = IF FailureRun(L) = 0 THEN Never
                                ELSE log[L - FailureRun(L) + 1].at
      BY <1>0 DEF History, StreakStart
    <3>3. FailureRun(L) # 0 => log[L - FailureRun(L) + 1].at # Never
      <4>1. FailureRun(L) # 0 => L - FailureRun(L) + 1 \in 1..L
        BY <1>1, <1>3
      <4>2. QED
        BY <1>1, <1>2, <4>1 DEF History, LogTimes, Never
    <3>4. snap'.firstFailureAt = log'[(L + 1) - FailureRun(L + 1)' + 1].at
      BY <2>2, <3>1, <3>2, <3>3
    <3>5. FailureRun(L + 1)' # 0
      BY <1>1, <1>3, <2>2
    <3>6. QED
      BY <1>1, <3>4, <3>5 DEF StreakStart
  <2>3. QED
    BY <2>1, <2>2
<1>6. QED
  BY <1>4, <1>5

\* The rest of the invariant, when a result neither begins nor ends an outage.
LEMMA NoOutageChange ==
    ASSUME TypeOK, History, StatusIsHysteresis, StatusIsHysteresis',
           NEW e \in Entry, log' = Append(log, e), now' = now + 1, outages' = outages,
           snap'.status = "DOWN" <=> snap.status = "DOWN",
           snap'.openIncidentID = snap.openIncidentID
    PROVE  RowTimes' /\ OpenOutage' /\ Matched'
<1>0. PICK L : L = Len(log)
  OBVIOUS
<1>1. log \in Seq(Entry) /\ outages \in Seq(Outage) /\ now \in Nat
  BY DEF TypeOK
<1>2. L \in Nat /\ Len(log') = L + 1 /\ \A k \in 0..L : DownAfter(k)' <=> DownAfter(k)
  BY <1>0, <1>1, LogGrows
<1>3. DownAfter(L + 1)' <=> DownAfter(L)
  BY <1>0, <1>2 DEF StatusIsHysteresis, StatusAfter
<1>4. Onsets' = Onsets /\ \A k \in Onsets : k \in 1..L
  <2>1. Onsets' = Onsets
    BY <1>0, <1>1, <1>3, OnsetsGrow
  <2>2. \A k \in Onsets : k \in 1..Len(log)
    BY <1>1, OnsetRun
  <2>3. QED
    BY <1>0, <2>1, <2>2
<1>5. \A k \in Onsets : ExpectedOutage(k)' = ExpectedOutage(k)
  <2>1. SUFFICES ASSUME NEW k \in Onsets
                 PROVE  ExpectedOutage(k)' = ExpectedOutage(k)
    OBVIOUS
  <2>2. k \in 1..L /\ L \in k..L
    BY <1>2, <1>4
  <2>3. ~(~DownAfter(L + 1)' /\ \A m \in k..L : DownAfter(m))
    BY <1>3, <2>2
  <2>4. EndsOf(k)' = EndsOf(k)
    BY <1>0, <1>1, <2>2, <2>3, OnsetsGrow
  <2>5. QED
    BY <1>1, <2>4, ExpectedKept
<1>6. Matched'
  BY <1>4, <1>5 DEF History, Matched
<1>7. RowTimes'
  <2>1. \A i \in DOMAIN outages : outages[i].detectedAt \in Nat
    BY <1>1, TimesAreNumbers
  <2>2. \A i \in DOMAIN outages : outages[i].detectedAt < now'
    BY <1>1, <2>1 DEF History, RowTimes
  <2>3. QED
    BY <2>2 DEF History, RowTimes
<1>8. OpenOutage'
  <2>1. SUFFICES ASSUME snap'.status = "DOWN"
                 PROVE  \E k \in Onsets' : /\ \A n \in k..Len(log') : DownAfter(n)'
                                           /\ outages'[snap'.openIncidentID] = ExpectedOutage(k)'
    BY DEF OpenOutage
  <2>2. PICK k \in Onsets : /\ \A n \in k..L : DownAfter(n)
                            /\ outages[snap.openIncidentID] = ExpectedOutage(k)
    BY <1>0, <2>1 DEF History, OpenOutage
  <2>3. \A n \in k..L+1 : DownAfter(n)'
    <3>1. \A n \in k..L+1 : (n \in 0..L /\ n \in k..L) \/ n = L + 1
      <4>1. k \in 1..L
        BY <1>4
      <4>2. QED
        BY <1>2, <4>1
    <3>2. L \in k..L
      BY <1>2, <1>4
    <3>3. QED
      BY <1>2, <1>3, <2>2, <3>1, <3>2
  <2>4. QED
    BY <1>2, <1>4, <1>5, <2>2, <2>3
<1>9. QED
  BY <1>6, <1>7, <1>8

\* The same, when the outage that begins gets its row.
LEMMA OutageBegins ==
    ASSUME TypeOK, History, StatusIsHysteresis, StatusIsHysteresis',
           NEW e \in Entry, log' = Append(log, e), ~e.ok, e.at = now, now' = now + 1,
           snap.status # "DOWN", snap'.status = "DOWN",
           NEW tr \in Transition, outages' = Append(outages, NewRow(tr, now)),
           tr.incidentStart = IF snap.firstFailureAt = Never THEN now ELSE snap.firstFailureAt,
           tr.sendDown <=> e.eff.notify /\ snap.status # "UNKNOWN",
           snap'.openIncidentID = Len(outages) + 1
    PROVE  RowTimes' /\ OpenOutage' /\ Matched'
<1>0. PICK L : L = Len(log)
  OBVIOUS
<1> DEFINE M == L + 1
           K == Len(outages)
           row == NewRow(tr, now)
<1>1. log \in Seq(Entry) /\ outages \in Seq(Outage) /\ now \in Nat
  BY DEF TypeOK
<1>2. L \in Nat /\ Len(log') = M /\ \A k \in 0..L : DownAfter(k)' <=> DownAfter(k)
  BY <1>0, <1>1, LogGrows
<1>3. ~DownAfter(L) /\ DownAfter(M)' /\ (snap.status # "UNKNOWN" <=> SeenUp(L))
  BY <1>0, <1>2 DEF StatusIsHysteresis, StatusAfter
<1>4. Onsets' = Onsets \cup {M} /\ \A k \in Onsets : k \in 1..L
  <2>1. Onsets' = Onsets \cup {M}
    BY <1>0, <1>1, <1>3, OnsetsGrow
  <2>2. \A k \in Onsets : k \in 1..Len(log)
    BY <1>1, OnsetRun
  <2>3. QED
    BY <1>0, <2>1, <2>2
<1>5. \A k \in Onsets : ExpectedOutage(k)' = ExpectedOutage(k)
  <2>1. SUFFICES ASSUME NEW k \in Onsets
                 PROVE  ExpectedOutage(k)' = ExpectedOutage(k)
    OBVIOUS
  <2>2. EndsOf(k)' = EndsOf(k)
    BY <1>0, <1>1, <1>3, <1>4, OnsetsGrow
  <2>3. QED
    BY <1>1, <2>2, ExpectedKept
<1>6. ExpectedOutage(M)' = row
  <2> DEFINE start == IF FailureRun(L) = 0 THEN e.at ELSE log[L - FailureRun(L) + 1].at
             told  == e.eff.notify /\ SeenUp(L)
  <2>1. ExpectedOutage(M)' = [ startedAt |-> start, detectedAt |-> e.at, resolvedAt |-> Never,
                               alertSent |-> told, recoverySent |-> FALSE ]
    BY <1>0, <1>1, ExpectedNew
  <2>2. tr.incidentStart = start
    <3>1. snap.firstFailureAt = IF FailureRun(L) = 0 THEN Never
                                ELSE log[L - FailureRun(L) + 1].at
      BY <1>0 DEF History, StreakStart
    <3>2. FailureRun(L) # 0 => log[L - FailureRun(L) + 1].at # Never
      <4>1. FailureRun(L) \in 0..L
        BY <1>2, RunBound
      <4>2. FailureRun(L) # 0 => L - FailureRun(L) + 1 \in 1..L
        BY <1>2, <4>1
      <4>3. \A i \in 1..L : log[i].at > 0
        <5>1. DOMAIN log = 1..L
          BY <1>0, <1>1
        <5>2. \A i \in DOMAIN log : log[i].at \in Nat /\ 0 < log[i].at
          BY <1>1, TimesAreNumbers DEF History, LogTimes
        <5>3. QED
          BY <5>1, <5>2
      <4>4. QED
        BY <4>2, <4>3 DEF Never
    <3>3. QED
      BY <3>1, <3>2
  <2>3. tr.sendDown = told
    <3>1. tr.sendDown \in BOOLEAN
      BY DEF Transition
    <3>2. tr.sendDown <=> told
      BY <1>3
    <3>3. QED
      BY <3>1, <3>2
  <2> HIDE DEF start, told
  <2>4. row = [ startedAt |-> start, detectedAt |-> e.at, resolvedAt |-> Never,
                alertSent |-> told, recoverySent |-> FALSE ]
    BY <2>2, <2>3, Zenon DEF NewRow
  <2>5. QED
    BY <2>1, <2>4
<1>7. row \in Outage /\ row.detectedAt = now
  BY <1>1 DEF NewRow, Outage, Transition, Never
<1> HIDE DEF row
<1>8. /\ K \in Nat /\ DOMAIN outages = 1..K /\ DOMAIN outages' = 1..K+1
      /\ \A i \in 1..K : outages'[i] = outages[i]
      /\ outages'[K + 1] = row
  BY <1>1, <1>7 DEF row
<1>9. \A i \in 1..K+1 : i \in 1..K \/ i = K + 1
  BY <1>8
<1>10. Matched'
  <2>1. \A i \in 1..K+1 : \E k \in Onsets' : outages'[i] = ExpectedOutage(k)'
    BY <1>4, <1>5, <1>6, <1>8, <1>9 DEF History, Matched
  <2>2. \A k \in Onsets' : \E i \in 1..K+1 : outages'[i] = ExpectedOutage(k)'
    <3>1. SUFFICES ASSUME NEW k \in Onsets'
                   PROVE  \E i \in 1..K+1 : outages'[i] = ExpectedOutage(k)'
      OBVIOUS
    <3>2. CASE k \in Onsets
      <4>1. PICK i \in 1..K : outages[i] = ExpectedOutage(k)
        BY <1>8, <3>2 DEF History, Matched
      <4>2. i \in 1..K+1 /\ outages'[i] = ExpectedOutage(k)'
        BY <1>5, <1>8, <3>2, <4>1
      <4>3. QED
        BY <4>2
    <3>3. CASE k = M
      <4>1. K + 1 \in 1..K+1
        BY <1>8
      <4>2. QED
        BY <1>6, <1>8, <3>3, <4>1
    <3>4. QED
      BY <1>4, <3>2, <3>3
  <2>3. QED
    BY <1>8, <2>1, <2>2 DEF Matched
<1>11. RowTimes'
  <2>1. \A i \in 1..K : outages[i].detectedAt \in Nat /\ outages[i].detectedAt < now
    BY <1>1, <1>8, TimesAreNumbers DEF History, RowTimes
  <2>2. \A i \in 1..K+1 : IF i = K + 1 THEN outages'[i].detectedAt = now
                          ELSE i \in 1..K /\ outages'[i] = outages[i]
    BY <1>7, <1>8, <1>9
  <2>3. \A i \in 1..K+1 : outages'[i].detectedAt < now'
    BY <1>1, <2>1, <2>2
  <2>4. ASSUME NEW i \in 1..K+1, NEW j \in 1..K+1,
               outages'[i].detectedAt = outages'[j].detectedAt
        PROVE  i = j
    <3>1. CASE i = K + 1 \/ j = K + 1
      BY <1>1, <2>1, <2>2, <2>4, <3>1
    <3>2. CASE i # K + 1 /\ j # K + 1
      BY <1>8, <2>2, <2>4, <3>2 DEF History, RowTimes
    <3>3. QED
      BY <3>1, <3>2
  <2>5. QED
    BY <1>8, <2>3, <2>4 DEF RowTimes
<1>12. OpenOutage'
  <2>1. \A n \in M..M : DownAfter(n)'
    BY <1>2, <1>3
  <2>2. outages'[snap'.openIncidentID] = ExpectedOutage(M)'
    BY <1>6, <1>8
  <2>3. QED
    BY <1>2, <1>4, <2>1, <2>2 DEF OpenOutage
<1>13. QED
  BY <1>10, <1>11, <1>12

\* The same, when the row of the outage that ends is resolved.
LEMMA OutageEnds ==
    ASSUME TypeOK, History, OpenRow, StatusIsHysteresis, StatusIsHysteresis',
           NEW e \in Entry, log' = Append(log, e), e.at = now, now' = now + 1,
           snap.status = "DOWN", snap'.status # "DOWN",
           NEW tr \in Transition,
           outages' = [outages EXCEPT ![snap.openIncidentID] = Resolved(@, tr, now)],
           tr.sendRecovery <=> e.eff.notify /\ snap.alertSent
    PROVE  RowTimes' /\ OpenOutage' /\ Matched'
<1>0. PICK L, id : L = Len(log) /\ id = snap.openIncidentID
  OBVIOUS
<1> DEFINE M == L + 1
           K == Len(outages)
           row == Resolved(outages[id], tr, now)
<1>1. log \in Seq(Entry) /\ outages \in Seq(Outage) /\ now \in Nat
  BY DEF TypeOK
<1>2. L \in Nat /\ Len(log') = M
  BY <1>0, <1>1, LogGrows
<1>3. DownAfter(L) /\ ~DownAfter(M)'
  BY <1>0, <1>2 DEF StatusIsHysteresis, StatusAfter
<1>4. Onsets' = Onsets /\ \A k \in Onsets : k \in 1..L
  <2>1. Onsets' = Onsets
    BY <1>0, <1>1, <1>3, OnsetsGrow
  <2>2. \A k \in Onsets : k \in 1..Len(log)
    BY <1>1, OnsetRun
  <2>3. QED
    BY <1>0, <2>1, <2>2
<1>5. /\ id \in 1..K /\ outages[id] \in Outage /\ outages[id].alertSent = snap.alertSent
      /\ K \in Nat /\ DOMAIN outages = 1..K
  BY <1>0, <1>1 DEF OpenRow
<1>6. row \in Outage /\ row.detectedAt = outages[id].detectedAt
  <2>1. \A r \in Outage : /\ Resolved(r, tr, now) \in Outage
                          /\ Resolved(r, tr, now).detectedAt = r.detectedAt
    BY <1>1, RowShape
  <2>2. QED
    BY <1>5, <2>1
<1>7. /\ DOMAIN outages' = 1..K
      /\ \A i \in 1..K : outages'[i] = IF i = id THEN row ELSE outages[i]
  BY <1>0, <1>1, <1>5
<1> HIDE DEF row
<1>8. PICK k0 \in Onsets : /\ \A n \in k0..L : DownAfter(n)
                           /\ outages[id] = ExpectedOutage(k0)
  BY <1>0 DEF History, OpenOutage
\* The outages that do not last keep their rows; the one that does is resolved.
<1>9. \A k \in Onsets : k # k0 => ExpectedOutage(k)' = ExpectedOutage(k)
  <2>1. SUFFICES ASSUME NEW k \in Onsets, k # k0
                 PROVE  ExpectedOutage(k)' = ExpectedOutage(k)
    OBVIOUS
  <2>2. ~DownAfter(k - 1) /\ ~DownAfter(k0 - 1) /\ k \in 1..L /\ k0 \in 1..L
    <3>1. \A n \in Onsets : ~DownAfter(n - 1)
      BY DEF Onsets
    <3>2. QED
      BY <1>4, <3>1
  <2>3. ~(\A m \in k..L : DownAfter(m))
    <3>1. CASE k < k0
      <4>1. k0 - 1 \in k..L
        BY <1>2, <2>2, <3>1
      <4>2. QED
        BY <2>2, <4>1
    <3>2. CASE k > k0
      <4>1. k - 1 \in k0..L
        BY <1>2, <2>2, <3>2
      <4>2. QED
        BY <1>8, <2>2, <4>1
    <3>3. QED
      BY <2>1, <2>2, <3>1, <3>2
  <2>4. EndsOf(k)' = EndsOf(k)
    BY <1>0, <1>1, <2>2, <2>3, OnsetsGrow
  <2>5. QED
    BY <1>1, <2>4, ExpectedKept
<1>10. ExpectedOutage(k0)' = row
  <2>1. k0 \in 1..L
    BY <1>4
  <2>2. EndsOf(k0) = {}
    <3>1. ASSUME NEW n \in EndsOf(k0)
          PROVE  FALSE
      <4>1. n \in 1..L /\ ~DownAfter(n) /\ n > k0
        BY <1>0, <1>1 DEF EndsOf, Ends
      <4>2. n \in k0..L
        BY <1>2, <2>1, <4>1
      <4>3. QED
        BY <1>8, <4>1, <4>2
    <3>2. QED
      BY <3>1
  <2>3. EndsOf(k0)' = EndsOf(k0) \cup {M}
    BY <1>0, <1>1, <1>3, <1>8, <2>1, OnsetsGrow
  <2>4. EndsOf(k0)' = {Len(log) + 1}
    BY <1>0, <2>2, <2>3
  <2> DEFINE old  == outages[id]
             told == old.alertSent /\ e.eff.notify
             mail == tr.sendRecovery
  <2>5. ExpectedOutage(k0)' =
           [ startedAt    |-> old.startedAt,
             detectedAt   |-> old.detectedAt,
             resolvedAt   |-> e.at,
             alertSent    |-> old.alertSent,
             recoverySent |-> told ]
    BY <1>1, <1>8, <2>2, <2>4, ExpectedKept
  <2>6. row = [ startedAt |-> old.startedAt, detectedAt |-> old.detectedAt, resolvedAt |-> now,
                alertSent |-> old.alertSent, recoverySent |-> mail ]
    BY <1>1, <1>5, ResolvedFields DEF row
  <2>7. mail = told
    <3>1. mail \in BOOLEAN
      BY DEF Transition
    <3>2. mail <=> told
      BY <1>5
    <3>3. QED
      BY <3>1, <3>2
  <2> HIDE DEF old, told, mail
  <2>8. QED
    BY <2>5, <2>6, <2>7, Zenon
\* Each row of the table is of another outage.
<1>11. \A i \in 1..K : i # id => outages[i] # ExpectedOutage(k0)
  BY <1>5, <1>8 DEF History, RowTimes
<1>12. \A k \in Onsets : k # k0 => ExpectedOutage(k) # outages[id]
  <2>1. SUFFICES ASSUME NEW k \in Onsets, k # k0, ExpectedOutage(k) = ExpectedOutage(k0)
                 PROVE  FALSE
    BY <1>8
  <2>2. ExpectedOutage(k).detectedAt = log[k].at /\ ExpectedOutage(k0).detectedAt = log[k0].at
    BY ExpectedFields
  <2>3. k \in DOMAIN log /\ k0 \in DOMAIN log /\ (k < k0 \/ k0 < k)
    BY <1>0, <1>1, <1>4, <2>1
  <2>4. log[k].at \in Nat /\ log[k0].at \in Nat
    BY <1>1, <2>3, TimesAreNumbers
  <2>5. QED
    BY <2>1, <2>2, <2>3, <2>4 DEF History, LogTimes
<1>13. Matched'
  <2>1. \A i \in 1..K : \E k \in Onsets : outages'[i] = ExpectedOutage(k)'
    <3>1. SUFFICES ASSUME NEW i \in 1..K
                   PROVE  \E k \in Onsets : outages'[i] = ExpectedOutage(k)'
      OBVIOUS
    <3>2. CASE i = id
      BY <1>7, <1>10, <3>2
    <3>3. CASE i # id
      <4>1. PICK k \in Onsets : outages[i] = ExpectedOutage(k)
        BY <1>5 DEF History, Matched
      <4>2. k # k0
        BY <1>11, <3>3, <4>1
      <4>3. QED
        BY <1>7, <1>9, <3>3, <4>1, <4>2
    <3>4. QED
      BY <3>2, <3>3
  <2>2. \A k \in Onsets : \E i \in 1..K : outages'[i] = ExpectedOutage(k)'
    <3>1. SUFFICES ASSUME NEW k \in Onsets
                   PROVE  \E i \in 1..K : outages'[i] = ExpectedOutage(k)'
      OBVIOUS
    <3>2. CASE k = k0
      BY <1>5, <1>7, <1>10, <3>2
    <3>3. CASE k # k0
      <4>1. PICK i \in 1..K : outages[i] = ExpectedOutage(k)
        BY <1>5 DEF History, Matched
      <4>2. i # id
        BY <1>12, <3>3, <4>1
      <4>3. QED
        BY <1>7, <1>9, <3>3, <4>1, <4>2
    <3>4. QED
      BY <3>2, <3>3
  <2>3. QED
    BY <1>4, <1>7, <2>1, <2>2 DEF Matched
<1>14. RowTimes'
  <2>1. \A i \in 1..K : /\ outages'[i].detectedAt = outages[i].detectedAt
                        /\ outages[i].detectedAt \in Nat
    BY <1>1, <1>5, <1>6, <1>7, TimesAreNumbers
  <2>2. ASSUME NEW i \in 1..K  PROVE outages[i].detectedAt < now'
    <3>1. outages[i].detectedAt < now
      BY <1>5 DEF History, RowTimes
    <3>2. QED
      BY <1>1, <2>1, <3>1
  <2>3. \A i, j \in 1..K : outages[i].detectedAt = outages[j].detectedAt => i = j
    BY <1>5 DEF History, RowTimes
  <2>4. QED
    BY <1>7, <2>1, <2>2, <2>3 DEF RowTimes
<1>15. OpenOutage'
  BY DEF OpenOutage
<1>16. QED
  BY <1>13, <1>14, <1>15

\* A probe keeps the table that of the history.
LEMMA ProbeOutages ==
    ASSUME TypeOK, Counters, StatusIsHysteresis, OpenRow, History, StatusIsHysteresis',
           NEW class \in Class, NEW eff \in Effectives, Probe(class, eff)
    PROVE  History'
<1> DEFINE e == [ok |-> class = "ok", at |-> now, eff |-> eff]
<1>1. PICK after, tr :
         /\ after \in Snapshot /\ tr \in Transition
         /\ snap' = Adopted(after, tr) /\ outages' = Recorded(tr, now)
         /\ now' = now + 1
         /\ \/ class = "canceled" /\ Ignored(snap, after, tr) /\ log' = log
            \/ /\ class = "ok" /\ e \in Entry /\ log' = Append(log, e)
               /\ Recovered(snap, eff, after, tr) \/ Answered(snap, eff, after, tr)
            \/ /\ class = "failed" /\ e \in Entry /\ log' = Append(log, e)
               /\ \/ WentDown(snap, eff, now, now, after, tr)
                  \/ Failed(snap, eff, now, Reminder, now, after, tr)
  BY ProbeStep
<1>2. /\ outages \in Seq(Outage) /\ snap \in Snapshot /\ now \in Nat
      /\ e.ok = (class = "ok") /\ e.at = now /\ e.eff = eff
  BY DEF TypeOK
<1>3. /\ snap'.status = after.status /\ snap'.firstFailureAt = after.firstFailureAt
      /\ snap'.openIncidentID = IF tr.openIncident THEN Len(outages) + 1
                                ELSE after.openIncidentID
  BY <1>1, <1>2, AdoptedShape
<1> HIDE DEF e
<1>4. CASE class = "canceled"
  <2>1. /\ log' = log /\ ~tr.openIncident /\ ~tr.closeIncident /\ after = snap
    BY <1>1, <1>4 DEF Ignored, Quiet
  <2>2. outages' = outages
    BY <1>1, <1>2, <2>1, RecordedCases
  <2>3. QED
    BY <1>1, <1>3, <2>1, <2>2, HistorySame
<1>5. CASE class = "ok" /\ Recovered(snap, eff, after, tr)
  <2>1. e \in Entry /\ log' = Append(log, e) /\ e.ok
    BY <1>1, <1>2, <1>5
  <2>2. /\ snap.status = "DOWN" /\ after.status = "UP" /\ after.firstFailureAt = Never
        /\ ~tr.openIncident /\ tr.incidentID = snap.openIncidentID
        /\ tr.closeIncident <=> snap.openIncidentID # NoIncident
        /\ tr.sendRecovery <=> /\ snap.openIncidentID # NoIncident
                               /\ eff.notify /\ snap.alertSent
    BY <1>5 DEF Recovered, SuccessCounted
  <2>3. snap.openIncidentID \in 1..Len(outages) /\ snap.openIncidentID # NoIncident
    BY <1>2, <2>2 DEF OpenRow, NoIncident
  <2>4. outages' = [outages EXCEPT ![snap.openIncidentID] = Resolved(@, tr, now)]
    BY <1>1, <1>2, <2>2, <2>3, RecordedCases
  <2>5. StreakStart' /\ LogTimes'
    BY <1>1, <1>2, <1>3, <2>1, <2>2, HistoryGrows
  <2>6. RowTimes' /\ OpenOutage' /\ Matched'
    BY <1>1, <1>2, <1>3, <2>1, <2>2, <2>3, <2>4, OutageEnds
  <2>7. QED
    BY <2>5, <2>6 DEF History
<1>6. CASE class = "ok" /\ Answered(snap, eff, after, tr)
  <2>1. e \in Entry /\ log' = Append(log, e) /\ e.ok
    BY <1>1, <1>2, <1>6
  <2>2. /\ after.status = "DOWN" <=> snap.status = "DOWN"
        /\ after.firstFailureAt = Never /\ after.openIncidentID = snap.openIncidentID
        /\ ~tr.openIncident /\ ~tr.closeIncident
    BY <1>6 DEF Answered, SuccessCounted, IncidentHeld, Quiet
  <2>3. outages' = outages
    BY <1>1, <1>2, <2>2, RecordedCases
  <2>4. StreakStart' /\ LogTimes'
    BY <1>1, <1>2, <1>3, <2>1, <2>2, HistoryGrows
  <2>5. RowTimes' /\ OpenOutage' /\ Matched'
    BY <1>1, <1>3, <2>1, <2>2, <2>3, NoOutageChange
  <2>6. QED
    BY <2>4, <2>5 DEF History
<1>7. CASE class = "failed" /\ WentDown(snap, eff, now, now, after, tr)
  <2>1. e \in Entry /\ log' = Append(log, e) /\ ~e.ok
    BY <1>1, <1>2, <1>7
  <2>2. /\ snap.status # "DOWN" /\ after.status = "DOWN"
        /\ after.firstFailureAt = IF snap.firstFailureAt = Never THEN now
                                  ELSE snap.firstFailureAt
        /\ tr.openIncident /\ tr.incidentStart = after.firstFailureAt
        /\ tr.sendDown = after.alertSent
        /\ after.alertSent <=> eff.notify /\ snap.status # "UNKNOWN"
    BY <1>7 DEF WentDown, FailureCounted
  <2>3. outages' = Append(outages, NewRow(tr, now))
    BY <1>1, <1>2, <2>2, RecordedCases
  <2>4. tr.sendDown <=> e.eff.notify /\ snap.status # "UNKNOWN"
    BY <1>2, <2>2
  <2>5. StreakStart' /\ LogTimes'
    BY <1>1, <1>2, <1>3, <2>1, <2>2, HistoryGrows
  <2>6. RowTimes' /\ OpenOutage' /\ Matched'
    BY <1>1, <1>2, <1>3, <2>1, <2>2, <2>3, <2>4, OutageBegins
  <2>7. QED
    BY <2>5, <2>6 DEF History
<1>8. CASE class = "failed" /\ Failed(snap, eff, now, Reminder, now, after, tr)
  <2>1. e \in Entry /\ log' = Append(log, e) /\ ~e.ok
    BY <1>1, <1>2, <1>8
  <2>2. /\ after.status = snap.status
        /\ after.firstFailureAt = IF snap.firstFailureAt = Never THEN now
                                  ELSE snap.firstFailureAt
        /\ after.openIncidentID = snap.openIncidentID
        /\ ~tr.openIncident /\ ~tr.closeIncident
    BY <1>8 DEF Failed, FailureCounted, IncidentHeld, Quiet
  <2>3. outages' = outages
    BY <1>1, <1>2, <2>2, RecordedCases
  <2>4. StreakStart' /\ LogTimes'
    BY <1>1, <1>2, <1>3, <2>1, <2>2, HistoryGrows
  <2>5. RowTimes' /\ OpenOutage' /\ Matched'
    BY <1>1, <1>3, <2>1, <2>2, <2>3, NoOutageChange
  <2>6. QED
    BY <2>4, <2>5 DEF History
<1>9. QED
  BY <1>1, <1>4, <1>5, <1>6, <1>7, <1>8

-----------------------------------------------------------------------------

\* The invariant holds in every reachable state.
LEMMA Invariant == Spec => []Inv
<1>1. QED
  BY InitInv, NextInv, PTL DEF Spec

\* The snapshot, the incident rows and the mails have their types: the id a
\* transition closes always names a row (state.Apply, core.evaluate).
THEOREM TypeCorrect == Spec => []TypeOK
<1>1. Inv => TypeOK
  BY DEF Inv
<1>2. QED
  BY <1>1, Invariant, PTL

\* A RECOVERY mail is sent once, and only for an outage whose DOWN mail was
\* sent before, for any settings and edits of them (state.go:92).
THEOREM AnnouncedFirst == Spec => []RecoveryFollowsDown
<1>1. Inv => RecoveryFollowsDown
  BY DEF Inv
<1>2. QED
  BY <1>1, Invariant, PTL

\* The status the machine carries from probe to probe is the one the whole
\* history calls for, whatever thresholds were in force and whenever they were
\* edited (state.go, Apply).
THEOREM StatusCorrect == Spec => []StatusIsHysteresis
<1> DEFINE I == TypeOK /\ Counters /\ StatusIsHysteresis
<1>1. Init /\ TypeOK => I
  BY InitHistory
<1>2. I /\ [Next]_vars /\ TypeOK' => I'
  <2> SUFFICES ASSUME I, [Next]_vars, TypeOK' PROVE I'
    OBVIOUS
  <2>1. CASE Next
    BY <2>1, ProbeHistory DEF Next
  <2>2. CASE UNCHANGED vars
    BY <2>2, HistoryUnchanged
  <2>3. QED
    BY <2>1, <2>2
<1>3. I => StatusIsHysteresis
  OBVIOUS
<1>4. QED
  BY <1>1, <1>2, <1>3, TypeCorrect, PTL DEF Spec

\* A reminder is about an announced outage that was open when it was sent, and
\* comes at least Reminder after the previous mail of that outage, for any
\* settings and edits of them (state.go:137-145).
THEOREM RemindersSpaced == Spec => []ReminderSpacing
<1> DEFINE I == /\ Inv /\ OpenRow /\ MailTimes /\ LastAlert /\ ReminderSpacing
<1>1. Init => I
  <2> SUFFICES ASSUME Init PROVE I
    OBVIOUS
  <2>1. Inv
    BY InitInv
  <2>2. /\ snap.status = "UNKNOWN" /\ snap.openIncidentID = NoIncident
        /\ mails = <<>> /\ DOMAIN mails = {} /\ now = 1
    BY DEF Init, NewSnapshot
  <2>3. QED
    BY <2>1, <2>2 DEF OpenRow, MailTimes, LastAlert, ReminderSpacing, Mails
<1>2. I /\ [Next]_vars => I'
  <2> SUFFICES ASSUME I, [Next]_vars PROVE I'
    OBVIOUS
  <2>1. Inv'
    BY NextInv
  <2>2. CASE Next
    <3>1. PICK class \in Class, eff \in Effectives : Probe(class, eff)
      BY <2>2 DEF Next
    <3>2. OpenRow'
      BY <3>1, ProbeOpenRow DEF Inv
    <3>3. MailTimes' /\ LastAlert' /\ ReminderSpacing'
      BY <2>1, <3>1, ProbeReminders DEF Inv
    <3>4. QED
      BY <2>1, <3>2, <3>3
  <2>3. CASE UNCHANGED vars
    BY <2>1, <2>3 DEF vars, OpenRow, MailTimes, LastAlert, ReminderSpacing, Mails
  <2>4. QED
    BY <2>2, <2>3
<1>3. I => ReminderSpacing
  OBVIOUS
<1>4. QED
  BY <1>1, <1>2, <1>3, PTL DEF Spec

\* The incident table tells the outages of the history and no others: each
\* starts at the first failure of the run that tripped the threshold, ends at
\* the probe that healed it, and says that mail was sent exactly for devices
\* once seen up (state.go:64-72).
THEOREM OutagesCorrect == Spec => []OutagesMatchHistory
<1> DEFINE I == TypeOK /\ Counters /\ StatusIsHysteresis /\ OpenRow /\ History
<1>1. Init => I
  <2> SUFFICES ASSUME Init PROVE I
    OBVIOUS
  <2>1. Inv /\ Counters /\ StatusIsHysteresis
    BY InitInv, InitHistory
  <2>2. /\ snap.status = "UNKNOWN" /\ snap.openIncidentID = NoIncident
        /\ snap.firstFailureAt = Never /\ Len(log) = 0
        /\ DOMAIN log = {} /\ DOMAIN outages = {} /\ now = 1
    BY DEF Init, NewSnapshot
  <2>3. Onsets = {}
    BY <2>2 DEF Onsets
  <2>4. StreakStart
    BY <2>2, NoRun DEF StreakStart
  <2>5. OpenRow /\ LogTimes /\ RowTimes /\ OpenOutage /\ Matched
    BY <2>2, <2>3 DEF OpenRow, LogTimes, RowTimes, OpenOutage, Matched
  <2>6. QED
    BY <2>1, <2>4, <2>5 DEF Inv, History
<1>2. I /\ [Next]_vars /\ TypeOK' => I'
  <2> SUFFICES ASSUME I, [Next]_vars, TypeOK' PROVE I'
    OBVIOUS
  <2>1. CASE Next
    <3>1. PICK class \in Class, eff \in Effectives : Probe(class, eff)
      BY <2>1 DEF Next
    <3>2. Counters' /\ StatusIsHysteresis'
      BY <3>1, ProbeHistory
    <3>3. OpenRow'
      BY <3>1, ProbeOpenRow
    <3>4. History'
      BY <3>1, <3>2, ProbeOutages
    <3>5. QED
      BY <3>2, <3>3, <3>4
  <2>2. CASE UNCHANGED vars
    <3>1. Counters' /\ StatusIsHysteresis'
      BY <2>2, HistoryUnchanged
    <3>2. /\ log' = log /\ outages' = outages /\ now' = now /\ snap' = snap
      BY <2>2 DEF vars
    <3>3. History' /\ OpenRow'
      BY <3>2, HistorySame DEF OpenRow
    <3>4. QED
      BY <3>1, <3>3
  <2>3. QED
    BY <2>1, <2>2
<1>3. I => OutagesMatchHistory
  BY MatchedIsMatch DEF History
<1>4. QED
  BY <1>1, <1>2, <1>3, TypeCorrect, PTL DEF Spec

=============================================================================
