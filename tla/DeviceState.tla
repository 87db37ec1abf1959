----------------------------- MODULE DeviceState -----------------------------
(***************************************************************************)
(* The device state machine, internal/state/state.go.  Apply is a pure      *)
(* function in the program and a pure operator here: it takes a device's    *)
(* snapshot, the effective settings, one probe result and the clock, and    *)
(* returns the new snapshot together with the transition the evaluator must *)
(* persist and announce.                                                    *)
(*                                                                         *)
(* Instants are natural numbers; 0 is Go's zero time, "never".  Incident    *)
(* ids are natural numbers; 0 is "no open incident", as in the program.     *)
(***************************************************************************)
EXTENDS Naturals

Status     == {"UNKNOWN", "UP", "DOWN"}
Class      == {"ok", "failed", "canceled"}
Never      == 0
NoIncident == 0

Snapshot ==
    [ status               : Status,
      consecutiveFailures  : Nat,
      consecutiveSuccesses : Nat,
      firstFailureAt       : Nat,
      openIncidentID       : Nat,
      openIncidentStart    : Nat,
      alertSent            : BOOLEAN,
      lastAlertAt          : Nat ]

\* The settings of model.Effective the machine reads.
Effective ==
    [ failureThreshold  : Nat \ {0},
      recoveryThreshold : Nat \ {0},
      notify            : BOOLEAN ]

Result == [ class : Class, at : Nat ]

Transition ==
    [ ignored       : BOOLEAN,
      changed       : BOOLEAN,
      openIncident  : BOOLEAN,
      closeIncident : BOOLEAN,
      incidentID    : Nat,
      incidentStart : Nat,
      sendDown      : BOOLEAN,
      sendRecovery  : BOOLEAN,
      sendReminder  : BOOLEAN ]

NewSnapshot ==
    [ status |-> "UNKNOWN", consecutiveFailures |-> 0,
      consecutiveSuccesses |-> 0, firstFailureAt |-> Never,
      openIncidentID |-> NoIncident, openIncidentStart |-> Never,
      alertSent |-> FALSE, lastAlertAt |-> Never ]

NoTransition ==
    [ ignored |-> FALSE, changed |-> FALSE, openIncident |-> FALSE,
      closeIncident |-> FALSE, incidentID |-> NoIncident,
      incidentStart |-> Never, sendDown |-> FALSE, sendRecovery |-> FALSE,
      sendReminder |-> FALSE ]

-----------------------------------------------------------------------------
(* A probe that answered.                                                  *)

\* Mutant: the failure streak survives a success.
CountSuccessOnly(s) ==
    [ s EXCEPT !.consecutiveSuccesses = @ + 1, !.firstFailureAt = Never ]

CountSuccess(s) ==
    [ s EXCEPT !.consecutiveSuccesses = @ + 1,
               !.consecutiveFailures  = 0,
               !.firstFailureAt       = Never ]

\* Mutant: a recovery nobody was told the outage of.
AnnouncesAny(s, eff) == s.openIncidentID # NoIncident /\ eff.notify

\* Only announce a recovery whose outage was announced.
AnnouncesRecovery(s, eff) ==
    s.openIncidentID # NoIncident /\ eff.notify /\ s.alertSent

\* DOWN -> UP.  The incident id travels on the transition, because the
\* snapshot lets go of it here.
Recover(s, eff) ==
    LET known == s.openIncidentID # NoIncident
    IN  [ snap |-> [ CountSuccess(s) EXCEPT
                       !.status            = "UP",
                       !.openIncidentID    = NoIncident,
                       !.openIncidentStart = Never,
                       !.alertSent         = FALSE,
                       !.lastAlertAt       = Never ],
          tr   |-> [ NoTransition EXCEPT
                       !.changed       = TRUE,
                       !.closeIncident = known,
                       !.incidentID    = s.openIncidentID,
                       !.incidentStart = IF known THEN s.openIncidentStart
                                                  ELSE Never,
                       !.sendRecovery  = AnnouncesRecovery(s, eff) ] ]

Recovers(s, eff) ==
    /\ s.status = "DOWN"
    /\ s.consecutiveSuccesses + 1 >= eff.recoveryThreshold

ApplySuccess(s, eff) ==
    IF Recovers(s, eff) THEN Recover(s, eff)
    ELSE IF s.status = "UNKNOWN"
         THEN [ snap |-> [CountSuccess(s) EXCEPT !.status = "UP"],
                tr   |-> [NoTransition EXCEPT !.changed = TRUE] ]
         ELSE [ snap |-> CountSuccess(s), tr |-> NoTransition ]

-----------------------------------------------------------------------------
(* A probe that failed.                                                    *)

\* Mutant: the streak starts at its latest failure.
CountLatestFailure(s, at) ==
    [ s EXCEPT !.consecutiveFailures = @ + 1, !.consecutiveSuccesses = 0,
               !.firstFailureAt = at ]

CountFailure(s, at) ==
    [ s EXCEPT !.consecutiveFailures  = @ + 1,
               !.consecutiveSuccesses = 0,
               !.firstFailureAt       = IF @ = Never THEN at ELSE @ ]

\* Not yet DOWN -> DOWN: an incident opens, backdated to the first failure of
\* the streak.  A device never seen up is not announced.
GoDown(s, eff, at, now) ==
    LET c     == CountFailure(s, at)
        alert == eff.notify /\ s.status # "UNKNOWN"
    IN  [ snap |-> [ c EXCEPT
                       !.status            = "DOWN",
                       !.openIncidentStart = c.firstFailureAt,
                       !.alertSent         = alert,
                       !.lastAlertAt       = IF alert THEN now ELSE @ ],
          tr   |-> [ NoTransition EXCEPT
                       !.changed       = TRUE,
                       !.openIncident  = TRUE,
                       !.incidentStart = c.firstFailureAt,
                       !.sendDown      = alert ] ]

GoesDown(s, eff) ==
    /\ s.status # "DOWN"
    /\ s.consecutiveFailures + 1 >= eff.failureThreshold

ReminderDue(s, eff, reminder, now) ==
    /\ s.status = "DOWN"
    /\ reminder > 0
    /\ s.alertSent
    /\ s.lastAlertAt # Never
    /\ now >= s.lastAlertAt + reminder
    /\ eff.notify

\* Mutant: the reminder's clock is not reset.
RemindAgain(s, at, now) ==
    [ snap |-> CountFailure(s, at),
      tr   |-> [NoTransition EXCEPT !.sendReminder = TRUE,
                                    !.incidentID   = s.openIncidentID] ]

Remind(s, at, now) ==
    [ snap |-> [CountFailure(s, at) EXCEPT !.lastAlertAt = now],
      tr   |-> [NoTransition EXCEPT !.sendReminder = TRUE,
                                    !.incidentID   = s.openIncidentID] ]

ApplyFailure(s, eff, at, reminder, now) ==
    IF GoesDown(s, eff) THEN GoDown(s, eff, at, now)
    ELSE IF ReminderDue(s, eff, reminder, now) THEN Remind(s, at, now)
         ELSE [ snap |-> CountFailure(s, at), tr |-> NoTransition ]

-----------------------------------------------------------------------------

\* Fold one probe result into the snapshot.  A cancelled probe is a shutdown
\* artefact and leaves no trace.
Apply(s, eff, res, reminder, now) ==
    CASE res.class = "canceled" ->
             [ snap |-> s, tr |-> [NoTransition EXCEPT !.ignored = TRUE] ]
      [] res.class = "ok"       -> ApplySuccess(s, eff)
      [] res.class = "failed"   -> ApplyFailure(s, eff, res.at, reminder, now)

=============================================================================
