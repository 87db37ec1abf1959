---------------------------- MODULE DeviceMachine ----------------------------
(***************************************************************************)
(* One device, its probes and its outage log, when nothing else goes wrong: *)
(* every probe result reaches the evaluator, every database write succeeds  *)
(* and the process never stops.  This is the contract of state.Apply driven *)
(* by core.evaluate; what crashes and failed writes do to it is in module   *)
(* Evaluator.                                                              *)
(*                                                                         *)
(* `log` remembers every result that was folded in, with the settings that  *)
(* were in force.  It is not program state: the properties compare the      *)
(* incremental machine with definitions that read the whole history.        *)
(***************************************************************************)
EXTENDS DeviceState, Sequences, FiniteSets

CONSTANTS
    Effectives,  \* the settings an operator may switch between
    Reminder,    \* alert.reminder_sec; 0 sends none
    MaxNow       \* bounds the clock, and so the number of probes

ASSUME EffectivesAssumption == Effectives \subseteq Effective
ASSUME ReminderAssumption   == Reminder \in Nat
ASSUME MaxNowAssumption     == MaxNow \in Nat

VARIABLES
    now,      \* the clock
    snap,     \* the evaluator's snapshot of the device
    outages,  \* the incidents table; an incident's id is its index
    mails,    \* the alerts decided on, in order
    log       \* history: the results folded in so far

vars == <<now, snap, outages, mails, log>>

Outage == [ startedAt : Nat, detectedAt : Nat, resolvedAt : Nat,
            alertSent : BOOLEAN, recoverySent : BOOLEAN ]
Kind   == {"down", "recovery", "reminder"}
Mail   == [ kind : Kind, incident : Nat, at : Nat ]
Entry  == [ ok : BOOLEAN, at : Nat, eff : Effective ]

TypeOK ==
    /\ now \in Nat
    /\ snap \in Snapshot
    /\ outages \in Seq(Outage)
    /\ mails \in Seq(Mail)
    /\ log \in Seq(Entry)

Init ==
    /\ now = 1
    /\ snap = NewSnapshot
    /\ outages = <<>>
    /\ mails = <<>>
    /\ log = <<>>

-----------------------------------------------------------------------------

\* The incident rows after a transition: a new one on the way down, the open
\* one resolved on the way up.
Recorded(tr, at) ==
    IF tr.openIncident
    THEN Append(outages, [ startedAt    |-> tr.incidentStart,
                           detectedAt   |-> at,
                           resolvedAt   |-> Never,
                           alertSent    |-> tr.sendDown,
                           recoverySent |-> FALSE ])
    ELSE IF tr.closeIncident
         THEN [ outages EXCEPT ![tr.incidentID].resolvedAt   = at,
                               ![tr.incidentID].recoverySent = tr.sendRecovery ]
         ELSE outages

\* The id the alert is about: the transition's own, else the snapshot's.
IncidentOf(tr, s) ==
    IF tr.incidentID # NoIncident THEN tr.incidentID ELSE s.openIncidentID

\* What dispatch announces for a transition.
Announced(tr, s) ==
    LET mail(kind) == [kind |-> kind, incident |-> IncidentOf(tr, s), at |-> now]
    IN  IF tr.sendDown          THEN Append(mails, mail("down"))
        ELSE IF tr.sendRecovery THEN Append(mails, mail("recovery"))
        ELSE IF tr.sendReminder THEN Append(mails, mail("reminder"))
        ELSE mails

\* The snapshot learns the id of the incident just inserted.
Adopted(s, tr) ==
    IF tr.openIncident THEN [s EXCEPT !.openIncidentID = Len(outages) + 1] ELSE s

\* One probe result evaluated under the settings in force.
Probe(class, eff) ==
    /\ now < MaxNow
    /\ LET step == Apply(snap, eff, [class |-> class, at |-> now], Reminder, now)
           kept == Adopted(step.snap, step.tr)
       IN  /\ snap' = kept
           /\ outages' = Recorded(step.tr, now)
           /\ mails' = Announced(step.tr, kept)
           /\ log' = IF step.tr.ignored THEN log
                     ELSE Append(log, [ok |-> class = "ok", at |-> now, eff |-> eff])
    /\ now' = now + 1

Next == \E class \in Class, eff \in Effectives : Probe(class, eff)

Spec == Init /\ [][Next]_vars

-----------------------------------------------------------------------------
(* Reference definitions, on the whole history.                            *)

\* Lengths of the runs of failures and of successes that end at entry k.
FailureRun(k) == Cardinality({j \in 1..k : \A i \in j..k : ~log[i].ok})
SuccessRun(k) == Cardinality({j \in 1..k : \A i \in j..k : log[i].ok})

\* Entry k is bad enough to say DOWN, or good enough to say UP again.
Trips(k) == FailureRun(k) >= log[k].eff.failureThreshold
Heals(k) == SuccessRun(k) >= log[k].eff.recoveryThreshold

DownAfter(k) == \E j \in 1..k : Trips(j) /\ \A i \in j+1..k : ~Heals(i)
SeenUp(k)    == \E j \in 1..k : log[j].ok

StatusAfter(k) == IF DownAfter(k) THEN "DOWN"
                  ELSE IF SeenUp(k) THEN "UP" ELSE "UNKNOWN"

\* Where outages begin and end, and what the incident row of one must say.
Onsets == {k \in DOMAIN log : DownAfter(k) /\ ~DownAfter(k - 1)}
Ends   == {k \in DOMAIN log : ~DownAfter(k) /\ DownAfter(k - 1)}

ExpectedOutage(k) ==
    LET ends == {e \in Ends : e > k /\ \A n \in k..e-1 : DownAfter(n)}
    IN  [ startedAt    |-> log[k - FailureRun(k) + 1].at,
          detectedAt   |-> log[k].at,
          resolvedAt   |-> IF ends = {} THEN Never
                           ELSE log[CHOOSE e \in ends : TRUE].at,
          alertSent    |-> log[k].eff.notify /\ SeenUp(k - 1),
          recoverySent |-> /\ log[k].eff.notify
                           /\ SeenUp(k - 1)
                           /\ \E e \in ends : log[e].eff.notify ]

-----------------------------------------------------------------------------
(* Properties.                                                             *)

\* The status the machine carries from probe to probe is the one the whole
\* history calls for: DOWN from the first run of failures as long as the
\* threshold in force, until the first run of successes as long as the
\* recovery threshold, whatever was edited in between (state.go, Apply).
StatusIsHysteresis == snap.status = StatusAfter(Len(log))

\* The incident table tells the outages of the history and no others: each
\* one starts at the first failure of the run that tripped the threshold, not
\* at the probe that tripped it, ends at the probe that healed it, and says
\* that mail was sent exactly for devices once seen up (state.go:64-72).
OutagesMatchHistory ==
    { outages[i] : i \in DOMAIN outages } = { ExpectedOutage(k) : k \in Onsets }

\* A RECOVERY mail is about an outage whose DOWN mail went out earlier, and
\* there is one of each at most: "only announce a recovery we announced the
\* outage for" (state.go:92).
RecoveryFollowsDown ==
    \A n \in DOMAIN mails :
        mails[n].kind # "reminder" =>
            /\ \A m \in DOMAIN mails :
                   (mails[m].kind = mails[n].kind
                      /\ mails[m].incident = mails[n].incident) => m = n
            /\ mails[n].kind = "recovery" =>
                   \E m \in 1..n-1 : mails[m] = [ kind     |-> "down",
                                                  incident |-> mails[n].incident,
                                                  at       |-> mails[m].at ]

\* A reminder is about an announced outage that was open when it was sent, and
\* comes at least Reminder after the previous mail of that outage
\* (state.go:137-145).
ReminderSpacing ==
    \A n \in DOMAIN mails :
        mails[n].kind = "reminder" =>
            LET o == outages[mails[n].incident] IN
            /\ o.alertSent
            /\ o.resolvedAt = Never \/ o.resolvedAt > mails[n].at
            /\ \E m \in 1..n-1 :
                   /\ mails[m].incident = mails[n].incident
                   /\ mails[m].kind # "recovery"
            /\ \A m \in 1..n-1 :
                   mails[m].incident = mails[n].incident =>
                       mails[m].at + Reminder <= mails[n].at

=============================================================================
