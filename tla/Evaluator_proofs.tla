--------------------------- MODULE Evaluator_proofs ---------------------------
(* What holds of every behaviour of the evaluator, for any set of devices,   *)
(* any settings, any fault model and any number of restarts.                 *)
EXTENDS Evaluator, SequenceTheorems, WellFoundedInduction, TLAPS

-----------------------------------------------------------------------------
(* What Apply returns: a snapshot and a transition, and what they say of the  *)
(* incident and its mails.                                                   *)

\* Counting a success or a failure leaves a snapshot.
LEMMA CountType ==
    ASSUME NEW s \in Snapshot, NEW at \in Nat
    PROVE  CountSuccess(s) \in Snapshot /\ CountFailure(s, at) \in Snapshot
<1>1. CountSuccess(s) \in Snapshot
  <2> DEFINE a == [s EXCEPT !.consecutiveSuccesses = @ + 1]
             b == [a EXCEPT !.consecutiveFailures = 0]
  <2>1. a \in Snapshot
    BY DEF Snapshot
  <2>2. b \in Snapshot
    BY <2>1 DEF Snapshot
  <2>3. [b EXCEPT !.firstFailureAt = Never] \in Snapshot
    BY <2>2 DEF Snapshot, Never
  <2>4. QED
    BY <2>3 DEF CountSuccess
<1>2. CountFailure(s, at) \in Snapshot
  <2> DEFINE a == [s EXCEPT !.consecutiveFailures = @ + 1]
             b == [a EXCEPT !.consecutiveSuccesses = 0]
  <2>1. a \in Snapshot
    BY DEF Snapshot
  <2>2. b \in Snapshot
    BY <2>1 DEF Snapshot
  <2>3. [b EXCEPT !.firstFailureAt = IF @ = Never THEN at ELSE @] \in Snapshot
    BY <2>2 DEF Snapshot, Never
  <2>4. QED
    BY <2>3 DEF CountFailure
<1>3. QED
  BY <1>1, <1>2

\* Recovering, going down and reminding yield a snapshot and a transition.
LEMMA RecoverType ==
    ASSUME NEW s \in Snapshot, NEW eff \in Effective
    PROVE  Recover(s, eff).snap \in Snapshot /\ Recover(s, eff).tr \in Transition
<1> DEFINE c == CountSuccess(s)
<1>1. c \in Snapshot
  BY CountType
<1>2. Recover(s, eff).snap \in Snapshot
  <2> HIDE DEF c
  <2> DEFINE a == [c EXCEPT !.status = "UP"]
             b == [a EXCEPT !.openIncidentID = NoIncident]
             e == [b EXCEPT !.openIncidentStart = Never]
             f == [e EXCEPT !.alertSent = FALSE]
  <2>1. a \in Snapshot
    BY <1>1 DEF Snapshot, Status
  <2>2. b \in Snapshot
    BY <2>1 DEF Snapshot, NoIncident
  <2>3. e \in Snapshot
    BY <2>2 DEF Snapshot, Never
  <2>4. f \in Snapshot
    BY <2>3 DEF Snapshot
  <2>5. [f EXCEPT !.lastAlertAt = Never] \in Snapshot
    BY <2>4 DEF Snapshot, Never
  <2>6. QED
    BY <2>5 DEF Recover, c
<1>3. Recover(s, eff).tr \in Transition
  BY DEF Recover, AnnouncesRecovery, Snapshot, Effective, NoTransition, Transition, Never, NoIncident
<1>4. QED
  BY <1>2, <1>3

LEMMA GoDownType ==
    ASSUME NEW s \in Snapshot, NEW eff \in Effective, NEW at \in Nat, NEW clock \in Nat
    PROVE  /\ GoDown(s, eff, at, clock).snap \in Snapshot
           /\ GoDown(s, eff, at, clock).tr \in Transition
<1> DEFINE c     == CountFailure(s, at)
           alert == eff.notify /\ s.status # "UNKNOWN"
<1>1. c \in Snapshot /\ alert \in BOOLEAN
  BY CountType DEF Effective
<1> HIDE DEF c, alert
<1>2. GoDown(s, eff, at, clock).snap \in Snapshot
  <2> DEFINE a == [c EXCEPT !.status = "DOWN"]
             b == [a EXCEPT !.openIncidentStart = c.firstFailureAt]
             e == [b EXCEPT !.alertSent = alert]
  <2>1. a \in Snapshot
    BY <1>1 DEF Snapshot, Status
  <2>2. b \in Snapshot
    BY <1>1, <2>1 DEF Snapshot
  <2>3. e \in Snapshot
    BY <1>1, <2>2 DEF Snapshot
  <2>4. [e EXCEPT !.lastAlertAt = IF alert THEN clock ELSE @] \in Snapshot
    BY <2>3 DEF Snapshot
  <2>5. QED
    BY <2>4 DEF GoDown, c, alert
<1>3. GoDown(s, eff, at, clock).tr \in Transition
  <2>1. c.firstFailureAt \in Nat
    BY <1>1 DEF Snapshot
  <2>2. QED
    BY <1>1, <2>1 DEF GoDown, NoTransition, Transition, Never, NoIncident, c, alert
<1>4. QED
  BY <1>2, <1>3

LEMMA RemindType ==
    ASSUME NEW s \in Snapshot, NEW at \in Nat, NEW clock \in Nat
    PROVE  /\ Remind(s, at, clock).snap \in Snapshot
           /\ Remind(s, at, clock).tr \in Transition
<1> DEFINE c == CountFailure(s, at)
<1>1. c \in Snapshot
  BY CountType
<1>2. Remind(s, at, clock).tr \in Transition
  BY DEF Remind, Snapshot, NoTransition, Transition, Never, NoIncident
<1> HIDE DEF c
<1>3. [c EXCEPT !.lastAlertAt = clock] \in Snapshot
  BY <1>1 DEF Snapshot
<1>4. QED
  BY <1>2, <1>3 DEF Remind, c

\* Apply returns a snapshot and a transition.
LEMMA ApplyType ==
    ASSUME NEW s \in Snapshot, NEW eff \in Effective, NEW res \in Result,
           NEW reminder \in Nat, NEW clock \in Nat
    PROVE  /\ Apply(s, eff, res, reminder, clock).snap \in Snapshot
           /\ Apply(s, eff, res, reminder, clock).tr \in Transition
<1> DEFINE step == Apply(s, eff, res, reminder, clock)
<1>1. NoTransition \in Transition
  BY DEF NoTransition, Transition, Never, NoIncident
<1>2. CASE res.class = "canceled"
  <2>1. [NoTransition EXCEPT !.ignored = TRUE] \in Transition
    BY DEF NoTransition, Transition, Never, NoIncident
  <2>2. QED
    BY <1>2, <2>1 DEF Apply
<1>3. CASE res.class = "ok"
  <2>1. step = ApplySuccess(s, eff)
    BY <1>3 DEF Apply
  <2>2. [CountSuccess(s) EXCEPT !.status = "UP"] \in Snapshot
    <3> DEFINE c == CountSuccess(s)
    <3>1. c \in Snapshot
      BY CountType
    <3> HIDE DEF c
    <3>2. [c EXCEPT !.status = "UP"] \in Snapshot
      BY <3>1 DEF Snapshot, Status
    <3>3. QED
      BY <3>2 DEF c
  <2>3. [NoTransition EXCEPT !.changed = TRUE] \in Transition
    BY DEF NoTransition, Transition, Never, NoIncident
  <2>4. CountSuccess(s) \in Snapshot
    BY CountType
  <2>5. QED
    BY <1>1, <2>1, <2>2, <2>3, <2>4, RecoverType DEF ApplySuccess
<1>4. CASE res.class = "failed"
  <2>1. step = ApplyFailure(s, eff, res.at, reminder, clock) /\ res.at \in Nat
    BY <1>4 DEF Apply, Result
  <2>2. CountFailure(s, res.at) \in Snapshot
    BY <2>1, CountType
  <2>3. /\ GoDown(s, eff, res.at, clock).snap \in Snapshot
        /\ GoDown(s, eff, res.at, clock).tr \in Transition
    BY <2>1, GoDownType
  <2>4. /\ Remind(s, res.at, clock).snap \in Snapshot
        /\ Remind(s, res.at, clock).tr \in Transition
    BY <2>1, RemindType
  <2>5. QED
    BY <1>1, <2>1, <2>2, <2>3, <2>4 DEF ApplyFailure
<1>5. QED
  BY <1>2, <1>3, <1>4 DEF Result, Class

\* A transition that opens an incident starts from a device that is not DOWN;
\* one that closes an incident starts from a DOWN device, names the incident the
\* snapshot held and makes the snapshot let go of it.
Shaped(s, after, tr) ==
    /\ after.openIncidentID \in {NoIncident, s.openIncidentID}
    /\ tr.incidentID \in {NoIncident, s.openIncidentID}
    /\ tr.openIncident =>
          /\ ~tr.closeIncident
          /\ s.status # "DOWN" /\ after.status = "DOWN"
          /\ after.openIncidentID = s.openIncidentID
    /\ tr.closeIncident =>
          /\ s.status = "DOWN" /\ after.status # "DOWN"
          /\ s.openIncidentID # NoIncident
          /\ tr.incidentID = s.openIncidentID
          /\ after.openIncidentID = NoIncident
    /\ ~tr.openIncident /\ ~tr.closeIncident /\
       (s.status = "DOWN" => s.openIncidentID # NoIncident) =>
          /\ after.openIncidentID = s.openIncidentID
          /\ after.status = "DOWN" <=> s.status = "DOWN"
    /\ tr.ignored => ~tr.openIncident /\ ~tr.closeIncident

\* What a result taken at the instant at makes of the snapshot s, as far as
\* mails go.
Folded(s, at, after, tr) ==
    /\ after.openIncidentID \in {NoIncident, s.openIncidentID}
    /\ s.status = "DOWN" /\ after.status # "DOWN" => after.openIncidentID = NoIncident
    /\ ~tr.openIncident => (after.alertSent => s.alertSent)
    /\ tr.openIncident =>
          /\ ~tr.closeIncident /\ ~tr.sendRecovery
          /\ s.status # "DOWN" /\ after.status = "DOWN"
          /\ after.openIncidentID = s.openIncidentID
          /\ after.alertSent => tr.sendDown
          /\ tr.incidentStart = IF s.firstFailureAt = Never THEN at
                                                            ELSE s.firstFailureAt
    /\ tr.closeIncident =>
          /\ s.openIncidentID # NoIncident
          /\ tr.incidentID = s.openIncidentID
          /\ after.openIncidentID = NoIncident
    /\ tr.sendDown => tr.openIncident
    /\ tr.sendRecovery => tr.closeIncident /\ s.alertSent
    /\ after.firstFailureAt \in {Never, at, s.firstFailureAt}
    /\ after.status # "DOWN" /\ s.status = "DOWN" => after.firstFailureAt = Never

\* The fields of a snapshot whose streaks were counted.
LEMMA Counted ==
    ASSUME NEW s \in Snapshot, NEW at \in Nat, NEW c,
           c = CountSuccess(s) \/ c = CountFailure(s, at)
    PROVE  /\ c \in Snapshot /\ c.status = s.status /\ c.alertSent = s.alertSent
           /\ c.openIncidentID = s.openIncidentID
           /\ c.firstFailureAt = IF c = CountSuccess(s) THEN Never
                                 ELSE IF s.firstFailureAt = Never THEN at
                                 ELSE s.firstFailureAt
<1>1. CASE c = CountSuccess(s)
  BY <1>1, CountType DEF CountSuccess, Snapshot
<1>2. CASE c = CountFailure(s, at) /\ c # CountSuccess(s)
  BY <1>2, CountType DEF CountFailure, Snapshot
<1>3. QED
  BY <1>1, <1>2

\* Whatever the result, Apply's transition has that shape.
LEMMA ApplyFolds ==
    ASSUME NEW s \in Snapshot, NEW eff \in Effective, NEW res \in Result,
           NEW reminder \in Nat, NEW time \in Nat,
           NEW after, after = Apply(s, eff, res, reminder, time).snap,
           NEW tr, tr = Apply(s, eff, res, reminder, time).tr
    PROVE  Shaped(s, after, tr) /\ Folded(s, res.at, after, tr)
<1> DEFINE at == res.at
<1>1. at \in Nat
  BY DEF Result
<1>2. CASE res.class = "canceled"
  <2>1. after = s /\ tr = [NoTransition EXCEPT !.ignored = TRUE]
    BY <1>2 DEF Apply
  <2>2. QED
    BY <2>1 DEF Shaped, Folded, NoTransition, Snapshot
<1>3. CASE res.class = "ok"
  <2> DEFINE c == CountSuccess(s)
  <2>1. /\ c \in Snapshot /\ c.status = s.status /\ c.alertSent = s.alertSent
        /\ c.openIncidentID = s.openIncidentID /\ c.firstFailureAt = Never
    BY <1>1, Counted
  <2>2. after = ApplySuccess(s, eff).snap /\ tr = ApplySuccess(s, eff).tr
    BY <1>3 DEF Apply
  <2>3. CASE Recovers(s, eff)
    <3> DEFINE known == s.openIncidentID # NoIncident
               start == IF known THEN s.openIncidentStart ELSE Never
               mail  == AnnouncesRecovery(s, eff)
    <3>1. /\ after = [ c EXCEPT !.status            = "UP",
                                !.openIncidentID    = NoIncident,
                                !.openIncidentStart = Never,
                                !.alertSent         = FALSE,
                                !.lastAlertAt       = Never ]
          /\ tr = [ NoTransition EXCEPT !.changed       = TRUE,
                                        !.closeIncident = known,
                                        !.incidentID    = s.openIncidentID,
                                        !.incidentStart = start,
                                        !.sendRecovery  = mail ]
      BY <2>2, <2>3 DEF ApplySuccess, Recover
    <3>2. mail => known /\ s.alertSent
      BY DEF AnnouncesRecovery
    <3>3. known <=> s.openIncidentID # NoIncident
      OBVIOUS
    <3> HIDE DEF c, known, start, mail
    <3>4. /\ after.status = "UP" /\ after.openIncidentID = NoIncident
          /\ after.alertSent = FALSE /\ after.firstFailureAt = Never
      BY <2>1, <3>1 DEF Snapshot
    <3>5. /\ tr.ignored = FALSE /\ tr.openIncident = FALSE /\ tr.sendDown = FALSE
          /\ tr.incidentID = s.openIncidentID
          /\ tr.closeIncident = known /\ tr.sendRecovery = mail
      BY <3>1 DEF NoTransition
    <3>6. s.status = "DOWN"
      BY <2>3 DEF Recovers
    <3>7. QED
      BY <3>2, <3>3, <3>4, <3>5, <3>6 DEF Shaped, Folded
  <2>4. CASE ~Recovers(s, eff)
    <3>1. /\ after = IF s.status = "UNKNOWN" THEN [c EXCEPT !.status = "UP"] ELSE c
          /\ tr \in {NoTransition, [NoTransition EXCEPT !.changed = TRUE]}
      BY <2>2, <2>4 DEF ApplySuccess
    <3> HIDE DEF c
    <3>2. /\ tr.ignored = FALSE /\ tr.openIncident = FALSE /\ tr.closeIncident = FALSE
          /\ tr.sendDown = FALSE /\ tr.sendRecovery = FALSE
          /\ tr.incidentID = NoIncident
      BY <3>1 DEF NoTransition
    <3>3. /\ after.status = "DOWN" <=> s.status = "DOWN"
          /\ after.openIncidentID = s.openIncidentID /\ after.alertSent = s.alertSent
          /\ after.firstFailureAt = Never
      BY <2>1, <3>1 DEF Snapshot
    <3>4. QED
      BY <3>2, <3>3 DEF Shaped, Folded
  <2>5. QED
    BY <2>3, <2>4
<1>4. CASE res.class = "failed"
  <2> DEFINE c == CountFailure(s, at)
             streak == IF s.firstFailureAt = Never THEN at ELSE s.firstFailureAt
  <2>1. /\ c \in Snapshot /\ c.status = s.status /\ c.alertSent = s.alertSent
        /\ c.openIncidentID = s.openIncidentID
    BY <1>1, Counted
  <2>2. c.firstFailureAt = streak
    BY <1>1 DEF CountFailure, Snapshot
  <2>3. /\ after = ApplyFailure(s, eff, at, reminder, time).snap
        /\ tr = ApplyFailure(s, eff, at, reminder, time).tr
    BY <1>4 DEF Apply
  <2>4. streak = IF s.firstFailureAt = Never THEN at ELSE s.firstFailureAt
    OBVIOUS
  <2>5. CASE GoesDown(s, eff)
    <3> DEFINE start == c.firstFailureAt
               alert == eff.notify /\ s.status # "UNKNOWN"
               sent  == IF alert THEN time ELSE c.lastAlertAt
    <3>1. /\ after = [ c EXCEPT !.status            = "DOWN",
                                !.openIncidentStart = start,
                                !.alertSent         = alert,
                                !.lastAlertAt       = sent ]
          /\ tr = [ NoTransition EXCEPT !.changed       = TRUE,
                                        !.openIncident  = TRUE,
                                        !.incidentStart = start,
                                        !.sendDown      = alert ]
      BY <2>1, <2>3, <2>5 DEF ApplyFailure, GoDown, Snapshot
    <3>2. start = streak
      BY <2>2
    <3> HIDE DEF c, start, alert, sent, streak
    <3>3. /\ after.status = "DOWN" /\ after.alertSent = alert
          /\ after.openIncidentID = s.openIncidentID /\ after.firstFailureAt = streak
      BY <2>1, <2>2, <3>1 DEF Snapshot
    <3>4. /\ tr.ignored = FALSE /\ tr.openIncident = TRUE /\ tr.closeIncident = FALSE
          /\ tr.sendRecovery = FALSE /\ tr.incidentStart = streak /\ tr.sendDown = alert
          /\ tr.incidentID = NoIncident
      BY <3>1, <3>2 DEF NoTransition
    <3>5. s.status # "DOWN"
      BY <2>5 DEF GoesDown
    <3>6. QED
      BY <2>4, <3>3, <3>4, <3>5 DEF Shaped, Folded
  <2>6. CASE ~GoesDown(s, eff)
    <3> DEFINE id == s.openIncidentID
    <3>1. /\ after \in {c, [c EXCEPT !.lastAlertAt = time]}
          /\ tr \in {NoTransition, [NoTransition EXCEPT !.sendReminder = TRUE, !.incidentID = id]}
      BY <2>3, <2>6 DEF ApplyFailure, Remind
    <3> HIDE DEF c, id, streak
    <3>2. /\ tr.ignored = FALSE /\ tr.openIncident = FALSE /\ tr.closeIncident = FALSE
          /\ tr.sendDown = FALSE /\ tr.sendRecovery = FALSE
          /\ tr.incidentID \in {NoIncident, id}
      <4>1. CASE tr = NoTransition
        BY <4>1 DEF NoTransition
      <4>2. CASE tr = [NoTransition EXCEPT !.sendReminder = TRUE, !.incidentID = id]
        BY <4>2 DEF NoTransition
      <4>3. QED
        BY <3>1, <4>1, <4>2
    <3>3. /\ after.status = s.status
          /\ after.openIncidentID = s.openIncidentID /\ after.alertSent = s.alertSent
          /\ after.firstFailureAt = streak
      BY <2>1, <2>2, <3>1 DEF Snapshot
    <3>4. QED
      BY <2>4, <3>2, <3>3 DEF Shaped, Folded, id
  <2>7. QED
    BY <2>5, <2>6
<1>5. QED
  BY <1>2, <1>3, <1>4 DEF Result, Class

-----------------------------------------------------------------------------
(* Facts about the records and the incident table.                         *)

LEMMA FreshType == Fresh \in [Devices -> Snapshot]
BY DEF Fresh, NewSnapshot, Snapshot, Status, Never, NoIncident

LEMMA WorkIsNotIdle == \A w \in Work : w # Idle /\ w.pc # "idle"
BY DEF Work, Idle

\* The fields of a unit of work can be updated one by one.
LEMMA WorkUpdate ==
    ASSUME NEW w \in Work, NEW p \in {"open", "close", "save", "dispatch", "mark"}
    PROVE  /\ [w EXCEPT !.pc = p] \in Work
           /\ [w EXCEPT !.pc = p, !.wrote = TRUE] \in Work
           /\ \A id \in Nat : [w EXCEPT !.pc = p, !.tr.incidentID = id] \in Work
           /\ \A id \in Nat :
                 [w EXCEPT !.pc = p, !.tr.incidentID = id, !.wrote = TRUE] \in Work
<1> DEFINE a == [w EXCEPT !.pc = p]
<1>1. a \in Work
  BY DEF Work
<1>2. [a EXCEPT !.wrote = TRUE] \in Work
  BY <1>1 DEF Work
<1>3. ASSUME NEW id \in Nat
      PROVE  /\ [a EXCEPT !.tr.incidentID = id] \in Work
             /\ [[a EXCEPT !.tr.incidentID = id] EXCEPT !.wrote = TRUE] \in Work
  <2> DEFINE t == [a.tr EXCEPT !.incidentID = id]
             b == [a EXCEPT !.tr = t]
  <2>1. t \in Transition
    BY <1>1 DEF Work, Transition
  <2> HIDE DEF t
  <2>2. b \in Work
    BY <1>1, <2>1 DEF Work
  <2>3. b = [a EXCEPT !.tr.incidentID = id]
    BY <1>1 DEF t, Work
  <2> HIDE DEF b
  <2>4. [b EXCEPT !.wrote = TRUE] \in Work
    BY <2>2 DEF Work
  <2>5. QED
    BY <2>2, <2>3, <2>4
<1>4. QED
  BY <1>1, <1>2, <1>3

\* A table with the same indices, all of whose rows are incidents.
LEMMA SameShape ==
    ASSUME NEW s \in Seq(Incident), NEW c, c \in [1..Len(s) -> Incident]
    PROVE  c \in Seq(Incident) /\ Len(c) = Len(s)
<1>1. Len(s) \in Nat
  BY LenProperties
<1>2. c \in Seq(Incident)
  BY <1>1, SeqDef
<1>3. QED
  BY <1>1, <1>2, LenProperties

\* Resolving an incident and flagging it as alerted change that row only, and
\* neither changes whose incident it is.
LEMMA ResolveRow ==
    ASSUME TypeOK, NEW id \in DOMAIN incidents, NEW r \in BOOLEAN
    PROVE  /\ Resolve(id, r) \in Seq(Incident)
           /\ DOMAIN Resolve(id, r) = DOMAIN incidents
           /\ \A j \in DOMAIN incidents :
                 /\ Resolve(id, r)[j].device = incidents[j].device
                 /\ Resolve(id, r)[j].resolved <=> (j = id \/ incidents[j].resolved)
                 /\ Resolve(id, r)[j].alertSent <=> incidents[j].alertSent
<1> DEFINE n == Len(incidents)
           a == [incidents[id] EXCEPT !.resolved = TRUE]
           b == [a EXCEPT !.recoverySent = r]
           c == [incidents EXCEPT ![id] = b]
<1>1. /\ incidents \in Seq(Incident) /\ id \in 1..n /\ DOMAIN incidents = 1..n
      /\ \A j \in 1..n : incidents[j] \in Incident
  BY LenProperties, ElementOfSeq DEF TypeOK
<1>2. /\ a \in Incident /\ a.device = incidents[id].device /\ a.resolved = TRUE
      /\ a.alertSent = incidents[id].alertSent
  BY <1>1 DEF Incident
<1>3. Resolve(id, r) = c
  BY <1>1 DEF Resolve
<1> HIDE DEF a
<1>4. /\ b \in Incident /\ b.device = a.device /\ b.resolved = a.resolved
      /\ b.alertSent = a.alertSent
  BY <1>2 DEF Incident
<1> HIDE DEF b
<1>5. /\ c \in [1..n -> Incident]
      /\ \A j \in 1..n : c[j] = IF j = id THEN b ELSE incidents[j]
  BY <1>1, <1>4
<1>6. c \in Seq(Incident) /\ DOMAIN c = DOMAIN incidents
  BY <1>1, <1>5, SameShape
<1> HIDE DEF c
<1>7. QED
  BY <1>1, <1>2, <1>3, <1>4, <1>5, <1>6

LEMMA FlagRow ==
    ASSUME TypeOK, NEW id \in DOMAIN incidents, NEW t \in Nat
    PROVE  /\ Flag(id, t) \in Seq(Incident)
           /\ DOMAIN Flag(id, t) = DOMAIN incidents
           /\ \A j \in DOMAIN incidents :
                 /\ Flag(id, t)[j].device = incidents[j].device
                 /\ Flag(id, t)[j].resolved <=> incidents[j].resolved
                 /\ Flag(id, t)[j].alertSent <=> (j = id \/ incidents[j].alertSent)
<1> DEFINE n == Len(incidents)
           a == [incidents[id] EXCEPT !.alertSent = TRUE]
           b == [a EXCEPT !.lastAlertAt = t]
           c == [incidents EXCEPT ![id] = b]
<1>1. /\ incidents \in Seq(Incident) /\ id \in 1..n /\ DOMAIN incidents = 1..n
      /\ \A j \in 1..n : incidents[j] \in Incident
  BY LenProperties, ElementOfSeq DEF TypeOK
<1>2. /\ a \in Incident /\ a.device = incidents[id].device
      /\ a.resolved = incidents[id].resolved /\ a.alertSent = TRUE
  BY <1>1 DEF Incident
<1>3. Flag(id, t) = c
  BY <1>1 DEF Flag
<1> HIDE DEF a
<1>4. /\ b \in Incident /\ b.device = a.device /\ b.resolved = a.resolved
      /\ b.alertSent = a.alertSent
  BY <1>2 DEF Incident
<1> HIDE DEF b
<1>5. /\ c \in [1..n -> Incident]
      /\ \A j \in 1..n : c[j] = IF j = id THEN b ELSE incidents[j]
  BY <1>1, <1>4
<1>6. c \in Seq(Incident) /\ DOMAIN c = DOMAIN incidents
  BY <1>1, <1>5, SameShape
<1> HIDE DEF c
<1>7. QED
  BY <1>1, <1>2, <1>3, <1>4, <1>5, <1>6

\* A device with open incidents has a newest one.
LEMMA NewestExists ==
    ASSUME NEW n \in Nat, NEW S \in SUBSET (1..n), S # {}
    PROVE  Newest(S) \in S
<1> DEFINE T == {n - i : i \in S}
           R == OpToRel(<, Nat)
<1>1. T \subseteq Nat /\ T # {}
  <2>1. T \subseteq Nat
    OBVIOUS
  <2>2. PICK i \in S : TRUE
    OBVIOUS
  <2>3. n - i \in T
    OBVIOUS
  <2>4. QED
    BY <2>1, <2>3
<1>2. IsWellFoundedOn(R, Nat)
  BY NatLessThanWellFounded
<1>3. \A u, v \in Nat : u < v => <<u, v>> \in R
  BY DEF OpToRel
<1> HIDE DEF R
<1>4. PICK x \in T : \A y \in T : ~(<<y, x>> \in R)
  BY <1>1, <1>2, WFMin
<1>5. PICK i \in S : x = n - i
  BY <1>4
<1>6. \A j \in S : j <= i
  <2> SUFFICES ASSUME NEW j \in S, ~(j <= i)
               PROVE  FALSE
    OBVIOUS
  <2>1. n - j \in T /\ n - j < x
    BY <1>5
  <2>2. <<n - j, x>> \in R
    BY <1>1, <1>3, <2>1
  <2>3. QED
    BY <1>4, <2>1, <2>2
<1>7. QED
  BY <1>6 DEF Newest


-----------------------------------------------------------------------------
(* Type correctness.  The only step that needs more than the types is the    *)
(* update of an incident row, whose id must be in the table.                *)

LEMMA AlertType ==
    ASSUME TypeOK, work \in Work, NEW kind \in {"down", "recovery", "reminder"},
           NEW start \in Nat
    PROVE  AlertFor(kind, start) \in Alert
BY DEF TypeOK, Work, Transition, Snapshot, AlertFor, Alert

\* What taking a result comes to, with the reminder interval read.
LEMMA TakeStep ==
    ASSUME TypeOK, NEW d \in Devices, NEW class \in Class, NEW eff \in Effectives,
           Take(d, class, eff)
    PROVE  \E res \in Result, reminder \in Nat, snap \in Snapshot, tr \in Transition :
              /\ res.at = now
              /\ snap = Apply(snaps[d], eff, res, reminder, now).snap
              /\ tr = Apply(snaps[d], eff, res, reminder, now).tr
              /\ up # "off" /\ work = Idle
              /\ snaps' = [snaps EXCEPT ![d] = snap]
              /\ work' = IF tr.ignored THEN Idle
                         ELSE [ pc |-> FirstStep(tr), device |-> d, at |-> now,
                                tr |-> tr, wrote |-> FALSE ]
              /\ now' = now + 1
              /\ UNCHANGED <<faults, up, buffer, rows, incidents, outbox, torn, unsaved, restarts>>
<1> DEFINE res == [class |-> class, at |-> now]
<1>1. res \in Result /\ res.at = now
  BY DEF TypeOK, Result
<1>2. PICK reminder \in Reminders :
        LET step == Apply(snaps[d], eff, res, reminder, now)
        IN  /\ snaps' = [snaps EXCEPT ![d] = step.snap]
            /\ work' = IF step.tr.ignored THEN Idle
                       ELSE [ pc |-> FirstStep(step.tr), device |-> d, at |-> now,
                              tr |-> step.tr, wrote |-> FALSE ]
  BY DEF Take
<1>3. reminder \in Nat
  BY <1>2, ReminderAssumption DEF Reminders
<1>4. /\ up # "off" /\ work = Idle /\ now' = now + 1
      /\ UNCHANGED <<faults, up, buffer, rows, incidents, outbox, torn, unsaved, restarts>>
  BY DEF Take, disk
<1>5. snaps[d] \in Snapshot /\ eff \in Effective /\ now \in Nat
  BY EffectivesAssumption DEF TypeOK
<1> HIDE DEF res
<1>6. /\ Apply(snaps[d], eff, res, reminder, now).snap \in Snapshot
      /\ Apply(snaps[d], eff, res, reminder, now).tr \in Transition
  BY <1>1, <1>3, <1>5, ApplyType
<1>7. QED
  BY <1>1, <1>2, <1>3, <1>4, <1>6

LEMMA TakeType ==
    ASSUME TypeOK, NEW d \in Devices, NEW class \in Class, NEW eff \in Effectives,
           Take(d, class, eff)
    PROVE  TypeOK'
<1>1. PICK res \in Result, reminder \in Nat, snap \in Snapshot, tr \in Transition :
        /\ snap = Apply(snaps[d], eff, res, reminder, now).snap
        /\ tr = Apply(snaps[d], eff, res, reminder, now).tr
        /\ snaps' = [snaps EXCEPT ![d] = snap]
        /\ work' = IF tr.ignored THEN Idle
                   ELSE [ pc |-> FirstStep(tr), device |-> d, at |-> now,
                          tr |-> tr, wrote |-> FALSE ]
        /\ now' = now + 1
        /\ UNCHANGED <<faults, up, buffer, rows, incidents, outbox, torn, unsaved, restarts>>
  BY TakeStep
<1>2. snaps' \in [Devices -> Snapshot]
  BY <1>1 DEF TypeOK
<1>3. work' \in Work \cup {Idle}
  BY <1>1 DEF TypeOK, Work, FirstStep
<1>4. QED
  BY <1>1, <1>2, <1>3 DEF TypeOK

LEMMA OpenIncidentType ==
    ASSUME TypeOK, OpenIncident
    PROVE  TypeOK'
<1>1. work \in Work
  BY DEF TypeOK, OpenIncident, Idle
<1> DEFINE id  == Len(incidents) + 1
           row == [ device       |-> work.device,
                    startedAt    |-> work.tr.incidentStart,
                    resolved     |-> FALSE,
                    alertSent    |-> work.tr.sendDown,
                    recoverySent |-> FALSE,
                    lastAlertAt  |-> IF work.tr.sendDown THEN work.at ELSE Never ]
<1>2. id \in Nat /\ row \in Incident
  BY <1>1, LenProperties DEF TypeOK, Work, Transition, Incident, Never
<1>3. CASE /\ incidents' = Append(incidents, row)
           /\ snaps' = [snaps EXCEPT ![work.device].openIncidentID = id]
           /\ work' = [work EXCEPT !.pc = "save", !.tr.incidentID = id, !.wrote = TRUE]
  <2> HIDE DEF id, row
  <2>1. incidents' \in Seq(Incident)
    BY <1>2, <1>3, AppendProperties DEF TypeOK
  <2>2. snaps' \in [Devices -> Snapshot]
    <3>1. work.device \in Devices /\ snaps \in [Devices -> Snapshot]
      BY <1>1 DEF TypeOK, Work
    <3>2. \A s \in Snapshot : [s EXCEPT !.openIncidentID = id] \in Snapshot
      BY <1>2 DEF Snapshot
    <3>3. snaps' = [snaps EXCEPT ![work.device] =
                                   [snaps[work.device] EXCEPT !.openIncidentID = id]]
      BY <1>3
    <3>4. QED
      BY <3>1, <3>2, <3>3
  <2>3. work' \in Work
    BY <1>1, <1>2, <1>3, WorkUpdate
  <2>4. QED
    BY <2>1, <2>2, <2>3 DEF TypeOK, OpenIncident
<1>4. CASE work' = [work EXCEPT !.pc = "save"] /\ UNCHANGED <<incidents, snaps>>
  <2>1. work' \in Work
    BY <1>1, <1>4, WorkUpdate
  <2>2. QED
    BY <1>4, <2>1 DEF TypeOK, OpenIncident
<1>5. QED
  BY <1>3, <1>4 DEF OpenIncident

LEMMA CloseIncidentType ==
    ASSUME TypeOK, WorkOwned, CloseIncident
    PROVE  TypeOK'
<1>1. work \in Work /\ work # Idle
  BY WorkIsNotIdle DEF TypeOK, CloseIncident, Idle
<1>2. work.tr.incidentID \in DOMAIN incidents /\ work.tr.sendRecovery \in BOOLEAN
  BY <1>1 DEF WorkOwned, Owned, CloseIncident, Work, Transition
<1>3. work' \in Work
  BY <1>1, WorkUpdate DEF CloseIncident
<1>4. incidents' \in Seq(Incident)
  BY <1>2, ResolveRow DEF TypeOK, CloseIncident
<1>5. QED
  BY <1>3, <1>4 DEF TypeOK, CloseIncident

LEMMA MarkType ==
    ASSUME TypeOK, WorkOwned, MarkIncidentAlerted
    PROVE  TypeOK'
<1>1. work \in Work /\ work # Idle
  BY WorkIsNotIdle DEF TypeOK, MarkIncidentAlerted, Idle
<1>2. work.tr.incidentID \in DOMAIN incidents /\ work.at \in Nat
  BY <1>1 DEF WorkOwned, Owned, MarkIncidentAlerted, Work, Transition
<1>3. incidents' \in Seq(Incident)
  BY <1>2, FlagRow DEF TypeOK, MarkIncidentAlerted
<1>4. QED
  BY <1>3 DEF TypeOK, MarkIncidentAlerted

LEMMA SaveStateType ==
    ASSUME TypeOK, SaveState
    PROVE  TypeOK'
<1>1. work \in Work
  BY DEF TypeOK, SaveState, Idle
<1>2. work' \in Work \cup {Idle}
  BY <1>1, WorkUpdate DEF SaveState, AfterSave
<1>3. rows' \in [Devices -> Row]
  <2> DEFINE t == snaps[work.device]
             row == [ status               |-> t.status,
                      consecutiveFailures  |-> t.consecutiveFailures,
                      consecutiveSuccesses |-> t.consecutiveSuccesses,
                      firstFailureAt       |-> t.firstFailureAt ]
  <2>1. row \in Row
    BY <1>1 DEF TypeOK, Work, Snapshot, Row
  <2>2. rows' = [rows EXCEPT ![work.device] = row] \/ rows' = rows
    BY DEF SaveState
  <2> HIDE DEF row
  <2>3. QED
    BY <2>1, <2>2 DEF TypeOK
<1>4. torn' \subseteq Devices /\ unsaved' \subseteq Devices
  BY <1>1 DEF TypeOK, SaveState, Work
<1>5. QED
  BY <1>2, <1>3, <1>4 DEF TypeOK, SaveState

LEMMA DispatchType ==
    ASSUME TypeOK, DispatchDown \/ DispatchRecovery \/ DispatchReminder
    PROVE  TypeOK'
<1>1. work \in Work
  BY DEF TypeOK, DispatchDown, DispatchRecovery, DispatchReminder, Idle
<1>2. /\ work.tr.incidentStart \in Nat
      /\ snaps[work.device].openIncidentStart \in Nat
  BY <1>1 DEF TypeOK, Work, Transition, Snapshot
<1>3. CASE DispatchDown
  <2> DEFINE alert == AlertFor("down", work.tr.incidentStart)
             id == alert.incident
  <2>1. alert \in Alert /\ id \in Nat
    BY <1>1, <1>2, AlertType DEF Alert
  <2>2. QueueAlert(alert) /\ work' \in {Idle,
            [work EXCEPT !.pc = "mark", !.tr.incidentID = id]}
    BY <1>3 DEF DispatchDown
  <2> HIDE DEF alert, id
  <2>3. [work EXCEPT !.pc = "mark", !.tr.incidentID = id] \in Work
    BY <1>1, <2>1, WorkUpdate
  <2>6. work' \in Work \cup {Idle}
    BY <2>2, <2>3
  <2>4. buffer' \subseteq Alert /\ outbox' \subseteq Alert
    BY <2>1, <2>2 DEF TypeOK, QueueAlert, Send
  <2>5. QED
    BY <1>3, <2>4, <2>6 DEF TypeOK, DispatchDown
<1>4. CASE DispatchRecovery
  <2> DEFINE alert == AlertFor("recovery", work.tr.incidentStart)
  <2>1. alert \in Alert
    BY <1>1, <1>2, AlertType
  <2>2. QueueAlert(alert)
    BY <1>4 DEF DispatchRecovery
  <2> HIDE DEF alert
  <2>3. buffer' \subseteq Alert /\ outbox' \subseteq Alert
    BY <2>1, <2>2 DEF TypeOK, QueueAlert, Send
  <2>4. QED
    BY <1>4, <2>3 DEF TypeOK, DispatchRecovery
<1>5. CASE DispatchReminder
  <2> DEFINE alert == AlertFor("reminder", snaps[work.device].openIncidentStart)
  <2>1. alert \in Alert
    BY <1>1, <1>2, AlertType
  <2>2. Send(alert)
    BY <1>5 DEF DispatchReminder
  <2> HIDE DEF alert
  <2>3. outbox' \subseteq Alert
    BY <2>1, <2>2 DEF TypeOK, Send
  <2>4. QED
    BY <1>5, <2>3 DEF TypeOK, DispatchReminder
<1>6. QED
  BY <1>3, <1>4, <1>5

LEMMA LoadedType ==
    ASSUME TypeOK, NEW d \in Devices
    PROVE  /\ Loaded(d) \in Snapshot
           /\ Loaded(d).status = rows[d].status
           /\ Loaded(d).firstFailureAt = rows[d].firstFailureAt
           /\ OpenIncidents(d) = {} => Loaded(d).openIncidentID = NoIncident
           /\ OpenIncidents(d) # {} =>
                 /\ Newest(OpenIncidents(d)) \in OpenIncidents(d)
                 /\ Loaded(d).openIncidentID = Newest(OpenIncidents(d))
                 /\ Loaded(d).alertSent = incidents[Newest(OpenIncidents(d))].alertSent
<1> DEFINE a == [NewSnapshot EXCEPT !.status = rows[d].status]
           b == [a EXCEPT !.consecutiveFailures = rows[d].consecutiveFailures]
           c == [b EXCEPT !.consecutiveSuccesses = rows[d].consecutiveSuccesses]
           base == [c EXCEPT !.firstFailureAt = rows[d].firstFailureAt]
           open == OpenIncidents(d)
           last == Newest(open)
           e == [base EXCEPT !.openIncidentID = last]
           f == [e EXCEPT !.openIncidentStart = incidents[last].startedAt]
           g == [f EXCEPT !.alertSent = incidents[last].alertSent]
           h == [g EXCEPT !.lastAlertAt = incidents[last].lastAlertAt]
<1>1. Loaded(d) = IF open = {} THEN base ELSE h
  BY DEF Loaded, LoadedRow
<1>2. a \in Snapshot /\ a.status = rows[d].status /\ a.openIncidentID = NoIncident
  BY DEF TypeOK, NewSnapshot, Snapshot, Status, Never, NoIncident, Row
<1> HIDE DEF a
<1>3. b \in Snapshot /\ b.status = a.status /\ b.openIncidentID = a.openIncidentID
  BY <1>2 DEF TypeOK, Snapshot, Row
<1> HIDE DEF b
<1>4. c \in Snapshot /\ c.status = b.status /\ c.openIncidentID = b.openIncidentID
  BY <1>3 DEF TypeOK, Snapshot, Row
<1> HIDE DEF c
<1>5. /\ base \in Snapshot /\ base.status = rows[d].status
      /\ base.openIncidentID = NoIncident
      /\ base.firstFailureAt = rows[d].firstFailureAt
  BY <1>2, <1>3, <1>4 DEF TypeOK, Snapshot, Row
<1> HIDE DEF base
<1>6. ASSUME open # {}
      PROVE  /\ last \in open
             /\ h \in Snapshot
             /\ h.status = rows[d].status
             /\ h.firstFailureAt = rows[d].firstFailureAt
             /\ h.openIncidentID = last
             /\ h.alertSent = incidents[last].alertSent
  <2>1. open \in SUBSET (1..Len(incidents)) /\ Len(incidents) \in Nat
    BY LenProperties DEF OpenIncidents, TypeOK
  <2>2. last \in open
    BY <1>6, <2>1, NewestExists
  <2>3. last \in Nat /\ incidents[last] \in Incident
    BY <2>1, <2>2, ElementOfSeq DEF TypeOK
  <2> HIDE DEF last, open
  <2>4. /\ e \in Snapshot /\ e.status = base.status /\ e.openIncidentID = last
        /\ e.firstFailureAt = base.firstFailureAt
    BY <1>5, <2>3 DEF Snapshot
  <2> HIDE DEF e
  <2>5. /\ f \in Snapshot /\ f.status = e.status
        /\ f.openIncidentID = e.openIncidentID
        /\ f.firstFailureAt = e.firstFailureAt
    BY <2>3, <2>4 DEF Snapshot, Incident
  <2> HIDE DEF f
  <2>6. /\ g \in Snapshot /\ g.status = f.status
        /\ g.openIncidentID = f.openIncidentID
        /\ g.firstFailureAt = f.firstFailureAt
        /\ g.alertSent = incidents[last].alertSent
    BY <2>3, <2>5 DEF Snapshot, Incident
  <2> HIDE DEF g
  <2>7. /\ h \in Snapshot /\ h.status = g.status
        /\ h.openIncidentID = g.openIncidentID
        /\ h.firstFailureAt = g.firstFailureAt
        /\ h.alertSent = g.alertSent
    BY <2>3, <2>6 DEF Snapshot, Incident
  <2>8. QED
    BY <1>5, <2>2, <2>4, <2>5, <2>6, <2>7
<1> HIDE DEF h
<1>7. QED
  BY <1>1, <1>5, <1>6

LEMMA LifecycleType ==
    ASSUME TypeOK, Suppress \/ Flush \/ Lifecycle
    PROVE  TypeOK'
<1>1. CASE Suppress \/ Flush \/ Stop
  BY <1>1 DEF TypeOK, Suppress, Flush, Stop, memory, disk
<1>2. CASE FinalFlush
  BY <1>2, FreshType DEF TypeOK, FinalFlush
<1>3. CASE Crash
  <2>1. torn' \subseteq Devices
    BY <1>3 DEF TypeOK, Crash, Idle, Work
  <2>2. QED
    BY <1>3, <2>1, FreshType DEF TypeOK, Crash, disk
<1>4. CASE Start
  <2>1. snaps' \in [Devices -> Snapshot]
    BY <1>4, LoadedType DEF Start
  <2>2. QED
    BY <1>4, <2>1 DEF TypeOK, Start, disk
<1>5. QED
  BY <1>1, <1>2, <1>3, <1>4 DEF Lifecycle

LEMMA TypeStep ==
    ASSUME TypeOK, WorkOwned, [Next]_vars
    PROVE  TypeOK'
<1>1. CASE Next
  BY <1>1, TakeType, OpenIncidentType, CloseIncidentType, MarkType, SaveStateType,
     DispatchType, LifecycleType DEF Next, Evaluate, Lifecycle
<1>2. CASE UNCHANGED vars
  BY <1>2 DEF TypeOK, vars, memory, disk
<1>3. QED
  BY <1>1, <1>2


-----------------------------------------------------------------------------
(* Incident ids stay with the device they were opened for.                 *)

LEMMA HaltedStep ==
    ASSUME Halted, [Next]_vars
    PROVE  Halted'
<1> SUFFICES ASSUME up' = "off" PROVE work' = Idle
  BY DEF Halted
<1>1. CASE work = Idle /\ up = "off"
  <2>1. work.pc = "idle"
    BY <1>1 DEF Idle
  <2>2. QED
    BY <1>1, <2>1
    DEF Next, Evaluate, Lifecycle, Take, OpenIncident, CloseIncident, SaveState, Suppress,
        DispatchDown, MarkIncidentAlerted, DispatchRecovery, DispatchReminder, Flush,
        Stop, FinalFlush, Crash, Start, vars, memory
<1>2. CASE up # "off"
  BY <1>2
  DEF Next, Evaluate, Lifecycle, Take, OpenIncident, CloseIncident, SaveState, Suppress,
      DispatchDown, MarkIncidentAlerted, DispatchRecovery, DispatchReminder, Flush,
      Stop, FinalFlush, Crash, Start, vars
<1>3. QED
  BY <1>1, <1>2 DEF Halted

\* What OpenIncident appends.
LEMMA AppendRow ==
    ASSUME TypeOK, NEW e \in Devices, NEW n, n = Len(incidents) + 1,
           NEW row \in Incident, row.device = e, row.resolved = FALSE,
           incidents' = Append(incidents, row)
    PROVE  /\ n \in Nat \ {0}
           /\ Owned(e, n)'
           /\ n \notin DOMAIN incidents
           /\ DOMAIN incidents' = DOMAIN incidents \cup {n}
           /\ \A i \in DOMAIN incidents : incidents'[i] = incidents[i]
           /\ incidents'[n] = row
           /\ \A d, id : Owned(d, id) => Owned(d, id)'
           /\ OpenIncidents(e)' = OpenIncidents(e) \cup {n}
           /\ \A d \in Devices \ {e} : OpenIncidents(d)' = OpenIncidents(d)
<1>1. /\ n \in Nat \ {0}
      /\ DOMAIN incidents = 1..n-1
      /\ DOMAIN incidents' = 1..n
      /\ \A i \in 1..n-1 : incidents'[i] = incidents[i]
      /\ incidents'[n] = row
  BY AppendProperties, LenProperties DEF TypeOK
<1>2. \A d, id : Owned(d, id) => Owned(d, id)'
  BY <1>1 DEF Owned
<1>3. Owned(e, n)'
  BY <1>1 DEF Owned
<1>4. ASSUME NEW d, NEW i
      PROVE  i \in OpenIncidents(d)' <=> (i \in OpenIncidents(d) \/ (d = e /\ i = n))
  BY <1>1 DEF OpenIncidents
<1>5. OpenIncidents(e)' = OpenIncidents(e) \cup {n}
  <2>1. \A i : i \in OpenIncidents(e)' <=> i \in OpenIncidents(e) \cup {n}
    BY <1>4
  <2>2. QED
    BY <2>1
<1>6. ASSUME NEW d \in Devices \ {e}
      PROVE  OpenIncidents(d)' = OpenIncidents(d)
  <2>1. \A i : i \in OpenIncidents(d)' <=> i \in OpenIncidents(d)
    BY <1>4
  <2>2. QED
    BY <2>1
<1>7. QED
  BY <1>1, <1>2, <1>3, <1>5, <1>6

LEMMA OwnedStable ==
    ASSUME TypeOK, WorkOwned, [Next]_vars
    PROVE  \A d, id : Owned(d, id) => Owned(d, id)'
<1>1. CASE UNCHANGED incidents
  BY <1>1 DEF Owned
<1>2. CASE OpenIncident /\ incidents' # incidents
  <2> DEFINE row == [ device       |-> work.device,
                      startedAt    |-> work.tr.incidentStart,
                      resolved     |-> FALSE,
                      alertSent    |-> work.tr.sendDown,
                      recoverySent |-> FALSE,
                      lastAlertAt  |-> IF work.tr.sendDown THEN work.at ELSE Never ]
  <2>1. work \in Work
    BY <1>2 DEF TypeOK, OpenIncident, Idle
  <2>2. row \in Incident /\ row.device = work.device /\ row.resolved = FALSE
    BY <2>1 DEF Work, Transition, Incident, Never
  <2>3. incidents' = Append(incidents, row)
    BY <1>2 DEF OpenIncident
  <2>4. work.device \in Devices
    BY <2>1 DEF Work
  <2> HIDE DEF row
  <2>5. QED
    BY <2>2, <2>3, <2>4, AppendRow
<1>3. CASE CloseIncident /\ incidents' # incidents
  <2>1. work \in Work /\ work # Idle
    BY <1>3, WorkIsNotIdle DEF TypeOK, CloseIncident, Idle
  <2>2. work.tr.incidentID \in DOMAIN incidents /\ work.tr.sendRecovery \in BOOLEAN
    BY <1>3, <2>1 DEF WorkOwned, Owned, CloseIncident, Work, Transition
  <2>3. incidents' = Resolve(work.tr.incidentID, work.tr.sendRecovery)
    BY <1>3 DEF CloseIncident
  <2>4. QED
    BY <2>2, <2>3, ResolveRow DEF Owned
<1>4. CASE MarkIncidentAlerted /\ incidents' # incidents
  <2>1. work \in Work /\ work # Idle
    BY <1>4, WorkIsNotIdle DEF TypeOK, MarkIncidentAlerted, Idle
  <2>2. work.tr.incidentID \in DOMAIN incidents /\ work.at \in Nat
    BY <1>4, <2>1 DEF WorkOwned, Owned, MarkIncidentAlerted, Work, Transition
  <2>3. incidents' = Flag(work.tr.incidentID, work.at)
    BY <1>4 DEF MarkIncidentAlerted
  <2>4. QED
    BY <2>2, <2>3, FlagRow DEF Owned
<1>5. QED
  BY <1>1, <1>2, <1>3, <1>4
  DEF Next, Evaluate, Lifecycle, Take, SaveState, Suppress, DispatchDown, DispatchRecovery,
      DispatchReminder, Flush, Stop, FinalFlush, Crash, Start, vars, disk

\* Taking a result: the new unit of work, in the terms the invariant needs.
LEMMA TakeShape ==
    ASSUME TypeOK, WorkOwned, NEW d \in Devices, NEW class \in Class,
           NEW eff \in Effectives, Take(d, class, eff)
    PROVE  \E snap \in Snapshot, tr \in Transition :
              LET s == snaps[d] IN
              /\ up # "off" /\ work = Idle
              /\ snaps' = [snaps EXCEPT ![d] = snap]
              /\ work' = IF tr.ignored THEN Idle
                         ELSE [ pc |-> FirstStep(tr), device |-> d, at |-> now,
                                tr |-> tr, wrote |-> FALSE ]
              /\ UNCHANGED <<up, rows, incidents, torn>>
              /\ snap.openIncidentID \in {NoIncident, s.openIncidentID}
              /\ tr.incidentID \in {NoIncident, s.openIncidentID}
              /\ tr.openIncident =>
                    /\ ~tr.closeIncident
                    /\ s.status # "DOWN" /\ snap.status = "DOWN"
                    /\ snap.openIncidentID = s.openIncidentID
              /\ tr.closeIncident =>
                    /\ s.status = "DOWN" /\ snap.status # "DOWN"
                    /\ s.openIncidentID # NoIncident
                    /\ tr.incidentID = s.openIncidentID
                    /\ snap.openIncidentID = NoIncident
              /\ ~tr.openIncident /\ ~tr.closeIncident /\
                 (s.status = "DOWN" => s.openIncidentID # NoIncident) =>
                    /\ snap.openIncidentID = s.openIncidentID
                    /\ snap.status = "DOWN" <=> s.status = "DOWN"
              /\ tr.ignored => ~tr.openIncident /\ ~tr.closeIncident
<1>1. PICK res \in Result, reminder \in Nat, snap \in Snapshot, tr \in Transition :
        /\ snap = Apply(snaps[d], eff, res, reminder, now).snap
        /\ tr = Apply(snaps[d], eff, res, reminder, now).tr
        /\ up # "off" /\ work = Idle
        /\ snaps' = [snaps EXCEPT ![d] = snap]
        /\ work' = IF tr.ignored THEN Idle
                   ELSE [ pc |-> FirstStep(tr), device |-> d, at |-> now,
                          tr |-> tr, wrote |-> FALSE ]
        /\ UNCHANGED <<up, rows, incidents, torn>>
  BY TakeStep
<1>2. snaps[d] \in Snapshot /\ eff \in Effective /\ now \in Nat
  BY EffectivesAssumption DEF TypeOK
<1>3. Shaped(snaps[d], snap, tr)
  BY <1>1, <1>2, ApplyFolds
<1>4. QED
  BY <1>1, <1>3 DEF Shaped

LEMMA OwnedNow ==
    ASSUME TypeOK, WorkOwned, work # Idle, work.pc \in {"close", "mark"}
    PROVE  /\ work \in Work
           /\ work.tr.incidentID \in DOMAIN incidents
           /\ Owned(work.device, work.tr.incidentID)
           /\ work.tr.sendRecovery \in BOOLEAN /\ work.at \in Nat
BY DEF TypeOK, WorkOwned, Owned, Work, Transition

\* What OpenIncident does when the insert succeeds.
LEMMA OpenShape ==
    ASSUME TypeOK, OpenIncident, incidents' # incidents \/ snaps' # snaps
    PROVE  \E e \in Devices, n \in Nat \ {0} :
              /\ work \in Work /\ work.device = e /\ CanWrite
              /\ Owned(e, n)'
              /\ OpenIncidents(e)' = OpenIncidents(e) \cup {n}
              /\ \A d \in Devices \ {e} : OpenIncidents(d)' = OpenIncidents(d)
              /\ snaps' = [snaps EXCEPT ![e].openIncidentID = n]
              /\ work' = [work EXCEPT !.pc = "save", !.tr.incidentID = n,
                                      !.wrote = TRUE]
<1> DEFINE row == [ device       |-> work.device,
                    startedAt    |-> work.tr.incidentStart,
                    resolved     |-> FALSE,
                    alertSent    |-> work.tr.sendDown,
                    recoverySent |-> FALSE,
                    lastAlertAt  |-> IF work.tr.sendDown THEN work.at ELSE Never ]
<1>1. work \in Work /\ work.device \in Devices
  BY DEF TypeOK, OpenIncident, Idle, Work
<1>2. PICK e \in Devices : e = work.device
  BY <1>1
<1>3. PICK n : n = Len(incidents) + 1
  OBVIOUS
<1>4. PICK r \in Incident : r = row /\ r.device = e /\ r.resolved = FALSE
  <2>1. row \in Incident /\ row.device = e /\ row.resolved = FALSE
    BY <1>1, <1>2 DEF Work, Transition, Incident, Never
  <2>2. QED
    BY <2>1
<1>5. /\ incidents' = Append(incidents, r)
      /\ snaps' = [snaps EXCEPT ![e].openIncidentID = n]
      /\ work' = [work EXCEPT !.pc = "save", !.tr.incidentID = n, !.wrote = TRUE]
      /\ CanWrite
  BY <1>2, <1>3, <1>4 DEF OpenIncident
<1>6. /\ n \in Nat \ {0}
      /\ Owned(e, n)'
      /\ OpenIncidents(e)' = OpenIncidents(e) \cup {n}
      /\ \A d \in Devices \ {e} : OpenIncidents(d)' = OpenIncidents(d)
  BY <1>3, <1>4, <1>5, AppendRow
<1>7. QED
  BY <1>1, <1>2, <1>5, <1>6

LEMMA SnapsOwnedStep ==
    ASSUME TypeOK, WorkOwned, SnapsOwned, [Next]_vars
    PROVE  SnapsOwned'
<1>1. \A d, id : Owned(d, id) => Owned(d, id)'
  BY OwnedStable
<1>2. CASE UNCHANGED snaps
  BY <1>1, <1>2 DEF SnapsOwned, Owned
<1>3. ASSUME NEW d \in Devices, NEW class \in Class, NEW eff \in Effectives,
             Take(d, class, eff)
      PROVE  SnapsOwned'
  <2>1. PICK snap \in Snapshot :
              /\ snaps' = [snaps EXCEPT ![d] = snap]
              /\ snap.openIncidentID \in {NoIncident, snaps[d].openIncidentID}
    BY <1>3, TakeShape
  <2>2. QED
    BY <1>1, <2>1 DEF SnapsOwned, TypeOK, Owned
<1>4. CASE OpenIncident /\ snaps' # snaps
  <2>1. PICK e \in Devices, n \in Nat \ {0} :
              /\ Owned(e, n)'
              /\ snaps' = [snaps EXCEPT ![e].openIncidentID = n]
    BY <1>4, OpenShape
  <2>2. /\ snaps'[e].openIncidentID = n
        /\ \A x \in Devices \ {e} : snaps'[x] = snaps[x]
    BY <2>1 DEF TypeOK, Snapshot
  <2>3. QED
    BY <1>1, <2>1, <2>2 DEF SnapsOwned, Owned
<1>5. CASE FinalFlush \/ Crash
  <2>1. \A d \in Devices : snaps'[d].openIncidentID = NoIncident
    BY <1>5 DEF FinalFlush, Crash, Fresh, NewSnapshot
  <2>2. QED
    BY <2>1 DEF SnapsOwned
<1>6. CASE Start
  <2>1. ASSUME NEW d \in Devices, snaps'[d].openIncidentID # NoIncident
        PROVE  snaps'[d].openIncidentID \in OpenIncidents(d)
    <3>1. snaps'[d] = Loaded(d)
      BY <1>6 DEF Start
    <3>2. QED
      BY <2>1, <3>1, LoadedType
  <2>2. UNCHANGED incidents
    BY <1>6 DEF Start, disk
  <2>3. QED
    BY <2>1, <2>2 DEF OpenIncidents, SnapsOwned, Owned
<1>7. QED
  BY <1>2, <1>3, <1>4, <1>5, <1>6
  DEF Next, Evaluate, Lifecycle, CloseIncident, SaveState, Suppress, DispatchDown,
      MarkIncidentAlerted, DispatchRecovery, DispatchReminder, Flush, Stop, vars, memory

LEMMA WorkOwnedStep ==
    ASSUME TypeOK, Halted, SnapsOwned, WorkOwned, [Next]_vars
    PROVE  WorkOwned'
<1>1. \A d, id : Owned(d, id) => Owned(d, id)'
  BY OwnedStable
<1>2. CASE work' = Idle
  BY <1>2 DEF WorkOwned
<1>3. CASE UNCHANGED work
  BY <1>1, <1>3 DEF WorkOwned, Owned, TouchesIncident
<1>4. ASSUME NEW d \in Devices, NEW class \in Class, NEW eff \in Effectives,
             Take(d, class, eff)
      PROVE  WorkOwned'
  <2>1. PICK tr \in Transition :
              /\ work' = IF tr.ignored THEN Idle
                         ELSE [ pc |-> FirstStep(tr), device |-> d, at |-> now,
                                tr |-> tr, wrote |-> FALSE ]
              /\ tr.incidentID \in {NoIncident, snaps[d].openIncidentID}
              /\ tr.closeIncident =>
                    /\ snaps[d].openIncidentID # NoIncident
                    /\ tr.incidentID = snaps[d].openIncidentID
    BY <1>4, TakeShape
  <2>2. tr.incidentID # NoIncident => Owned(d, tr.incidentID)'
    BY <1>1, <2>1 DEF SnapsOwned
  <2>3. CASE ~tr.ignored
    <3>1. /\ work'.device = d /\ work'.tr = tr /\ work'.wrote = FALSE
          /\ work'.pc = FirstStep(tr) /\ work'.pc \in {"open", "close", "save"}
      BY <2>1, <2>3 DEF FirstStep
    <3>2. QED
      BY <2>1, <2>2, <3>1 DEF WorkOwned, Owned, FirstStep, TouchesIncident
  <2>4. QED
    BY <1>2, <2>1, <2>3
<1>5. CASE OpenIncident
  <2>1. work \in Work /\ work.tr.openIncident /\ work.pc = "open"
        /\ (work.tr.incidentID # NoIncident => Owned(work.device, work.tr.incidentID))
        /\ ~work.wrote
    BY <1>5, WorkIsNotIdle DEF TypeOK, OpenIncident, Idle, WorkOwned, Work
  <2>2. CASE incidents' # incidents \/ snaps' # snaps
    <3>1. PICK e \in Devices, n \in Nat \ {0} :
              /\ work.device = e /\ Owned(e, n)'
              /\ work' = [work EXCEPT !.pc = "save", !.tr.incidentID = n,
                                      !.wrote = TRUE]
      BY <1>5, <2>2, OpenShape
    <3>2. /\ work'.device = e /\ work'.tr.incidentID = n
          /\ work'.tr.openIncident = work.tr.openIncident
          /\ work'.pc = "save"
      BY <2>1, <3>1 DEF Work, Transition
    <3>3. QED
      BY <2>1, <3>1, <3>2 DEF WorkOwned, Owned, TouchesIncident
  <2>3. CASE work' = [work EXCEPT !.pc = "save"]
    <3>1. /\ work'.device = work.device /\ work'.tr = work.tr /\ work'.pc = "save"
          /\ work'.wrote = work.wrote
      BY <2>1, <2>3 DEF Work
    <3>2. QED
      BY <1>1, <2>1, <3>1 DEF WorkOwned, Owned
  <2>4. QED
    BY <1>5, <2>2, <2>3 DEF OpenIncident
<1>6. CASE CloseIncident
  <2>1. /\ work \in Work /\ work.tr.closeIncident
        /\ Owned(work.device, work.tr.incidentID)
    BY <1>6, WorkIsNotIdle DEF TypeOK, CloseIncident, Idle, WorkOwned
  <2>2. work'.device = work.device /\ work'.tr = work.tr /\ work'.pc = "save"
    BY <1>6, <2>1 DEF CloseIncident, Work
  <2>3. QED
    BY <1>1, <2>1, <2>2 DEF WorkOwned, Owned, TouchesIncident
<1>7. CASE SaveState /\ work' # Idle
  <2>1. /\ work \in Work /\ work # Idle
        /\ work' = [work EXCEPT !.pc = "dispatch"]
    BY <1>7, WorkIsNotIdle DEF TypeOK, SaveState, AfterSave, Idle
  <2>2. /\ work'.device = work.device /\ work'.tr = work.tr
        /\ work'.pc = "dispatch" /\ work'.wrote = work.wrote
    BY <2>1 DEF Work
  <2>3. QED
    BY <1>1, <2>1, <2>2 DEF WorkOwned, Owned, TouchesIncident
<1>8. CASE DispatchDown /\ work' # Idle
  <2>1. work \in Work /\ work # Idle
    BY <1>8, WorkIsNotIdle DEF TypeOK, DispatchDown, Idle
  <2>2. PICK id : id = AlertFor("down", work.tr.incidentStart).incident
    OBVIOUS
  <2>3. id # NoIncident /\ work' = [work EXCEPT !.pc = "mark", !.tr.incidentID = id]
    BY <1>8, <2>2 DEF DispatchDown
  <2>4. Owned(work.device, id)
    BY <2>1, <2>2, <2>3 DEF WorkOwned, SnapsOwned, AlertFor, Work
  <2>5. /\ work'.device = work.device /\ work'.tr.incidentID = id
        /\ work'.tr.openIncident = work.tr.openIncident
        /\ work'.tr.closeIncident = work.tr.closeIncident
        /\ work'.pc = "mark" /\ work'.wrote = work.wrote
    BY <2>1, <2>3 DEF Work, Transition
  <2>6. QED
    BY <1>1, <2>1, <2>3, <2>4, <2>5 DEF WorkOwned, Owned, TouchesIncident
<1>9. QED
  BY <1>2, <1>3, <1>4, <1>5, <1>6, <1>7, <1>8
  DEF Next, Evaluate, Lifecycle, Suppress, MarkIncidentAlerted, DispatchRecovery,
      DispatchReminder, Flush, Stop, FinalFlush, Crash, Start, vars, memory

-----------------------------------------------------------------------------
(* The tables of a device with no torn transition keep agreeing.  One lemma  *)
(* per action that writes, or reads back, what the agreement is about.       *)

\* A step that leaves a device's rows, snapshot and evaluation alone.
LEMMA SoundFrame ==
    ASSUME NEW d \in Devices, Sound(d),
           OpenIncidents(d)' = OpenIncidents(d), rows'[d] = rows[d],
           up' = "running" => up = "running" /\ snaps'[d] = snaps[d],
           ~Busy(d), ~Busy(d)', ~MidTransition(d)
    PROVE  Sound(d)'
<1>1. Agrees(d) /\ Agrees(d)'
  BY DEF Sound, Agrees
<1>2. up' = "running" => InSync(d)'
  BY DEF Sound, InSync, Holds
<1>3. QED
  BY <1>1, <1>2 DEF Sound

LEMMA NotBusy == \A d : ~Busy(d) => ~MidTransition(d)
BY DEF Busy, MidTransition

\* While one device is evaluated, the others stand still.
LEMMA SoundOther ==
    ASSUME TypeOK, WorkOwned, NEW d \in Devices \ torn, Sound(d), [Next]_vars,
           work # Idle, work.device # d, up' # "off", up # "off"
    PROVE  Sound(d)'
<1>1. ~Busy(d) /\ ~MidTransition(d)
  BY DEF Busy, MidTransition
<1>2. work \in Work
  BY DEF TypeOK
<1>3. CASE UNCHANGED <<rows, snaps, work, incidents>>
  <2>1. OpenIncidents(d)' = OpenIncidents(d) /\ ~Busy(d)'
    BY <1>1, <1>3 DEF OpenIncidents, Busy
  <2>2. up' = "running" => up = "running"
    BY DEF Next, Evaluate, Lifecycle, Take, OpenIncident, CloseIncident, SaveState,
           Suppress, DispatchDown, MarkIncidentAlerted, DispatchRecovery,
           DispatchReminder, Flush, Stop, FinalFlush, Crash, Start, vars
  <2>3. QED
    BY <1>1, <1>3, <2>1, <2>2, SoundFrame
<1>4. CASE OpenIncident
  <2>1. /\ UNCHANGED <<rows, up>> /\ work'.device = work.device
        /\ snaps'[d] = snaps[d]
    <3>1. UNCHANGED <<rows, up>>
      BY <1>4 DEF OpenIncident
    <3>2. CASE incidents' = incidents /\ snaps' = snaps
      <4>1. \/ work' = [work EXCEPT !.pc = "save"]
            \/ \E id : work' = [work EXCEPT !.pc = "save", !.tr.incidentID = id,
                                            !.wrote = TRUE]
        BY <1>4 DEF OpenIncident
      <4>2. QED
        BY <1>2, <3>1, <3>2, <4>1 DEF Work
    <3>3. CASE incidents' # incidents \/ snaps' # snaps
      <4>1. PICK e \in Devices, n \in Nat \ {0} :
               /\ work.device = e
               /\ snaps' = [snaps EXCEPT ![e].openIncidentID = n]
               /\ work' = [work EXCEPT !.pc = "save", !.tr.incidentID = n,
                                       !.wrote = TRUE]
        BY <1>4, <3>3, OpenShape
      <4>2. QED
        BY <1>2, <3>1, <4>1 DEF TypeOK, Work
    <3>4. QED
      BY <3>2, <3>3
  <2>2. OpenIncidents(d)' = OpenIncidents(d)
    <3>1. CASE incidents' = incidents
      BY <3>1 DEF OpenIncidents
    <3>2. CASE incidents' # incidents
      BY <1>4, <3>2, OpenShape
    <3>3. QED
      BY <3>1, <3>2
  <2>3. QED
    BY <1>1, <2>1, <2>2, SoundFrame DEF Busy
<1>5. CASE CloseIncident
  <2>1. /\ UNCHANGED <<rows, up, snaps>> /\ work'.device = work.device
    BY <1>2, <1>5 DEF CloseIncident, Work
  <2>2. OpenIncidents(d)' = OpenIncidents(d)
    <3>1. /\ work.tr.incidentID \in DOMAIN incidents
          /\ incidents[work.tr.incidentID].device # d
          /\ work.tr.sendRecovery \in BOOLEAN
      BY <1>5, OwnedNow DEF CloseIncident, Owned
    <3>2. \/ incidents' = incidents
          \/ incidents' = Resolve(work.tr.incidentID, work.tr.sendRecovery)
      BY <1>5 DEF CloseIncident
    <3>3. QED
      BY <3>1, <3>2, ResolveRow DEF OpenIncidents
  <2>3. QED
    BY <1>1, <2>1, <2>2, SoundFrame DEF Busy
<1>6. CASE SaveState
  <2>1. /\ UNCHANGED <<incidents, up, snaps>> /\ rows'[d] = rows[d]
        /\ work' = Idle \/ work'.device = work.device
    BY <1>2, <1>6 DEF SaveState, AfterSave, TypeOK, Work
  <2>2. OpenIncidents(d)' = OpenIncidents(d)
    BY <2>1 DEF OpenIncidents
  <2>3. QED
    BY <1>1, <2>1, <2>2, SoundFrame DEF Busy
<1>7. CASE MarkIncidentAlerted
  <2>1. UNCHANGED <<rows, up, snaps>> /\ work' = Idle
    BY <1>7 DEF MarkIncidentAlerted
  <2>2. OpenIncidents(d)' = OpenIncidents(d)
    <3>1. work.tr.incidentID \in DOMAIN incidents /\ work.at \in Nat
      BY <1>7, OwnedNow DEF MarkIncidentAlerted
    <3>2. incidents' = incidents \/ incidents' = Flag(work.tr.incidentID, work.at)
      BY <1>7 DEF MarkIncidentAlerted
    <3>3. QED
      BY <3>1, <3>2, FlagRow DEF OpenIncidents
  <2>3. QED
    BY <1>1, <2>1, <2>2, SoundFrame DEF Busy
<1>8. CASE Suppress \/ DispatchDown \/ DispatchRecovery \/ DispatchReminder
  <2>1. /\ UNCHANGED <<rows, up, snaps, incidents>>
        /\ work' = Idle \/ work'.device = work.device
    BY <1>2, <1>8
    DEF Suppress, DispatchDown, DispatchRecovery, DispatchReminder, Work, disk
  <2>2. OpenIncidents(d)' = OpenIncidents(d)
    BY <2>1 DEF OpenIncidents
  <2>3. QED
    BY <1>1, <2>1, <2>2, SoundFrame DEF Busy
<1>9. QED
  BY <1>3, <1>4, <1>5, <1>6, <1>7, <1>8
  DEF Next, Evaluate, Lifecycle, Take, Flush, Stop, FinalFlush, Crash, Start, vars,
      memory, disk

LEMMA TakeSound ==
    ASSUME TypeOK, WorkOwned, NEW d \in Devices \ torn, Sound(d),
           NEW e \in Devices, NEW class \in Class, NEW eff \in Effectives,
           Take(e, class, eff)
    PROVE  Sound(d)'
<1>1. PICK snap \in Snapshot, tr \in Transition :
        /\ work = Idle
        /\ snaps' = [snaps EXCEPT ![e] = snap]
        /\ work' = IF tr.ignored THEN Idle
                   ELSE [ pc |-> FirstStep(tr), device |-> e, at |-> now,
                          tr |-> tr, wrote |-> FALSE ]
        /\ UNCHANGED <<up, rows, incidents, torn>>
        /\ tr.openIncident =>
              /\ ~tr.closeIncident
              /\ snaps[e].status # "DOWN" /\ snap.status = "DOWN"
              /\ snap.openIncidentID = snaps[e].openIncidentID
        /\ tr.closeIncident =>
              /\ snaps[e].status = "DOWN" /\ snap.status # "DOWN"
              /\ snaps[e].openIncidentID # NoIncident
              /\ tr.incidentID = snaps[e].openIncidentID
              /\ snap.openIncidentID = NoIncident
        /\ ~tr.openIncident /\ ~tr.closeIncident /\
           (snaps[e].status = "DOWN" => snaps[e].openIncidentID # NoIncident) =>
              /\ snap.openIncidentID = snaps[e].openIncidentID
              /\ snap.status = "DOWN" <=> snaps[e].status = "DOWN"
        /\ tr.ignored => ~tr.openIncident /\ ~tr.closeIncident
  BY TakeShape
<1>2. ~Busy(d) /\ ~MidTransition(d) /\ OpenIncidents(d)' = OpenIncidents(d)
  BY <1>1 DEF Busy, MidTransition, OpenIncidents
<1>3. work' # Idle =>
         /\ work'.device = e /\ work'.wrote = FALSE /\ work'.tr = tr
         /\ work'.pc = FirstStep(tr) /\ work'.pc \in {"open", "close", "save"}
  BY <1>1 DEF FirstStep
<1>4. CASE e # d
  BY <1>1, <1>2, <1>3, <1>4, SoundFrame DEF Busy, TypeOK
<1>5. CASE e = d
  <2>1. Agrees(d)'
    BY <1>1, <1>2 DEF Sound, Agrees
  <2>2. ASSUME up' = "running"
        PROVE  IF Busy(d)' THEN BusyInSync(d)' ELSE InSync(d)'
    <3>1. InSync(d) /\ snaps'[d] = snap
      BY <1>1, <1>2, <1>5, <2>2 DEF Sound, TypeOK
    <3>2. ~tr.openIncident /\ ~tr.closeIncident => InSync(d)'
      BY <1>1, <1>2, <1>5, <3>1 DEF InSync, Holds
    <3>3. CASE work' = Idle
      <4>1. tr.ignored
        BY <1>1, <3>3 DEF Idle
      <4>2. QED
        BY <1>1, <3>2, <3>3, <4>1 DEF Busy
    <3>4. CASE work' # Idle
      <4>1. tr.openIncident =>
               /\ snaps'[d].status = "DOWN" /\ snaps'[d].openIncidentID = NoIncident
               /\ OpenIncidents(d)' = {}
        BY <1>1, <1>2, <1>5, <3>1 DEF InSync, Holds
      <4>2. tr.closeIncident =>
               /\ snaps'[d].status # "DOWN" /\ snaps'[d].openIncidentID = NoIncident
               /\ OpenIncidents(d)' = {tr.incidentID}
        BY <1>1, <1>2, <1>5, <3>1 DEF InSync, Holds
      <4>3. QED
        BY <1>3, <1>5, <3>2, <3>4, <4>1, <4>2
        DEF Busy, BusyInSync, FirstStep, TouchesIncident
    <3>5. QED
      BY <3>3, <3>4
  <2>3. QED
    BY <2>1, <2>2 DEF Sound
<1>6. QED
  BY <1>4, <1>5

LEMMA OpenSound ==
    ASSUME TypeOK, WorkOwned, NEW d \in Devices \ torn, Sound(d), OpenIncident,
           work.device = d
    PROVE  Sound(d)'
<1>1. /\ work \in Work /\ work # Idle /\ work.pc = "open"
      /\ work.tr.openIncident /\ ~work.wrote /\ UNCHANGED <<rows, up>>
  BY WorkIsNotIdle DEF TypeOK, OpenIncident, Idle, WorkOwned, Work
<1>2. CASE incidents' # incidents \/ snaps' # snaps
  <2>1. PICK n \in Nat \ {0} :
           /\ CanWrite
           /\ OpenIncidents(d)' = OpenIncidents(d) \cup {n}
           /\ snaps' = [snaps EXCEPT ![d].openIncidentID = n]
           /\ work' = [work EXCEPT !.pc = "save", !.tr.incidentID = n, !.wrote = TRUE]
    BY <1>2, OpenShape
  <2>2. snaps[d].status = "DOWN" /\ OpenIncidents(d) = {}
    BY <1>1, <2>1 DEF Sound, Busy, BusyInSync, CanWrite
  <2>3. snaps'[d].status = "DOWN" /\ snaps'[d].openIncidentID = n
    BY <2>1, <2>2 DEF TypeOK, Snapshot
  <2>4. Holds(d)'
    BY <2>1, <2>2, <2>3 DEF Holds, NoIncident
  <2>5. /\ work'.pc = "save" /\ work'.wrote = TRUE /\ work'.device = d
        /\ work'.tr.openIncident /\ work' # Idle
    BY <1>1, <2>1 DEF Work, Transition, Idle
  <2>6. QED
    BY <2>4, <2>5 DEF Sound, MidTransition, Busy, BusyInSync, TouchesIncident
<1>3. CASE work' = [work EXCEPT !.pc = "save"] /\ UNCHANGED <<incidents, snaps>>
  <2>1. /\ work'.pc = "save" /\ ~work'.wrote /\ work'.device = d
        /\ work'.tr = work.tr /\ work' # Idle
    BY <1>1, <1>3 DEF Work, Idle
  <2>2. Agrees(d)'
    BY <1>1, <1>3 DEF Sound, MidTransition, Agrees, OpenIncidents
  <2>3. QED
    BY <1>1, <2>1, <2>2 DEF Sound, Busy, BusyInSync, TouchesIncident
<1>4. QED
  BY <1>2, <1>3 DEF OpenIncident

LEMMA CloseSound ==
    ASSUME TypeOK, WorkOwned, NEW d \in Devices \ torn, Sound(d), CloseIncident,
           work.device = d
    PROVE  Sound(d)'
<1> DEFINE id == work.tr.incidentID
<1>1. /\ work \in Work /\ work # Idle /\ work.pc = "close"
      /\ work.tr.closeIncident /\ ~work.wrote /\ UNCHANGED <<rows, up, snaps>>
      /\ id \in DOMAIN incidents /\ work.tr.sendRecovery \in BOOLEAN
  BY WorkIsNotIdle, OwnedNow DEF TypeOK, CloseIncident, Idle, WorkOwned, Work
<1>2. CASE /\ CanWrite
           /\ incidents' = IF incidents[id].resolved THEN incidents
                           ELSE Resolve(id, work.tr.sendRecovery)
           /\ work' = [work EXCEPT !.pc = "save", !.wrote = TRUE]
  <2>1. /\ snaps[d].status # "DOWN" /\ snaps[d].openIncidentID = NoIncident
        /\ OpenIncidents(d) = {id}
    BY <1>1, <1>2 DEF Sound, Busy, BusyInSync, CanWrite
  <2>2. OpenIncidents(d)' = {}
    <3>1. ~incidents[id].resolved /\ \A i \in DOMAIN incidents :
             incidents[i].device = d /\ ~incidents[i].resolved => i = id
      BY <2>1 DEF OpenIncidents
    <3>2. incidents' = Resolve(id, work.tr.sendRecovery)
      BY <1>2, <3>1
    <3>3. DOMAIN incidents' = DOMAIN incidents
          /\ \A j \in DOMAIN incidents :
                /\ incidents'[j].device = incidents[j].device
                /\ incidents'[j].resolved <=> (j = id \/ incidents[j].resolved)
      BY <1>1, <3>2, ResolveRow
    <3>4. QED
      BY <3>1, <3>3 DEF OpenIncidents
  <2>3. /\ work'.pc = "save" /\ work'.wrote = TRUE /\ work'.device = d
        /\ work'.tr = work.tr /\ work' # Idle
    BY <1>1, <1>2 DEF Work, Idle
  <2>4. Holds(d)'
    BY <1>1, <2>1, <2>2 DEF Holds
  <2>5. QED
    BY <1>1, <2>3, <2>4 DEF Sound, MidTransition, Busy, BusyInSync, TouchesIncident
<1>3. CASE work' = [work EXCEPT !.pc = "save"] /\ UNCHANGED incidents
  <2>1. /\ work'.pc = "save" /\ ~work'.wrote /\ work'.device = d
        /\ work'.tr = work.tr /\ work' # Idle
    BY <1>1, <1>3 DEF Work, Idle
  <2>2. Agrees(d)'
    BY <1>1, <1>3 DEF Sound, MidTransition, Agrees, OpenIncidents
  <2>3. QED
    BY <1>1, <2>1, <2>2 DEF Sound, Busy, BusyInSync, TouchesIncident
<1>4. QED
  BY <1>2, <1>3 DEF CloseIncident

LEMMA SaveSound ==
    ASSUME TypeOK, WorkOwned, NEW d \in Devices, d \notin torn', Sound(d), SaveState,
           work.device = d
    PROVE  Sound(d)'
<1>1. /\ work \in Work /\ work # Idle /\ work.pc = "save"
      /\ UNCHANGED <<up, snaps, incidents>>
      /\ work.wrote => TouchesIncident(work.tr)
  BY WorkIsNotIdle DEF TypeOK, SaveState, Idle, WorkOwned
<1>2. ~Busy(d)' /\ ~MidTransition(d)'
  BY <1>1 DEF SaveState, AfterSave, Busy, MidTransition, Work
<1>3. OpenIncidents(d)' = OpenIncidents(d)
  BY <1>1 DEF OpenIncidents
<1>4. CASE CanWrite /\ rows'[d].status = snaps[d].status
           /\ (TouchesIncident(work.tr) => work.wrote)
  <2>1. Holds(d) /\ up = "running"
    BY <1>1, <1>4 DEF Sound, Busy, BusyInSync, InSync, CanWrite
  <2>2. InSync(d)'
    BY <1>1, <1>3, <1>4, <2>1 DEF InSync, Holds
  <2>3. Agrees(d)'
    BY <2>2 DEF InSync, Holds, Agrees
  <2>4. QED
    BY <1>2, <2>2, <2>3 DEF Sound
<1>5. CASE /\ UNCHANGED rows
           /\ TouchesIncident(work.tr) => ~work.wrote /\ up # "running"
  <2>1. Agrees(d)'
    BY <1>1, <1>3, <1>5 DEF Sound, MidTransition, Agrees
  <2>2. up' = "running" => InSync(d)'
    <3>1. up = "running" => InSync(d)
      BY <1>1, <1>5 DEF Sound, Busy, BusyInSync
    <3>2. QED
      BY <1>1, <1>3, <1>5, <3>1 DEF InSync, Holds
  <2>3. QED
    BY <1>2, <2>1, <2>2 DEF Sound
<1>6. QED
  BY <1>1, <1>4, <1>5 DEF SaveState, TypeOK

LEMMA DispatchSound ==
    ASSUME TypeOK, WorkOwned, NEW d \in Devices, Sound(d), work.device = d,
           \/ Suppress \/ DispatchDown \/ DispatchRecovery \/ DispatchReminder
           \/ MarkIncidentAlerted
    PROVE  Sound(d)'
<1>1. /\ work \in Work /\ work # Idle /\ work.pc \in {"dispatch", "mark"}
      /\ UNCHANGED <<up, snaps, rows>>
  BY WorkIsNotIdle DEF TypeOK, Suppress, DispatchDown, DispatchRecovery,
     DispatchReminder, MarkIncidentAlerted, Idle, disk
<1>2. work' = Idle \/ work'.pc = "mark"
  BY <1>1 DEF Suppress, DispatchDown, DispatchRecovery, DispatchReminder,
     MarkIncidentAlerted, Work
<1>3. OpenIncidents(d)' = OpenIncidents(d)
  <2>1. CASE incidents' = incidents
    BY <2>1 DEF OpenIncidents
  <2>2. CASE MarkIncidentAlerted
    <3>1. work.tr.incidentID \in DOMAIN incidents /\ work.at \in Nat
      BY <1>1, <2>2, OwnedNow DEF MarkIncidentAlerted
    <3>2. incidents' = incidents \/ incidents' = Flag(work.tr.incidentID, work.at)
      BY <2>2 DEF MarkIncidentAlerted
    <3>3. QED
      BY <3>1, <3>2, FlagRow DEF OpenIncidents
  <2>3. QED
    BY <2>1, <2>2 DEF Suppress, DispatchDown, DispatchRecovery, DispatchReminder, disk
<1>4. QED
  BY <1>1, <1>2, <1>3, SoundFrame DEF Busy, MidTransition

LEMMA LifecycleSound ==
    ASSUME TypeOK, Halted, NEW d \in Devices, d \notin torn', Sound(d),
           Flush \/ Lifecycle \/ UNCHANGED vars
    PROVE  Sound(d)'
<1>1. CASE Flush \/ Stop \/ UNCHANGED vars
  <2>1. /\ UNCHANGED <<rows, snaps, work, incidents>>
        /\ up' = "running" => up = "running"
    BY <1>1 DEF Flush, Stop, vars, memory, disk
  <2>2. QED
    BY <2>1 DEF Sound, MidTransition, Agrees, OpenIncidents, Busy, BusyInSync, Holds,
                InSync, TouchesIncident
<1>2. CASE FinalFlush
  <2>1. UNCHANGED <<rows, work, incidents>> /\ up' = "off"
    BY <1>2 DEF FinalFlush
  <2>2. QED
    BY <2>1 DEF Sound, MidTransition, Agrees, OpenIncidents
<1>3. CASE Crash
  <2>1. /\ UNCHANGED <<rows, incidents>> /\ up' = "off" /\ work' = Idle
        /\ ~MidTransition(d)
    BY <1>3 DEF Crash, MidTransition, disk
  <2>2. QED
    BY <2>1 DEF Sound, Agrees, OpenIncidents
<1>4. CASE Start
  <2>1. /\ work = Idle /\ work' = Idle /\ UNCHANGED <<rows, incidents>>
        /\ snaps'[d] = Loaded(d)
    BY <1>4 DEF Start, Halted, disk
  <2>2. Agrees(d) /\ OpenIncidents(d)' = OpenIncidents(d)
    BY <2>1 DEF Sound, MidTransition, OpenIncidents
  <2>3. InSync(d)'
    <3>1. CASE OpenIncidents(d) = {}
      BY <2>1, <2>2, <3>1, LoadedType DEF InSync, Holds, Agrees
    <3>2. CASE OpenIncidents(d) # {}
      <4>1. PICK i : i = Newest(OpenIncidents(d)) /\ i \in OpenIncidents(d)
        BY <3>2, LoadedType
      <4>2. OpenIncidents(d) = {i} /\ snaps'[d].openIncidentID = i
        BY <2>1, <2>2, <3>2, <4>1, LoadedType DEF Agrees
      <4>3. i # NoIncident
        BY <4>1, LenProperties DEF OpenIncidents, TypeOK, NoIncident
      <4>4. snaps'[d].status = "DOWN" /\ rows'[d].status = "DOWN"
        BY <2>1, <2>2, <3>2, LoadedType DEF Agrees
      <4>5. QED
        BY <2>2, <4>2, <4>3, <4>4 DEF InSync, Holds
    <3>3. QED
      BY <3>1, <3>2
  <2>4. QED
    BY <2>1, <2>2, <2>3 DEF Sound, Agrees, Busy
<1>5. QED
  BY <1>1, <1>2, <1>3, <1>4 DEF Lifecycle

-----------------------------------------------------------------------------
(* The theorems.                                                           *)

LEMMA InitInv == Init => IInv
<1> SUFFICES ASSUME Init PROVE IInv
  OBVIOUS
<1>1. TypeOK
  <2>1. snaps \in [Devices -> Snapshot]
    BY FreshType DEF Init
  <2>2. incidents \in Seq(Incident) /\ faults \subseteq Faults
    BY FaultsAssumption, EmptySeq DEF Init
  <2>3. QED
    BY <2>1, <2>2 DEF Init, TypeOK, Row, Status, Never
<1>2. /\ work = Idle /\ \A d \in Devices : OpenIncidents(d) = {}
      /\ \A d \in Devices : /\ snaps[d].status = "UNKNOWN"
                            /\ snaps[d].openIncidentID = NoIncident
                            /\ rows[d].status = "UNKNOWN"
  BY EmptySeq DEF Init, OpenIncidents, Fresh, NewSnapshot
<1>3. Halted /\ SnapsOwned /\ WorkOwned
  BY <1>2 DEF Halted, SnapsOwned, WorkOwned
<1>4. \A d \in Devices : Sound(d)
  BY <1>2 DEF Sound, Agrees, InSync, Holds, Busy
<1>5. QED
  BY <1>1, <1>3, <1>4 DEF IInv

LEMMA SoundStep ==
    ASSUME TypeOK, Halted, WorkOwned, \A d \in Devices \ torn : Sound(d), [Next]_vars
    PROVE  \A d \in Devices \ torn' : Sound(d)'
<1> SUFFICES ASSUME NEW d \in Devices, d \notin torn'
             PROVE  Sound(d)'
  OBVIOUS
<1>1. torn \subseteq torn'
  BY DEF Next, Evaluate, Lifecycle, Take, OpenIncident, CloseIncident, SaveState, Suppress,
         DispatchDown, MarkIncidentAlerted, DispatchRecovery, DispatchReminder, Flush,
         Stop, FinalFlush, Crash, Start, vars
<1>2. Sound(d) /\ d \in Devices \ torn
  BY <1>1
<1>3. ASSUME NEW e \in Devices, NEW class \in Class, NEW eff \in Effectives,
             Take(e, class, eff)
      PROVE  Sound(d)'
  BY <1>2, <1>3, TakeSound
<1>4. CASE Flush \/ Lifecycle \/ UNCHANGED vars
  BY <1>2, <1>4, LifecycleSound
<1>5. CASE /\ \/ OpenIncident \/ CloseIncident \/ SaveState \/ Suppress \/ DispatchDown
              \/ MarkIncidentAlerted \/ DispatchRecovery \/ DispatchReminder
           /\ work.device = d
  BY <1>2, <1>5, OpenSound, CloseSound, SaveSound, DispatchSound
<1>6. CASE /\ \/ OpenIncident \/ CloseIncident \/ SaveState \/ Suppress \/ DispatchDown
              \/ MarkIncidentAlerted \/ DispatchRecovery \/ DispatchReminder
           /\ work.device # d
  <2>1. work # Idle
    BY <1>6 DEF OpenIncident, CloseIncident, SaveState, Suppress, DispatchDown,
           MarkIncidentAlerted, DispatchRecovery, DispatchReminder, Idle
  <2>2. up # "off" /\ up' # "off"
    BY <1>6, <2>1 DEF Halted, OpenIncident, CloseIncident, SaveState, Suppress,
           DispatchDown, MarkIncidentAlerted, DispatchRecovery, DispatchReminder
  <2>3. QED
    BY <1>2, <1>6, <2>1, <2>2, SoundOther
<1>7. QED
  BY <1>3, <1>4, <1>5, <1>6 DEF Next, Evaluate

\* The invariant holds of every behaviour.
THEOREM Invariance == Spec => []IInv
<1>1. Init => IInv
  BY InitInv
<1>2. IInv /\ [Next]_vars => IInv'
  <2> SUFFICES ASSUME IInv, [Next]_vars PROVE IInv'
    OBVIOUS
  <2>1. /\ TypeOK /\ Halted /\ SnapsOwned /\ WorkOwned
        /\ \A d \in Devices \ torn : Sound(d)
    BY DEF IInv
  <2>2. TypeOK' /\ Halted' /\ SnapsOwned' /\ WorkOwned'
    BY <2>1, TypeStep, HaltedStep, SnapsOwnedStep, WorkOwnedStep
  <2>3. \A d \in Devices \ torn' : Sound(d)'
    BY <2>1, SoundStep
  <2>4. QED
    BY <2>2, <2>3 DEF IInv
<1>3. QED
  BY <1>1, <1>2, PTL DEF Spec

\* Every variable keeps its type: in particular the incident ids that the
\* evaluator resolves and flags are rows of the table.
THEOREM TypeCorrect == Spec => []TypeOK
<1>1. IInv => TypeOK
  BY DEF IInv
<1>2. QED
  BY <1>1, Invariance, PTL

\* The devices and the incidents tables agree about every device none of whose
\* transitions reached the disk only in part, whatever fails and whenever the
\* process dies or is stopped (evaluate, evaluator.go:82-116).
THEOREM TablesAgree == Spec => []DiskAgrees
<1>1. IInv => DiskAgrees
  BY DEF IInv, Sound, DiskAgrees
<1>2. QED
  BY <1>1, Invariance, PTL

-----------------------------------------------------------------------------
(* Mails.  First what every step does to the incident rows, to the mails and *)
(* to the evaluation in progress.                                          *)

Alerted(id)  == id \in DOMAIN incidents /\ incidents[id].alertSent
Resolved(id) == id \in DOMAIN incidents /\ incidents[id].resolved

\* The row that OpenIncident inserts.
NewRow == [ device       |-> work.device,
            startedAt    |-> work.tr.incidentStart,
            resolved     |-> FALSE,
            alertSent    |-> work.tr.sendDown,
            recoverySent |-> FALSE,
            lastAlertAt  |-> IF work.tr.sendDown THEN work.at ELSE Never ]

\* A new row has the next id, is open, and is alerted if a DOWN is to be sent.
LEMMA RowInserted ==
    ASSUME TypeOK, OpenIncident, incidents' # incidents \/ snaps' # snaps
    PROVE  \E n \in Nat \ {0} :
              /\ n \notin DOMAIN incidents
              /\ DOMAIN incidents' = DOMAIN incidents \cup {n}
              /\ \A i \in DOMAIN incidents : incidents'[i] = incidents[i]
              /\ ~incidents'[n].resolved
              /\ incidents'[n].alertSent = work.tr.sendDown
              /\ snaps' = [snaps EXCEPT ![work.device].openIncidentID = n]
              /\ work' = [work EXCEPT !.pc = "save", !.tr.incidentID = n,
                                      !.wrote = TRUE]
<1>1. work \in Work /\ work.device \in Devices
  BY DEF TypeOK, OpenIncident, Idle, Work
<1>2. PICK n : n = Len(incidents) + 1
  OBVIOUS
<1>3. PICK r \in Incident : /\ r = NewRow /\ r.device = work.device
                            /\ r.resolved = FALSE /\ r.alertSent = work.tr.sendDown
  <2>1. /\ NewRow \in Incident /\ NewRow.device = work.device
        /\ NewRow.resolved = FALSE /\ NewRow.alertSent = work.tr.sendDown
    BY <1>1 DEF NewRow, Work, Transition, Incident, Never
  <2>2. QED
    BY <2>1
<1>4. /\ incidents' = Append(incidents, r)
      /\ snaps' = [snaps EXCEPT ![work.device].openIncidentID = n]
      /\ work' = [work EXCEPT !.pc = "save", !.tr.incidentID = n, !.wrote = TRUE]
  BY <1>2, <1>3 DEF OpenIncident, NewRow
<1>5. /\ n \in Nat \ {0}
      /\ n \notin DOMAIN incidents
      /\ DOMAIN incidents' = DOMAIN incidents \cup {n}
      /\ \A i \in DOMAIN incidents : incidents'[i] = incidents[i]
      /\ incidents'[n] = r
  BY <1>1, <1>2, <1>3, <1>4, AppendRow
<1>6. QED
  BY <1>3, <1>4, <1>5

\* A row stays alerted and stays resolved, and only CloseIncident resolves one.
LEMMA RowsStep ==
    ASSUME TypeOK, WorkOwned, [Next]_vars
    PROVE  /\ \A id : Alerted(id) => Alerted(id)'
           /\ \A id : Resolved(id) => Resolved(id)'
           /\ \A id : Resolved(id)' =>
                  Resolved(id) \/ (CloseIncident /\ id = work.tr.incidentID)
<1>1. CASE UNCHANGED incidents
  BY <1>1 DEF Alerted, Resolved
<1>2. CASE OpenIncident /\ incidents' # incidents
  <2>1. PICK n \in Nat \ {0} :
              /\ n \notin DOMAIN incidents
              /\ DOMAIN incidents' = DOMAIN incidents \cup {n}
              /\ \A i \in DOMAIN incidents : incidents'[i] = incidents[i]
              /\ ~incidents'[n].resolved
    BY <1>2, RowInserted
  <2>2. QED
    BY <2>1 DEF Alerted, Resolved
<1>3. CASE CloseIncident /\ incidents' # incidents
  <2>1. work \in Work /\ work # Idle
    BY <1>3, WorkIsNotIdle DEF TypeOK, CloseIncident, Idle
  <2>2. work.tr.incidentID \in DOMAIN incidents /\ work.tr.sendRecovery \in BOOLEAN
    BY <1>3, <2>1 DEF WorkOwned, Owned, CloseIncident, Work, Transition
  <2>3. incidents' = Resolve(work.tr.incidentID, work.tr.sendRecovery)
    BY <1>3 DEF CloseIncident
  <2>4. QED
    BY <1>3, <2>2, <2>3, ResolveRow DEF Alerted, Resolved
<1>4. CASE MarkIncidentAlerted /\ incidents' # incidents
  <2>1. work \in Work /\ work # Idle
    BY <1>4, WorkIsNotIdle DEF TypeOK, MarkIncidentAlerted, Idle
  <2>2. work.tr.incidentID \in DOMAIN incidents /\ work.at \in Nat
    BY <1>4, <2>1 DEF WorkOwned, Owned, MarkIncidentAlerted, Work, Transition
  <2>3. incidents' = Flag(work.tr.incidentID, work.at)
    BY <1>4 DEF MarkIncidentAlerted
  <2>4. QED
    BY <2>2, <2>3, FlagRow DEF Alerted, Resolved
<1>5. QED
  BY <1>1, <1>2, <1>3, <1>4
  DEF Next, Evaluate, Lifecycle, Take, SaveState, Suppress, DispatchDown, DispatchRecovery,
      DispatchReminder, Flush, Stop, FinalFlush, Crash, Start, vars, disk

\* Only a dispatch announces anything.
LEMMA NewMail ==
    ASSUME [Next]_vars, NEW m \in Announcements'
    PROVE  \/ m \in Announcements
           \/ DispatchDown /\ m = AlertFor("down", work.tr.incidentStart)
           \/ DispatchRecovery /\ m = AlertFor("recovery", work.tr.incidentStart)
           \/ DispatchReminder /\ m.kind = "reminder"
<1>1. CASE UNCHANGED <<buffer, outbox>>
  BY <1>1 DEF Announcements
<1>2. CASE Flush \/ FinalFlush \/ Crash
  BY <1>2 DEF Flush, FinalFlush, Crash, disk, Announcements
<1>3. CASE DispatchDown \/ DispatchRecovery
  BY <1>3 DEF DispatchDown, DispatchRecovery, QueueAlert, Send, Announcements
<1>4. CASE DispatchReminder
  BY <1>4 DEF DispatchReminder, Send, Announcements, AlertFor
<1>5. QED
  BY <1>1, <1>2, <1>3, <1>4
  DEF Next, Evaluate, Lifecycle, Take, OpenIncident, CloseIncident, SaveState, Suppress,
      MarkIncidentAlerted, Stop, Start, vars, memory, disk

\* The rest of what a transition asks for does not change on the way.
Kept(tr, next) ==
    /\ next.openIncident = tr.openIncident /\ next.closeIncident = tr.closeIncident
    /\ next.incidentStart = tr.incidentStart
    /\ next.sendDown = tr.sendDown /\ next.sendRecovery = tr.sendRecovery

\* How an evaluation goes on.
LEMMA WorkStep ==
    ASSUME TypeOK, Halted, [Next]_vars, work # Idle, work' # Idle
    PROVE  /\ work \in Work /\ work'.device = work.device
           /\ Kept(work.tr, work'.tr)
           /\ \/ UNCHANGED <<work, snaps, rows, incidents, buffer, outbox>>
              \/ OpenIncident /\ work.pc = "open" /\ work'.pc = "save"
              \/ /\ CloseIncident /\ work.pc = "close" /\ work'.pc = "save"
                 /\ work'.tr = work.tr
              \/ /\ SaveState /\ work.pc = "save" /\ work'.pc = "dispatch"
                 /\ work'.tr = work.tr
              \/ DispatchDown /\ work.pc = "dispatch" /\ work'.pc = "mark"
<1>1. work \in Work
  BY DEF TypeOK
<1>2. CASE UNCHANGED <<work, snaps, rows, incidents, buffer, outbox>>
  BY <1>1, <1>2 DEF Kept
<1>3. CASE OpenIncident
  <2>1. CASE work' = [work EXCEPT !.pc = "save"]
    BY <1>1, <1>3, <2>1 DEF OpenIncident, Kept, Work
  <2>2. CASE work' # [work EXCEPT !.pc = "save"]
    <3>1. PICK n : work' = [work EXCEPT !.pc = "save", !.tr.incidentID = n, !.wrote = TRUE]
      BY <1>3, <2>2 DEF OpenIncident
    <3>2. /\ work'.device = work.device /\ work'.pc = "save"
          /\ Kept(work.tr, work'.tr)
      BY <1>1, <3>1 DEF Kept, Work, Transition
    <3>3. QED
      BY <1>1, <1>3, <3>2 DEF OpenIncident
  <2>3. QED
    BY <2>1, <2>2
<1>4. CASE CloseIncident
  BY <1>1, <1>4 DEF CloseIncident, Kept, Work
<1>5. CASE SaveState
  BY <1>1, <1>5 DEF SaveState, AfterSave, Kept, Work
<1>6. CASE DispatchDown
  <2>1. PICK n : work' = [work EXCEPT !.pc = "mark", !.tr.incidentID = n]
    BY <1>6 DEF DispatchDown
  <2>2. /\ work'.device = work.device /\ work'.pc = "mark"
        /\ Kept(work.tr, work'.tr)
    BY <1>1, <2>1 DEF Kept, Work, Transition
  <2>3. QED
    BY <1>1, <1>6, <2>2 DEF DispatchDown
<1>7. QED
  BY <1>2, <1>3, <1>4, <1>5, <1>6
  DEF Next, Evaluate, Lifecycle, Take, Suppress, MarkIncidentAlerted, DispatchRecovery,
      DispatchReminder, Flush, Stop, FinalFlush, Crash, Start, vars, memory, disk, Halted

LEMMA TakeFolds ==
    ASSUME TypeOK, NEW d \in Devices, NEW class \in Class, NEW eff \in Effectives,
           Take(d, class, eff)
    PROVE  \E snap \in Snapshot, tr \in Transition :
              /\ Folded(snaps[d], now, snap, tr)
              /\ work = Idle
              /\ snaps' = [snaps EXCEPT ![d] = snap]
              /\ work' = IF tr.ignored THEN Idle
                         ELSE [ pc |-> FirstStep(tr), device |-> d, at |-> now,
                                tr |-> tr, wrote |-> FALSE ]
              /\ now' = now + 1
              /\ UNCHANGED <<up, buffer, rows, incidents, outbox, torn>>
<1>1. PICK res \in Result, reminder \in Nat, snap \in Snapshot, tr \in Transition :
        /\ res.at = now
        /\ snap = Apply(snaps[d], eff, res, reminder, now).snap
        /\ tr = Apply(snaps[d], eff, res, reminder, now).tr
        /\ work = Idle
        /\ snaps' = [snaps EXCEPT ![d] = snap]
        /\ work' = IF tr.ignored THEN Idle
                   ELSE [ pc |-> FirstStep(tr), device |-> d, at |-> now,
                          tr |-> tr, wrote |-> FALSE ]
        /\ now' = now + 1
        /\ UNCHANGED <<up, buffer, rows, incidents, outbox, torn>>
  BY TakeStep
<1>2. PICK s \in Snapshot : s = snaps[d]
  BY DEF TypeOK
<1>3. eff \in Effective /\ now \in Nat
  BY EffectivesAssumption DEF TypeOK
<1>4. Folded(s, now, snap, tr)
  BY <1>1, <1>2, <1>3, ApplyFolds
<1>5. QED
  BY <1>1, <1>2, <1>4

-----------------------------------------------------------------------------
(* A recovery is of an alerted incident.  The mail is decided from the        *)
(* snapshot's flag, so the invariant says what the flag is worth.            *)

\* The snapshot's alertSent is that of the row it names, and a device that is
\* not DOWN names none.
Remembered(d) ==
    /\ snaps[d].status # "DOWN" => snaps[d].openIncidentID = NoIncident
    /\ snaps[d].openIncidentID # NoIncident /\ snaps[d].alertSent =>
           Alerted(snaps[d].openIncidentID)

\* An evaluation about to open an incident marks it as the snapshot does; one
\* that announces a recovery names an alerted incident.
Carries(d) ==
    work # Idle /\ work.device = d =>
        /\ work.pc = "open" =>
               /\ snaps[d].status = "DOWN" /\ snaps[d].openIncidentID = NoIncident
               /\ snaps[d].alertSent => work.tr.sendDown
               /\ ~work.tr.sendRecovery
        /\ work.pc # "mark" /\ work.tr.sendRecovery =>
               work.tr.incidentID # NoIncident /\ Alerted(work.tr.incidentID)

AlertInv ==
    /\ \A d \in Devices \ torn : Remembered(d) /\ Carries(d)
    /\ RecoveryOnlyIfAlerted

LEMMA TornStays ==
    ASSUME [Next]_vars
    PROVE  torn \subseteq torn'
BY DEF Next, Evaluate, Lifecycle, Take, OpenIncident, CloseIncident, SaveState, Suppress,
       DispatchDown, MarkIncidentAlerted, DispatchRecovery, DispatchReminder, Flush,
       Stop, FinalFlush, Crash, Start, vars

LEMMA IdleHasNoStep == Idle.pc = "idle"
BY DEF Idle

\* The snapshot.
LEMMA RememberedStep ==
    ASSUME IInv, [Next]_vars, NEW d \in Devices \ torn, Remembered(d), Carries(d)
    PROVE  Remembered(d)'
<1>1. /\ TypeOK /\ Halted /\ WorkOwned /\ Sound(d)
      /\ \A id : Alerted(id) => Alerted(id)'
  BY RowsStep DEF IInv
<1>2. CASE snaps'[d] = snaps[d]
  BY <1>1, <1>2 DEF Remembered
<1>3. ASSUME NEW class \in Class, NEW eff \in Effectives, Take(d, class, eff)
      PROVE  Remembered(d)'
  <2>1. PICK snap \in Snapshot, tr \in Transition :
           /\ Folded(snaps[d], now, snap, tr)
           /\ snaps' = [snaps EXCEPT ![d] = snap]
    BY <1>1, <1>3, TakeFolds
  <2>2. snaps'[d] = snap
    BY <1>1, <2>1 DEF TypeOK
  <2>3. QED
    BY <1>1, <2>1, <2>2 DEF Folded, Remembered
<1>4. CASE OpenIncident /\ snaps' # snaps /\ work.device = d
  <2>1. PICK n \in Nat \ {0} :
           /\ DOMAIN incidents' = DOMAIN incidents \cup {n}
           /\ incidents'[n].alertSent = work.tr.sendDown
           /\ snaps' = [snaps EXCEPT ![work.device].openIncidentID = n]
    BY <1>1, <1>4, RowInserted
  <2>2. work.pc = "open" /\ work # Idle
    BY <1>4, IdleHasNoStep DEF OpenIncident
  <2>3. snaps'[d] = [snaps[d] EXCEPT !.openIncidentID = n]
    BY <1>1, <1>4, <2>1 DEF TypeOK
  <2>4. /\ snaps'[d].status = snaps[d].status
        /\ snaps'[d].alertSent = snaps[d].alertSent
        /\ snaps'[d].openIncidentID = n
    BY <1>1, <2>3 DEF TypeOK, Snapshot
  <2>5. QED
    BY <1>4, <2>1, <2>2, <2>4 DEF Carries, Remembered, Alerted
<1>5. CASE OpenIncident /\ work.device # d
  <2>1. snaps'[d] = snaps[d]
    BY <1>1, <1>5, RowInserted DEF TypeOK
  <2>2. QED
    BY <1>2, <2>1
<1>6. CASE FinalFlush \/ Crash
  BY <1>6 DEF FinalFlush, Crash, Fresh, NewSnapshot, Remembered
<1>7. CASE Start
  <2>1. /\ snaps'[d] = Loaded(d) /\ incidents' = incidents /\ Agrees(d)
    BY <1>1, <1>7 DEF Start, disk, Halted, Sound, MidTransition
  <2>2. CASE OpenIncidents(d) = {}
    BY <1>1, <2>1, <2>2, LoadedType DEF Remembered
  <2>3. CASE OpenIncidents(d) # {}
    <3>1. PICK i : /\ i \in OpenIncidents(d) /\ Loaded(d).openIncidentID = i
                   /\ Loaded(d).alertSent = incidents[i].alertSent
                   /\ Loaded(d).status = rows[d].status
      BY <1>1, <2>3, LoadedType
    <3>2. i \in DOMAIN incidents /\ rows[d].status = "DOWN"
      BY <2>1, <2>3, <3>1 DEF OpenIncidents, Agrees
    <3>3. QED
      BY <2>1, <3>1, <3>2 DEF Remembered, Alerted
  <2>4. QED
    BY <2>2, <2>3
<1>8. ASSUME NEW e \in Devices, e # d, NEW class \in Class, NEW eff \in Effectives,
             Take(e, class, eff)
      PROVE  Remembered(d)'
  <2>1. snaps'[d] = snaps[d]
    BY <1>1, <1>8, TakeFolds DEF TypeOK
  <2>2. QED
    BY <1>2, <2>1
<1>9. QED
  BY <1>2, <1>3, <1>4, <1>5, <1>6, <1>7, <1>8
  DEF Next, Evaluate, Lifecycle, CloseIncident, SaveState, Suppress, DispatchDown,
      MarkIncidentAlerted, DispatchRecovery, DispatchReminder, Flush, Stop, vars, memory

\* The evaluation.
LEMMA CarriesStep ==
    ASSUME IInv, [Next]_vars, NEW d \in Devices \ torn, Remembered(d), Carries(d)
    PROVE  Carries(d)'
<1>1. /\ TypeOK /\ Halted /\ WorkOwned
      /\ \A id : Alerted(id) => Alerted(id)'
  BY RowsStep DEF IInv
<1>2. SUFFICES ASSUME work' # Idle, work'.device = d
               PROVE  Carries(d)'
  BY DEF Carries
<1>3. ASSUME NEW e \in Devices, NEW class \in Class, NEW eff \in Effectives,
             Take(e, class, eff)
      PROVE  Carries(d)'
  <2>1. PICK snap \in Snapshot, tr \in Transition :
           /\ Folded(snaps[e], now, snap, tr)
           /\ snaps' = [snaps EXCEPT ![e] = snap]
           /\ work' = IF tr.ignored THEN Idle
                      ELSE [ pc |-> FirstStep(tr), device |-> e, at |-> now,
                             tr |-> tr, wrote |-> FALSE ]
    BY <1>1, <1>3, TakeFolds
  <2>2. /\ e = d /\ work'.tr = tr /\ work'.pc = FirstStep(tr)
        /\ snaps'[d] = snap
    BY <1>1, <1>2, <2>1 DEF TypeOK
  <2>3. work'.pc = "open" =>
           /\ snaps'[d].status = "DOWN" /\ snaps'[d].openIncidentID = NoIncident
           /\ snaps'[d].alertSent => tr.sendDown
           /\ ~tr.sendRecovery
    BY <2>1, <2>2 DEF Folded, FirstStep, Remembered
  <2>4. tr.sendRecovery =>
           tr.incidentID # NoIncident /\ Alerted(tr.incidentID)'
    BY <1>1, <2>1, <2>2 DEF Folded, Remembered
  <2>5. QED
    BY <2>2, <2>3, <2>4 DEF Carries
<1>4. CASE work # Idle
  <2>1. /\ work \in Work /\ work.device = d
        /\ Kept(work.tr, work'.tr)
        /\ \/ UNCHANGED <<work, snaps, rows, incidents, buffer, outbox>>
           \/ OpenIncident /\ work.pc = "open" /\ work'.pc = "save"
           \/ /\ CloseIncident /\ work.pc = "close" /\ work'.pc = "save"
              /\ work'.tr = work.tr
           \/ /\ SaveState /\ work.pc = "save" /\ work'.pc = "dispatch"
              /\ work'.tr = work.tr
           \/ DispatchDown /\ work.pc = "dispatch" /\ work'.pc = "mark"
    BY <1>1, <1>2, <1>4, WorkStep
  <2>2. CASE UNCHANGED <<work, snaps>>
    BY <1>1, <1>4, <2>1, <2>2 DEF Carries
  <2>3. CASE work.pc = "open" /\ work'.pc = "save"
    BY <1>4, <2>1, <2>3 DEF Carries, Kept
  <2>4. CASE work.pc # "mark" /\ work'.pc \in {"save", "dispatch"} /\ work'.tr = work.tr
    BY <1>1, <1>4, <2>1, <2>4 DEF Carries
  <2>5. CASE work'.pc = "mark"
    BY <2>5 DEF Carries
  <2>6. QED
    BY <2>1, <2>2, <2>3, <2>4, <2>5
<1>5. CASE work = Idle
  BY <1>2, <1>3, <1>5, IdleHasNoStep
  DEF Next, Evaluate, Lifecycle, OpenIncident, CloseIncident, SaveState, Suppress,
      DispatchDown, MarkIncidentAlerted, DispatchRecovery, DispatchReminder, Flush,
      Stop, FinalFlush, Crash, Start, vars, memory
<1>6. QED
  BY <1>4, <1>5

LEMMA AlertInvStep ==
    ASSUME IInv, AlertInv, [Next]_vars
    PROVE  AlertInv'
<1>1. /\ TypeOK /\ WorkOwned /\ torn \subseteq torn'
      /\ \A id : Alerted(id) => Alerted(id)'
  BY RowsStep, TornStays DEF IInv
<1>2. \A d \in Devices \ torn' : Remembered(d)' /\ Carries(d)'
  <2> SUFFICES ASSUME NEW d \in Devices \ torn, d \notin torn'
               PROVE  Remembered(d)' /\ Carries(d)'
    BY <1>1
  <2>1. Remembered(d) /\ Carries(d)
    BY DEF AlertInv
  <2>2. QED
    BY <2>1, RememberedStep, CarriesStep
<1>3. ASSUME NEW m \in Announcements', m.kind = "recovery", m.device \notin torn'
      PROVE  Alerted(m.incident)'
  <2>1. CASE m \in Announcements
    BY <1>1, <1>3, <2>1 DEF AlertInv, RecoveryOnlyIfAlerted, Alerted
  <2>2. CASE DispatchRecovery /\ m = AlertFor("recovery", work.tr.incidentStart)
    <3>1. /\ work # Idle /\ work \in Work /\ work.pc = "dispatch" /\ work.tr.sendRecovery
      BY <1>1, <2>2, IdleHasNoStep DEF DispatchRecovery, TypeOK
    <3>2. work.device \in Devices \ torn
      BY <1>1, <1>3, <2>2, <3>1 DEF AlertFor, Work
    <3>3. work.tr.incidentID # NoIncident /\ Alerted(work.tr.incidentID)
      BY <3>1, <3>2 DEF AlertInv, Carries
    <3>4. m.incident = work.tr.incidentID
      BY <2>2, <3>3 DEF AlertFor
    <3>5. QED
      BY <1>1, <3>3, <3>4
  <2>3. QED
    BY <1>3, <2>1, <2>2, NewMail DEF AlertFor
<1>4. QED
  BY <1>2, <1>3 DEF AlertInv, RecoveryOnlyIfAlerted, Alerted

\* A RECOVERY mail about a device whose transitions all reached the disk whole
\* is about an incident whose row says that its outage was announced, whatever
\* fails and however often the process ends in between (Apply, state.go:92).
THEOREM RecoveriesAnnounced == Spec => []RecoveryOnlyIfAlerted
<1>1. Init => AlertInv
  <2> SUFFICES ASSUME Init PROVE AlertInv
    OBVIOUS
  <2>1. /\ work = Idle /\ Announcements = {}
        /\ \A d \in Devices : snaps[d].openIncidentID = NoIncident
    BY DEF Init, Fresh, NewSnapshot, Announcements
  <2>2. QED
    BY <2>1 DEF AlertInv, Remembered, Carries, RecoveryOnlyIfAlerted
<1>2. IInv /\ AlertInv /\ [Next]_vars => AlertInv'
  BY AlertInvStep
<1>3. AlertInv => RecoveryOnlyIfAlerted
  BY DEF AlertInv
<1>4. QED
  BY <1>1, <1>2, <1>3, Invariance, PTL DEF Spec

-----------------------------------------------------------------------------
(* Nothing is announced twice of a device whose outages were all written     *)
(* whole.  What the process forgets the tables still say: a resolved row for *)
(* a recovery, the first failure of the streak for an outage.                *)

Recoveries(d, id) ==
    { m \in Announcements : m.kind = "recovery" /\ m.device = d /\ m.incident = id }
Downs(d) == { m \in Announcements : m.kind = "down" /\ m.device = d }

\* The snapshot's incident, if any, is not over.
HoldsOpen(d) == ~Resolved(snaps[d].openIncidentID)

\* The evaluation that resolves an incident is the one that announces it.
RecoversOnce ==
    work # Idle /\ work.device \notin unsaved =>
        /\ work.tr.sendRecovery =>
              work.tr.closeIncident /\ ~work.tr.openIncident /\ work.pc # "open"
        /\ work.pc = "close" =>
              /\ snaps[work.device].openIncidentID = NoIncident
              /\ ~Resolved(work.tr.incidentID)
        /\ work.tr.sendRecovery
             /\ (work.pc = "dispatch" \/ (work.pc = "save" /\ work.wrote)) =>
              /\ Resolved(work.tr.incidentID)
              /\ Recoveries(work.device, work.tr.incidentID) = {}

\* A recovery is announced of a resolved incident; a snapshot names an
\* unresolved one.
RecoveredOnce ==
    /\ \A m \in Announcements :
          m.kind = "recovery" /\ m.device \notin unsaved => Resolved(m.incident)
    /\ \A d \in Devices \ unsaved : HoldsOpen(d)
    /\ RecoversOnce

\* Every outage of d announced so far began before t.
Before(d, t) == \A m \in Downs(d) : m.firstFail < t

\* The streak of failures in a snapshot or a row is of the past, and unless
\* the device is DOWN it began after every outage announced.
Newer(d, s) ==
    /\ s.firstFailureAt < now
    /\ s.status # "DOWN" /\ s.firstFailureAt # Never => Before(d, s.firstFailureAt)

\* An evaluation about to announce an outage of d announces a new one.
AnnouncesNew(d) ==
    work # Idle /\ work.device = d /\ work.tr.sendDown /\ work.pc # "mark" =>
        /\ work.tr.openIncident
        /\ snaps[d].status = "DOWN"
        /\ work.pc = "dispatch" => rows[d].status = "DOWN"
        /\ Before(d, work.tr.incidentStart)
        /\ work.tr.incidentStart < now

DownOnce(d) ==
    /\ Before(d, now)
    /\ Newer(d, snaps[d]) /\ Newer(d, rows[d])
    /\ AnnouncesNew(d)

OnceInv ==
    /\ now > Never
    /\ RecoveredOnce
    /\ \A d \in Devices \ unsaved : DownOnce(d)
    /\ NoReAlert

LEMMA UnsavedStays ==
    ASSUME [Next]_vars
    PROVE  unsaved \subseteq unsaved'
BY DEF Next, Evaluate, Lifecycle, Take, OpenIncident, CloseIncident, SaveState, Suppress,
       DispatchDown, MarkIncidentAlerted, DispatchRecovery, DispatchReminder, Flush,
       Stop, FinalFlush, Crash, Start, vars

\* The ids that snapshots name after a step.
LEMMA SnapsName ==
    ASSUME TypeOK, Halted, [Next]_vars, NEW d \in Devices
    PROVE  \/ snaps'[d].openIncidentID \in {NoIncident, snaps[d].openIncidentID}
           \/ OpenIncident /\ snaps'[d].openIncidentID \notin DOMAIN incidents
           \/ Start /\ snaps'[d].openIncidentID \in OpenIncidents(d)
<1>1. CASE UNCHANGED snaps
  BY <1>1
<1>2. ASSUME NEW e \in Devices, NEW class \in Class, NEW eff \in Effectives,
             Take(e, class, eff)
      PROVE  snaps'[d].openIncidentID \in {NoIncident, snaps[d].openIncidentID}
  <2>1. PICK snap \in Snapshot, tr \in Transition :
           /\ Folded(snaps[e], now, snap, tr)
           /\ snaps' = [snaps EXCEPT ![e] = snap]
    BY <1>2, TakeFolds
  <2>2. QED
    BY <2>1 DEF TypeOK, Folded
<1>3. CASE OpenIncident /\ snaps' # snaps
  <2>1. PICK n \in Nat \ {0} :
           /\ n \notin DOMAIN incidents
           /\ snaps' = [snaps EXCEPT ![work.device].openIncidentID = n]
    BY <1>3, RowInserted
  <2>2. CASE d = work.device
    <3>1. snaps'[d] = [snaps[d] EXCEPT !.openIncidentID = n] /\ snaps[d] \in Snapshot
      BY <2>1, <2>2 DEF TypeOK
    <3>2. snaps'[d].openIncidentID = n
      BY <3>1 DEF Snapshot
    <3>3. QED
      BY <1>3, <2>1, <3>2
  <2>3. CASE d # work.device
    BY <2>1, <2>3 DEF TypeOK
  <2>4. QED
    BY <2>2, <2>3
<1>4. CASE FinalFlush \/ Crash
  BY <1>4 DEF FinalFlush, Crash, Fresh, NewSnapshot
<1>5. CASE Start
  <2>1. snaps'[d] = Loaded(d)
    BY <1>5 DEF Start
  <2>2. QED
    BY <1>5, <2>1, LoadedType
<1>6. QED
  BY <1>1, <1>2, <1>3, <1>4, <1>5
  DEF Next, Evaluate, Lifecycle, CloseIncident, SaveState, Suppress, DispatchDown,
      MarkIncidentAlerted, DispatchRecovery, DispatchReminder, Flush, Stop, vars, memory

\* What DispatchRecovery announces.
LEMMA RecoverySent ==
    ASSUME TypeOK, RecoveredOnce, DispatchRecovery, work.device \notin unsaved
    PROVE  /\ work # Idle /\ work.pc = "dispatch" /\ work.tr.sendRecovery
           /\ AlertFor("recovery", work.tr.incidentStart).incident = work.tr.incidentID
           /\ Resolved(work.tr.incidentID)
           /\ Recoveries(work.device, work.tr.incidentID) = {}
<1>1. work # Idle /\ work.pc = "dispatch" /\ work.tr.sendRecovery
  BY IdleHasNoStep DEF DispatchRecovery
<1>2. /\ Resolved(work.tr.incidentID)
      /\ Recoveries(work.device, work.tr.incidentID) = {}
  BY <1>1 DEF RecoveredOnce, RecoversOnce
<1>3. work.tr.incidentID # NoIncident
  BY <1>2, LenProperties DEF Resolved, TypeOK, NoIncident
<1>4. QED
  BY <1>1, <1>2, <1>3 DEF AlertFor

\* Snapshots name unresolved incidents.
LEMMA HoldsOpenStep ==
    ASSUME IInv, RecoveredOnce, [Next]_vars, NEW d \in Devices \ unsaved
    PROVE  HoldsOpen(d)'
<1>1. /\ TypeOK /\ TypeOK' /\ Halted /\ SnapsOwned /\ WorkOwned
      /\ \A id : Resolved(id)' =>
             Resolved(id) \/ (CloseIncident /\ id = work.tr.incidentID)
  BY RowsStep, TypeStep DEF IInv
<1>2. PICK id : id = snaps'[d].openIncidentID
  OBVIOUS
<1>3. SUFFICES ASSUME Resolved(id)'
               PROVE  FALSE
  BY <1>2 DEF HoldsOpen, Resolved
<1>4. id # NoIncident
  BY <1>1, <1>3, LenProperties DEF Resolved, TypeOK, NoIncident
<1>5. CASE id = snaps[d].openIncidentID
  <2>1. ~Resolved(id)
    BY <1>5 DEF RecoveredOnce, HoldsOpen
  <2>2. CloseIncident /\ id = work.tr.incidentID
    BY <1>1, <1>3, <2>1
  <2>3. /\ work # Idle /\ work.pc = "close" /\ Owned(work.device, id)
    BY <1>1, <1>4, <2>2, IdleHasNoStep DEF CloseIncident, WorkOwned
  <2>4. Owned(d, id)
    BY <1>1, <1>4, <1>5 DEF SnapsOwned
  <2>5. d = work.device
    BY <2>3, <2>4 DEF Owned
  <2>6. QED
    BY <1>4, <1>5, <2>3, <2>5 DEF RecoveredOnce, RecoversOnce
<1>6. CASE OpenIncident /\ id \notin DOMAIN incidents
  <2>1. ~Resolved(id) /\ ~CloseIncident
    BY <1>6 DEF Resolved, OpenIncident, CloseIncident
  <2>2. QED
    BY <1>1, <1>3, <2>1
<1>7. CASE Start /\ id \in OpenIncidents(d)
  <2>1. ~Resolved(id) /\ incidents' = incidents
    BY <1>7 DEF OpenIncidents, Resolved, Start, disk
  <2>2. QED
    BY <1>3, <2>1 DEF Resolved
<1>8. QED
  BY <1>1, <1>2, <1>4, <1>5, <1>6, <1>7, SnapsName

\* A device whose outage is written whole stays saved.
LEMMA SavedWhole ==
    ASSUME TypeOK, SaveState, work \in Work, work.device \notin unsaved',
           TouchesIncident(work.tr)
    PROVE  work.wrote /\ rows'[work.device].status = snaps[work.device].status
<1>1. /\ work.device \in Devices
      /\ work.device \notin unsaved'
  BY DEF Work
<1>2. work.wrote /\ CanWrite
  BY <1>1 DEF SaveState
<1>3. rows' = [rows EXCEPT ![work.device] =
                  [ status               |-> snaps[work.device].status,
                    consecutiveFailures  |-> snaps[work.device].consecutiveFailures,
                    consecutiveSuccesses |-> snaps[work.device].consecutiveSuccesses,
                    firstFailureAt       |-> snaps[work.device].firstFailureAt ]]
  BY <1>1 DEF SaveState
<1>4. QED
  BY <1>1, <1>2, <1>3 DEF TypeOK

\* The evaluation.
LEMMA RecoversOnceStep ==
    ASSUME IInv, RecoveredOnce, [Next]_vars
    PROVE  RecoversOnce'
<1>1. /\ TypeOK /\ Halted /\ WorkOwned /\ RecoversOnce
      /\ unsaved \subseteq unsaved'
  BY UnsavedStays DEF IInv, RecoveredOnce
<1>2. ASSUME NEW d \in Devices, NEW class \in Class, NEW eff \in Effectives,
             Take(d, class, eff)
      PROVE  RecoversOnce'
  <2>1. PICK snap \in Snapshot, tr \in Transition :
           /\ Folded(snaps[d], now, snap, tr)
           /\ snaps' = [snaps EXCEPT ![d] = snap]
           /\ work' = IF tr.ignored THEN Idle
                      ELSE [ pc |-> FirstStep(tr), device |-> d, at |-> now,
                             tr |-> tr, wrote |-> FALSE ]
           /\ UNCHANGED incidents
    BY <1>1, <1>2, TakeFolds
  <2>2. work' # Idle =>
           /\ work'.device = d /\ work'.tr = tr /\ work'.pc = FirstStep(tr)
           /\ snaps'[d] = snap
    BY <1>1, <2>1 DEF TypeOK
  <2>3. /\ tr.sendRecovery =>
              tr.closeIncident /\ ~tr.openIncident /\ FirstStep(tr) = "close"
        /\ FirstStep(tr) = "close" =>
              snap.openIncidentID = NoIncident /\ tr.incidentID = snaps[d].openIncidentID
    BY <2>1 DEF Folded, FirstStep
  <2>4. d \notin unsaved' => ~Resolved(snaps[d].openIncidentID)
    BY <1>1 DEF RecoveredOnce, HoldsOpen
  <2>5. d \in unsaved' \/ ~Resolved(tr.incidentID) \/ tr.incidentID # snaps[d].openIncidentID
    BY <2>4
  <2>6. d \in unsaved' \/ ~Resolved(tr.incidentID)' \/ tr.incidentID # snaps[d].openIncidentID
    BY <2>1, <2>5 DEF Resolved
  <2>7. QED
    BY <2>2, <2>3, <2>6 DEF RecoversOnce, Resolved
<1>3. CASE work # Idle /\ work' # Idle /\ work'.device \notin unsaved'
  <2>1. /\ work \in Work /\ work'.device = work.device
        /\ Kept(work.tr, work'.tr)
        /\ \/ UNCHANGED <<work, snaps, rows, incidents, buffer, outbox>>
           \/ OpenIncident /\ work.pc = "open" /\ work'.pc = "save"
           \/ /\ CloseIncident /\ work.pc = "close" /\ work'.pc = "save"
              /\ work'.tr = work.tr
           \/ /\ SaveState /\ work.pc = "save" /\ work'.pc = "dispatch"
              /\ work'.tr = work.tr
           \/ DispatchDown /\ work.pc = "dispatch" /\ work'.pc = "mark"
    BY <1>1, <1>3, WorkStep
  <2>2. work.tr.sendRecovery =>
           work.tr.closeIncident /\ ~work.tr.openIncident /\ work.pc # "open"
    BY <1>1, <1>3, <2>1 DEF RecoversOnce
  <2>3. CASE UNCHANGED <<work, snaps, rows, incidents, buffer, outbox>>
    BY <1>1, <1>3, <2>3 DEF RecoversOnce, Resolved, Recoveries, Announcements
  <2>4. CASE work.pc = "open" /\ work'.pc = "save"
    BY <2>1, <2>2, <2>4 DEF RecoversOnce, Kept
  <2>5. CASE CloseIncident /\ work'.pc = "save" /\ work'.tr = work.tr
    <3>1. PICK id, d : id = work.tr.incidentID /\ d = work.device
      OBVIOUS
    <3>2. /\ ~Resolved(id) /\ id \in DOMAIN incidents
          /\ work.tr.sendRecovery \in BOOLEAN
          /\ d \notin unsaved
      BY <1>1, <1>3, <2>1, <2>5, <3>1, OwnedNow DEF RecoversOnce, CloseIncident
    <3>3. CASE work'.wrote
      <4>0. work.pc = "close" /\ ~work.wrote
        BY <1>1, <1>3, <2>5 DEF WorkOwned, CloseIncident
      <4>1. incidents' = Resolve(id, work.tr.sendRecovery)
        <5>1. CASE work' = [work EXCEPT !.pc = "save"]
          BY <2>1, <3>3, <4>0, <5>1 DEF Work
        <5>2. QED
          BY <2>5, <3>1, <3>2, <5>1 DEF CloseIncident, Resolved
      <4>2. Resolved(id)'
        BY <1>1, <3>2, <4>1, ResolveRow DEF Resolved
      <4>3. Recoveries(d, id)' = {}
        BY <1>1, <2>5, <3>2 DEF Recoveries, RecoveredOnce, CloseIncident, Announcements
      <4>4. id = work'.tr.incidentID /\ d = work'.device
        BY <2>1, <2>5, <3>1
      <4>5. QED
        BY <2>1, <2>2, <2>5, <4>2, <4>3, <4>4 DEF RecoversOnce, Resolved, Recoveries
    <3>4. CASE ~work'.wrote
      BY <2>2, <2>5, <3>4 DEF RecoversOnce
    <3>5. QED
      BY <3>3, <3>4
  <2>6. CASE SaveState /\ work.pc = "save" /\ work'.pc = "dispatch" /\ work'.tr = work.tr
    <3>1. UNCHANGED <<incidents, buffer, outbox>>
      BY <2>6 DEF SaveState
    <3>2. PICK id, d : /\ id = work.tr.incidentID /\ id = work'.tr.incidentID
                      /\ d = work.device /\ d = work'.device
      BY <2>1, <2>6
    <3>3. Resolved(id)' = Resolved(id) /\ Recoveries(d, id)' = Recoveries(d, id)
      BY <3>1 DEF Resolved, Recoveries, Announcements
    <3>4. work.tr.sendRecovery => work.wrote
      BY <1>1, <1>3, <2>1, <2>2, <2>6, SavedWhole DEF TouchesIncident
    <3>5. work.tr.sendRecovery => Resolved(id)' /\ Recoveries(d, id)' = {}
      BY <1>1, <1>3, <2>1, <2>6, <3>2, <3>3, <3>4 DEF RecoversOnce
    <3>6. QED
      BY <2>2, <2>6, <3>2, <3>5 DEF RecoversOnce, Resolved, Recoveries
  <2>7. CASE work'.pc = "mark"
    BY <2>1, <2>2, <2>7 DEF RecoversOnce, Kept
  <2>8. QED
    BY <2>1, <2>3, <2>4, <2>5, <2>6, <2>7
<1>4. CASE work' = Idle \/ work'.device \in unsaved'
  BY <1>4 DEF RecoversOnce
<1>5. CASE work = Idle /\ UNCHANGED work
  BY <1>4, <1>5
<1>6. QED
  BY <1>2, <1>3, <1>4, <1>5, IdleHasNoStep
  DEF Next, Evaluate, Lifecycle, OpenIncident, CloseIncident, SaveState, Suppress,
      DispatchDown, MarkIncidentAlerted, DispatchRecovery, DispatchReminder, Flush,
      Stop, FinalFlush, Crash, Start, vars, memory

LEMMA RecoveredOnceStep ==
    ASSUME IInv, RecoveredOnce, [Next]_vars
    PROVE  RecoveredOnce'
<1>1. /\ TypeOK /\ \A id : Resolved(id) => Resolved(id)'
      /\ unsaved \subseteq unsaved'
  BY RowsStep, UnsavedStays DEF IInv
<1>2. ASSUME NEW m \in Announcements', m.kind = "recovery", m.device \notin unsaved'
      PROVE  Resolved(m.incident)'
  <2>1. CASE m \in Announcements
    BY <1>1, <1>2, <2>1 DEF RecoveredOnce
  <2>2. CASE DispatchRecovery /\ m = AlertFor("recovery", work.tr.incidentStart)
    <3>1. work.device \notin unsaved
      BY <1>1, <1>2, <2>2 DEF AlertFor
    <3>2. QED
      BY <1>1, <2>2, <3>1, RecoverySent
  <2>3. QED
    BY <1>2, <2>1, <2>2, NewMail DEF AlertFor
<1>3. QED
  BY <1>1, <1>2, HoldsOpenStep, RecoversOnceStep DEF RecoveredOnce

\* What DispatchDown announces.
LEMMA DownSent ==
    ASSUME TypeOK, DispatchDown, NEW m, m = AlertFor("down", work.tr.incidentStart)
    PROVE  /\ work # Idle /\ work \in Work /\ work.device \in Devices
           /\ work.pc = "dispatch" /\ work.tr.sendDown
           /\ m.kind = "down" /\ m.device = work.device
           /\ m.firstFail = work.tr.incidentStart /\ m.firstFail \in Nat
           /\ UNCHANGED <<now, snaps, rows>>
<1>1. work # Idle /\ work \in Work
  BY IdleHasNoStep DEF TypeOK, DispatchDown
<1>2. QED
  BY <1>1 DEF DispatchDown, AlertFor, Work, Transition

\* The outages announced after a step.
LEMMA DownsStep ==
    ASSUME TypeOK, [Next]_vars, NEW d \in Devices, NEW m \in Downs(d)'
    PROVE  \/ m \in Downs(d)
           \/ /\ DispatchDown /\ m = AlertFor("down", work.tr.incidentStart)
              /\ work.device = d
<1>1. m \in Announcements' /\ m.kind = "down" /\ m.device = d
  BY DEF Downs
<1>2. QED
  BY <1>1, NewMail, DownSent DEF Downs, AlertFor

LEMMA BeforeStays ==
    ASSUME TypeOK, [Next]_vars, NEW d \in Devices, NEW t \in Nat, Before(d, t),
           ~(DispatchDown /\ work.device = d)
    PROVE  Before(d, t)'
BY DownsStep DEF Before

LEMMA BeforeLater ==
    ASSUME TypeOK, NEW d \in Devices, NEW t \in Nat, NEW u \in Nat, Before(d, t), t <= u
    PROVE  Before(d, u)
<1>1. \A m \in Downs(d) : m.firstFail \in Nat
  BY DEF Downs, Announcements, TypeOK, Alert
<1>2. QED
  BY <1>1 DEF Before

LEMMA ClockStep ==
    ASSUME TypeOK, [Next]_vars
    PROVE  now' \in Nat /\ now <= now'
           /\ (now' = now \/ \E d \in Devices, class \in Class, eff \in Effectives :
                                Take(d, class, eff))
<1>1. now \in Nat
  BY DEF TypeOK
<1>2. CASE UNCHANGED now
  BY <1>1, <1>2
<1>3. ASSUME NEW d \in Devices, NEW class \in Class, NEW eff \in Effectives,
             Take(d, class, eff)
      PROVE  now' = now + 1
  BY <1>3 DEF Take
<1>4. QED
  BY <1>1, <1>2, <1>3
  DEF Next, Evaluate, Lifecycle, OpenIncident, CloseIncident, SaveState, Suppress,
      DispatchDown, MarkIncidentAlerted, DispatchRecovery, DispatchReminder, Flush,
      Stop, FinalFlush, Crash, Start, vars

\* Every outage announced is of the past.
LEMMA BeforeNowStep ==
    ASSUME TypeOK, now > Never, [Next]_vars, NEW d \in Devices, DownOnce(d)
    PROVE  Before(d, now)'
<1>1. /\ now \in Nat /\ now' \in Nat /\ now <= now' /\ Before(d, now)
  BY ClockStep DEF TypeOK, DownOnce
<1>2. SUFFICES ASSUME NEW m \in Downs(d)'
               PROVE  m.firstFail < now'
  BY DEF Before
<1>3. CASE m \in Downs(d)
  <2>1. m.firstFail < now /\ m.firstFail \in Nat
    BY <1>1, <1>3 DEF Before, Downs, Announcements, TypeOK, Alert
  <2>2. QED
    BY <1>1, <2>1
<1>4. CASE DispatchDown /\ m = AlertFor("down", work.tr.incidentStart)
           /\ work.device = d
  <2>1. /\ work # Idle /\ work.pc = "dispatch" /\ work.tr.sendDown
        /\ m.firstFail = work.tr.incidentStart /\ now' = now
    BY <1>4, DownSent
  <2>2. QED
    BY <1>4, <2>1 DEF DownOnce, AnnouncesNew
<1>5. QED
  BY <1>3, <1>4, DownsStep

\* A snapshot or a row that a step leaves alone.
LEMMA NewerStays ==
    ASSUME TypeOK, [Next]_vars, NEW d \in Devices,
           NEW s, s.firstFailureAt \in Nat, Newer(d, s),
           DispatchDown /\ work.device = d => s.status = "DOWN"
    PROVE  /\ s.firstFailureAt < now'
           /\ s.status # "DOWN" /\ s.firstFailureAt # Never =>
                 Before(d, s.firstFailureAt)'
<1>1. /\ now \in Nat /\ now' \in Nat /\ now <= now'
  BY ClockStep DEF TypeOK
<1>2. s.firstFailureAt < now'
  BY <1>1 DEF Newer
<1>3. QED
  BY <1>2, BeforeStays DEF Newer

\* While an outage of d is being announced its snapshot and its row are DOWN.
LEMMA DownMeanwhile ==
    ASSUME TypeOK, DispatchDown, work # Idle => DownOnce(work.device)
    PROVE  snaps[work.device].status = "DOWN" /\ rows[work.device].status = "DOWN"
<1>1. PICK m : m = AlertFor("down", work.tr.incidentStart)
  OBVIOUS
<1>2. /\ work # Idle /\ work.device \in Devices
      /\ work.pc = "dispatch" /\ work.tr.sendDown
  BY <1>1, DownSent
<1>3. QED
  BY <1>2 DEF DownOnce, AnnouncesNew

LEMMA NewerSnapsStep ==
    ASSUME TypeOK, Halted, now > Never, [Next]_vars, NEW d \in Devices, DownOnce(d)
    PROVE  Newer(d, snaps[d])'
<1>1. /\ now \in Nat /\ now' \in Nat /\ now <= now' /\ now > Never
      /\ Newer(d, snaps[d]) /\ Newer(d, rows[d]) /\ Before(d, now)
      /\ snaps[d].firstFailureAt \in Nat /\ rows[d].firstFailureAt \in Nat
  BY ClockStep DEF TypeOK, DownOnce, Snapshot, Row
<1>2. CASE /\ snaps'[d].firstFailureAt = snaps[d].firstFailureAt
           /\ snaps'[d].status = snaps[d].status
  <2>1. PICK s : s = snaps[d]
    OBVIOUS
  <2>2. DispatchDown /\ work.device = d => s.status = "DOWN"
    BY <2>1, DownMeanwhile
  <2>3. /\ s.firstFailureAt < now'
        /\ s.status # "DOWN" /\ s.firstFailureAt # Never =>
              Before(d, s.firstFailureAt)'
    BY <1>1, <2>1, <2>2, NewerStays
  <2>4. PICK t : t = snaps'[d]
    OBVIOUS
  <2>5. t.firstFailureAt = s.firstFailureAt /\ t.status = s.status
    BY <1>2, <2>1, <2>4
  <2>6. QED
    BY <2>3, <2>4, <2>5 DEF Newer, Before, Downs, Announcements
<1>3. CASE snaps'[d].firstFailureAt = Never
  BY <1>1, <1>3 DEF Newer, Never
<1>4. ASSUME NEW class \in Class, NEW eff \in Effectives, Take(d, class, eff)
      PROVE  Newer(d, snaps[d])'
  <2>1. PICK snap \in Snapshot, tr \in Transition :
           /\ Folded(snaps[d], now, snap, tr)
           /\ snaps' = [snaps EXCEPT ![d] = snap]
           /\ now' = now + 1
           /\ UNCHANGED <<buffer, outbox>>
    BY <1>4, TakeFolds
  <2>2. snaps'[d] = snap
    BY <2>1 DEF TypeOK
  <2>3. PICK t \in Nat : t = snap.firstFailureAt
    BY DEF Snapshot
  <2>4. t \in {Never, now, snaps[d].firstFailureAt}
        /\ (snap.status # "DOWN" /\ snaps[d].status = "DOWN" => t = Never)
    BY <2>1, <2>3 DEF Folded
  <2>5. t < now'
    BY <1>1, <2>1, <2>4 DEF Newer
  <2>6. snap.status # "DOWN" /\ t # Never => Before(d, t)
    BY <1>1, <2>4 DEF Newer
  <2>7. Before(d, t)' = Before(d, t)
    BY <2>1 DEF Before, Downs, Announcements
  <2>8. QED
    BY <2>2, <2>3, <2>5, <2>6, <2>7 DEF Newer, Before, Downs, Announcements
<1>5. CASE OpenIncident
  <2>1. \/ snaps' = snaps
        \/ \E n : snaps' = [snaps EXCEPT ![work.device].openIncidentID = n]
    BY <1>5 DEF OpenIncident
  <2>2. ASSUME NEW n, snaps' = [snaps EXCEPT ![work.device].openIncidentID = n]
        PROVE  /\ snaps'[d].firstFailureAt = snaps[d].firstFailureAt
               /\ snaps'[d].status = snaps[d].status
    BY <2>2 DEF TypeOK, Snapshot
  <2>3. QED
    BY <1>2, <2>1, <2>2
<1>6. CASE FinalFlush \/ Crash
  BY <1>3, <1>6 DEF FinalFlush, Crash, Fresh, NewSnapshot
<1>7. CASE Start
  <2>1. PICK s : s = rows[d]
    OBVIOUS
  <2>2. PICK t : t = snaps'[d]
    OBVIOUS
  <2>3. t.status = s.status /\ t.firstFailureAt = s.firstFailureAt
    BY <1>7, <2>1, <2>2, LoadedType DEF Start
  <2>4. DispatchDown /\ work.device = d => s.status = "DOWN"
    BY <2>1, DownMeanwhile
  <2>5. /\ s.firstFailureAt < now'
        /\ s.status # "DOWN" /\ s.firstFailureAt # Never =>
              Before(d, s.firstFailureAt)'
    BY <1>1, <2>1, <2>4, NewerStays
  <2>6. QED
    BY <2>2, <2>3, <2>5 DEF Newer, Before, Downs, Announcements
<1>8. ASSUME NEW e \in Devices, e # d, NEW class \in Class, NEW eff \in Effectives,
             Take(e, class, eff)
      PROVE  snaps'[d] = snaps[d]
  BY <1>8, TakeFolds DEF TypeOK
<1>9. QED
  BY <1>2, <1>4, <1>5, <1>6, <1>7, <1>8
  DEF Next, Evaluate, Lifecycle, CloseIncident, SaveState, Suppress, DispatchDown,
      MarkIncidentAlerted, DispatchRecovery, DispatchReminder, Flush, Stop, vars, memory

\* SaveState copies the snapshot's status and streak to the row.
LEMMA RowsAfter ==
    ASSUME TypeOK, [Next]_vars, NEW d \in Devices
    PROVE  \/ rows'[d] = rows[d]
           \/ /\ SaveState
              /\ rows'[d].status = snaps[d].status
              /\ rows'[d].firstFailureAt = snaps[d].firstFailureAt
<1>1. CASE UNCHANGED rows
  BY <1>1
<1>2. CASE SaveState
  BY <1>2 DEF SaveState, TypeOK
<1>3. QED
  BY <1>1, <1>2
  DEF Next, Evaluate, Lifecycle, Take, OpenIncident, CloseIncident, Suppress,
      DispatchDown, MarkIncidentAlerted, DispatchRecovery, DispatchReminder, Flush,
      Stop, FinalFlush, Crash, Start, vars, disk

LEMMA NewerRowsStep ==
    ASSUME TypeOK, now > Never, [Next]_vars, NEW d \in Devices, DownOnce(d)
    PROVE  Newer(d, rows[d])'
<1>1. /\ Newer(d, snaps[d]) /\ Newer(d, rows[d])
      /\ snaps[d].firstFailureAt \in Nat /\ rows[d].firstFailureAt \in Nat
  BY DEF TypeOK, DownOnce, Snapshot, Row
<1>2. PICK t : t = rows'[d]
  OBVIOUS
<1>3. PICK s : /\ s \in {rows[d], snaps[d]}
               /\ t.status = s.status /\ t.firstFailureAt = s.firstFailureAt
  BY <1>2, RowsAfter
<1>4. DispatchDown /\ work.device = d => s.status = "DOWN"
  BY <1>3, DownMeanwhile
<1>5. /\ s.firstFailureAt < now'
      /\ s.status # "DOWN" /\ s.firstFailureAt # Never =>
            Before(d, s.firstFailureAt)'
  BY <1>1, <1>3, <1>4, NewerStays
<1>6. QED
  BY <1>2, <1>3, <1>5 DEF Newer, Before, Downs, Announcements

LEMMA AnnouncesNewStep ==
    ASSUME IInv, now > Never, [Next]_vars, NEW d \in Devices, DownOnce(d),
           d \notin unsaved'
    PROVE  AnnouncesNew(d)'
<1>1. /\ TypeOK /\ Halted
      /\ now \in Nat /\ now' \in Nat /\ now <= now' /\ Before(d, now) /\ now > Never
      /\ AnnouncesNew(d) /\ Newer(d, snaps[d])
  BY ClockStep DEF IInv, TypeOK, DownOnce
<1>2. SUFFICES ASSUME work' # Idle, work'.device = d, work'.tr.sendDown,
                      work'.pc # "mark"
               PROVE  AnnouncesNew(d)'
  BY DEF AnnouncesNew
<1>3. ASSUME NEW e \in Devices, NEW class \in Class, NEW eff \in Effectives,
             Take(e, class, eff)
      PROVE  AnnouncesNew(d)'
  <2>1. PICK snap \in Snapshot, tr \in Transition :
           /\ Folded(snaps[e], now, snap, tr)
           /\ snaps' = [snaps EXCEPT ![e] = snap]
           /\ work' = IF tr.ignored THEN Idle
                      ELSE [ pc |-> FirstStep(tr), device |-> e, at |-> now,
                             tr |-> tr, wrote |-> FALSE ]
           /\ now' = now + 1
           /\ UNCHANGED <<buffer, outbox>>
    BY <1>1, <1>3, TakeFolds
  <2>2. /\ e = d /\ work'.tr = tr /\ work'.pc = FirstStep(tr)
        /\ snaps'[d] = snap
    BY <1>1, <1>2, <2>1 DEF TypeOK
  <2>3. PICK t : t = tr.incidentStart
    OBVIOUS
  <2>4. /\ snap.status = "DOWN" /\ snaps[d].status # "DOWN" /\ tr.openIncident
        /\ t = IF snaps[d].firstFailureAt = Never THEN now ELSE snaps[d].firstFailureAt
    BY <1>2, <2>1, <2>2, <2>3 DEF Folded
  <2>5. work'.pc = "open"
    BY <2>2, <2>4 DEF FirstStep
  <2>6. Before(d, t) /\ t < now'
    BY <1>1, <2>1, <2>4 DEF Newer
  <2>7. Before(d, t)'
    BY <2>1, <2>6 DEF Before, Downs, Announcements
  <2>8. t = work'.tr.incidentStart
    BY <2>2, <2>3
  <2>9. QED
    BY <2>2, <2>4, <2>5, <2>6, <2>7, <2>8 DEF AnnouncesNew, Before, Downs, Announcements
<1>4. CASE work # Idle
  <2>1. /\ work \in Work /\ work.device = d
        /\ Kept(work.tr, work'.tr)
        /\ \/ UNCHANGED <<work, snaps, rows, incidents, buffer, outbox>>
           \/ OpenIncident /\ work.pc = "open" /\ work'.pc = "save"
           \/ CloseIncident /\ work.pc = "close" /\ work'.pc = "save"
           \/ SaveState /\ work.pc = "save" /\ work'.pc = "dispatch"
    BY <1>1, <1>2, <1>4, WorkStep
  <2>2. PICK t \in Nat : t = work.tr.incidentStart /\ t = work'.tr.incidentStart
    BY <2>1 DEF Kept, Work, Transition
  <2>3. work.tr.sendDown /\ work.pc # "mark" /\ ~DispatchDown
    <3>1. work.tr.sendDown /\ work.pc # "mark"
      BY <1>2, <2>1 DEF Kept
    <3>2. ASSUME DispatchDown
          PROVE  work'.pc = "mark"
      <4>1. PICK n : work' = [work EXCEPT !.pc = "mark", !.tr.incidentID = n]
        BY <1>2, <3>2 DEF DispatchDown
      <4>2. QED
        BY <2>1, <4>1 DEF Work
    <3>3. QED
      BY <1>2, <3>1, <3>2
  <2>4. /\ snaps[d].status = "DOWN" /\ Before(d, t) /\ t < now
        /\ work.tr.openIncident /\ work'.tr.openIncident
        /\ work.pc = "dispatch" => rows[d].status = "DOWN"
    BY <1>1, <1>2, <1>4, <2>1, <2>2, <2>3 DEF AnnouncesNew, Kept
  <2>5. Before(d, t)' /\ t < now'
    BY <1>1, <2>3, <2>4, BeforeStays
  <2>6. snaps'[d].status = "DOWN"
    <3>1. CASE UNCHANGED snaps
      BY <2>4, <3>1
    <3>2. CASE OpenIncident
      <4>1. \/ snaps' = snaps
            \/ \E n : snaps' = [snaps EXCEPT ![d].openIncidentID = n]
        BY <2>1, <3>2 DEF OpenIncident
      <4>2. ASSUME NEW n, snaps' = [snaps EXCEPT ![d].openIncidentID = n]
            PROVE  snaps'[d].status = snaps[d].status
        BY <1>1, <4>2 DEF TypeOK, Snapshot
      <4>3. QED
        BY <2>4, <4>1, <4>2
    <3>3. QED
      BY <2>1, <3>1, <3>2 DEF CloseIncident, SaveState
  <2>7. work'.pc = "dispatch" => rows'[d].status = "DOWN"
    <3>1. CASE UNCHANGED <<work, rows>>
      BY <2>4, <3>1
    <3>2. CASE SaveState
      <4>1. rows'[d].status = snaps[d].status
        BY <1>1, <2>1, <2>4, <3>2, SavedWhole DEF TouchesIncident
      <4>2. QED
        BY <2>4, <4>1
    <3>3. QED
      BY <2>1, <3>1, <3>2
  <2>8. QED
    BY <2>2, <2>4, <2>5, <2>6, <2>7 DEF AnnouncesNew, Before, Downs, Announcements
<1>5. CASE work = Idle
  BY <1>2, <1>3, <1>5, IdleHasNoStep
  DEF Next, Evaluate, Lifecycle, OpenIncident, CloseIncident, SaveState, Suppress,
      DispatchDown, MarkIncidentAlerted, DispatchRecovery, DispatchReminder, Flush,
      Stop, FinalFlush, Crash, Start, vars, memory
<1>6. QED
  BY <1>4, <1>5

LEMMA NoReAlertStep ==
    ASSUME TypeOK, OnceInv, [Next]_vars
    PROVE  NoReAlert'
<1>1. /\ RecoveredOnce /\ \A d \in Devices \ unsaved : DownOnce(d)
      /\ unsaved \subseteq unsaved'
      /\ \A m, n \in Announcements : m.device = n.device /\ m.device \notin unsaved =>
            /\ m.kind = "down" /\ n.kind = "down" /\ m.firstFail = n.firstFail => m = n
            /\ m.kind = "recovery" /\ n.kind = "recovery"
                 /\ m.incident = n.incident => m = n
  BY UnsavedStays DEF OnceInv, NoReAlert
<1>2. ASSUME NEW m \in Announcements', NEW n \in Announcements',
             m.device = n.device, m.device \notin unsaved',
             m.kind = "recovery", n.kind = "recovery", m.incident = n.incident
      PROVE  m = n
  <2>1. PICK new : new = AlertFor("recovery", work.tr.incidentStart)
    OBVIOUS
  <2>2. ASSUME NEW x \in Announcements', x.kind = "recovery"
        PROVE  x \in Announcements \/ (DispatchRecovery /\ x = new)
    BY <2>1, <2>2, NewMail DEF AlertFor
  <2>3. DispatchRecovery /\ new.device \notin unsaved => \A x \in Announcements :
           x.kind = "recovery" /\ x.device = new.device => x.incident # new.incident
    <3>1. new.device = work.device
      BY <2>1 DEF AlertFor
    <3>2. QED
      BY <1>1, <2>1, <3>1, RecoverySent DEF Recoveries
  <2>4. m.device \notin unsaved
    BY <1>1, <1>2
  <2>5. QED
    BY <1>1, <1>2, <2>2, <2>3, <2>4
<1>3. ASSUME NEW m \in Announcements', NEW n \in Announcements',
             m.device = n.device, m.device \notin unsaved',
             m.kind = "down", n.kind = "down", m.firstFail = n.firstFail
      PROVE  m = n
  <2>1. PICK new : new = AlertFor("down", work.tr.incidentStart)
    OBVIOUS
  <2>2. ASSUME NEW x \in Announcements', x.kind = "down"
        PROVE  x \in Announcements \/ (DispatchDown /\ x = new)
    BY <2>1, <2>2, NewMail DEF AlertFor
  <2>3. ASSUME DispatchDown, new.device \notin unsaved,
               NEW x \in Announcements, x.kind = "down", x.device = new.device
        PROVE  x.firstFail # new.firstFail
    <3>1. /\ work # Idle /\ work.device \in Devices /\ work.pc = "dispatch"
          /\ work.tr.sendDown /\ new.device = work.device
          /\ new.firstFail = work.tr.incidentStart /\ new.firstFail \in Nat
      BY <2>1, <2>3, DownSent
    <3>2. Before(work.device, new.firstFail)
      BY <1>1, <2>3, <3>1 DEF DownOnce, AnnouncesNew
    <3>3. x.firstFail < new.firstFail /\ x.firstFail \in Nat
      BY <2>3, <3>1, <3>2 DEF Before, Downs, Announcements, TypeOK, Alert
    <3>4. QED
      BY <3>1, <3>3
  <2>4. m.device \notin unsaved
    BY <1>1, <1>2, <1>3
  <2>5. QED
    BY <1>1, <1>3, <2>2, <2>3, <2>4
<1>4. QED
  BY <1>2, <1>3 DEF NoReAlert

LEMMA OnceInvStep ==
    ASSUME IInv, OnceInv, [Next]_vars
    PROVE  OnceInv'
<1>1. /\ now > Never /\ RecoveredOnce /\ \A d \in Devices \ unsaved : DownOnce(d)
      /\ TypeOK /\ Halted /\ unsaved \subseteq unsaved'
  BY UnsavedStays DEF OnceInv, IInv
<1>2. RecoveredOnce' /\ NoReAlert'
  BY <1>1, RecoveredOnceStep, NoReAlertStep
<1>3. now' > Never
  BY <1>1, ClockStep DEF TypeOK, Never
<1>4. ASSUME NEW d \in Devices, d \notin unsaved'
      PROVE  DownOnce(d)'
  <2>1. DownOnce(d)
    BY <1>1, <1>4
  <2>2. QED
    BY <1>1, <1>4, <2>1, BeforeNowStep, NewerSnapsStep, NewerRowsStep, AnnouncesNewStep
    DEF DownOnce
<1>5. QED
  BY <1>2, <1>3, <1>4 DEF OnceInv

\* No outage, told by the instant of its first failure, is announced twice, and
\* no incident has two recoveries, of a device each of whose outages had both
\* its rows written before its mail, whatever fails and however often the
\* process crashes, stops and restarts in between (state.go:13).
THEOREM NeverReAlerts == Spec => []NoReAlert
<1>1. Init => OnceInv
  <2> SUFFICES ASSUME Init PROVE OnceInv
    OBVIOUS
  <2>1. /\ work = Idle /\ Announcements = {} /\ now = 1
        /\ \A d \in Devices : /\ snaps[d].openIncidentID = NoIncident
                              /\ snaps[d].firstFailureAt = Never
                              /\ rows[d].firstFailureAt = Never
        /\ incidents = << >>
    BY DEF Init, Fresh, NewSnapshot, Announcements
  <2>2. RecoveredOnce
    BY <2>1, EmptySeq DEF RecoveredOnce, HoldsOpen, RecoversOnce, Resolved
  <2>3. now > Never /\ \A d \in Devices : DownOnce(d)
    BY <2>1 DEF DownOnce, Before, Downs, Newer, AnnouncesNew, Never
  <2>4. QED
    BY <2>1, <2>2, <2>3 DEF OnceInv, NoReAlert
<1>2. IInv /\ OnceInv /\ [Next]_vars => OnceInv'
  BY OnceInvStep
<1>3. OnceInv => NoReAlert
  BY DEF OnceInv
<1>4. QED
  BY <1>1, <1>2, <1>3, Invariance, PTL DEF Spec

=============================================================================
