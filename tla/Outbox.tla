------------------------------- MODULE Outbox -------------------------------
(***************************************************************************)
(* The durable outbox (store/outbox.go) and the worker that drains it       *)
(* (notify/worker.go): polling, sending, recording the outcome, backoff,    *)
(* shutdown and restart in the middle of a pass.                            *)
(*                                                                         *)
(* Only the order of next_attempt_at and its distance from now matter, so   *)
(* an unsent row is either in `ready`, oldest next_attempt_at first, or has *)
(* `wait` ticks to go; the clock itself is not kept.                        *)
(***************************************************************************)
EXTENDS Integers, FiniteSets, SequencesExt

CONSTANTS
    Mails,
    Poison,     \* mails the server refuses for ever
    Limit,      \* rows a poll takes (20)
    Backoff,    \* the retry schedule, in ticks
    MaxFaults   \* bounds crashes, failed writes and lost replies

ASSUME PoisonAssumption == Poison \subseteq Mails
ASSUME LimitAssumption == Limit \in Nat \ {0}
ASSUME BackoffAssumption == Backoff \in Seq(Nat \ {0}) /\ Backoff # <<>>
ASSUME FaultsAssumption == MaxFaults \in Nat

MaxAttempts == Len(Backoff)

\* An unbounded count, bounded: one more than a mail given up on has reached.
CountCap == MaxAttempts + 2
Bump(n)  == IF n < CountCap THEN n + 1 ELSE n

MaxWait == Max({Backoff[i] : i \in DOMAIN Backoff})

VARIABLES
    queued,      \* history: the mails ever enqueued
    ready,       \* unsent rows whose next_attempt_at has passed, oldest first
    wait,        \* ticks to next_attempt_at of the other unsent rows
    sent,        \* rows with a sent_at
    attempts,    \* the rows' attempts
    proc,        \* "up", "stopping" (context cancelled) or "down"
    worker,      \* the pass under way; see Worker
    server,      \* whether the mail server takes mail
    configured,  \* whether Worker.Config succeeds
    hist         \* history; see Hist

vars == <<queued, ready, wait, sent, attempts, proc, worker, server, configured, hist>>
db   == <<queued, ready, wait, sent, attempts>>
env  == <<server, configured>>

\* pc is what the head of due awaits: to be sent, or the record of its outcome.
\* An entry carries the attempts read by the poll.
Worker == [ pc : {"sending", "accepted", "refused"},
            due : Seq([mail : Mails, attempts : 0..CountCap]) ]
Idle == [pc |-> "sending", due |-> <<>>]

\* delivered: how often the server took each mail; excused: how many of these a
\* fault kept from being recorded; owed: ticks that must still pass, by the
\* schedule, before the mail may be sent again.
Hist == [ delivered : [Mails -> Nat], excused : [Mails -> Nat],
          owed : [Mails -> 0..MaxWait], faults : Nat ]

\* The wait the schedule asks for after the n-th failure.
Step(n) == IF n \in DOMAIN Backoff THEN Backoff[n] ELSE 0

Zero == [m \in Mails |-> 0]

TypeOK ==
    /\ queued \subseteq Mails /\ sent \subseteq queued
    /\ ready \in Seq(queued) /\ IsInjective(ready)
    /\ wait \in [Mails -> 0..MaxWait]
    /\ {m \in Mails : wait[m] > 0} \subseteq queued \ (ToSet(ready) \cup sent)
    /\ ToSet(ready) \cap sent = {}
    /\ attempts \in [Mails -> 0..CountCap]
    /\ proc \in {"up", "stopping", "down"}
    /\ worker \in Worker /\ Len(worker.due) <= Limit
    /\ {server, configured} \subseteq BOOLEAN
    /\ hist \in Hist

Init ==
    /\ queued = {} /\ ready = <<>> /\ wait = Zero /\ sent = {} /\ attempts = Zero
    /\ proc = "up" /\ worker = Idle /\ server \in BOOLEAN /\ configured \in BOOLEAN
    /\ hist = [delivered |-> Zero, excused |-> Zero, owed |-> Zero, faults |-> 0]

Current  == Head(worker.due).mail
Faulty   == hist.faults < MaxFaults
Next1    == [pc |-> "sending", due |-> Tail(worker.due)]

\* The rows that are due without m.
Unready(m) == IF m \in ToSet(ready)
              THEN RemoveAt(ready, CHOOSE i \in DOMAIN ready : ready[i] = m)
              ELSE ready

-----------------------------------------------------------------------------

\* The evaluator queues a mail, due at once; the last ones while stopping.
Enqueue(m) ==
    /\ proc # "down" /\ m \notin queued
    /\ queued' = queued \cup {m}
    /\ ready' = Append(ready, m)
    /\ UNCHANGED <<wait, sent, attempts, proc, worker, env, hist>>

\* DueAlerts
Due == LET taken == SubSeq(ready, 1, Min({Limit, Len(ready)}))
       IN  [i \in DOMAIN taken |-> [mail |-> taken[i], attempts |-> attempts[taken[i]]]]

\* Mutant: a pass without a usable configuration counts as a failed attempt.
PollBurning ==
    /\ proc = "up" /\ worker.due = <<>> /\ ready # <<>>
    /\ IF configured THEN worker' = [pc |-> "sending", due |-> Due] /\ UNCHANGED attempts
       ELSE /\ attempts' = [attempts EXCEPT ![ready[1]] = Bump(@)]
            /\ UNCHANGED worker
    /\ UNCHANGED <<queued, ready, wait, sent, proc, env, hist>>

\* drain up to its loop.  Without a usable configuration the rows stay due.
Poll ==
    /\ proc = "up" /\ worker.due = <<>> /\ ready # <<>>
    /\ configured
    /\ worker' = [pc |-> "sending", due |-> Due]
    /\ UNCHANGED <<db, proc, env, hist>>

\* drain's loop leaves a pass whose context is cancelled.
Abandon ==
    /\ proc = "stopping" /\ worker.due # <<>> /\ worker.pc = "sending"
    /\ worker' = Idle
    /\ UNCHANGED <<db, proc, env, hist>>

\* Send.  A mail can be taken and yet fail, when the reply to QUIT is lost.
Transmit ==
    /\ proc = "up" /\ worker.due # <<>> /\ worker.pc = "sending"
    /\ LET taken == [hist EXCEPT !.delivered[Current] = Bump(@)]
       IN  IF server /\ Current \notin Poison
           THEN \/ worker' = [worker EXCEPT !.pc = "accepted"] /\ hist' = taken
                \/ /\ Faulty
                   /\ worker' = [worker EXCEPT !.pc = "refused"]
                   /\ hist' = [taken EXCEPT !.excused[Current] = @ + 1, !.faults = @ + 1]
           ELSE worker' = [worker EXCEPT !.pc = "refused"] /\ UNCHANGED hist
    /\ UNCHANGED <<db, proc, env>>

\* Mutant: the poll does not ask for sent_at IS NULL.
RecordedStillDue ==
    /\ sent' = sent \cup {Current}
    /\ attempts' = [attempts EXCEPT ![Current] = Bump(@)]
    /\ UNCHANGED <<queued, ready, wait, hist>>

Recorded ==
    /\ sent' = sent \cup {Current}
    /\ ready' = Unready(Current)
    /\ attempts' = [attempts EXCEPT ![Current] = Bump(@)]
    /\ UNCHANGED <<queued, wait, hist>>

Unrecorded ==
    /\ Faulty
    /\ hist' = [hist EXCEPT !.excused[Current] = @ + 1, !.faults = @ + 1]
    /\ UNCHANGED db

\* Mutant: the record is written on the context that shutdown cancels.
MarkSentCancelled ==
    /\ worker.due # <<>> /\ worker.pc = "accepted"
    /\ worker' = Next1
    /\ IF proc = "up" THEN Recorded ELSE UNCHANGED <<db, hist>>
    /\ UNCHANGED <<proc, env>>

\* MarkSent, which a cancelled context does not stop; the database may.
MarkSent ==
    /\ worker.due # <<>> /\ worker.pc = "accepted"
    /\ worker' = Next1
    /\ Recorded \/ Unrecorded
    /\ UNCHANGED <<proc, env>>

\* Mutant: every retry waits as long as the first.
RescheduleFlat(a) ==
    /\ attempts' = [attempts EXCEPT ![a.mail] = Bump(@)]
    /\ hist' = [hist EXCEPT !.owed[a.mail] = Step(attempts[a.mail] + 1)]
    /\ IF a.attempts < MaxAttempts
       THEN /\ wait' = [wait EXCEPT ![a.mail] = Backoff[1]]
            /\ ready' = Unready(a.mail)
       ELSE UNCHANGED <<wait, ready>>
    /\ UNCHANGED <<queued, sent>>

\* MarkFailed's update.  Past the last step next_attempt_at stays as it was, so
\* the row is still the oldest one due.
Reschedule(a) ==
    /\ attempts' = [attempts EXCEPT ![a.mail] = Bump(@)]
    /\ hist' = [hist EXCEPT !.owed[a.mail] = Step(attempts[a.mail] + 1)]
    /\ IF a.attempts < MaxAttempts
       THEN /\ wait' = [wait EXCEPT ![a.mail] = Backoff[a.attempts + 1]]
            /\ ready' = Unready(a.mail)
       ELSE UNCHANGED <<wait, ready>>
    /\ UNCHANGED <<queued, sent>>

\* Mutant: a failure ends the pass.
MarkFailedEndsPass ==
    /\ worker.due # <<>> /\ worker.pc = "refused"
    /\ worker' = Idle
    /\ \/ proc = "up" /\ Reschedule(Head(worker.due))
       \/ proc = "stopping" /\ UNCHANGED <<db, hist>>
    /\ UNCHANGED <<proc, env>>

\* MarkFailed, which is lost when the context is cancelled or the database fails.
MarkFailed ==
    /\ worker.due # <<>> /\ worker.pc = "refused"
    /\ worker' = Next1
    /\ \/ proc = "up" /\ Reschedule(Head(worker.due))
       \/ proc = "stopping" /\ UNCHANGED <<db, hist>>
       \/ /\ proc = "up" /\ Faulty
          /\ hist' = [hist EXCEPT !.faults = @ + 1]
          /\ UNCHANGED db
    /\ UNCHANGED <<proc, env>>

\* Time passes, the process up or not; rows of one instant tie in any order.
Tick ==
    /\ \E m \in Mails : wait[m] > 0
    /\ wait' = [m \in Mails |-> IF wait[m] > 0 THEN wait[m] - 1 ELSE 0]
    /\ \E order \in SetToSeqs({m \in Mails : wait[m] = 1}) : ready' = ready \o order
    /\ hist' = [hist EXCEPT !.owed = [m \in Mails |-> IF @[m] > 0 THEN @[m] - 1 ELSE 0]]
    /\ UNCHANGED <<queued, sent, attempts, proc, worker, env>>

\* Mutant: old rows are pruned, delivered or given up on.
PruneAnyOld(m) ==
    /\ proc = "up" /\ (m \in sent \/ attempts[m] > MaxAttempts)
    /\ sent' = sent \ {m} /\ ready' = Unready(m)
    /\ UNCHANGED <<queued, wait, attempts, proc, worker, env, hist>>

\* The janitor's PruneSentAlerts deletes an old row.
PruneSentAlert(m) ==
    /\ proc = "up" /\ m \in sent
    /\ sent' = sent \ {m}
    /\ UNCHANGED <<queued, ready, wait, attempts, proc, worker, env, hist>>

\* The process is told to stop, has stopped, dies or is started.  Shutdown
\* waits for the pass under way; when it times out the effect is that of Crash.
Stop  == proc = "up" /\ proc' = "stopping" /\ UNCHANGED <<db, worker, env, hist>>
Exit  == /\ proc = "stopping" /\ worker.due = <<>> /\ proc' = "down"
         /\ UNCHANGED <<db, worker, env, hist>>
Start == proc = "down" /\ proc' = "up" /\ UNCHANGED <<db, worker, env, hist>>
Crash ==
    /\ proc # "down" /\ Faulty
    /\ proc' = "down" /\ worker' = Idle
    /\ hist' = IF worker.due # <<>> /\ worker.pc = "accepted"
               THEN [hist EXCEPT !.excused[Current] = @ + 1, !.faults = @ + 1]
               ELSE [hist EXCEPT !.faults = @ + 1]
    /\ UNCHANGED <<db, env>>

ServerChanges == server' = ~server /\ UNCHANGED <<db, proc, worker, configured, hist>>
Configure     == configured' = ~configured /\ UNCHANGED <<db, proc, worker, server, hist>>

Next ==
    \/ \E m \in Mails : Enqueue(m) \/ PruneSentAlert(m)
    \/ Poll \/ Abandon \/ Transmit \/ MarkSent \/ MarkFailed
    \/ Tick \/ Stop \/ Exit \/ Start \/ Crash \/ ServerChanges \/ Configure

\* The worker's goroutine is scheduled and its ticker fires (Send and the
\* database calls have time limits), and time passes.
Fairness ==
    /\ WF_vars(Poll) /\ WF_vars(Abandon) /\ WF_vars(Transmit)
    /\ WF_vars(MarkSent) /\ WF_vars(MarkFailed) /\ WF_vars(Tick)

Spec == Init /\ [][Next]_vars /\ Fairness

-----------------------------------------------------------------------------
(* Properties.                                                             *)

\* A queued mail is in the outbox until it is delivered: "Failed rows are kept
\* regardless of age" (rollups.go:253), whatever stops, crashes and failed
\* writes come between.
NothingForgotten ==
    \A m \in queued : m \in ToSet(ready) \/ wait[m] > 0 \/ hist.delivered[m] > 0

\* A mail is delivered twice only when a crash, a failed write or a lost reply
\* hid a delivery; a stop in the middle of a pass is no excuse (worker.go:86-91).
NoDuplicateByStop == \A m \in Mails : hist.delivered[m] <= 1 + hist.excused[m]

\* An attempt is counted only for a mail that was handed to the server: an
\* unusable configuration uses none up (worker.go:67-69).
AttemptsAreSends ==
    [][ \A m \in Mails : attempts'[m] # attempts[m] =>
          worker.due # <<>> /\ Current = m /\ worker.pc # "sending" ]_vars

\* Until it is given up on, a mail is sent again only when the step of the
\* schedule its recorded failures have reached has passed (outbox.go:74-85),
\* whatever stops, restarts and unrecorded failures come between.
BackoffRespected ==
    [][ \A m \in Mails :
          (/\ worker.due # <<>> /\ Current = m /\ worker.pc = "sending"
           /\ worker'.due # <<>> /\ worker'.pc # "sending")
          => hist.owed[m] = 0 ]_vars

Healthy == proc = "up" /\ server /\ configured

\* "The alert arrives late instead of never" (worker.go:17-19): once the process
\* runs, the server answers and the settings are usable for good, every queued
\* mail it does not refuse is delivered, as long as the refused ones are fewer
\* than a poll takes.
AlertArrives ==
    <>[]Healthy =>
        \A m \in Mails \ Poison : (m \in queued) ~> (hist.delivered[m] > 0)

\* "MaxAttempts is the point at which an alert stops being retried"
\* (outbox.go:87): the failure that exhausts the schedule is the last.
GivenUpIsFinal == \A m \in Mails : attempts[m] <= MaxAttempts + 1

=============================================================================
