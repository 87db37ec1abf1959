--------------------------- MODULE HeartbeatWriter ---------------------------
(***************************************************************************)
(* The path of a heartbeat from the evaluator to the table (core/core.go):  *)
(* record puts it in a bounded channel without blocking, runWriter batches  *)
(* and flushes, and Shutdown drains what is left.                          *)
(***************************************************************************)
EXTENDS Integers, FiniteSets, SequencesExt

CONSTANTS
    Devices,
    ChannelSize,   \* the heartbeat channel (1024)
    FlushSize,     \* a batch of this length is written at once (200)
    DrainSize,     \* what flushRemaining takes at most (500)
    MaxSamples,    \* bounds the heartbeats recorded
    MaxFaults      \* bounds failed transactions and shutdowns that time out

ASSUME SizesAssumption ==
    /\ {ChannelSize, FlushSize, DrainSize} \subseteq Nat \ {0}
    /\ {MaxSamples, MaxFaults} \subseteq Nat

VARIABLES
    samples,    \* history: the heartbeats recorded, by their device
    channel,    \* the channel; a heartbeat is its index in samples
    batch,      \* runWriter's batch
    table,      \* heartbeats: how many rows of each
    deleted,    \* devices deleted since; their rows went with them
    proc,       \* "up", "stopping" (context cancelled) or "closed" (database too)
    alive,      \* which of the goroutines "evaluator" and "writer" run
    gone        \* history; see Gone

vars == <<samples, channel, batch, table, deleted, proc, alive, gone>>

Samples == DOMAIN samples

\* dropped: the channel was full; failed: in a transaction that failed; cascaded:
\* deleted with their device.
Gone == [ dropped : SUBSET Nat, failed : SUBSET Nat, cascaded : SUBSET Nat,
          faults : Nat ]

TypeOK ==
    /\ samples \in Seq(Devices)
    /\ Len(samples) <= MaxSamples
    /\ channel \in Seq(Samples) /\ batch \in Seq(Samples)
    /\ table \in [1..MaxSamples -> Nat]
    /\ Len(channel) <= ChannelSize
    /\ Len(batch) < FlushSize
    /\ deleted \subseteq Devices
    /\ proc \in {"up", "stopping", "closed"}
    /\ alive \subseteq {"evaluator", "writer"}
    /\ gone \in Gone

Init ==
    /\ samples = <<>> /\ channel = <<>> /\ batch = <<>>
    /\ table = [i \in 1..MaxSamples |-> 0]
    /\ deleted = {} /\ proc = "up" /\ alive = {"evaluator", "writer"}
    /\ gone = [dropped |-> {}, failed |-> {}, cascaded |-> {}, faults |-> 0]

-----------------------------------------------------------------------------

Occurrences(s, i) == Cardinality({k \in DOMAIN s : s[k] = i})

\* InsertHeartbeats(b): one transaction, refused as a whole when a device of it
\* is gone (the foreign key), when the context is cancelled or the database
\* closed (`open` FALSE), or by a fault.  The samples are not tried again.  g is
\* the history the outcome is added to.
Insert(b, open, g) ==
    LET failed == [g EXCEPT !.failed = @ \cup ToSet(b)]
        known  == \A i \in DOMAIN b : samples[b[i]] \notin deleted
    IN  \/ /\ open /\ known /\ gone' = g
           /\ table' = [i \in DOMAIN table |-> table[i] + Occurrences(b, i)]
        \/ ~(open /\ known) /\ gone' = failed /\ UNCHANGED table
        \/ /\ open /\ known /\ g.faults < MaxFaults
           /\ gone' = [failed EXCEPT !.faults = @ + 1]
           /\ UNCHANGED table

\* Mutant: a batch waits for one heartbeat more.
FullLate(b) == Len(b) > FlushSize

Full(b) == Len(b) >= FlushSize

\* Mutant: the batch is not emptied once written.
FlushKeeping(b) == Insert(b, proc = "up", gone) /\ batch' = IF proc = "up" THEN b ELSE <<>>

\* runWriter's flush: the batch is emptied whether it was written or not.
Flush(b) == Insert(b, proc = "up", gone) /\ batch' = <<>>

\* record, on the evaluator's goroutine.  A device that was deleted is recorded
\* too, until a refresh takes it out of the set, which may be any time later.
Record(d) ==
    /\ "evaluator" \in alive /\ Len(samples) < MaxSamples
    /\ samples' = Append(samples, d)
    /\ IF Len(channel) < ChannelSize
       THEN channel' = Append(channel, Len(samples) + 1) /\ UNCHANGED gone
       ELSE gone' = [gone EXCEPT !.dropped = @ \cup {Len(samples) + 1}] /\ UNCHANGED channel
    /\ UNCHANGED <<batch, table, deleted, proc, alive>>

\* runWriter's three cases; select takes any that is ready, the stop included.
Take ==
    /\ "writer" \in alive /\ channel # <<>>
    /\ channel' = Tail(channel)
    /\ LET b == Append(batch, Head(channel))
       IN  IF Full(b) THEN Flush(b) ELSE batch' = b /\ UNCHANGED <<table, gone>>
    /\ UNCHANGED <<samples, deleted, proc, alive>>

\* Mutant: the ticker writes nothing.
FlushTickIdle == FALSE

FlushTick ==
    /\ "writer" \in alive /\ batch # <<>>
    /\ Flush(batch)
    /\ UNCHANGED <<samples, channel, deleted, proc, alive>>

WriterStops ==
    /\ proc # "up" /\ "writer" \in alive
    /\ alive' = alive \ {"writer"}
    /\ IF batch = <<>> THEN UNCHANGED <<batch, table, gone>> ELSE Flush(batch)
    /\ UNCHANGED <<samples, channel, deleted, proc>>

EvaluatorStops ==
    /\ proc # "up" /\ "evaluator" \in alive
    /\ alive' = alive \ {"evaluator"}
    /\ UNCHANGED <<samples, channel, batch, table, deleted, proc, gone>>

\* DELETE /devices/{id}; the rows go with the device.
DeleteDevice(d) ==
    /\ proc = "up" /\ d \notin deleted
    /\ deleted' = deleted \cup {d}
    /\ LET rows == {i \in Samples : table[i] > 0 /\ samples[i] = d}
       IN  /\ table' = [i \in DOMAIN table |-> IF i \in rows THEN 0 ELSE table[i]]
           /\ gone' = [gone EXCEPT !.cascaded = @ \cup rows]
    /\ UNCHANGED <<samples, channel, batch, proc, alive>>

Cancel ==
    /\ proc = "up" /\ proc' = "stopping"
    /\ UNCHANGED <<samples, channel, batch, table, deleted, alive, gone>>

\* The rest of Shutdown: flushRemaining on a fresh context, then Close, once the
\* goroutines are done or (a fault here) have not been for too long.
Finish ==
    LET n == IF Len(channel) < DrainSize THEN Len(channel) ELSE DrainSize
        g == IF alive = {} THEN gone ELSE [gone EXCEPT !.faults = @ + 1]
    IN  /\ proc = "stopping" /\ g.faults <= MaxFaults
        /\ proc' = "closed"
        /\ channel' = SubSeq(channel, n + 1, Len(channel))
        /\ Insert(SubSeq(channel, 1, n), TRUE, g)
        /\ UNCHANGED <<samples, batch, deleted, alive>>

Next ==
    \/ \E d \in Devices : Record(d) \/ DeleteDevice(d)
    \/ Take \/ FlushTick \/ WriterStops \/ EvaluatorStops
    \/ Cancel \/ Finish

\* The writer's goroutine runs and its ticker fires.
Spec == Init /\ [][Next]_vars /\ WF_vars(Take) /\ WF_vars(FlushTick)

-----------------------------------------------------------------------------
(* Properties.                                                             *)

\* Every heartbeat recorded is in one place: the channel, the batch, the table,
\* or lost for one of the three reasons.  None is written twice, whichever of
\* the writer and the shutdown gets to it.
OnePlace ==
    \A i \in Samples :
        Occurrences(channel, i) + Occurrences(batch, i) + table[i]
        + Cardinality({r \in {"dropped", "failed", "cascaded"} : i \in gone[r]}) = 1

\* While the process runs, no heartbeat stays in memory for ever, however few
\* there are (runWriter's ticker).
SampleLands ==
    \A i \in 1..MaxSamples :
        (i \in ToSet(channel) \cup ToSet(batch))
            ~> (i \notin ToSet(channel) \cup ToSet(batch) \/ proc # "up")

\* "The flush matters: without it the last batch of heartbeats ... are lost on
\* every service stop" (core.go:277): a stop in which nothing fails, and no
\* device was deleted, leaves in the table all that was not dropped.
StopKeepsHeartbeats ==
    (proc = "closed" /\ gone.faults = 0 /\ deleted = {})
        => \A i \in Samples \ gone.dropped : table[i] > 0

=============================================================================
