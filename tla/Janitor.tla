------------------------------- MODULE Janitor -------------------------------
(***************************************************************************)
(* The maintenance pass (rollup/janitor.go, store/rollups.go) over the      *)
(* heartbeats, incidents and rollups_daily tables, and the history that the *)
(* uptime queries (store/uptime.go) read back from them.                   *)
(*                                                                         *)
(* An instant is the time of one probe of every device; a day is DayLen of  *)
(* them.  Every statement of the pass is a step, and probing goes on        *)
(* between two of them.                                                    *)
(***************************************************************************)
EXTENDS Integers, FiniteSets, FiniteSetsExt

CONSTANTS
    Devices,
    DayLen,
    Threshold,      \* failed probes in a row that make an outage
    Batch,          \* device-days one pass aggregates (500)
    Chunk,          \* rows one DELETE removes (10 000)
    RawDays,        \* values of retention.raw_days
    RollupDays,     \* values of retention.rollup_days
    MaxNow,         \* bounds the clock
    MaxFailures,    \* bounds the failed probes
    MaxFaults,      \* bounds failed statements, stops and retention edits
    None            \* no instant: an incident still open, or no failure yet

ASSUME SizesAssumption ==
    /\ {DayLen, Threshold, Batch, Chunk} \subseteq Nat \ {0}
    /\ {MaxNow, MaxFailures, MaxFaults} \subseteq Nat
ASSUME RetentionAssumption ==     \* api/settings.go: at least a day of each
    RawDays \cup RollupDays \subseteq Nat \ {0} /\ RawDays # {} /\ RollupDays # {}
ASSUME NoneAssumption == None \notin Nat
ASSUME DevicesAssumption == IsFiniteSet(Devices)

VARIABLES
    now,
    waiting,      \* heartbeats the writer has not inserted yet
    heartbeats,   \* the table: [device, at, up]
    strikes,      \* failed probes in a row of each device, and the first's instant
    incidents,    \* the table: [device, started, resolved]
    rollups,      \* the table, by <<device, day>>: [total, up, down]
    retention,    \* the settings: [raw, rollup], in days
    pass,         \* the pass under way; see Pass
    probes,       \* history: every heartbeat recorded
    horizon,      \* history: the latest rollup boundary of a pass
    spoilt,       \* history: finished device-days whose rollup misses something
    lost,         \* history: device-days with rows pruned before their rollup
    behind,       \* history: a pass could not aggregate all it should have
    faults

tables  == <<heartbeats, incidents, rollups>>
history == <<horizon, spoilt, lost, behind>>
vars    == <<now, waiting, tables, strikes, retention, pass, probes, history, faults>>

Instants == 0..MaxNow
Days     == 0..(MaxNow \div DayLen)

Day(t)        == t \div DayLen
Midnight(day) == day * DayLen

Heartbeat == [device : Devices, at : Instants, up : BOOLEAN]
Incident  == [device : Devices, started : Instants, resolved : Instants \cup {None}]
Rollup    == [total : Nat, up : Nat, down : Nat]
Candidate == [device : Devices, day : Days, total : Nat, up : Nat]

\* `now`, the retention and the candidates are read at the start of a pass.
Pass == [ pc : {"idle", "find", "rollup", "raw", "rollups", "incidents"},
          today : Days, rawBefore : Int, rollupBefore : Int, todo : SUBSET Candidate ]
Idle == [pc |-> "idle", today |-> 0, rawBefore |-> 0, rollupBefore |-> 0, todo |-> {}]

TypeOK ==
    /\ now \in Instants
    /\ waiting \subseteq Heartbeat /\ heartbeats \subseteq Heartbeat
    /\ probes \subseteq Heartbeat
    /\ strikes \in [Devices -> [count : 0..Threshold, first : Instants \cup {None}]]
    /\ incidents \subseteq Incident
    /\ DOMAIN rollups \subseteq Devices \X Days
    /\ \A k \in DOMAIN rollups : rollups[k] \in Rollup /\ rollups[k].up <= rollups[k].total
    /\ retention \in [raw : RawDays, rollup : RollupDays]
    /\ pass \in Pass
    /\ horizon \in Int /\ behind \in BOOLEAN /\ faults \in 0..MaxFaults
    /\ spoilt \cup lost \subseteq Devices \X Days

Init ==
    /\ now = 0
    /\ waiting = {} /\ heartbeats = {} /\ incidents = {} /\ probes = {}
    /\ strikes = [d \in Devices |-> [count |-> 0, first |-> None]]
    /\ rollups = <<>>
    /\ retention \in [raw : RawDays, rollup : RollupDays]
    /\ pass = Idle
    /\ horizon = -MaxNow /\ spoilt = {} /\ lost = {} /\ behind = FALSE /\ faults = 0

-----------------------------------------------------------------------------
(* Reading the tables.                                                     *)

DeviceDay(h) == <<h.device, Day(h.at)>>
RowsOf(k)    == {h \in heartbeats : DeviceDay(h) = k}
Ups(rows)    == {h \in rows : h.up}

Covers(i, t) == i.started <= t /\ (i.resolved = None \/ t < i.resolved)

\* What the outages clipped to a day that ends, or is seen, at `end` add up to:
\* an instant counts once for every incident that covers it.
DownBy(k, end) ==
    Cardinality({ x \in incidents \X (Midnight(k[2])..(end - 1)) :
                    x[1].device = k[1] /\ Covers(x[1], x[2]) })

DowntimeForDay(k) == DownBy(k, Midnight(k[2] + 1))

\* deviceDays: the rollup of a day if it has one, else its raw rows.
Shown(k) ==
    IF k \in DOMAIN rollups THEN rollups[k]
    ELSE [ total |-> Cardinality(RowsOf(k)),
           up    |-> Cardinality(Ups(RowsOf(k))),
           down  |-> DownBy(k, Min({now, Midnight(k[2] + 1)})) ]

\* Mutant: today is aggregated too.
UnrolledAndToday(today) ==
    {DeviceDay(h) : h \in {x \in heartbeats : x.at < Midnight(today + 1)}} \ DOMAIN rollups

\* Finished days with raw rows and no rollup.
Unrolled(today) ==
    {DeviceDay(h) : h \in {x \in heartbeats : x.at < Midnight(today)}} \ DOMAIN rollups

\* Mutant: the two counts are read in the wrong order.
CandidateSwapped(k) == [ device |-> k[1], day |-> k[2], total |-> Cardinality(Ups(RowsOf(k))),
                         up |-> Cardinality(RowsOf(k)) ]

CandidateOf(k) == [ device |-> k[1], day |-> k[2], total |-> Cardinality(RowsOf(k)),
                    up |-> Cardinality(Ups(RowsOf(k))) ]

-----------------------------------------------------------------------------
(* The rest of the service, as far as the tables show it.                   *)

Failed(d, strike) ==
    IF strike.count = Threshold THEN strike
    ELSE [ count |-> strike.count + 1,
           first |-> IF strike.count = 0 THEN now ELSE strike.first ]

\* Device d has just failed for the Threshold-th time.
Detects(d) == strikes[d].count = Threshold - 1

\* The evaluator takes one result of every device: module DeviceMachine says
\* why an outage starts at its first failed probe.
Probe(up) ==
    /\ now < MaxNow /\ waiting = {}
    /\ Cardinality({h \in probes : ~h.up}) + Cardinality({d \in Devices : ~up[d]}) <= MaxFailures
    /\ LET samples == {[device |-> d, at |-> now, up |-> up[d]] : d \in Devices}
           down    == {d \in Devices : ~up[d] /\ Detects(d)}
           opened  == {[device |-> d, started |-> Failed(d, strikes[d]).first,
                        resolved |-> None] : d \in down}
           closes(i) == i.resolved = None /\ up[i.device]
       IN  /\ waiting' = samples
           /\ probes' = probes \cup samples
           /\ incidents' = { IF closes(i) THEN [i EXCEPT !.resolved = now] ELSE i :
                             i \in incidents } \cup opened
           /\ spoilt' = spoilt \cup
                  { k \in DOMAIN rollups :
                      k[2] < Day(now) /\ \E i \in opened : i.device = k[1] /\ Day(i.started) <= k[2] }
    /\ strikes' = [ d \in Devices |-> IF up[d] THEN [count |-> 0, first |-> None]
                                      ELSE Failed(d, strikes[d]) ]
    /\ now' = now + 1
    /\ UNCHANGED <<heartbeats, rollups, retention, pass, horizon, lost, behind, faults>>

\* The writer inserts its batch; it does so many times between two instants.
Flush ==
    /\ waiting # {}
    /\ heartbeats' = heartbeats \cup waiting
    /\ waiting' = {}
    /\ spoilt' = spoilt \cup { k \in DOMAIN rollups : \E h \in waiting : DeviceDay(h) = k /\ k[2] < Day(now) }
    /\ UNCHANGED <<now, incidents, rollups, strikes, retention, pass, probes, horizon,
                   lost, behind, faults>>

\* The service is off until the next day.
Off ==
    /\ Midnight(Day(now) + 1) <= MaxNow /\ waiting = {} /\ pass = Idle
    /\ now' = Midnight(Day(now) + 1)
    /\ UNCHANGED <<waiting, tables, strikes, retention, pass, probes, history, faults>>

Fault == faults < MaxFaults /\ faults' = faults + 1

SetRetention(raw, rollup) ==
    /\ Fault
    /\ retention' = [raw |-> raw, rollup |-> rollup]
    /\ UNCHANGED <<now, waiting, tables, strikes, pass, probes, history>>

-----------------------------------------------------------------------------
(* The pass.                                                               *)

service == <<now, waiting, strikes, retention, probes>>

\* Mutant: one boundary for both prunes.
BeginOneBoundary ==
    /\ pass = Idle
    /\ LET today == Day(now)
       IN  /\ pass' = [ pc |-> "find", today |-> today, todo |-> {},
                        rawBefore    |-> today - retention.rollup,
                        rollupBefore |-> today - retention.rollup ]
           /\ horizon' = Max({horizon, today - retention.rollup})
    /\ UNCHANGED <<service, tables, spoilt, lost, behind, faults>>

\* Once: the boundaries of the pass.
Begin ==
    /\ pass = Idle
    /\ LET today == Day(now)
       IN  /\ pass' = [ pc |-> "find", today |-> today, todo |-> {},
                        rawBefore    |-> today - retention.raw,
                        rollupBefore |-> today - retention.rollup ]
           /\ horizon' = Max({horizon, today - retention.rollup})
    /\ UNCHANGED <<service, tables, spoilt, lost, behind, faults>>

\* PendingRollups: the oldest days first, in any order within a day.
Find ==
    /\ pass.pc = "find"
    /\ LET pending == Unrolled(pass.today)
       IN  \E taken \in kSubset(Min({Batch, Cardinality(pending)}), pending) :
             /\ \A k \in taken, l \in pending \ taken : k[2] <= l[2]
             /\ pass' = [pass EXCEPT !.pc = "rollup", !.todo = {CandidateOf(k) : k \in taken}]
             /\ behind' = (behind \/ taken # pending)
    /\ UNCHANGED <<service, tables, horizon, spoilt, lost, faults>>

IsNext(c) == c \in pass.todo /\ \A o \in pass.todo : c.day <= o.day

\* Mutant: the oldest day of the window is taken for one past it.
SkipOldestKept(c) ==
    /\ pass.pc = "rollup" /\ IsNext(c)
    /\ c.day <= pass.rollupBefore
    /\ pass' = [pass EXCEPT !.todo = @ \ {c}]
    /\ UNCHANGED <<service, tables, history, faults>>

\* A day past the rollup window is not aggregated.
Skip(c) ==
    /\ pass.pc = "rollup" /\ IsNext(c)
    /\ c.day < pass.rollupBefore
    /\ pass' = [pass EXCEPT !.todo = @ \ {c}]
    /\ UNCHANGED <<service, tables, history, faults>>

\* DowntimeForDay and WriteRollup.  A downtime that cannot be read is logged,
\* and the rollup written without it.
WriteRollup(c, down) ==
    /\ pass.pc = "rollup" /\ IsNext(c)
    /\ c.day >= pass.rollupBefore
    /\ LET k == <<c.device, c.day>>
           known == DowntimeForDay(k)
       IN  /\ \/ down = known /\ UNCHANGED faults
              \/ down = 0 /\ known # 0 /\ Fault
           /\ rollups' = [ l \in DOMAIN rollups \cup {k} |->
                             IF l = k THEN [total |-> c.total, up |-> c.up, down |-> down]
                             ELSE rollups[l] ]
           /\ spoilt' = IF c = CandidateOf(k) /\ down = known
                        THEN spoilt \ {k} ELSE spoilt \cup {k}
    /\ pass' = [pass EXCEPT !.todo = @ \ {c}]
    /\ UNCHANGED <<service, heartbeats, incidents, horizon, lost, behind>>

\* All candidates done.
EndRollUp ==
    /\ pass.pc = "rollup" /\ pass.todo = {}
    /\ pass' = [pass EXCEPT !.pc = "raw"]
    /\ UNCHANGED <<service, tables, history, faults>>

\* PendingRollups or WriteRollup fails; pruning runs all the same.
RollUpFails ==
    /\ pass.pc \in {"find", "rollup"}
    /\ Fault
    /\ behind' = TRUE
    /\ pass' = [pass EXCEPT !.pc = "raw", !.todo = {}]
    /\ UNCHANGED <<service, tables, horizon, spoilt, lost>>

\* PruneHeartbeats, one DELETE of at most Chunk rows; a short one is the last.
PruneChunk ==
    /\ pass.pc = "raw"
    /\ LET old == {h \in heartbeats : h.at < Midnight(pass.rawBefore)}
       IN  \E gone \in kSubset(Min({Chunk, Cardinality(old)}), old) :
             /\ heartbeats' = heartbeats \ gone
             /\ lost' = lost \cup ({DeviceDay(h) : h \in gone} \ DOMAIN rollups)
             /\ pass' = IF Cardinality(gone) < Chunk THEN [pass EXCEPT !.pc = "rollups"] ELSE pass
    /\ UNCHANGED <<service, incidents, rollups, horizon, spoilt, behind, faults>>

PruneRollups ==
    /\ pass.pc = "rollups"
    /\ rollups' = [k \in {l \in DOMAIN rollups : l[2] >= pass.rollupBefore} |-> rollups[k]]
    /\ pass' = [pass EXCEPT !.pc = "incidents"]
    /\ UNCHANGED <<service, heartbeats, incidents, history, faults>>

PruneResolvedIncidents ==
    /\ pass.pc = "incidents"
    /\ incidents' = {i \in incidents : ~(i.resolved # None
                                         /\ i.resolved < Midnight(pass.rollupBefore))}
    /\ pass' = Idle
    /\ UNCHANGED <<service, heartbeats, rollups, history, faults>>

\* One of the three prunes fails: the next one runs.
PruneFails ==
    /\ pass.pc \in {"raw", "rollups", "incidents"}
    /\ Fault
    /\ pass' = CASE pass.pc = "raw"       -> [pass EXCEPT !.pc = "rollups"]
                 [] pass.pc = "rollups"   -> [pass EXCEPT !.pc = "incidents"]
                 [] pass.pc = "incidents" -> Idle
    /\ UNCHANGED <<service, tables, history>>

\* The service is stopped, or dies, in the middle of the pass.
Stop ==
    /\ pass # Idle
    /\ Fault
    /\ pass' = Idle
    /\ UNCHANGED <<service, tables, history>>

Once ==
    \/ Begin
    \/ Find
    \/ \E c \in pass.todo : Skip(c)
    \/ \E c \in pass.todo : \E down \in 0..DayLen : WriteRollup(c, down)
    \/ EndRollUp
    \/ RollUpFails
    \/ PruneChunk
    \/ PruneRollups
    \/ PruneResolvedIncidents
    \/ PruneFails

Next ==
    \/ \E up \in [Devices -> BOOLEAN] : Probe(up)
    \/ Flush
    \/ Off
    \/ \E raw \in RawDays, rollup \in RollupDays : SetRetention(raw, rollup)
    \/ Once
    \/ Stop

\* Run calls Once at the start and on a ticker, and the writer's ticker fires.
Fairness == WF_vars(Once) /\ WF_vars(Flush)

Spec == Init /\ [][Next]_vars /\ Fairness

-----------------------------------------------------------------------------
(* Properties.                                                             *)

ProbesOf(k) == {p \in probes : DeviceDay(p) = k}

\* The device was down at instant t, by every probe up to now: t belongs to a
\* run of failures that reached the threshold.
WasDown(d, t) ==
    LET mine == {p \in probes : p.device = d}
        answered(a, b) == \E p \in mine : p.up /\ p.at \in a..b
    IN  \E f \in mine :
          /\ ~f.up /\ f.at <= t /\ ~answered(f.at, t)
          /\ Cardinality({p \in mine : p.at >= f.at /\ ~answered(f.at, p.at)}) >= Threshold

Truth(k) ==
    [ total |-> Cardinality(ProbesOf(k)),
      up    |-> Cardinality(Ups(ProbesOf(k))),
      down  |-> Cardinality({t \in Instants : t < now /\ Day(t) = k[2] /\ WasDown(k[1], t)}) ]

\* What the uptime queries show of a day is what the probes of that day said,
\* before, while and after its raw rows are replaced by a rollup ("aggregates
\* finished days, prunes what has aged out", janitor.go:1).  Not so for a day
\* rolled up before its last heartbeat or outage was known, or without its
\* downtime, nor for one that lost rows before it was rolled up.
HistoryIsTrue ==
    \A k \in (Devices \X Days) \ (spoilt \cup lost) :
        /\ k[2] >= horizon /\ ProbesOf(k) # {} /\ ProbesOf(k) \cap waiting = {}
        => Shown(k) = Truth(k)

\* Raw rows are pruned before their day is rolled up only if some pass could
\* not aggregate everything: pruning is "never for a day that has not been
\* rolled up yet" (janitor.go:120) as long as the passes keep up.
PrunedOnceRolledUp == \A k \in lost : k[2] >= horizon => behind

\* The janitor catches up after anything that fails: in the end every finished
\* day has its rollup, and nothing older than the retention windows is left
\* ("keeps the database bounded", janitor.go:1).  With a raw window longer than
\* the rollup window this does not hold: days that are skipped for ever fill
\* the batch.
CatchesUp ==
    <>[](retention.raw <= retention.rollup =>
            /\ Unrolled(Day(now)) = {}
            /\ \A h \in heartbeats : Day(h.at) >= Day(now) - retention.raw
            /\ \A k \in DOMAIN rollups : k[2] >= Day(now) - retention.rollup)

=============================================================================
