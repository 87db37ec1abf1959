---------------------------- MODULE Janitor_proofs ----------------------------
(* What the maintenance pass keeps: the history shown of a day is what its   *)
(* probes said, whatever of it is raw, rolled up or pruned, and raw rows go  *)
(* only once they are rolled up.                                             *)
EXTENDS Janitor, FiniteSetTheorems, TLAPS

-----------------------------------------------------------------------------
(* Days and instants.                                                        *)

LEMMA MidnightType ==
    ASSUME NEW n \in Int
    PROVE  Midnight(n) \in Int
BY SizesAssumption DEF Midnight

LEMMA MidnightOrder ==
    ASSUME NEW m \in Int, NEW n \in Int
    PROVE  /\ m <= n => Midnight(m) <= Midnight(n)
           /\ m < n => Midnight(m) < Midnight(n)
<1>1. DayLen \in Nat /\ DayLen >= 1
  BY SizesAssumption
<1>2. PICK k \in Int : n = m + k
  <2>1. n - m \in Int /\ n = m + (n - m)
    OBVIOUS
  <2>2. QED
    BY <2>1
<1>3. Midnight(n) = Midnight(m) + k * DayLen
  BY <1>1, <1>2 DEF Midnight
<1>4. k >= 0 => k * DayLen >= 0
  BY <1>1, <1>2
<1>5. k >= 1 => k * DayLen >= 1
  BY <1>1, <1>2
<1>6. Midnight(m) \in Int /\ Midnight(n) \in Int /\ k * DayLen \in Int
  BY <1>1, <1>2, MidnightType
<1>7. QED
  BY <1>2, <1>3, <1>4, <1>5, <1>6

\* An instant lies in its day.
LEMMA DayBounds ==
    ASSUME NEW t \in Nat
    PROVE  Day(t) \in Nat /\ Midnight(Day(t)) <= t /\ t < Midnight(Day(t) + 1)
BY SizesAssumption DEF Day, Midnight

\* A day is reached when its midnight is.
LEMMA DayReached ==
    ASSUME NEW t \in Nat, NEW n \in Int
    PROVE  Day(t) >= n <=> t >= Midnight(n)
<1>1. /\ Day(t) \in Int /\ Midnight(n) \in Int
      /\ Midnight(Day(t)) \in Int /\ Midnight(Day(t) + 1) \in Int
      /\ Midnight(Day(t)) <= t /\ t < Midnight(Day(t) + 1)
  BY DayBounds, MidnightType
<1>2. ASSUME Day(t) >= n PROVE t >= Midnight(n)
  BY <1>1, <1>2, MidnightOrder
<1>3. ASSUME ~(Day(t) >= n) PROVE ~(t >= Midnight(n))
  <2>1. Day(t) + 1 <= n
    BY <1>1, <1>3
  <2>2. Midnight(Day(t) + 1) <= Midnight(n)
    BY <1>1, <2>1, MidnightOrder
  <2>3. QED
    BY <1>1, <2>2
<1>4. QED
  BY <1>2, <1>3

LEMMA DayOrder ==
    ASSUME NEW s \in Nat, NEW t \in Nat, s <= t
    PROVE  Day(s) <= Day(t)
<1>1. Day(s) \in Int /\ Midnight(Day(s)) <= s /\ Midnight(Day(s)) \in Int
  BY DayBounds, MidnightType
<1>2. t >= Midnight(Day(s))
  BY <1>1
<1>3. QED
  BY <1>1, <1>2, DayReached, DayBounds

LEMMA DayType ==
    ASSUME NEW t \in Instants
    PROVE  Day(t) \in Days /\ Day(t) \in Nat
<1>1. t \in Nat /\ MaxNow \in Nat /\ t <= MaxNow
  BY SizesAssumption DEF Instants
<1>2. Day(t) \in Nat /\ Day(t) <= Day(MaxNow)
  BY <1>1, DayBounds, DayOrder
<1>3. Days = 0..Day(MaxNow) /\ Day(MaxNow) \in Nat
  BY <1>1, DayBounds DEF Days, Day
<1>4. QED
  BY <1>2, <1>3

\* The instant before lies in the same day or the one before it.
LEMMA DayBefore ==
    ASSUME NEW t \in Nat \ {0}
    PROVE  Day(t - 1) >= Day(t) - 1
<1>1. t - 1 \in Nat /\ Day(t) \in Nat /\ Midnight(Day(t)) <= t
  BY DayBounds
<1>2. /\ Midnight(Day(t) - 1) \in Int /\ Midnight(Day(t)) \in Int
      /\ Midnight(Day(t) - 1) < Midnight(Day(t))
  BY <1>1, MidnightType, MidnightOrder
<1>3. t - 1 >= Midnight(Day(t) - 1)
  BY <1>1, <1>2
<1>4. QED
  BY <1>1, <1>3, DayReached

-----------------------------------------------------------------------------
(* Types.  What TypeOK needs beside itself: an outage has a first failure to *)
(* start at, and the rows are few enough to count.                           *)

StrikesStart == \A d \in Devices : strikes[d].count # 0 => strikes[d].first # None

RowsCountable == IsFiniteSet(probes) /\ heartbeats \cup waiting \subseteq probes

CountsOrdered == \A c \in pass.todo : c.up <= c.total

TypeInv == TypeOK /\ StrikesStart /\ RowsCountable /\ CountsOrdered

\* A set of rows can be counted, and no more of them are up than there are.
LEMMA RowsCounted ==
    ASSUME RowsCountable, NEW rows \in SUBSET probes
    PROVE  /\ IsFiniteSet(rows)
           /\ Cardinality(rows) \in Nat /\ Cardinality(Ups(rows)) \in Nat
           /\ Cardinality(Ups(rows)) <= Cardinality(rows)
<1>1. IsFiniteSet(rows)
  BY FS_Subset DEF RowsCountable
<1>2. Ups(rows) \in SUBSET rows
  BY DEF Ups
<1>3. IsFiniteSet(Ups(rows)) /\ Cardinality(Ups(rows)) <= Cardinality(rows)
  BY <1>1, <1>2, FS_Subset
<1>4. QED
  BY <1>1, <1>3, FS_CardinalityType

\* A pass between two statements.
LEMMA PassMoves ==
    ASSUME NEW p \in Pass, NEW pc \in {"idle", "find", "rollup", "raw", "rollups", "incidents"}
    PROVE  [p EXCEPT !.pc = pc] \in Pass
BY DEF Pass

LEMMA PassDrops ==
    ASSUME NEW p \in Pass, NEW todo \in SUBSET Candidate
    PROVE  [p EXCEPT !.todo = todo] \in Pass
BY DEF Pass

LEMMA IdleType == Idle \in Pass /\ Idle.todo = {} /\ Idle.pc = "idle"
<1>1. 0 \in Days
  <2>1. 0 \in Instants /\ 0 \in Nat
    BY SizesAssumption DEF Instants
  <2>2. Midnight(1) >= 1 /\ Midnight(1) \in Int
    BY SizesAssumption DEF Midnight
  <2>3. Day(0) = 0
    BY <2>1, <2>2, DayReached, DayBounds
  <2>4. QED
    BY <2>1, <2>3, DayType
<1>2. QED
  BY <1>1 DEF Idle, Pass

LEMMA InitType == Init => TypeInv
<1> SUFFICES ASSUME Init PROVE TypeInv
  OBVIOUS
<1>1. now \in Instants /\ faults \in 0..MaxFaults /\ MaxNow \in Nat
  BY SizesAssumption DEF Init, Instants
<1>2. pass \in Pass /\ pass.todo = {}
  BY IdleType DEF Init
<1>3. strikes \in [Devices -> [count : 0..Threshold, first : Instants \cup {None}]]
  BY SizesAssumption DEF Init
<1>4. DOMAIN rollups = {}
  BY DEF Init
<1>5. /\ waiting = {} /\ heartbeats = {} /\ probes = {} /\ incidents = {}
      /\ horizon \in Int /\ behind \in BOOLEAN /\ spoilt = {} /\ lost = {}
      /\ retention \in [raw : RawDays, rollup : RollupDays]
  <2>1. horizon = -MaxNow /\ -MaxNow \in Int
    BY <1>1 DEF Init
  <2>2. QED
    BY <2>1 DEF Init
<1>6. TypeOK
  BY <1>1, <1>2, <1>3, <1>4, <1>5 DEF TypeOK, Instants
<1>7. StrikesStart /\ RowsCountable /\ CountsOrdered
  BY <1>2, <1>5, FS_EmptySet DEF Init, StrikesStart, RowsCountable, CountsOrdered
<1>8. QED
  BY <1>6, <1>7 DEF TypeInv

\* The heartbeats of one probe of every device.
Sampled(up) == {[device |-> d, at |-> now, up |-> up[d]] : d \in Devices}

LEMMA SampledFinite ==
    ASSUME NEW up \in [Devices -> BOOLEAN]
    PROVE  IsFiniteSet(Sampled(up))
<1> DEFINE f == [d \in Devices |-> [device |-> d, at |-> now, up |-> up[d]]]
<1>1. f \in Surjection(Devices, Sampled(up))
  BY DEF Surjection, Sampled
<1>2. QED
  BY <1>1, DevicesAssumption, FS_Surjection

\* Counting a failure.
LEMMA FailedType ==
    ASSUME TypeInv, NEW d \in Devices
    PROVE  /\ Failed(d, strikes[d]) \in [count : 0..Threshold, first : Instants \cup {None}]
           /\ Failed(d, strikes[d]).count # 0
           /\ Failed(d, strikes[d]).first \in Instants
<1>1. /\ strikes[d] \in [count : 0..Threshold, first : Instants \cup {None}]
      /\ now \in Instants /\ Threshold \in Nat \ {0}
      /\ strikes[d].count # 0 => strikes[d].first # None
  BY SizesAssumption DEF TypeInv, TypeOK, StrikesStart
<1>2. CASE strikes[d].count = Threshold
  BY <1>1, <1>2 DEF Failed
<1>3. CASE strikes[d].count # Threshold
  BY <1>1, <1>3 DEF Failed
<1>4. QED
  BY <1>2, <1>3

LEMMA ProbeType ==
    ASSUME TypeInv, NEW up \in [Devices -> BOOLEAN], Probe(up)
    PROVE  TypeInv'
<1> DEFINE down   == {d \in Devices : ~up[d] /\ Detects(d)}
           opened == {[device |-> d, started |-> Failed(d, strikes[d]).first,
                       resolved |-> None] : d \in down}
           closes(i) == i.resolved = None /\ up[i.device]
<1>1. /\ now < MaxNow /\ now' = now + 1 /\ waiting' = Sampled(up)
      /\ probes' = probes \cup Sampled(up)
      /\ incidents' = { IF closes(i) THEN [i EXCEPT !.resolved = now] ELSE i : i \in incidents }
                         \cup opened
      /\ strikes' = [ d \in Devices |-> IF up[d] THEN [count |-> 0, first |-> None]
                                        ELSE Failed(d, strikes[d]) ]
      /\ spoilt' \subseteq spoilt \cup DOMAIN rollups
      /\ UNCHANGED <<heartbeats, rollups, retention, pass, horizon, lost, behind, faults>>
  BY DEF Probe, Sampled
<1>2. now \in Instants /\ now' \in Instants
  BY <1>1, SizesAssumption DEF TypeInv, TypeOK, Instants
<1>3. Sampled(up) \subseteq Heartbeat
  BY <1>2 DEF Sampled, Heartbeat
<1>4. /\ waiting' \subseteq Heartbeat /\ heartbeats' \subseteq Heartbeat
      /\ probes' \subseteq Heartbeat
  BY <1>1, <1>3 DEF TypeInv, TypeOK
<1>5. /\ strikes' \in [Devices -> [count : 0..Threshold, first : Instants \cup {None}]]
      /\ StrikesStart'
  <2>1. [count |-> 0, first |-> None] \in [count : 0..Threshold, first : Instants \cup {None}]
    BY SizesAssumption
  <2>2. \A d \in Devices :
           /\ strikes'[d] \in [count : 0..Threshold, first : Instants \cup {None}]
           /\ strikes'[d].count # 0 => strikes'[d].first # None
    <3> SUFFICES ASSUME NEW d \in Devices
                 PROVE  /\ strikes'[d] \in [count : 0..Threshold, first : Instants \cup {None}]
                        /\ strikes'[d].count # 0 => strikes'[d].first # None
      OBVIOUS
    <3>1. CASE up[d]
      BY <1>1, <2>1, <3>1
    <3>2. CASE ~up[d]
      BY <1>1, <3>2, FailedType, NoneAssumption DEF Instants
    <3>3. QED
      BY <3>1, <3>2
  <2>3. QED
    BY <1>1, <2>2 DEF StrikesStart
<1>6. incidents' \subseteq Incident
  <2>1. \A i \in incidents : [i EXCEPT !.resolved = now] \in Incident /\ i \in Incident
    BY <1>2 DEF TypeInv, TypeOK, Incident
  <2>2. opened \subseteq Incident
    BY FailedType DEF Incident
  <2>3. QED
    BY <1>1, <2>1, <2>2
<1>7. spoilt' \cup lost' \subseteq Devices \X Days
  BY <1>1 DEF TypeInv, TypeOK
<1>8. TypeOK'
  BY <1>1, <1>2, <1>4, <1>5, <1>6, <1>7 DEF TypeInv, TypeOK
<1>9. RowsCountable'
  <2>1. IsFiniteSet(probes')
    BY <1>1, SampledFinite, FS_Union DEF TypeInv, RowsCountable
  <2>2. QED
    BY <1>1, <2>1 DEF TypeInv, RowsCountable
<1>10. QED
  BY <1>1, <1>5, <1>8, <1>9 DEF TypeInv, CountsOrdered

LEMMA MaxOfTwo ==
    ASSUME NEW a \in Int, NEW b \in Int
    PROVE  /\ Max({a, b}) \in Int
           /\ Max({a, b}) >= a /\ Max({a, b}) >= b
           /\ Max({a, b}) \in {a, b}
<1>1. \E x \in {a, b} : \A y \in {a, b} : x >= y
  <2>1. CASE a >= b
    BY <2>1
  <2>2. CASE b >= a
    BY <2>2
  <2>3. QED
    BY <2>1, <2>2
<1>2. Max({a, b}) \in {a, b} /\ \A y \in {a, b} : Max({a, b}) >= y
  BY <1>1 DEF Max
<1>3. QED
  BY <1>2

LEMMA FlushType ==
    ASSUME TypeInv, Flush
    PROVE  TypeInv'
<1>1. /\ heartbeats' = heartbeats \cup waiting /\ waiting' = {}
      /\ spoilt' \subseteq spoilt \cup DOMAIN rollups
      /\ UNCHANGED <<now, incidents, rollups, strikes, retention, pass, probes, horizon,
                     lost, behind, faults>>
  BY DEF Flush
<1>2. TypeOK'
  BY <1>1 DEF TypeInv, TypeOK
<1>3. StrikesStart' /\ RowsCountable' /\ CountsOrdered'
  BY <1>1 DEF TypeInv, StrikesStart, RowsCountable, CountsOrdered
<1>4. QED
  BY <1>2, <1>3 DEF TypeInv

LEMMA OffType ==
    ASSUME TypeInv, Off
    PROVE  TypeInv'
<1>1. /\ now' = Midnight(Day(now) + 1) /\ now' <= MaxNow
      /\ UNCHANGED <<waiting, heartbeats, incidents, rollups, strikes, retention, pass,
                     probes, horizon, spoilt, lost, behind, faults>>
  BY DEF Off, tables, history
<1>2. now \in Nat /\ MaxNow \in Nat
  BY SizesAssumption DEF TypeInv, TypeOK, Instants
<1>3. Midnight(Day(now) + 1) \in Int /\ now < Midnight(Day(now) + 1)
  BY <1>2, DayBounds, MidnightType
<1>4. now' \in Instants
  BY <1>1, <1>2, <1>3 DEF Instants
<1>5. TypeOK'
  BY <1>1, <1>4 DEF TypeInv, TypeOK
<1>6. StrikesStart' /\ RowsCountable' /\ CountsOrdered'
  BY <1>1 DEF TypeInv, StrikesStart, RowsCountable, CountsOrdered
<1>7. QED
  BY <1>5, <1>6 DEF TypeInv

LEMMA SetRetentionType ==
    ASSUME TypeInv, NEW raw \in RawDays, NEW rollup \in RollupDays, SetRetention(raw, rollup)
    PROVE  TypeInv'
<1>1. /\ retention' = [raw |-> raw, rollup |-> rollup]
      /\ faults < MaxFaults /\ faults' = faults + 1
      /\ UNCHANGED <<now, waiting, heartbeats, incidents, rollups, strikes, pass,
                     probes, horizon, spoilt, lost, behind>>
  BY DEF SetRetention, Fault, tables, history
<1>2. faults' \in 0..MaxFaults
  BY <1>1, SizesAssumption DEF TypeInv, TypeOK
<1>3. TypeOK'
  BY <1>1, <1>2 DEF TypeInv, TypeOK
<1>4. StrikesStart' /\ RowsCountable' /\ CountsOrdered'
  BY <1>1 DEF TypeInv, StrikesStart, RowsCountable, CountsOrdered
<1>5. QED
  BY <1>3, <1>4 DEF TypeInv

\* What a step of the pass leaves alone.
LEMMA PassStepType ==
    ASSUME TypeInv, UNCHANGED service,
           pass' \in Pass, pass'.todo \subseteq pass.todo \/ CountsOrdered',
           heartbeats' \subseteq heartbeats, incidents' \subseteq incidents,
           DOMAIN rollups' \subseteq Devices \X Days,
           \A k \in DOMAIN rollups' : rollups'[k] \in Rollup /\ rollups'[k].up <= rollups'[k].total,
           horizon' \in Int, behind' \in BOOLEAN, faults' \in 0..MaxFaults,
           spoilt' \cup lost' \subseteq Devices \X Days
    PROVE  TypeInv'
<1>1. UNCHANGED <<now, waiting, strikes, retention, probes>>
  BY DEF service
<1>2. TypeOK'
  BY <1>1 DEF TypeInv, TypeOK
<1>3. StrikesStart' /\ RowsCountable'
  BY <1>1 DEF TypeInv, StrikesStart, RowsCountable
<1>4. CountsOrdered'
  BY DEF TypeInv, CountsOrdered
<1>5. QED
  BY <1>2, <1>3, <1>4 DEF TypeInv

LEMMA BeginType ==
    ASSUME TypeInv, Begin
    PROVE  TypeInv'
<1>1. /\ pass' = [ pc |-> "find", today |-> Day(now), todo |-> {},
                   rawBefore    |-> Day(now) - retention.raw,
                   rollupBefore |-> Day(now) - retention.rollup ]
      /\ horizon' = Max({horizon, Day(now) - retention.rollup})
      /\ UNCHANGED <<service, heartbeats, incidents, rollups, spoilt, lost, behind, faults>>
  BY DEF Begin, tables
<1>2. /\ Day(now) \in Days /\ Day(now) \in Nat
      /\ retention.raw \in Nat /\ retention.rollup \in Nat /\ horizon \in Int
  BY DayType, RetentionAssumption DEF TypeInv, TypeOK
<1>3. pass' \in Pass /\ pass'.todo = {} /\ horizon' \in Int
  <2>1. Day(now) - retention.raw \in Int /\ Day(now) - retention.rollup \in Int
    BY <1>2
  <2>2. horizon' \in Int
    BY <1>1, <1>2, <2>1, MaxOfTwo
  <2>3. pass' \in Pass /\ pass'.todo = {}
    BY <1>1, <1>2, <2>1 DEF Pass
  <2>4. QED
    BY <2>2, <2>3
<1>4. QED
  BY <1>1, <1>3, PassStepType DEF TypeInv, TypeOK

LEMMA CandidateType ==
    ASSUME TypeInv, NEW k \in Devices \X Days
    PROVE  CandidateOf(k) \in Candidate /\ CandidateOf(k).up <= CandidateOf(k).total
<1>1. RowsOf(k) \in SUBSET probes
  BY DEF TypeInv, RowsCountable, RowsOf
<1>2. /\ Cardinality(RowsOf(k)) \in Nat /\ Cardinality(Ups(RowsOf(k))) \in Nat
      /\ Cardinality(Ups(RowsOf(k))) <= Cardinality(RowsOf(k))
  BY <1>1, RowsCounted DEF TypeInv
<1>3. QED
  BY <1>2 DEF CandidateOf, Candidate

\* The rows of a table are of a device and a day.
LEMMA DeviceDayType ==
    ASSUME NEW h \in Heartbeat
    PROVE  /\ DeviceDay(h) \in Devices \X Days
           /\ DeviceDay(h)[1] = h.device /\ DeviceDay(h)[2] = Day(h.at)
BY DayType DEF DeviceDay, Heartbeat

LEMMA UnrolledType ==
    ASSUME TypeInv, NEW today \in Nat
    PROVE  Unrolled(today) \subseteq (Devices \X Days) \ DOMAIN rollups
BY DeviceDayType DEF TypeInv, TypeOK, Unrolled

LEMMA FindType ==
    ASSUME TypeInv, Find
    PROVE  TypeInv'
<1>1. PICK taken \in SUBSET Unrolled(pass.today) :
         /\ pass' = [pass EXCEPT !.pc = "rollup", !.todo = {CandidateOf(k) : k \in taken}]
         /\ behind' = (behind \/ taken # Unrolled(pass.today))
  BY DEF Find, kSubset
<1>2. UNCHANGED <<service, heartbeats, incidents, rollups, horizon, spoilt, lost, faults>>
  BY DEF Find, tables
<1>3. \A k \in taken : CandidateOf(k) \in Candidate /\ CandidateOf(k).up <= CandidateOf(k).total
  <2>1. pass.today \in Nat
    BY DEF TypeInv, TypeOK, Pass, Days
  <2>2. QED
    BY <2>1, CandidateType, UnrolledType
<1>4. pass' \in Pass /\ pass'.todo = {CandidateOf(k) : k \in taken}
  <2>1. pass \in Pass
    BY DEF TypeInv, TypeOK
  <2>2. [pass EXCEPT !.pc = "rollup"] \in Pass
    BY <2>1, PassMoves
  <2>3. pass' = [[pass EXCEPT !.pc = "rollup"] EXCEPT !.todo = {CandidateOf(k) : k \in taken}]
    BY <1>1
  <2>4. {CandidateOf(k) : k \in taken} \in SUBSET Candidate
    BY <1>3
  <2>5. pass' \in Pass
    BY <2>2, <2>3, <2>4, PassDrops
  <2>6. pass'.todo = {CandidateOf(k) : k \in taken}
    BY <1>1, <2>1 DEF Pass
  <2>7. QED
    BY <2>5, <2>6
<1>5. CountsOrdered' /\ behind' \in BOOLEAN
  BY <1>1, <1>3, <1>4 DEF CountsOrdered
<1>6. QED
  BY <1>2, <1>4, <1>5, PassStepType DEF TypeInv, TypeOK

LEMMA SkipType ==
    ASSUME TypeInv, NEW c \in pass.todo, Skip(c)
    PROVE  TypeInv'
<1>1. /\ pass' = [pass EXCEPT !.todo = @ \ {c}]
      /\ UNCHANGED <<service, heartbeats, incidents, rollups, horizon, spoilt, lost, behind, faults>>
  BY DEF Skip, tables, history
<1>2. pass' \in Pass /\ pass'.todo \subseteq pass.todo
  BY <1>1 DEF TypeInv, TypeOK, Pass
<1>3. QED
  BY <1>1, <1>2, PassStepType DEF TypeInv, TypeOK

LEMMA WriteType ==
    ASSUME TypeInv, NEW c \in pass.todo, NEW down \in 0..DayLen, WriteRollup(c, down)
    PROVE  TypeInv'
<1> DEFINE k == <<c.device, c.day>>
           row == [total |-> c.total, up |-> c.up, down |-> down]
<1>1. /\ pass' = [pass EXCEPT !.todo = @ \ {c}]
      /\ rollups' = [l \in DOMAIN rollups \cup {k} |-> IF l = k THEN row ELSE rollups[l]]
      /\ spoilt' \subseteq spoilt \cup {k}
      /\ UNCHANGED <<service, heartbeats, incidents, horizon, lost, behind>>
  BY DEF WriteRollup
<1>2. faults' \in 0..MaxFaults
  BY SizesAssumption DEF WriteRollup, Fault, TypeInv, TypeOK
<1>3. pass' \in Pass /\ pass'.todo \subseteq pass.todo
  BY <1>1 DEF TypeInv, TypeOK, Pass
<1>4. c \in Candidate /\ c.up <= c.total
  BY DEF TypeInv, TypeOK, Pass, CountsOrdered
<1>5. k \in Devices \X Days /\ row \in Rollup /\ row.up <= row.total
  <2>1. down \in Nat
    BY SizesAssumption
  <2>2. QED
    BY <1>4, <2>1 DEF Candidate, Rollup
<1> HIDE DEF k, row
<1>6. /\ DOMAIN rollups' \subseteq Devices \X Days
      /\ \A l \in DOMAIN rollups' : rollups'[l] \in Rollup /\ rollups'[l].up <= rollups'[l].total
  BY <1>1, <1>5 DEF TypeInv, TypeOK
<1>7. QED
  BY <1>1, <1>2, <1>3, <1>5, <1>6, PassStepType DEF TypeInv, TypeOK

LEMMA PruneChunkType ==
    ASSUME TypeInv, PruneChunk
    PROVE  TypeInv'
<1> DEFINE old == {h \in heartbeats : h.at < Midnight(pass.rawBefore)}
<1>1. PICK gone \in SUBSET old :
         /\ heartbeats' = heartbeats \ gone
         /\ lost' = lost \cup ({DeviceDay(h) : h \in gone} \ DOMAIN rollups)
         /\ pass' \in {[pass EXCEPT !.pc = "rollups"], pass}
  BY DEF PruneChunk, kSubset
<1>2. UNCHANGED <<service, incidents, rollups, horizon, spoilt, behind, faults>>
  BY DEF PruneChunk
<1>3. pass' \in Pass /\ pass'.todo = pass.todo
  <2>1. pass \in Pass
    BY DEF TypeInv, TypeOK
  <2>2. /\ [pass EXCEPT !.pc = "rollups"] \in Pass
        /\ [pass EXCEPT !.pc = "rollups"].todo = pass.todo
    BY <2>1 DEF Pass
  <2>3. QED
    BY <1>1, <2>1, <2>2
<1>4. lost' \subseteq Devices \X Days
  BY <1>1, DeviceDayType DEF TypeInv, TypeOK
<1>5. QED
  BY <1>1, <1>2, <1>3, <1>4, PassStepType DEF TypeInv, TypeOK

\* The steps of a pass that only drop rows, or nothing.
LEMMA OtherPassType ==
    ASSUME TypeInv,
           EndRollUp \/ RollUpFails \/ PruneRollups \/ PruneResolvedIncidents \/ PruneFails \/ Stop
    PROVE  TypeInv'
<1> DEFINE steps == {"raw", "rollups", "incidents"}
<1>1. /\ heartbeats' = heartbeats /\ incidents' \subseteq incidents
      /\ UNCHANGED <<service, horizon, spoilt, lost>>
  BY DEF EndRollUp, RollUpFails, PruneRollups, PruneResolvedIncidents, PruneFails, Stop,
         tables, history
<1>2. behind' \in BOOLEAN
  BY DEF EndRollUp, RollUpFails, PruneRollups, PruneResolvedIncidents, PruneFails, Stop,
         tables, history, TypeInv, TypeOK
<1>3. faults' \in 0..MaxFaults
  <2>1. faults' = faults \/ Fault
    BY DEF EndRollUp, RollUpFails, PruneRollups, PruneResolvedIncidents, PruneFails, Stop,
           tables, history
  <2>2. QED
    BY <2>1, SizesAssumption DEF Fault, TypeInv, TypeOK
<1>4. \/ rollups' = rollups
      \/ rollups' = [k \in {l \in DOMAIN rollups : l[2] >= pass.rollupBefore} |-> rollups[k]]
  BY DEF EndRollUp, RollUpFails, PruneRollups, PruneResolvedIncidents, PruneFails, Stop,
         tables, history
<1>5. /\ DOMAIN rollups' \subseteq Devices \X Days
      /\ \A k \in DOMAIN rollups' : rollups'[k] \in Rollup /\ rollups'[k].up <= rollups'[k].total
  BY <1>4 DEF TypeInv, TypeOK
<1>6. pass' \in Pass /\ pass'.todo \subseteq pass.todo
  <2>1. \/ \E pc \in steps : pass' = [pass EXCEPT !.pc = pc]
        \/ pass' = [pass EXCEPT !.pc = "raw", !.todo = {}]
        \/ pass' = Idle
    BY DEF EndRollUp, RollUpFails, PruneRollups, PruneResolvedIncidents, PruneFails, Stop
  <2>2. CASE \E pc \in steps : pass' = [pass EXCEPT !.pc = pc]
    BY <2>2 DEF TypeInv, TypeOK, Pass
  <2>3. CASE pass' = [pass EXCEPT !.pc = "raw", !.todo = {}]
    BY <2>3 DEF TypeInv, TypeOK, Pass
  <2>4. CASE pass' = Idle
    BY <2>4, IdleType
  <2>5. QED
    BY <2>1, <2>2, <2>3, <2>4
<1>7. QED
  BY <1>1, <1>2, <1>3, <1>5, <1>6, PassStepType DEF TypeInv, TypeOK

LEMMA NextType == TypeInv /\ [Next]_vars => TypeInv'
<1> SUFFICES ASSUME TypeInv, [Next]_vars PROVE TypeInv'
  OBVIOUS
<1>1. ASSUME NEW up \in [Devices -> BOOLEAN], Probe(up) PROVE TypeInv'
  BY <1>1, ProbeType
<1>2. CASE Flush
  BY <1>2, FlushType
<1>3. CASE Off
  BY <1>3, OffType
<1>4. ASSUME NEW raw \in RawDays, NEW rollup \in RollupDays, SetRetention(raw, rollup)
      PROVE  TypeInv'
  BY <1>4, SetRetentionType
<1>5. CASE Begin
  BY <1>5, BeginType
<1>6. CASE Find
  BY <1>6, FindType
<1>7. ASSUME NEW c \in pass.todo, Skip(c) PROVE TypeInv'
  BY <1>7, SkipType
<1>8. ASSUME NEW c \in pass.todo, NEW down \in 0..DayLen, WriteRollup(c, down) PROVE TypeInv'
  BY <1>8, WriteType
<1>9. CASE PruneChunk
  BY <1>9, PruneChunkType
<1>10. CASE EndRollUp \/ RollUpFails \/ PruneRollups \/ PruneResolvedIncidents \/ PruneFails \/ Stop
  BY <1>10, OtherPassType
<1>11. CASE UNCHANGED vars
  <2>1. UNCHANGED <<service, heartbeats, incidents, rollups, pass, horizon, spoilt, lost, behind, faults>>
    BY <1>11 DEF vars, tables, history, service
  <2>2. QED
    BY <2>1, PassStepType DEF TypeInv, TypeOK
<1>12. QED
  BY <1>1, <1>2, <1>3, <1>4, <1>5, <1>6, <1>7, <1>8, <1>9, <1>10, <1>11 DEF Next, Once

\* Every table and the pass under way hold what they should (rollup/janitor.go,
\* store/rollups.go).
THEOREM TypeCorrect == Spec => []TypeOK
<1>1. Spec => []TypeInv
  BY InitType, NextType, PTL DEF Spec
<1>2. TypeInv => TypeOK
  BY DEF TypeInv
<1>3. QED
  BY <1>1, <1>2, PTL

-----------------------------------------------------------------------------
(* Pruning waits for the rollups.                                            *)

\* The heartbeats the writer still holds are of the last instant.
WaitingFresh == \A h \in waiting : h.at = now - 1

\* The boundaries of the pass under way.
PassWindow ==
    pass.pc # "idle" => /\ pass.rollupBefore <= horizon
                        /\ pass.today <= Day(now)
                        /\ pass.rawBefore < pass.today

KeyOf(c) == <<c.device, c.day>>

\* A row the pass may prune is rolled up, about to be, or of a day that will
\* not be: as long as no pass was left with more than it could do.
KeptUp ==
    pass.pc \in {"rollup", "raw"} /\ ~behind =>
        \A h \in heartbeats : Day(h.at) < pass.rawBefore =>
            \/ DeviceDay(h) \in DOMAIN rollups
            \/ Day(h.at) < horizon
            \/ pass.pc = "rollup" /\ \E c \in pass.todo : KeyOf(c) = DeviceDay(h)

PruneInv == TypeInv /\ WaitingFresh /\ PassWindow /\ KeptUp /\ PrunedOnceRolledUp

\* The fields TypeOK gives a row and the pass.
LEMMA Fields ==
    ASSUME TypeInv
    PROVE  /\ now \in Nat /\ horizon \in Int /\ Day(now) \in Nat /\ Day(now) \in Days
           /\ pass.today \in Nat /\ pass.rawBefore \in Int /\ pass.rollupBefore \in Int
           /\ pass.todo \subseteq Candidate
           /\ \A h \in heartbeats \cup waiting \cup probes :
                 /\ h \in Heartbeat /\ h.device \in Devices /\ h.at \in Nat /\ h.at \in Instants
                 /\ Day(h.at) \in Nat
           /\ \A c \in Candidate : c.device \in Devices /\ c.day \in Days /\ c.day \in Nat
<1>1. now \in Instants /\ pass \in Pass
  BY DEF TypeInv, TypeOK
<1>2. now \in Nat /\ Day(now) \in Nat /\ Day(now) \in Days
  BY <1>1, DayType DEF Instants
<1>3. /\ pass.today \in Nat /\ pass.rawBefore \in Int /\ pass.rollupBefore \in Int
      /\ pass.todo \subseteq Candidate
  BY <1>1 DEF Pass, Days
<1>4. \A h \in heartbeats \cup waiting \cup probes :
         h \in Heartbeat /\ h.device \in Devices /\ h.at \in Instants
  BY DEF TypeInv, TypeOK, Heartbeat
<1>5. \A t \in Instants : t \in Nat /\ Day(t) \in Nat
  BY DayType DEF Instants
<1>6. \A c \in Candidate : c.device \in Devices /\ c.day \in Days /\ c.day \in Nat
  BY DEF Candidate, Days
<1>7. QED
  BY <1>2, <1>3, <1>4, <1>5, <1>6 DEF TypeInv, TypeOK

\* What the writer inserts is too young to be pruned by the pass under way.
LEMMA WaitingYoung ==
    ASSUME TypeInv, WaitingFresh, PassWindow, pass.pc # "idle", NEW h \in waiting
    PROVE  Day(h.at) >= pass.rawBefore
<1>1. h.at \in Nat /\ now \in Nat \ {0} /\ h.at = now - 1
  BY Fields DEF WaitingFresh
<1>2. Day(h.at) >= Day(now) - 1 /\ Day(h.at) \in Nat /\ Day(now) \in Nat
  BY <1>1, DayBefore, DayBounds
<1>3. pass.today <= Day(now) /\ pass.rawBefore < pass.today
  BY DEF PassWindow
<1>4. QED
  BY <1>2, <1>3, Fields

LEMMA InitPrune == Init => PruneInv
<1> SUFFICES ASSUME Init PROVE PruneInv
  OBVIOUS
<1>1. waiting = {} /\ heartbeats = {} /\ lost = {} /\ pass.pc = "idle"
  BY DEF Init, Idle
<1>2. WaitingFresh /\ PassWindow /\ KeptUp /\ PrunedOnceRolledUp
  BY <1>1 DEF WaitingFresh, PassWindow, KeptUp, PrunedOnceRolledUp
<1>3. QED
  BY <1>2, InitType DEF PruneInv

\* The clock only goes on, and the boundary of the history with it.
LEMMA Advances ==
    ASSUME TypeInv, [Next]_vars
    PROVE  /\ now' >= now /\ Day(now') >= Day(now) /\ Day(now') \in Nat
           /\ horizon' >= horizon
           /\ behind => behind'
<1>1. /\ now \in Nat /\ horizon \in Int /\ Day(now) \in Nat
      /\ now' \in Nat /\ horizon' \in Int /\ Day(now') \in Nat
  <2>1. TypeInv'
    BY NextType
  <2>2. now' \in Instants /\ horizon' \in Int
    BY <2>1 DEF TypeInv, TypeOK
  <2>3. QED
    BY <2>2, Fields, DayType DEF Instants
<1>2. now' >= now
  <2>1. CASE \E up \in [Devices -> BOOLEAN] : Probe(up)
    BY <1>1, <2>1 DEF Probe
  <2>2. CASE Off
    BY <1>1, <2>2, DayBounds DEF Off
  <2>3. CASE ~Off /\ ~\E up \in [Devices -> BOOLEAN] : Probe(up)
    <3>1. now' = now
      BY <2>3 DEF Next, Flush, SetRetention, Once, Begin, Find, Skip, WriteRollup, EndRollUp,
                  RollUpFails, PruneChunk, PruneRollups, PruneResolvedIncidents, PruneFails,
                  Stop, vars, service
    <3>2. QED
      BY <1>1, <3>1
  <2>4. QED
    BY <2>1, <2>2, <2>3
<1>3. Day(now') >= Day(now)
  BY <1>1, <1>2, DayOrder
<1>4. horizon' >= horizon
  <2>1. CASE Begin
    <3>1. retention.rollup \in Nat
      BY RetentionAssumption DEF TypeInv, TypeOK
    <3>2. horizon' = Max({horizon, Day(now) - retention.rollup})
      BY <2>1 DEF Begin
    <3>3. Day(now) - retention.rollup \in Int
      BY <1>1, <3>1
    <3>4. QED
      BY <1>1, <3>2, <3>3, MaxOfTwo
  <2>2. CASE ~Begin
    <3>1. horizon' = horizon
      BY <2>2 DEF Next, Probe, Off, Flush, SetRetention, Once, Find, Skip, WriteRollup,
                  EndRollUp, RollUpFails, PruneChunk, PruneRollups, PruneResolvedIncidents,
                  PruneFails, Stop, vars, history
    <3>2. QED
      BY <1>1, <3>1
  <2>3. QED
    BY <2>1, <2>2
<1>5. behind => behind'
  BY DEF Next, Probe, Off, Flush, SetRetention, Once, Begin, Find, Skip, WriteRollup,
         EndRollUp, RollUpFails, PruneChunk, PruneRollups, PruneResolvedIncidents,
         PruneFails, Stop, vars, history
<1>6. QED
  BY <1>1, <1>2, <1>3, <1>4, <1>5

LEMMA NextFresh ==
    ASSUME TypeInv, WaitingFresh, [Next]_vars
    PROVE  WaitingFresh'
<1>1. ASSUME NEW up \in [Devices -> BOOLEAN], Probe(up) PROVE WaitingFresh'
  <2>1. waiting' = Sampled(up) /\ now' = now + 1
    BY <1>1 DEF Probe, Sampled
  <2>2. QED
    BY <2>1, Fields DEF WaitingFresh, Sampled
<1>2. CASE Off
  BY <1>2 DEF Off, WaitingFresh
<1>3. CASE Flush
  BY <1>3 DEF Flush, WaitingFresh
<1>4. CASE ~Off /\ ~Flush /\ ~\E up \in [Devices -> BOOLEAN] : Probe(up)
  <2>1. UNCHANGED <<now, waiting>>
    BY <1>4 DEF Next, SetRetention, Once, Begin, Find, Skip, WriteRollup, EndRollUp,
                RollUpFails, PruneChunk, PruneRollups, PruneResolvedIncidents, PruneFails,
                Stop, vars, service
  <2>2. QED
    BY <2>1 DEF WaitingFresh
<1>5. QED
  BY <1>1, <1>2, <1>3, <1>4

LEMMA NextWindow ==
    ASSUME TypeInv, PassWindow, [Next]_vars
    PROVE  PassWindow'
<1>1. /\ now \in Nat /\ horizon \in Int /\ Day(now) \in Nat
      /\ pass.today \in Nat /\ pass.rawBefore \in Int /\ pass.rollupBefore \in Int
      /\ horizon' \in Int
  <2>1. TypeInv'
    BY NextType
  <2>2. QED
    BY <2>1, Fields DEF TypeInv, TypeOK
<1>2. CASE Begin
  <2>1. /\ pass'.today = Day(now) /\ pass'.rawBefore = Day(now) - retention.raw
        /\ pass'.rollupBefore = Day(now) - retention.rollup
        /\ horizon' = Max({horizon, Day(now) - retention.rollup}) /\ now' = now
    BY <1>2 DEF Begin, service
  <2>2. retention.raw \in Nat \ {0} /\ retention.rollup \in Nat
    BY RetentionAssumption DEF TypeInv, TypeOK
  <2>3. horizon' >= Day(now) - retention.rollup
    <3>1. Day(now) - retention.rollup \in Int
      BY <1>1, <2>2
    <3>2. QED
      BY <1>1, <2>1, <3>1, MaxOfTwo
  <2>4. QED
    BY <1>1, <2>1, <2>2, <2>3 DEF PassWindow
<1>3. CASE ~Begin
  <2>1. \/ pass'.pc = "idle"
        \/ /\ pass'.today = pass.today /\ pass'.rawBefore = pass.rawBefore
           /\ pass'.rollupBefore = pass.rollupBefore
           /\ pass.pc # "idle" \/ pass'.pc = pass.pc
    <3>1. pass \in Pass
      BY DEF TypeInv, TypeOK
    <3>2. \/ pass' = Idle \/ pass' = pass
          \/ \E pc \in {"raw", "rollups", "incidents"} : pass' = [pass EXCEPT !.pc = pc] /\ pass.pc # "idle"
          \/ pass' = [pass EXCEPT !.pc = "raw", !.todo = {}] /\ pass.pc # "idle"
          \/ \E todo : pass' = [pass EXCEPT !.pc = "rollup", !.todo = todo] /\ pass.pc # "idle"
          \/ \E todo : pass' = [pass EXCEPT !.todo = todo] /\ pass.pc # "idle"
      BY <1>3 DEF Next, Probe, Off, Flush, SetRetention, Once, Find, Skip, WriteRollup,
                  EndRollUp, RollUpFails, PruneChunk, PruneRollups, PruneResolvedIncidents,
                  PruneFails, Stop, vars
    <3>3. QED
      BY <3>1, <3>2, IdleType DEF Pass
  <2>2. horizon' >= horizon /\ Day(now') >= Day(now) /\ Day(now') \in Nat
    BY Advances
  <2>3. QED
    BY <1>1, <2>1, <2>2 DEF PassWindow
<1>4. QED
  BY <1>2, <1>3

\* A row the pass may prune, and why it may.
Settled(h) ==
    \/ DeviceDay(h) \in DOMAIN rollups
    \/ Day(h.at) < horizon
    \/ pass.pc = "rollup" /\ \E c \in pass.todo : KeyOf(c) = DeviceDay(h)

LEMMA FindKeepsUp ==
    ASSUME TypeInv, PassWindow, Find
    PROVE  KeptUp'
<1>1. PICK taken \in SUBSET Unrolled(pass.today) :
         /\ pass' = [pass EXCEPT !.pc = "rollup", !.todo = {CandidateOf(k) : k \in taken}]
         /\ behind' = (behind \/ taken # Unrolled(pass.today))
  BY DEF Find, kSubset
<1>2. UNCHANGED <<heartbeats, rollups, horizon>> /\ pass.pc = "find"
  BY DEF Find, tables
<1>3. /\ pass'.pc = "rollup" /\ pass'.rawBefore = pass.rawBefore
      /\ pass'.todo = {CandidateOf(k) : k \in taken}
  BY <1>1 DEF TypeInv, TypeOK, Pass
<1>4. SUFFICES ASSUME ~behind', NEW h \in heartbeats, Day(h.at) < pass.rawBefore,
                      DeviceDay(h) \notin DOMAIN rollups
               PROVE  \E c \in pass'.todo : KeyOf(c) = DeviceDay(h)
  BY <1>2, <1>3 DEF KeptUp, KeyOf, DeviceDay
<1>5. DeviceDay(h) \in taken
  <2>1. taken = Unrolled(pass.today)
    BY <1>1, <1>4
  <2>2. Day(h.at) < pass.today /\ Day(h.at) \in Nat /\ h.at \in Nat /\ pass.today \in Nat
    BY <1>2, <1>4, Fields DEF PassWindow
  <2>3. h.at < Midnight(pass.today)
    BY <2>2, DayReached, MidnightType
  <2>4. QED
    BY <1>4, <2>1, <2>3 DEF Unrolled
<1>6. KeyOf(CandidateOf(DeviceDay(h))) = DeviceDay(h)
  BY DEF KeyOf, CandidateOf, DeviceDay
<1>7. QED
  BY <1>3, <1>5, <1>6

LEMMA RollupsKeepUp ==
    ASSUME TypeInv, PassWindow, KeptUp, NEW c \in pass.todo,
           Skip(c) \/ \E down \in 0..DayLen : WriteRollup(c, down)
    PROVE  KeptUp'
<1>1. /\ pass.pc = "rollup" /\ pass' = [pass EXCEPT !.todo = @ \ {c}]
      /\ UNCHANGED <<heartbeats, horizon, behind>>
      /\ \/ c.day < pass.rollupBefore /\ rollups' = rollups
         \/ DOMAIN rollups' = DOMAIN rollups \cup {KeyOf(c)}
  BY DEF Skip, WriteRollup, tables, history, KeyOf
<1>2. /\ pass'.pc = "rollup" /\ pass'.rawBefore = pass.rawBefore
      /\ pass'.todo = pass.todo \ {c}
  BY <1>1 DEF TypeInv, TypeOK, Pass
<1>3. SUFFICES ASSUME ~behind, NEW h \in heartbeats, Day(h.at) < pass.rawBefore,
                      DeviceDay(h) \notin DOMAIN rollups', ~(Day(h.at) < horizon)
               PROVE  \E o \in pass'.todo : KeyOf(o) = DeviceDay(h)
  BY <1>1, <1>2 DEF KeptUp, KeyOf, DeviceDay
<1>4. PICK o \in pass.todo : KeyOf(o) = DeviceDay(h)
  BY <1>1, <1>3 DEF KeptUp
<1>5. o # c
  <2>1. CASE c.day < pass.rollupBefore
    <3>1. /\ pass.rollupBefore <= horizon /\ c.day \in Nat /\ Day(h.at) \in Nat
          /\ pass.rollupBefore \in Int /\ horizon \in Int
      BY <1>1, Fields DEF PassWindow
    <3>2. o.day = Day(h.at)
      BY <1>4 DEF KeyOf, DeviceDay
    <3>3. QED
      BY <1>3, <2>1, <3>1, <3>2
  <2>2. CASE ~(c.day < pass.rollupBefore)
    BY <1>1, <1>3, <1>4, <2>2
  <2>3. QED
    BY <2>1, <2>2
<1>6. QED
  BY <1>2, <1>4, <1>5

LEMMA FlushKeepsUp ==
    ASSUME TypeInv, WaitingFresh, PassWindow, KeptUp, Flush
    PROVE  KeptUp'
<1>1. /\ heartbeats' = heartbeats \cup waiting
      /\ UNCHANGED <<rollups, pass, horizon, behind>>
  BY DEF Flush
<1>2. SUFFICES ASSUME pass.pc \in {"rollup", "raw"}, ~behind,
                      NEW h \in heartbeats \cup waiting, Day(h.at) < pass.rawBefore
               PROVE  Settled(h)
  BY <1>1 DEF KeptUp, Settled, DeviceDay, KeyOf
<1>3. h \in heartbeats
  <2>1. CASE h \in waiting
    <3>1. Day(h.at) >= pass.rawBefore /\ Day(h.at) \in Nat /\ pass.rawBefore \in Int
      BY <1>2, <2>1, WaitingYoung, Fields
    <3>2. QED
      BY <1>2, <3>1
  <2>2. QED
    BY <2>1
<1>4. QED
  BY <1>2, <1>3 DEF KeptUp, Settled

LEMMA NextKeepsUp ==
    ASSUME TypeInv, WaitingFresh, PassWindow, KeptUp, [Next]_vars
    PROVE  KeptUp'
<1>1. CASE Find
  BY <1>1, FindKeepsUp
<1>2. CASE \E c \in pass.todo : Skip(c) \/ \E down \in 0..DayLen : WriteRollup(c, down)
  BY <1>2, RollupsKeepUp
<1>3. CASE Flush
  BY <1>3, FlushKeepsUp
<1>4. CASE EndRollUp
  <2>1. /\ pass.pc = "rollup" /\ pass.todo = {} /\ pass' = [pass EXCEPT !.pc = "raw"]
        /\ UNCHANGED <<heartbeats, rollups, horizon, behind>>
    BY <1>4 DEF EndRollUp, tables, history
  <2>2. pass'.rawBefore = pass.rawBefore
    BY <2>1 DEF TypeInv, TypeOK, Pass
  <2>3. QED
    BY <2>1, <2>2 DEF KeptUp, DeviceDay, KeyOf
<1>5. CASE PruneChunk
  <2>1. /\ heartbeats' \subseteq heartbeats /\ pass.pc = "raw"
        /\ pass' \in {[pass EXCEPT !.pc = "rollups"], pass}
        /\ UNCHANGED <<rollups, horizon, behind>>
    BY <1>5 DEF PruneChunk
  <2>2. pass'.pc = "rollups" \/ pass' = pass
    BY <2>1 DEF TypeInv, TypeOK, Pass
  <2>3. QED
    BY <2>1, <2>2 DEF KeptUp, DeviceDay, KeyOf
<1>6. CASE RollUpFails
  BY <1>6 DEF RollUpFails, KeptUp
<1>7. CASE Begin \/ PruneRollups \/ PruneResolvedIncidents \/ PruneFails \/ Stop
  <2>1. pass'.pc \in {"idle", "find", "rollups", "incidents"}
    <3>1. \/ \E pc \in {"rollups", "incidents"} : pass' = [pass EXCEPT !.pc = pc]
          \/ pass' = Idle \/ pass'.pc = "find"
      BY <1>7 DEF Begin, PruneRollups, PruneResolvedIncidents, PruneFails, Stop
    <3>2. QED
      BY <3>1, IdleType DEF TypeInv, TypeOK, Pass
  <2>2. QED
    BY <2>1 DEF KeptUp
<1>8. CASE \/ \E up \in [Devices -> BOOLEAN] : Probe(up)
           \/ Off \/ UNCHANGED vars
           \/ \E raw \in RawDays, rollup \in RollupDays : SetRetention(raw, rollup)
  <2>1. UNCHANGED <<heartbeats, rollups, pass, horizon, behind>>
    BY <1>8 DEF Probe, Off, SetRetention, vars, tables, history
  <2>2. QED
    BY <2>1 DEF KeptUp, DeviceDay, KeyOf
<1>9. QED
  BY <1>1, <1>2, <1>3, <1>4, <1>5, <1>6, <1>7, <1>8 DEF Next, Once

LEMMA NextPruned ==
    ASSUME TypeInv, PassWindow, KeptUp, PrunedOnceRolledUp, [Next]_vars
    PROVE  PrunedOnceRolledUp'
<1>1. /\ horizon \in Int /\ horizon' \in Int /\ horizon' >= horizon
      /\ behind => behind'
  <2>1. TypeInv'
    BY NextType
  <2>2. QED
    BY <2>1, Fields, Advances DEF TypeInv, TypeOK
<1>2. \A k \in lost : k[2] \in Nat
  BY DEF TypeInv, TypeOK, Days
<1>3. CASE PruneChunk
  <2>1. PICK gone \in SUBSET {h \in heartbeats : h.at < Midnight(pass.rawBefore)} :
           lost' = lost \cup ({DeviceDay(h) : h \in gone} \ DOMAIN rollups)
    BY <1>3 DEF PruneChunk, kSubset
  <2>2. pass.pc = "raw" /\ UNCHANGED <<horizon, behind>>
    BY <1>3 DEF PruneChunk
  <2>3. ASSUME NEW h \in gone, DeviceDay(h) \notin DOMAIN rollups, DeviceDay(h)[2] >= horizon
        PROVE  behind
    <3>1. /\ h \in heartbeats /\ h.at < Midnight(pass.rawBefore)
          /\ h.at \in Nat /\ Day(h.at) \in Nat /\ pass.rawBefore \in Int /\ horizon \in Int
      BY <2>1, Fields
    <3>2. Day(h.at) < pass.rawBefore
      BY <3>1, DayReached, MidnightType
    <3>3. DeviceDay(h)[2] = Day(h.at)
      BY DEF DeviceDay
    <3>4. ~(Day(h.at) < horizon)
      BY <2>3, <3>1, <3>3
    <3>5. QED
      BY <2>2, <2>3, <3>1, <3>2, <3>4 DEF KeptUp
  <2>4. QED
    BY <2>1, <2>2, <2>3 DEF PrunedOnceRolledUp
<1>4. CASE ~PruneChunk
  <2>1. lost' = lost
    BY <1>4 DEF Next, Probe, Off, Flush, SetRetention, Once, Begin, Find, Skip, WriteRollup,
                EndRollUp, RollUpFails, PruneRollups, PruneResolvedIncidents, PruneFails,
                Stop, vars, history
  <2>2. QED
    BY <1>1, <1>2, <2>1 DEF PrunedOnceRolledUp
<1>5. QED
  BY <1>3, <1>4

LEMMA NextPrune == PruneInv /\ [Next]_vars => PruneInv'
BY NextType, NextFresh, NextWindow, NextKeepsUp, NextPruned DEF PruneInv

\* "never for a day that has not been rolled up yet" (janitor.go:120): a raw row
\* is deleted unaggregated only when some pass before was left with more days
\* than its batch, or failed.
THEOREM PrunedInOrder == Spec => []PrunedOnceRolledUp
<1>1. Spec => []PruneInv
  BY InitPrune, NextPrune, PTL DEF Spec
<1>2. PruneInv => PrunedOnceRolledUp
  BY DEF PruneInv
<1>3. QED
  BY <1>1, <1>2, PTL

-----------------------------------------------------------------------------
(* The probes of one device, as a set M of heartbeats: the run of failures    *)
(* it ends in, and when it was down by them.                                  *)

RunOf(M) == {p \in M : \A q \in M : q.at >= p.at => ~q.up}

AnsweredIn(M, a, b) == \E p \in M : p.up /\ p.at \in a..b

StreakOf(M, f) == {p \in M : p.at >= f.at /\ ~AnsweredIn(M, f.at, p.at)}

DownIn(M, t) ==
    \E f \in M : /\ ~f.up /\ f.at <= t /\ ~AnsweredIn(M, f.at, t)
                 /\ Cardinality(StreakOf(M, f)) >= Threshold

Log == {M \in SUBSET Heartbeat : IsFiniteSet(M)}

LEMMA StreakFinite ==
    ASSUME NEW M \in Log, NEW f
    PROVE  IsFiniteSet(StreakOf(M, f)) /\ Cardinality(StreakOf(M, f)) \in Nat
BY FS_Subset, FS_CardinalityType DEF Log, StreakOf

LEMMA RunFinite ==
    ASSUME NEW M \in Log
    PROVE  IsFiniteSet(RunOf(M)) /\ Cardinality(RunOf(M)) \in Nat
BY FS_Subset, FS_CardinalityType DEF Log, RunOf

\* An answer ends every outage, and changes nothing of the past.
LEMMA AddAnswer ==
    ASSUME NEW M \in Log, NEW p \in Heartbeat, p.up,
           \A q \in M : q.at < p.at, NEW t \in Nat
    PROVE  /\ RunOf(M \cup {p}) = {}
           /\ DownIn(M \cup {p}, t) <=> t < p.at /\ DownIn(M, t)
<1> DEFINE N == M \cup {p}
<1>1. p.at \in Nat /\ \A q \in M : q.at \in Nat
  BY DEF Log, Heartbeat, Instants
<1>2. RunOf(N) = {}
  BY <1>1 DEF RunOf
<1>3. \A f \in M : \A b \in Nat :
         AnsweredIn(N, f.at, b) <=> AnsweredIn(M, f.at, b) \/ p.at <= b
  BY <1>1 DEF AnsweredIn
<1>4. \A f \in M : StreakOf(N, f) = StreakOf(M, f)
  <2> SUFFICES ASSUME NEW f \in M PROVE StreakOf(N, f) = StreakOf(M, f)
    OBVIOUS
  <2>1. p \notin StreakOf(N, f)
    BY <1>1, <1>3 DEF StreakOf
  <2>2. \A q \in M : q \in StreakOf(N, f) <=> q \in StreakOf(M, f)
    BY <1>1, <1>3 DEF StreakOf
  <2>3. QED
    BY <2>1, <2>2 DEF StreakOf
<1>5. ASSUME DownIn(N, t) PROVE t < p.at /\ DownIn(M, t)
  <2>1. PICK f \in N : /\ ~f.up /\ f.at <= t /\ ~AnsweredIn(N, f.at, t)
                       /\ Cardinality(StreakOf(N, f)) >= Threshold
    BY <1>5 DEF DownIn
  <2>2. f \in M
    BY <2>1
  <2>3. ~AnsweredIn(M, f.at, t) /\ ~(p.at <= t)
    BY <1>3, <2>1, <2>2
  <2>4. Cardinality(StreakOf(M, f)) >= Threshold
    BY <1>4, <2>1, <2>2
  <2>5. DownIn(M, t)
    BY <2>1, <2>2, <2>3, <2>4 DEF DownIn
  <2>6. QED
    BY <1>1, <2>3, <2>5
<1>6. ASSUME t < p.at, DownIn(M, t) PROVE DownIn(N, t)
  <2>1. PICK f \in M : /\ ~f.up /\ f.at <= t /\ ~AnsweredIn(M, f.at, t)
                       /\ Cardinality(StreakOf(M, f)) >= Threshold
    BY <1>6 DEF DownIn
  <2>2. ~AnsweredIn(N, f.at, t)
    BY <1>1, <1>3, <1>6, <2>1
  <2>3. Cardinality(StreakOf(N, f)) >= Threshold
    BY <1>4, <2>1
  <2>4. QED
    BY <2>1, <2>2, <2>3 DEF DownIn
<1>7. QED
  BY <1>2, <1>5, <1>6

\* A failure lengthens the run; the device is down since the run's first
\* failure once the run is as long as the threshold.
LEMMA AddFailureRun ==
    ASSUME NEW M \in Log, NEW p \in Heartbeat, ~p.up,
           \A q \in M : q.at < p.at
    PROVE  /\ RunOf(M \cup {p}) = RunOf(M) \cup {p} /\ p \notin RunOf(M)
           /\ M \cup {p} \in Log
           /\ Cardinality(RunOf(M \cup {p})) = Cardinality(RunOf(M)) + 1
<1>1. p.at \in Nat /\ \A q \in M : q.at \in Nat
  BY DEF Log, Heartbeat, Instants
<1>2. p \notin RunOf(M)
  BY <1>1 DEF RunOf
<1>3. RunOf(M \cup {p}) = RunOf(M) \cup {p}
  BY <1>1 DEF RunOf
<1>4. M \cup {p} \in Log
  BY FS_AddElement DEF Log
<1>5. QED
  BY <1>2, <1>3, <1>4, RunFinite, FS_AddElement

LEMMA AddFailure ==
    ASSUME NEW M \in Log, NEW p \in Heartbeat, ~p.up,
           \A q \in M : q.at < p.at,
           NEW N, N = M \cup {p},
           NEW first \in Nat, \E f \in RunOf(N) : f.at = first,
           \A q \in RunOf(N) : q.at >= first,
           NEW t \in Nat
    PROVE  DownIn(N, t) <=> \/ DownIn(M, t)
                            \/ Cardinality(RunOf(N)) >= Threshold /\ first <= t
<1>1. p.at \in Nat /\ \A q \in M : q.at \in Nat
  BY DEF Log, Heartbeat, Instants
<1>2. N \in Log /\ Threshold \in Nat
  BY AddFailureRun, SizesAssumption
<1>3. \A a, b : AnsweredIn(N, a, b) <=> AnsweredIn(M, a, b)
  BY DEF AnsweredIn
<1>4. \A f \in N : StreakOf(M, f) \subseteq StreakOf(N, f)
  BY <1>3 DEF StreakOf
<1>5. ASSUME DownIn(M, t) PROVE DownIn(N, t)
  <2>1. PICK f \in M : /\ ~f.up /\ f.at <= t /\ ~AnsweredIn(M, f.at, t)
                       /\ Cardinality(StreakOf(M, f)) >= Threshold
    BY <1>5 DEF DownIn
  <2>2. /\ Cardinality(StreakOf(M, f)) <= Cardinality(StreakOf(N, f))
        /\ Cardinality(StreakOf(M, f)) \in Nat /\ Cardinality(StreakOf(N, f)) \in Nat
    BY <1>2, <1>4, <2>1, StreakFinite, FS_Subset
  <2>3. Cardinality(StreakOf(N, f)) >= Threshold
    BY <1>2, <2>1, <2>2
  <2>4. QED
    BY <1>3, <2>1, <2>3 DEF DownIn
<1>6. ASSUME Cardinality(RunOf(N)) >= Threshold, first <= t PROVE DownIn(N, t)
  <2>1. PICK f \in RunOf(N) : f.at = first
    OBVIOUS
  <2>2. f \in N /\ ~f.up /\ \A q \in N : q.at >= f.at => ~q.up
    BY <1>1, <2>1 DEF RunOf
  <2>3. \A b : ~AnsweredIn(N, f.at, b)
    BY <1>1, <2>2 DEF AnsweredIn
  <2>4. RunOf(N) \subseteq StreakOf(N, f)
    BY <2>1, <2>3 DEF RunOf, StreakOf
  <2>5. /\ Cardinality(RunOf(N)) <= Cardinality(StreakOf(N, f))
        /\ Cardinality(RunOf(N)) \in Nat /\ Cardinality(StreakOf(N, f)) \in Nat
    BY <1>2, <2>4, StreakFinite, RunFinite, FS_Subset
  <2>6. Cardinality(StreakOf(N, f)) >= Threshold
    BY <1>2, <1>6, <2>5
  <2>7. QED
    BY <1>6, <2>1, <2>2, <2>3, <2>6 DEF DownIn
<1>7. ASSUME DownIn(N, t), ~DownIn(M, t)
      PROVE  Cardinality(RunOf(N)) >= Threshold /\ first <= t
  <2>1. PICK f \in N : /\ ~f.up /\ f.at <= t /\ ~AnsweredIn(N, f.at, t)
                       /\ Cardinality(StreakOf(N, f)) >= Threshold
    BY <1>7 DEF DownIn
  <2>2. ~AnsweredIn(N, f.at, p.at)
    <3>1. CASE f = p
      BY <1>1, <3>1 DEF AnsweredIn
    <3>2. CASE f \in M /\ AnsweredIn(N, f.at, p.at)
      <4>1. p \notin StreakOf(N, f)
        BY <3>2 DEF StreakOf
      <4>2. StreakOf(N, f) = StreakOf(M, f)
        BY <1>3, <4>1 DEF StreakOf
      <4>3. QED
        BY <1>3, <1>7, <2>1, <3>2, <4>2 DEF DownIn
    <3>3. QED
      BY <3>1, <3>2
  <2>3. StreakOf(N, f) \subseteq RunOf(N)
    <3> SUFFICES ASSUME NEW q \in StreakOf(N, f), NEW r \in N, r.at >= q.at, r.up
                 PROVE  FALSE
      BY DEF StreakOf, RunOf
    <3>1. q \in N /\ q.at >= f.at
      BY DEF StreakOf
    <3>2. r.at \in f.at..p.at
      BY <1>1, <3>1
    <3>3. QED
      BY <2>2, <3>2 DEF AnsweredIn
  <2>4. /\ Cardinality(StreakOf(N, f)) <= Cardinality(RunOf(N))
        /\ Cardinality(RunOf(N)) \in Nat /\ Cardinality(StreakOf(N, f)) \in Nat
    BY <1>2, <2>3, StreakFinite, RunFinite, FS_Subset
  <2>5. Cardinality(RunOf(N)) >= Threshold
    BY <1>2, <2>1, <2>4
  <2>6. f \in RunOf(N)
    <3>1. \A q \in N : q.at >= f.at => ~q.up
      BY <1>1, <2>1, <2>2 DEF AnsweredIn
    <3>2. QED
      BY <2>1, <3>1 DEF RunOf
  <2>7. first <= f.at /\ f.at \in Nat
    BY <1>1, <2>1, <2>6
  <2>8. QED
    BY <2>1, <2>5, <2>7
<1>8. QED
  BY <1>5, <1>6, <1>7

-----------------------------------------------------------------------------
(* The incidents tell when a device was down, back to the horizon.           *)

Mine(d) == {p \in probes : p.device = d}

Past == \A p \in probes : p.at < now

\* The strikes of a device are the run of failures it is in.
StrikesTrue ==
    \A d \in Devices :
        /\ strikes[d].count = IF Cardinality(RunOf(Mine(d))) < Threshold
                              THEN Cardinality(RunOf(Mine(d))) ELSE Threshold
        /\ RunOf(Mine(d)) # {} =>
              /\ \E f \in RunOf(Mine(d)) : f.at = strikes[d].first
              /\ \A q \in RunOf(Mine(d)) : q.at >= strikes[d].first

\* An incident is open while the threshold is reached, since the run's start.
OpenTrue ==
    /\ \A i \in incidents : i.resolved = None =>
          strikes[i.device].count = Threshold /\ i.started = strikes[i.device].first
    /\ \A d \in Devices : strikes[d].count = Threshold =>
          \E i \in incidents : i.device = d /\ i.resolved = None

\* An answer resolved it.
ResolvedTrue ==
    \A i \in incidents : i.resolved # None =>
        \E p \in Mine(i.device) : p.up /\ p.at = i.resolved

\* No instant of a device is in two incidents.
Apart ==
    \A i, j \in incidents : \A t \in Instants :
        i.device = j.device /\ Covers(i, t) /\ Covers(j, t) => i = j

Covered(d, t) == \E i \in incidents : i.device = d /\ Covers(i, t)

CoverTrue ==
    \A d \in Devices : \A t \in Instants :
        t >= Midnight(horizon) => (DownIn(Mine(d), t) <=> Covered(d, t))

IncidentInv == Past /\ StrikesTrue /\ OpenTrue /\ ResolvedTrue /\ Apart /\ CoverTrue

LEMMA WasDownIs ==
    ASSUME NEW d, NEW t
    PROVE  WasDown(d, t) <=> DownIn(Mine(d), t)
BY DEF WasDown, DownIn, Mine, AnsweredIn, StreakOf

LEMMA IncidentFields ==
    ASSUME TypeInv, NEW i \in incidents
    PROVE  /\ i.device \in Devices /\ i.started \in Nat
           /\ i.resolved # None => i.resolved \in Nat
BY DEF TypeInv, TypeOK, Incident, Instants

LEMMA InitIncidents == Init => IncidentInv
<1> SUFFICES ASSUME Init PROVE IncidentInv
  OBVIOUS
<1>1. /\ probes = {} /\ incidents = {} /\ Threshold \in Nat \ {0}
      /\ \A d \in Devices : strikes[d].count = 0 /\ Mine(d) = {}
  BY SizesAssumption DEF Init, Mine
<1>2. \A d \in Devices : RunOf(Mine(d)) = {}
  BY <1>1 DEF RunOf
<1>3. StrikesTrue
  BY <1>1, <1>2, FS_EmptySet DEF StrikesTrue
<1>4. CoverTrue
  BY <1>1 DEF CoverTrue, Covered, DownIn
<1>5. Past /\ OpenTrue /\ ResolvedTrue /\ Apart
  BY <1>1 DEF Past, OpenTrue, ResolvedTrue, Apart
<1>6. QED
  BY <1>3, <1>4, <1>5 DEF IncidentInv

\* The heartbeat a probe adds to the log of one device.
Sample(d, up) == [device |-> d, at |-> now, up |-> up[d]]

LEMMA ProbeLog ==
    ASSUME TypeInv, Past, NEW up \in [Devices -> BOOLEAN], Probe(up), NEW d \in Devices
    PROVE  /\ Sample(d, up) \in Heartbeat
           /\ Sample(d, up).at = now /\ Sample(d, up).up = up[d] /\ now \in Nat
           /\ Mine(d) \in Log
           /\ \A q \in Mine(d) : q.at < Sample(d, up).at
           /\ Mine(d)' = Mine(d) \cup {Sample(d, up)}
<1>1. now \in Instants /\ now \in Nat
  BY DEF TypeInv, TypeOK, Instants
<1>2. Sample(d, up) \in Heartbeat
  BY <1>1 DEF Sample, Heartbeat
<1>3. Mine(d) \in Log
  BY FS_Subset DEF Mine, Log, TypeInv, TypeOK, RowsCountable
<1>4. probes' = probes \cup Sampled(up)
  BY DEF Probe, Sampled
<1>5. Mine(d)' = Mine(d) \cup {Sample(d, up)}
  BY <1>4 DEF Mine, Sampled, Sample
<1>6. QED
  BY <1>1, <1>2, <1>3, <1>5 DEF Past, Mine, Sample

\* What a probe does to the run and the strikes of one device.
LEMMA ProbeRun ==
    ASSUME TypeInv, Past, NEW up \in [Devices -> BOOLEAN], Probe(up), NEW d \in Devices
    PROVE  /\ up[d] => RunOf(Mine(d)') = {} /\ strikes'[d].count = 0
           /\ ~up[d] =>
                 /\ RunOf(Mine(d)') = RunOf(Mine(d)) \cup {Sample(d, up)}
                 /\ Cardinality(RunOf(Mine(d))) \in Nat
                 /\ Cardinality(RunOf(Mine(d)')) = Cardinality(RunOf(Mine(d))) + 1
                 /\ strikes'[d] = Failed(d, strikes[d])
<1>1. strikes' = [ e \in Devices |-> IF up[e] THEN [count |-> 0, first |-> None]
                                     ELSE Failed(e, strikes[e]) ]
  BY DEF Probe
<1>2. CASE up[d]
  <2>1. RunOf(Mine(d)') = {}
    BY <1>2, ProbeLog, AddAnswer
  <2>2. QED
    BY <1>1, <1>2, <2>1
<1>3. CASE ~up[d]
  <2>1. /\ RunOf(Mine(d)') = RunOf(Mine(d)) \cup {Sample(d, up)}
        /\ Cardinality(RunOf(Mine(d)')) = Cardinality(RunOf(Mine(d))) + 1
    BY <1>3, ProbeLog, AddFailureRun
  <2>2. Cardinality(RunOf(Mine(d))) \in Nat
    BY ProbeLog, RunFinite
  <2>3. QED
    BY <1>1, <1>3, <2>1, <2>2
<1>4. QED
  BY <1>2, <1>3

LEMMA ProbeStrikes ==
    ASSUME TypeInv, Past, StrikesTrue, NEW up \in [Devices -> BOOLEAN], Probe(up)
    PROVE  StrikesTrue'
<1> SUFFICES ASSUME NEW d \in Devices
             PROVE  /\ strikes'[d].count = IF Cardinality(RunOf(Mine(d)')) < Threshold
                                           THEN Cardinality(RunOf(Mine(d)')) ELSE Threshold
                    /\ RunOf(Mine(d)') # {} =>
                          /\ \E f \in RunOf(Mine(d)') : f.at = strikes'[d].first
                          /\ \A q \in RunOf(Mine(d)') : q.at >= strikes'[d].first
  BY DEF StrikesTrue
<1>1. Threshold \in Nat \ {0} /\ now \in Nat
  BY SizesAssumption, Fields
<1>2. CASE up[d]
  <2>1. RunOf(Mine(d)') = {} /\ strikes'[d].count = 0
    BY <1>2, ProbeRun
  <2>2. QED
    BY <1>1, <2>1, FS_EmptySet
<1>3. CASE ~up[d]
  <2> DEFINE run == RunOf(Mine(d))
             n   == Cardinality(run)
  <2>1. /\ RunOf(Mine(d)') = run \cup {Sample(d, up)} /\ Sample(d, up).at = now
        /\ n \in Nat /\ Cardinality(RunOf(Mine(d)')) = n + 1
        /\ strikes'[d] = Failed(d, strikes[d])
    BY <1>3, ProbeRun, ProbeLog
  <2>2. /\ strikes[d].count = IF n < Threshold THEN n ELSE Threshold
        /\ run # {} => /\ \E f \in run : f.at = strikes[d].first
                       /\ \A q \in run : q.at >= strikes[d].first
    BY DEF StrikesTrue
  <2>3. /\ n = 0 <=> run = {}
        /\ \A q \in run : q.at \in Nat /\ q.at < now
    <3>1. IsFiniteSet(run)
      BY ProbeLog, RunFinite
    <3>2. \A q \in run : q.at \in Nat /\ q.at < now
      BY Fields DEF RunOf, Mine, Past
    <3>3. QED
      BY <3>1, <3>2, FS_EmptySet
  <2> HIDE DEF n, run
  <2>4. CASE strikes[d].count = Threshold
    <3>1. strikes'[d] = strikes[d]
      BY <2>1, <2>4 DEF Failed
    <3>2. n >= Threshold /\ run # {}
      BY <1>1, <2>1, <2>2, <2>3, <2>4
    <3>3. strikes[d].first \in Nat /\ strikes[d].first < now
      BY <2>2, <2>3, <3>2
    <3>4. QED
      BY <1>1, <2>1, <2>2, <2>4, <3>1, <3>2, <3>3
  <2>5. CASE strikes[d].count # Threshold
    <3>1. n < Threshold /\ strikes[d].count = n
      BY <1>1, <2>1, <2>2, <2>5
    <3>2. /\ strikes'[d].count = n + 1
          /\ strikes'[d].first = IF n = 0 THEN now ELSE strikes[d].first
      BY <2>1, <2>5, <3>1 DEF Failed
    <3>3. CASE n = 0
      BY <1>1, <2>1, <2>3, <3>1, <3>2, <3>3
    <3>4. CASE n # 0
      <4>1. strikes[d].first \in Nat /\ strikes[d].first < now
        BY <2>2, <2>3, <3>4
      <4>2. QED
        BY <1>1, <2>1, <2>2, <2>3, <3>1, <3>2, <3>4, <4>1
    <3>5. QED
      BY <3>3, <3>4
  <2>6. QED
    BY <2>4, <2>5
<1>4. QED
  BY <1>2, <1>3

\* What a probe does to the incidents: those of a device that answered are
\* resolved, and a device that fails often enough has a new one.
Closed(i, up) ==
    IF i.resolved = None /\ up[i.device] THEN [i EXCEPT !.resolved = now] ELSE i

Opened(d) == [device |-> d, started |-> Failed(d, strikes[d]).first, resolved |-> None]

LEMMA ProbeIncidents ==
    ASSUME NEW up \in [Devices -> BOOLEAN], Probe(up)
    PROVE  /\ \A i \in incidents : Closed(i, up) \in incidents'
           /\ \A d \in Devices : ~up[d] /\ Detects(d) => Opened(d) \in incidents'
           /\ \A j \in incidents' :
                 \/ \E i \in incidents : j = Closed(i, up)
                 \/ /\ j.device \in Devices /\ ~up[j.device] /\ Detects(j.device)
                    /\ j = Opened(j.device)
<1> DEFINE down   == {d \in Devices : ~up[d] /\ Detects(d)}
           opened == {[device |-> d, started |-> Failed(d, strikes[d]).first,
                       resolved |-> None] : d \in down}
<1>1. incidents' = { IF i.resolved = None /\ up[i.device] THEN [i EXCEPT !.resolved = now] ELSE i :
                     i \in incidents } \cup opened
  BY DEF Probe
<1>2. incidents' = {Closed(i, up) : i \in incidents} \cup {Opened(d) : d \in down}
  BY <1>1 DEF Closed, Opened
<1>3. \A d \in down : Opened(d).device = d
  BY DEF Opened
<1>4. QED
  BY <1>2, <1>3

LEMMA ClosedFields ==
    ASSUME TypeInv, NEW up \in [Devices -> BOOLEAN], NEW i \in incidents
    PROVE  /\ Closed(i, up).device = i.device /\ Closed(i, up).started = i.started
           /\ Closed(i, up).resolved = IF i.resolved = None /\ up[i.device] THEN now
                                       ELSE i.resolved
           /\ now # None
           /\ \A t : Covers(Closed(i, up), t) => Covers(i, t)
           /\ \A t \in Nat : t < now /\ Covers(i, t) => Covers(Closed(i, up), t)
<1>1. i \in Incident /\ now # None
  BY NoneAssumption, Fields DEF TypeInv, TypeOK
<1>2. /\ Closed(i, up).device = i.device /\ Closed(i, up).started = i.started
      /\ Closed(i, up).resolved = IF i.resolved = None /\ up[i.device] THEN now
                                  ELSE i.resolved
  BY <1>1 DEF Closed, Incident
<1>3. QED
  BY <1>1, <1>2 DEF Covers

LEMMA ProbeOpen ==
    ASSUME TypeInv, Past, StrikesTrue, OpenTrue,
           NEW up \in [Devices -> BOOLEAN], Probe(up)
    PROVE  OpenTrue'
<1>1. Threshold \in Nat \ {0}
  BY SizesAssumption
<1>2. ASSUME NEW j \in incidents', j.resolved = None
      PROVE  /\ strikes'[j.device].count = Threshold
             /\ j.started = strikes'[j.device].first
  <2>1. CASE \E i \in incidents : j = Closed(i, up)
    <3>1. PICK i \in incidents : j = Closed(i, up)
      BY <2>1
    <3>2. /\ i.resolved = None /\ ~up[i.device] /\ j.device = i.device
          /\ j.started = i.started /\ i.device \in Devices
      BY <1>2, <3>1, ClosedFields, IncidentFields
    <3>3. strikes[i.device].count = Threshold /\ i.started = strikes[i.device].first
      BY <3>2 DEF OpenTrue
    <3>4. strikes'[i.device] = strikes[i.device]
      BY <3>2, <3>3, ProbeRun DEF Failed
    <3>5. QED
      BY <3>2, <3>3, <3>4
  <2>2. CASE /\ j.device \in Devices /\ ~up[j.device] /\ Detects(j.device)
             /\ j = Opened(j.device)
    <3>1. strikes'[j.device] = Failed(j.device, strikes[j.device])
      BY <2>2, ProbeRun
    <3>2. j.started = Failed(j.device, strikes[j.device]).first
      BY <2>2 DEF Opened
    <3>3. Failed(j.device, strikes[j.device]).count = Threshold
      BY <1>1, <2>2 DEF Failed, Detects
    <3>4. QED
      BY <3>1, <3>2, <3>3
  <2>3. QED
    BY <1>2, <2>1, <2>2, ProbeIncidents
<1>3. ASSUME NEW d \in Devices, strikes'[d].count = Threshold
      PROVE  \E j \in incidents' : j.device = d /\ j.resolved = None
  <2>1. ~up[d] /\ strikes'[d] = Failed(d, strikes[d])
    BY <1>1, <1>3, ProbeRun
  <2>2. CASE strikes[d].count = Threshold
    <3>1. PICK i \in incidents : i.device = d /\ i.resolved = None
      BY <2>2 DEF OpenTrue
    <3>2. Closed(i, up).device = d /\ Closed(i, up).resolved = None
      BY <2>1, <3>1, ClosedFields
    <3>3. QED
      BY <3>2, ProbeIncidents
  <2>3. CASE strikes[d].count # Threshold
    <3>1. strikes[d].count \in Nat
      BY DEF TypeInv, TypeOK
    <3>2. Detects(d)
      BY <1>1, <1>3, <2>1, <2>3, <3>1 DEF Failed, Detects
    <3>3. Opened(d).device = d /\ Opened(d).resolved = None
      BY DEF Opened
    <3>4. QED
      BY <2>1, <3>2, <3>3, ProbeIncidents
  <2>4. QED
    BY <2>2, <2>3
<1>4. QED
  BY <1>2, <1>3 DEF OpenTrue

LEMMA ProbeResolved ==
    ASSUME TypeInv, Past, ResolvedTrue, NEW up \in [Devices -> BOOLEAN], Probe(up)
    PROVE  ResolvedTrue'
<1> SUFFICES ASSUME NEW j \in incidents', j.resolved # None
             PROVE  \E p \in Mine(j.device)' : p.up /\ p.at = j.resolved
  BY DEF ResolvedTrue
<1>1. PICK i \in incidents : j = Closed(i, up)
  BY ProbeIncidents DEF Opened
<1>2. j.device = i.device /\ i.device \in Devices
  BY <1>1, ClosedFields, IncidentFields
<1>3. Mine(i.device)' = Mine(i.device) \cup {Sample(i.device, up)}
  BY <1>2, ProbeLog
<1>4. CASE i.resolved = None
  <2>1. j.resolved = now /\ up[i.device]
    BY <1>1, <1>4, ClosedFields
  <2>2. Sample(i.device, up).up /\ Sample(i.device, up).at = now
    BY <1>2, <2>1, ProbeLog
  <2>3. QED
    BY <1>2, <1>3, <2>1, <2>2
<1>5. CASE i.resolved # None
  <2>1. j.resolved = i.resolved
    BY <1>1, <1>5, ClosedFields
  <2>2. PICK p \in Mine(i.device) : p.up /\ p.at = i.resolved
    BY <1>5 DEF ResolvedTrue
  <2>3. QED
    BY <1>2, <1>3, <2>1, <2>2
<1>6. QED
  BY <1>4, <1>5

\* An old incident of a device is over before its new one starts.
LEMMA OpensAfter ==
    ASSUME TypeInv, Past, StrikesTrue, OpenTrue, ResolvedTrue,
           NEW i \in incidents, Detects(i.device), NEW t \in Nat, Covers(i, t)
    PROVE  t < Opened(i.device).started
<1> DEFINE d == i.device
<1>1. d \in Devices /\ Threshold \in Nat \ {0} /\ now \in Nat
  BY IncidentFields, SizesAssumption, Fields
<1>2. strikes[d].count = Threshold - 1
  BY DEF Detects
<1>3. i.resolved # None
  BY <1>1, <1>2 DEF OpenTrue
<1>4. PICK p \in Mine(d) : p.up /\ p.at = i.resolved
  BY <1>3 DEF ResolvedTrue
<1>5. t < p.at /\ p.at < now /\ p.at \in Nat
  BY <1>3, <1>4, Fields DEF Covers, Past, Mine
<1>6. Opened(d).started = IF strikes[d].count = 0 THEN now ELSE strikes[d].first
  BY <1>1, <1>2 DEF Opened, Failed
<1>7. CASE strikes[d].count = 0
  BY <1>1, <1>5, <1>6, <1>7
<1>8. CASE strikes[d].count # 0
  <2>1. RunOf(Mine(d)) # {}
    <3>1. Cardinality(RunOf(Mine(d))) # 0
      BY <1>1, <1>8 DEF StrikesTrue
    <3>2. QED
      BY <3>1, FS_EmptySet
  <2>2. PICK f \in RunOf(Mine(d)) : f.at = strikes[d].first
    BY <1>1, <2>1 DEF StrikesTrue
  <2>3. f.at \in Nat /\ ~(p.at >= f.at)
    BY <1>4, <2>2, Fields DEF RunOf, Mine
  <2>4. QED
    BY <1>5, <1>6, <1>8, <2>2, <2>3
<1>9. QED
  BY <1>7, <1>8

LEMMA ProbeApart ==
    ASSUME TypeInv, Past, StrikesTrue, OpenTrue, ResolvedTrue, Apart,
           NEW up \in [Devices -> BOOLEAN], Probe(up)
    PROVE  Apart'
<1> SUFFICES ASSUME NEW j \in incidents', NEW k \in incidents', NEW t \in Instants,
                    j.device = k.device, Covers(j, t), Covers(k, t)
             PROVE  j = k
  BY DEF Apart, Covers
<1>1. t \in Nat
  BY DEF Instants
<1>2. ASSUME NEW i \in incidents, NEW x \in incidents', Detects(x.device), x = Opened(x.device),
             i.device = x.device, Covers(Closed(i, up), t), Covers(x, t)
      PROVE  FALSE
  <2>1. Covers(i, t)
    BY <1>2, ClosedFields
  <2>2. t < Opened(i.device).started
    BY <1>1, <1>2, <2>1, OpensAfter
  <2>3. x.started <= t /\ x.started \in Nat
    <3>1. i.device \in Devices
      BY IncidentFields
    <3>2. x.started \in Nat
      BY <1>2, <3>1, FailedType DEF Opened, Instants
    <3>3. QED
      BY <1>2, <3>2 DEF Covers
  <2>4. QED
    BY <1>1, <1>2, <2>2, <2>3
<1>3. \A x \in {j, k} :
         \/ \E i \in incidents : x = Closed(i, up)
         \/ x \in incidents' /\ Detects(x.device) /\ x = Opened(x.device)
  BY ProbeIncidents
<1>4. CASE \E i \in incidents : j = Closed(i, up)
  <2>1. PICK i \in incidents : j = Closed(i, up)
    BY <1>4
  <2>2. CASE \E l \in incidents : k = Closed(l, up)
    <3>1. PICK l \in incidents : k = Closed(l, up)
      BY <2>2
    <3>2. Covers(i, t) /\ Covers(l, t) /\ i.device = l.device
      BY <2>1, <3>1, ClosedFields
    <3>3. i = l
      BY <3>2 DEF Apart
    <3>4. QED
      BY <2>1, <3>1, <3>3
  <2>3. CASE Detects(k.device) /\ k = Opened(k.device)
    BY <1>2, <2>1, <2>3, ClosedFields
  <2>4. QED
    BY <1>3, <2>2, <2>3
<1>5. CASE Detects(j.device) /\ j = Opened(j.device)
  <2>1. CASE \E l \in incidents : k = Closed(l, up)
    BY <1>2, <1>5, <2>1, ClosedFields
  <2>2. CASE Detects(k.device) /\ k = Opened(k.device)
    BY <1>5, <2>2
  <2>3. QED
    BY <1>3, <2>1, <2>2
<1>6. QED
  BY <1>3, <1>4, <1>5

\* When a device was down, as the next probe of it has it.
LEMMA ProbeDown ==
    ASSUME TypeInv, Past, StrikesTrue, NEW up \in [Devices -> BOOLEAN], Probe(up),
           NEW d \in Devices, NEW t \in Nat
    PROVE  /\ up[d] => (DownIn(Mine(d)', t) <=> t < now /\ DownIn(Mine(d), t))
           /\ ~up[d] => (DownIn(Mine(d)', t) <=>
                            \/ DownIn(Mine(d), t)
                            \/ strikes'[d].count = Threshold /\ strikes'[d].first <= t)
<1> DEFINE p == Sample(d, up)
           N == Mine(d)'
<1>1. /\ p \in Heartbeat /\ p.at = now /\ p.up = up[d] /\ now \in Nat
      /\ Mine(d) \in Log /\ \A q \in Mine(d) : q.at < p.at
      /\ N = Mine(d) \cup {p}
  BY ProbeLog
<1>2. CASE up[d]
  <2> HIDE DEF N, p
  <2>1. DownIn(N, t) <=> t < p.at /\ DownIn(Mine(d), t)
    BY <1>1, <1>2, AddAnswer
  <2>2. QED
    BY <1>1, <1>2, <2>1 DEF N
<1>3. CASE ~up[d]
  <2>1. StrikesTrue'
    BY ProbeStrikes
  <2>2. Threshold \in Nat \ {0}
    BY SizesAssumption
  <2>3. N \in Log /\ RunOf(N) = RunOf(Mine(d)) \cup {p}
    BY <1>1, <1>3, AddFailureRun
  <2>4. /\ RunOf(N) # {} /\ Cardinality(RunOf(N)) \in Nat
        /\ \A q \in RunOf(N) : q.at \in Nat
    <3> HIDE DEF N, p
    <3>1. RunOf(N) # {} /\ Cardinality(RunOf(N)) \in Nat
      BY <2>3, RunFinite
    <3>2. \A q \in N : q.at \in Nat
      BY <2>3 DEF Log, Heartbeat, Instants
    <3>3. QED
      BY <3>1, <3>2 DEF RunOf
  <2>5. /\ strikes'[d].count = IF Cardinality(RunOf(N)) < Threshold
                               THEN Cardinality(RunOf(N)) ELSE Threshold
        /\ \E f \in RunOf(N) : f.at = strikes'[d].first
        /\ \A q \in RunOf(N) : q.at >= strikes'[d].first
    BY <2>1, <2>4 DEF StrikesTrue
  <2>6. strikes'[d].count = Threshold <=> Cardinality(RunOf(N)) >= Threshold
    BY <2>2, <2>4, <2>5
  <2>7. strikes'[d].first \in Nat
    BY <2>4, <2>5
  <2> HIDE DEF N, p
  <2>8. DownIn(N, t) <=> \/ DownIn(Mine(d), t)
                         \/ Cardinality(RunOf(N)) >= Threshold /\ strikes'[d].first <= t
    <3> DEFINE M == Mine(d)
               first == strikes'[d].first
    <3>1. M \in Log /\ p \in Heartbeat /\ ~p.up /\ N = M \cup {p}
      BY <1>1, <1>3
    <3>2. \A q \in M : q.at < p.at
      BY <1>1
    <3>3. /\ first \in Nat /\ \E f \in RunOf(N) : f.at = first
          /\ \A q \in RunOf(N) : q.at >= first
      BY <2>5, <2>7
    <3> HIDE DEF M, first
    <3>4. DownIn(N, t) <=> \/ DownIn(M, t)
                           \/ Cardinality(RunOf(N)) >= Threshold /\ first <= t
      BY <3>1, <3>2, <3>3, AddFailure
    <3>5. QED
      BY <3>4 DEF M, first
  <2>9. QED
    BY <1>3, <2>6, <2>8 DEF N
<1>4. QED
  BY <1>2, <1>3

LEMMA ProbeCover ==
    ASSUME TypeInv, IncidentInv, NEW up \in [Devices -> BOOLEAN], Probe(up)
    PROVE  CoverTrue'
<1> USE DEF IncidentInv
<1> SUFFICES ASSUME NEW d \in Devices, NEW t \in Instants, t >= Midnight(horizon)
             PROVE  DownIn(Mine(d)', t) <=> Covered(d, t)'
  BY DEF CoverTrue, Probe
<1>1. t \in Nat /\ now \in Nat /\ (DownIn(Mine(d), t) <=> Covered(d, t))
  BY Fields DEF CoverTrue, Instants
<1>2. CASE up[d]
  <2>1. DownIn(Mine(d)', t) <=> t < now /\ Covered(d, t)
    BY <1>1, <1>2, ProbeDown
  <2>2. ASSUME t < now, Covered(d, t) PROVE Covered(d, t)'
    <3>1. PICK i \in incidents : i.device = d /\ Covers(i, t)
      BY <2>2 DEF Covered
    <3>2. /\ Closed(i, up).device = d /\ Covers(Closed(i, up), t)
          /\ Closed(i, up) \in incidents'
      BY <1>1, <2>2, <3>1, ClosedFields, ProbeIncidents
    <3>3. QED
      BY <3>2 DEF Covered, Covers
  <2>3. ASSUME Covered(d, t)' PROVE t < now /\ Covered(d, t)
    <3>1. PICK j \in incidents' : j.device = d /\ Covers(j, t)
      BY <2>3 DEF Covered, Covers
    <3>2. PICK i \in incidents : j = Closed(i, up)
      BY <1>2, <3>1, ProbeIncidents
    <3>3. i.device = d /\ Covers(i, t)
      BY <3>1, <3>2, ClosedFields
    <3>4. t < now
      <4>1. CASE i.resolved = None
        BY <1>2, <3>1, <3>2, <3>3, <4>1, ClosedFields DEF Covers
      <4>2. CASE i.resolved # None
        <5>1. PICK p \in Mine(d) : p.up /\ p.at = i.resolved
          BY <3>3, <4>2 DEF ResolvedTrue
        <5>2. p.at < now /\ p.at \in Nat /\ t < p.at
          BY <3>3, <4>2, <5>1, Fields DEF Past, Mine, Covers
        <5>3. QED
          BY <1>1, <5>2
      <4>3. QED
        BY <4>1, <4>2
    <3>5. QED
      BY <3>3, <3>4 DEF Covered
  <2>4. QED
    BY <2>1, <2>2, <2>3
<1>3. CASE ~up[d]
  <2>1. /\ DownIn(Mine(d)', t) <=> \/ Covered(d, t)
                                   \/ strikes'[d].count = Threshold /\ strikes'[d].first <= t
        /\ OpenTrue'
    BY <1>1, <1>3, ProbeDown, ProbeOpen
  <2>2. ASSUME Covered(d, t) PROVE Covered(d, t)'
    <3>1. PICK i \in incidents : i.device = d /\ Covers(i, t)
      BY <2>2 DEF Covered
    <3>2. Closed(i, up) = i /\ Closed(i, up) \in incidents'
      BY <1>3, <3>1, ProbeIncidents DEF Closed
    <3>3. QED
      BY <3>1, <3>2 DEF Covered, Covers
  <2>3. ASSUME strikes'[d].count = Threshold, strikes'[d].first <= t PROVE Covered(d, t)'
    <3>1. PICK j \in incidents' : j.device = d /\ j.resolved = None
      BY <2>1, <2>3 DEF OpenTrue
    <3>2. j.started = strikes'[d].first
      BY <2>1, <3>1 DEF OpenTrue
    <3>3. QED
      BY <2>3, <3>1, <3>2 DEF Covered, Covers
  <2>4. ASSUME Covered(d, t)', ~(strikes'[d].count = Threshold /\ strikes'[d].first <= t)
        PROVE  Covered(d, t)
    <3>1. PICK j \in incidents' : j.device = d /\ Covers(j, t)
      BY <2>4 DEF Covered, Covers
    <3>2. j.resolved # None
      BY <2>1, <2>4, <3>1 DEF OpenTrue, Covers
    <3>3. PICK i \in incidents : j = Closed(i, up)
      BY <3>1, <3>2, ProbeIncidents DEF Opened
    <3>4. i.device = d /\ Covers(i, t)
      BY <3>1, <3>3, ClosedFields
    <3>5. QED
      BY <3>4 DEF Covered
  <2>5. QED
    BY <2>1, <2>2, <2>3, <2>4
<1>4. QED
  BY <1>2, <1>3

\* The instants before the horizon are nobody's concern.
LEMMA HorizonOrder ==
    ASSUME TypeInv, NEW h \in Int, h >= horizon, NEW t \in Nat, t >= Midnight(h)
    PROVE  t >= Midnight(horizon)
<1>1. horizon \in Int
  BY Fields
<1>2. Midnight(horizon) <= Midnight(h) /\ Midnight(horizon) \in Int /\ Midnight(h) \in Int
  BY <1>1, MidnightOrder, MidnightType
<1>3. QED
  BY <1>2

\* A step of the pass that drops incidents drops those the history has left.
LEMMA PassIncidents ==
    ASSUME TypeInv, TypeInv', PassWindow, IncidentInv, [Next]_vars,
           ~\E up \in [Devices -> BOOLEAN] : Probe(up)
    PROVE  IncidentInv'
<1> USE DEF IncidentInv
<1>1. UNCHANGED <<probes, strikes>> /\ now' >= now /\ now \in Nat /\ now' \in Nat
      /\ horizon' >= horizon /\ horizon' \in Int /\ horizon \in Int
  <2>1. UNCHANGED <<probes, strikes>>
    BY DEF Next, Flush, Off, SetRetention, Once, Begin, Find, Skip, WriteRollup, EndRollUp,
           RollUpFails, PruneChunk, PruneRollups, PruneResolvedIncidents, PruneFails, Stop,
           vars, service
  <2>2. now \in Nat /\ now' \in Nat /\ horizon \in Int /\ horizon' \in Int
    BY DEF TypeInv, TypeOK, Instants
  <2>3. QED
    BY <2>1, <2>2, Advances
<1>2. /\ incidents' \subseteq incidents
      /\ \A i \in incidents : i.resolved = None => i \in incidents'
      /\ \A i \in incidents \ incidents' : \A t \in Nat : t >= Midnight(horizon) => ~Covers(i, t)
  <2>1. CASE PruneResolvedIncidents
    <3>1. /\ incidents' = {i \in incidents : ~(i.resolved # None
                                               /\ i.resolved < Midnight(pass.rollupBefore))}
          /\ pass.pc = "incidents"
      BY <2>1 DEF PruneResolvedIncidents
    <3>2. pass.rollupBefore <= horizon /\ pass.rollupBefore \in Int
      BY <3>1, Fields DEF PassWindow
    <3>3. /\ Midnight(pass.rollupBefore) <= Midnight(horizon)
          /\ Midnight(pass.rollupBefore) \in Int /\ Midnight(horizon) \in Int
      BY <1>1, <3>2, MidnightOrder, MidnightType
    <3>4. QED
      BY <3>1, <3>3, IncidentFields DEF Covers
  <2>2. CASE ~PruneResolvedIncidents
    <3>1. incidents' = incidents
      BY <2>2 DEF Next, Flush, Off, SetRetention, Once, Begin, Find, Skip, WriteRollup, EndRollUp,
                  RollUpFails, PruneChunk, PruneRollups, PruneFails, Stop, vars, tables
    <3>2. QED
      BY <3>1
  <2>3. QED
    BY <2>1, <2>2
<1>3. \A d : Mine(d)' = Mine(d)
  BY <1>1 DEF Mine
<1>4. Past'
  <2>1. \A p \in probes : p.at \in Nat
    BY Fields
  <2>2. QED
    BY <1>1, <2>1 DEF Past
<1>5. StrikesTrue'
  BY <1>1, <1>3 DEF StrikesTrue
<1>6. OpenTrue'
  BY <1>1, <1>2 DEF OpenTrue
<1>7. ResolvedTrue'
  BY <1>2, <1>3 DEF ResolvedTrue
<1>8. Apart'
  BY <1>2 DEF Apart, Covers
<1>9. CoverTrue'
  <2> SUFFICES ASSUME NEW d \in Devices, NEW t \in Instants, t >= Midnight(horizon')
               PROVE  DownIn(Mine(d)', t) <=> Covered(d, t)'
    BY DEF CoverTrue, Midnight
  <2>1. t \in Nat /\ t >= Midnight(horizon)
    BY <1>1, HorizonOrder DEF Instants
  <2>2. Covered(d, t)' <=> Covered(d, t)
    BY <1>2, <2>1 DEF Covered, Covers
  <2>3. QED
    BY <1>3, <2>1, <2>2 DEF CoverTrue
<1>10. QED
  BY <1>4, <1>5, <1>6, <1>7, <1>8, <1>9

LEMMA NextIncidents ==
    ASSUME TypeInv, TypeInv', PassWindow, IncidentInv, [Next]_vars
    PROVE  IncidentInv'
<1>1. CASE \E up \in [Devices -> BOOLEAN] : Probe(up)
  <2>1. PICK up \in [Devices -> BOOLEAN] : Probe(up)
    BY <1>1
  <2>2. StrikesTrue' /\ OpenTrue' /\ ResolvedTrue' /\ Apart' /\ CoverTrue'
    BY <2>1, ProbeStrikes, ProbeOpen, ProbeResolved, ProbeApart, ProbeCover DEF IncidentInv
  <2>3. Past'
    <3>1. probes' = probes \cup Sampled(up) /\ now' = now + 1
      BY <2>1 DEF Probe, Sampled
    <3>2. now \in Nat /\ \A p \in probes : p.at \in Nat
      BY Fields
    <3>3. QED
      BY <3>1, <3>2 DEF IncidentInv, Past, Sampled
  <2>4. QED
    BY <2>2, <2>3 DEF IncidentInv
<1>2. CASE ~\E up \in [Devices -> BOOLEAN] : Probe(up)
  BY <1>2, PassIncidents
<1>3. QED
  BY <1>1, <1>2

-----------------------------------------------------------------------------
(* The history.  What a rollup says is what the probes said; what of a day   *)
(* is neither raw nor rolled up has been counted lost, or is too old.        *)

DownOn(k) == {t \in Instants : Day(t) = k[2] /\ DownIn(Mine(k[1]), t)}

Kept(p) ==
    \/ p \in heartbeats \cup waiting
    \/ DeviceDay(p) \in DOMAIN rollups \cup lost
    \/ Day(p.at) < horizon

RowsKept == \A p \in probes : Kept(p)

TodoTrue ==
    pass.pc = "rollup" =>
        /\ \A c \in pass.todo : c.day < pass.today /\ KeyOf(c) \notin DOMAIN rollups
        /\ \A c, o \in pass.todo : KeyOf(c) = KeyOf(o) => c = o

\* The device-days HistoryIsTrue is about.
Sound(k) == k \notin spoilt \cup lost /\ k[2] >= horizon /\ ProbesOf(k) \cap waiting = {}

RowTrue(k, row) ==
    /\ row.total = Cardinality(ProbesOf(k))
    /\ row.up = Cardinality(Ups(ProbesOf(k)))
    /\ row.down = Cardinality(DownOn(k))

RollupTrue ==
    \A k \in DOMAIN rollups :
        k[2] < Day(now) /\ (Sound(k) => RowTrue(k, rollups[k]))

HistoryInv == PruneInv /\ IncidentInv /\ RowsKept /\ TodoTrue /\ RollupTrue

LEMMA InitHistory == Init => HistoryInv
<1> SUFFICES ASSUME Init PROVE HistoryInv
  OBVIOUS
<1>1. probes = {} /\ DOMAIN rollups = {} /\ pass.pc = "idle"
  BY DEF Init, Idle
<1>2. RowsKept /\ TodoTrue /\ RollupTrue
  BY <1>1 DEF RowsKept, TodoTrue, RollupTrue
<1>3. QED
  BY <1>2, InitPrune, InitIncidents DEF HistoryInv

LEMMA MinOfTwo ==
    ASSUME NEW a \in Int, NEW b \in Int
    PROVE  /\ Min({a, b}) \in Int
           /\ Min({a, b}) <= a /\ Min({a, b}) <= b
           /\ Min({a, b}) \in {a, b}
<1>1. \E x \in {a, b} : \A y \in {a, b} : x <= y
  <2>1. CASE a <= b
    BY <2>1
  <2>2. CASE b <= a
    BY <2>2
  <2>3. QED
    BY <2>1, <2>2
<1>2. Min({a, b}) \in {a, b} /\ \A y \in {a, b} : Min({a, b}) <= y
  BY <1>1 DEF Min
<1>3. QED
  BY <1>2

\* The instants of a day.
LEMMA DayInstants ==
    ASSUME NEW t \in Nat, NEW day \in Nat
    PROVE  Day(t) = day <=> Midnight(day) <= t /\ t < Midnight(day + 1)
<1>1. Day(t) \in Nat /\ Midnight(day) \in Int /\ Midnight(day + 1) \in Int
  BY DayBounds, MidnightType
<1>2. (Day(t) >= day <=> t >= Midnight(day)) /\ (Day(t) >= day + 1 <=> t >= Midnight(day + 1))
  BY DayReached
<1>3. QED
  BY <1>1, <1>2

\* What the incidents of a day add up to is how long the device was down: no
\* instant of it is in two of them, and each that was down is in one.
LEMMA DownCount ==
    ASSUME TypeInv, IncidentInv, NEW k \in Devices \X Days, k[2] >= horizon,
           NEW end \in Int, end <= MaxNow + 1, end <= Midnight(k[2] + 1)
    PROVE  DownBy(k, end) = Cardinality({t \in DownOn(k) : t < end})
<1> DEFINE T == {t \in DownOn(k) : t < end}
           X == { x \in incidents \X (Midnight(k[2])..(end - 1)) :
                    x[1].device = k[1] /\ Covers(x[1], x[2]) }
           f == [x \in X |-> x[2]]
<1>1. /\ k[1] \in Devices /\ k[2] \in Nat /\ MaxNow \in Nat /\ horizon \in Int
      /\ Midnight(k[2]) \in Int /\ Midnight(k[2] + 1) \in Int /\ Midnight(k[2]) >= 0
  <2>1. k[1] \in Devices /\ k[2] \in Nat /\ MaxNow \in Nat /\ horizon \in Int
    BY SizesAssumption, Fields DEF Days
  <2>2. Midnight(0) = 0
    BY SizesAssumption DEF Midnight
  <2>3. QED
    BY <2>1, <2>2, MidnightType, MidnightOrder
<1>2. \A t \in Nat : Midnight(k[2]) <= t /\ t < end <=> Day(t) = k[2] /\ t < end
  BY <1>1, DayInstants
<1>3. \A t \in Nat : Day(t) = k[2] => t >= Midnight(horizon)
  <2> SUFFICES ASSUME NEW t \in Nat, Day(t) = k[2] PROVE t >= Midnight(horizon)
    OBVIOUS
  <2>1. t >= Midnight(k[2])
    BY <1>1, DayInstants
  <2>2. QED
    BY <1>1, <2>1, HorizonOrder
<1>4. \A t \in Nat :
         t \in T <=> Midnight(k[2]) <= t /\ t < end /\ Covered(k[1], t)
  <2> SUFFICES ASSUME NEW t \in Nat
               PROVE  t \in T <=> Midnight(k[2]) <= t /\ t < end /\ Covered(k[1], t)
    OBVIOUS
  <2>1. t < end => t \in Instants
    BY <1>1 DEF Instants
  <2>2. CASE t < end /\ Day(t) = k[2]
    <3>1. DownIn(Mine(k[1]), t) <=> Covered(k[1], t)
      BY <1>1, <1>3, <2>1, <2>2 DEF IncidentInv, CoverTrue
    <3>2. QED
      BY <1>2, <2>1, <2>2, <3>1 DEF DownOn
  <2>3. CASE ~(t < end /\ Day(t) = k[2])
    BY <1>2, <2>3 DEF DownOn
  <2>4. QED
    BY <2>2, <2>3
<1>5. \A x \in X : x[1] \in incidents /\ x[2] \in Nat /\ x[2] \in T /\ x[2] \in Instants
  <2> SUFFICES ASSUME NEW x \in X
               PROVE  x[1] \in incidents /\ x[2] \in Nat /\ x[2] \in T /\ x[2] \in Instants
    OBVIOUS
  <2>1. /\ x[1] \in incidents /\ x[2] \in Midnight(k[2])..(end - 1)
        /\ x[1].device = k[1] /\ Covers(x[1], x[2])
    OBVIOUS
  <2>2. x[2] \in Nat /\ Midnight(k[2]) <= x[2] /\ x[2] < end /\ x[2] \in Instants
    BY <1>1, <2>1 DEF Instants
  <2>3. Covered(k[1], x[2])
    BY <2>1 DEF Covered
  <2>4. QED
    BY <1>4, <2>1, <2>2, <2>3
<1>6. f \in Injection(X, T)
  <2>1. f \in [X -> T]
    BY <1>5
  <2>2. ASSUME NEW x \in X, NEW y \in X, f[x] = f[y] PROVE x = y
    <3>1. x[2] = y[2]
      BY <2>2
    <3>2. x[1] = y[1]
      BY <1>5, <3>1 DEF IncidentInv, Apart
    <3>3. x = <<x[1], x[2]>> /\ y = <<y[1], y[2]>>
      OBVIOUS
    <3>4. QED
      BY <3>1, <3>2, <3>3
  <2>3. QED
    BY <2>1, <2>2 DEF Injection, IsInjective
<1>7. f \in Surjection(X, T)
  <2>1. f \in [X -> T]
    BY <1>5
  <2>2. ASSUME NEW t \in T PROVE \E x \in X : f[x] = t
    <3>1. t \in Nat
      BY DEF DownOn, Instants
    <3>2. Midnight(k[2]) <= t /\ t < end /\ Covered(k[1], t)
      BY <1>4, <3>1
    <3>3. PICK i \in incidents : i.device = k[1] /\ Covers(i, t)
      BY <3>2 DEF Covered
    <3>4. t \in Midnight(k[2])..(end - 1)
      BY <1>1, <3>1, <3>2
    <3>5. <<i, t>> \in X /\ <<i, t>>[2] = t
      BY <3>3, <3>4
    <3>6. QED
      BY <3>5
  <2>3. QED
    BY <2>1, <2>2 DEF Surjection
<1>8. IsFiniteSet(T)
  <2>1. T \subseteq Instants
    BY DEF DownOn
  <2>2. IsFiniteSet(0..MaxNow)
    BY <1>1, FS_Interval
  <2>3. QED
    BY <2>1, <2>2, FS_Subset DEF Instants
<1> HIDE DEF T, X, f
<1>9. Cardinality(X) = Cardinality(T)
  BY <1>6, <1>7, <1>8, FS_Injection
<1>10. QED
  BY <1>9 DEF DownBy, T, X

\* Rows stay until they are counted lost, and rollups until they are too old.
LEMMA NextRows ==
    ASSUME TypeInv, PassWindow, RowsKept, [Next]_vars
    PROVE  RowsKept'
<1>1. horizon \in Int /\ horizon' \in Int /\ horizon' >= horizon
  <2>1. TypeInv'
    BY NextType
  <2>2. QED
    BY <2>1, Advances DEF TypeInv, TypeOK
<1>2. \A p \in probes : Day(p.at) \in Nat /\ DeviceDay(p)[2] = Day(p.at)
  BY Fields DEF DeviceDay
<1>3. ASSUME NEW up \in [Devices -> BOOLEAN], Probe(up) PROVE RowsKept'
  <2>1. /\ probes' = probes \cup Sampled(up) /\ waiting' = Sampled(up) /\ waiting = {}
        /\ UNCHANGED <<heartbeats, rollups, lost, horizon>>
    BY <1>3 DEF Probe, Sampled
  <2>2. QED
    BY <2>1 DEF RowsKept, Kept, DeviceDay
<1>4. CASE PruneChunk
  <2>1. PICK gone \in SUBSET heartbeats :
           /\ heartbeats' = heartbeats \ gone
           /\ lost' = lost \cup ({DeviceDay(h) : h \in gone} \ DOMAIN rollups)
    BY <1>4 DEF PruneChunk, kSubset
  <2>2. UNCHANGED <<probes, waiting, rollups, horizon>>
    BY <1>4 DEF PruneChunk, service
  <2>3. QED
    BY <2>1, <2>2 DEF RowsKept, Kept, DeviceDay
<1>5. CASE PruneRollups
  <2>1. /\ DOMAIN rollups' = {l \in DOMAIN rollups : l[2] >= pass.rollupBefore}
        /\ pass.pc = "rollups"
        /\ UNCHANGED <<probes, waiting, heartbeats, lost, horizon>>
    BY <1>5 DEF PruneRollups, service, history
  <2>2. pass.rollupBefore \in Int /\ pass.rollupBefore <= horizon
    BY <2>1, Fields DEF PassWindow
  <2>3. ASSUME NEW p \in probes, DeviceDay(p) \in DOMAIN rollups
        PROVE  DeviceDay(p) \in DOMAIN rollups' \/ Day(p.at) < horizon
    BY <1>1, <1>2, <2>1, <2>2, <2>3
  <2>4. QED
    BY <2>1, <2>3 DEF RowsKept, Kept, DeviceDay
<1>6. CASE ~PruneChunk /\ ~PruneRollups /\ ~\E up \in [Devices -> BOOLEAN] : Probe(up)
  <2>1. /\ heartbeats \cup waiting \subseteq heartbeats' \cup waiting'
        /\ DOMAIN rollups \subseteq DOMAIN rollups' /\ lost' = lost /\ probes' = probes
    BY <1>6 DEF Next, Flush, Off, SetRetention, Once, Begin, Find, Skip, WriteRollup, EndRollUp,
                RollUpFails, PruneResolvedIncidents, PruneFails, Stop, vars, service, tables, history
  <2>2. QED
    BY <1>1, <1>2, <2>1 DEF RowsKept, Kept, DeviceDay
<1>7. QED
  BY <1>3, <1>4, <1>5, <1>6

\* What a pass means to write is of finished days, none of them twice.
LEMMA NextTodo ==
    ASSUME TypeInv, TodoTrue, [Next]_vars
    PROVE  TodoTrue'
<1>1. pass \in Pass /\ pass.today \in Nat
  BY Fields DEF TypeInv, TypeOK
<1>2. CASE Find
  <2>1. PICK taken \in SUBSET Unrolled(pass.today) :
           pass' = [pass EXCEPT !.pc = "rollup", !.todo = {CandidateOf(k) : k \in taken}]
    BY <1>2 DEF Find, kSubset
  <2>2. pass'.today = pass.today /\ pass'.todo = {CandidateOf(k) : k \in taken}
    BY <1>1, <2>1 DEF Pass
  <2>3. rollups' = rollups
    BY <1>2 DEF Find, tables
  <2>4. \A k \in taken :
           /\ KeyOf(CandidateOf(k)) = k /\ k \notin DOMAIN rollups
           /\ CandidateOf(k).day < pass.today
    <3> SUFFICES ASSUME NEW k \in taken
                 PROVE  /\ KeyOf(CandidateOf(k)) = k /\ k \notin DOMAIN rollups
                        /\ CandidateOf(k).day < pass.today
      OBVIOUS
    <3>1. PICK h \in heartbeats : k = DeviceDay(h) /\ h.at < Midnight(pass.today)
      BY DEF Unrolled
    <3>2. k \in Devices \X Days /\ k \notin DOMAIN rollups
      BY <1>1, UnrolledType
    <3>3. KeyOf(CandidateOf(k)) = k /\ CandidateOf(k).day = k[2]
      BY <3>2 DEF KeyOf, CandidateOf
    <3>4. k[2] = Day(h.at) /\ h.at \in Nat /\ Day(h.at) \in Nat
      BY <3>1, Fields DEF DeviceDay
    <3>5. k[2] < pass.today
      BY <1>1, <3>1, <3>4, DayReached, MidnightType
    <3>6. QED
      BY <3>2, <3>3, <3>5
  <2>5. QED
    BY <2>2, <2>3, <2>4 DEF TodoTrue, KeyOf
<1>3. CASE \E c \in pass.todo : Skip(c) \/ \E down \in 0..DayLen : WriteRollup(c, down)
  <2>1. PICK c \in pass.todo : Skip(c) \/ \E down \in 0..DayLen : WriteRollup(c, down)
    BY <1>3
  <2>2. /\ pass.pc = "rollup" /\ pass' = [pass EXCEPT !.todo = @ \ {c}]
        /\ DOMAIN rollups' \subseteq DOMAIN rollups \cup {KeyOf(c)}
    BY <2>1 DEF Skip, WriteRollup, tables, KeyOf
  <2>3. pass'.today = pass.today /\ pass'.todo = pass.todo \ {c}
    BY <1>1, <2>2 DEF Pass
  <2>4. \A o \in pass'.todo :
           o \in pass.todo /\ o.day < pass'.today /\ KeyOf(o) \notin DOMAIN rollups'
    BY <2>2, <2>3 DEF TodoTrue
  <2>5. QED
    BY <2>2, <2>4 DEF TodoTrue, KeyOf
<1>4. CASE \/ Begin \/ EndRollUp \/ RollUpFails \/ PruneChunk \/ PruneRollups
           \/ PruneResolvedIncidents \/ PruneFails \/ Stop
  <2>1. \/ \E pc \in {"raw", "rollups", "incidents"} : pass' = [pass EXCEPT !.pc = pc]
        \/ pass' = [pass EXCEPT !.pc = "raw", !.todo = {}]
        \/ pass' = Idle \/ pass'.pc = "find"
        \/ pass' = pass /\ pass.pc = "raw"
    <3>1. CASE Begin
      BY <3>1 DEF Begin
    <3>2. CASE EndRollUp \/ RollUpFails \/ PruneChunk
      BY <3>2 DEF EndRollUp, RollUpFails, PruneChunk
    <3>3. CASE PruneRollups \/ PruneResolvedIncidents \/ PruneFails \/ Stop
      BY <3>3 DEF PruneRollups, PruneResolvedIncidents, PruneFails, Stop
    <3>4. QED
      BY <1>4, <3>1, <3>2, <3>3
  <2>2. pass'.pc # "rollup"
    BY <1>1, <2>1, IdleType DEF Pass
  <2>3. QED
    BY <2>2 DEF TodoTrue
<1>5. CASE \/ \E up \in [Devices -> BOOLEAN] : Probe(up)
           \/ Flush \/ Off \/ UNCHANGED vars
           \/ \E raw \in RawDays, rollup \in RollupDays : SetRetention(raw, rollup)
  <2>1. UNCHANGED <<pass, rollups>>
    BY <1>5 DEF Probe, Flush, Off, SetRetention, vars, tables
  <2>2. QED
    BY <2>1 DEF TodoTrue, KeyOf
<1>6. QED
  BY <1>2, <1>3, <1>4, <1>5 DEF Next, Once

\* Steps that leave the rows of the rollups as they are, and take nothing of a
\* device-day's probes or incidents away.
LEMMA RollupsStand ==
    ASSUME TypeInv, RollupTrue, Day(now') >= Day(now), Day(now') \in Nat,
           UNCHANGED probes, horizon' \in Int, horizon' >= horizon,
           NEW k \in DOMAIN rollups, k \in DOMAIN rollups', rollups'[k] = rollups[k],
           k \in spoilt \cup lost => k \in spoilt' \cup lost',
           Sound(k)' => ProbesOf(k) \cap waiting = {}
    PROVE  k[2] < Day(now') /\ (Sound(k)' => RowTrue(k, rollups[k])')
<1>1. k[2] \in Nat /\ Day(now) \in Nat /\ horizon \in Int
  BY Fields DEF TypeInv, TypeOK, Days
<1>2. k[2] < Day(now) /\ (Sound(k) => RowTrue(k, rollups[k]))
  BY DEF RollupTrue
<1>3. Sound(k)' => Sound(k)
  BY <1>1 DEF Sound
<1>4. ProbesOf(k)' = ProbesOf(k) /\ DownOn(k)' = DownOn(k)
  BY DEF ProbesOf, DownOn, Mine
<1>5. RowTrue(k, rollups[k]) => RowTrue(k, rollups[k])'
  BY <1>4 DEF RowTrue, Ups
<1>6. QED
  BY <1>1, <1>2, <1>3, <1>5

LEMMA ProbeRollups ==
    ASSUME TypeInv, TypeInv', IncidentInv, RollupTrue,
           NEW up \in [Devices -> BOOLEAN], Probe(up)
    PROVE  RollupTrue'
<1>1. /\ waiting = {} /\ probes' = probes \cup Sampled(up) /\ now' = now + 1
      /\ UNCHANGED <<rollups, horizon, lost>>
  BY DEF Probe, Sampled
<1>2. /\ now \in Nat /\ Day(now) \in Nat /\ Day(now') \in Nat /\ Day(now') >= Day(now)
      /\ Threshold \in Nat \ {0}
  BY <1>1, Fields, DayOrder, DayBounds, SizesAssumption
<1> SUFFICES ASSUME NEW k \in DOMAIN rollups
             PROVE  k[2] < Day(now') /\ (Sound(k)' => RowTrue(k, rollups[k])')
  BY <1>1 DEF RollupTrue
<1>3. /\ k[1] \in Devices /\ k[2] \in Nat /\ k[2] < Day(now)
      /\ Sound(k) => RowTrue(k, rollups[k])
  BY DEF TypeInv, TypeOK, RollupTrue, Days
<1>4. SUFFICES ASSUME Sound(k)' PROVE RowTrue(k, rollups[k])'
  BY <1>2, <1>3
<1>5. spoilt \subseteq spoilt'
  BY DEF Probe
<1>6. Sound(k) /\ k \notin spoilt' /\ k[2] >= horizon
  BY <1>1, <1>4, <1>5 DEF Sound
<1>7. ProbesOf(k)' = ProbesOf(k)
  <2>1. \A p \in Sampled(up) : DeviceDay(p)[2] = Day(now)
    BY DEF Sampled, DeviceDay
  <2>2. \A p \in Sampled(up) : DeviceDay(p) # k
    BY <1>2, <1>3, <2>1
  <2>3. QED
    BY <1>1, <2>2 DEF ProbesOf, DeviceDay
<1>8. ASSUME NEW t \in Instants, Day(t) = k[2]
      PROVE  DownIn(Mine(k[1])', t) <=> DownIn(Mine(k[1]), t)
  <2> DEFINE d == k[1]
  <2>1. t \in Nat
    BY DEF Instants
  <2>2. t < now
    <3>1. t < Midnight(Day(now)) /\ Midnight(Day(now)) \in Int /\ Midnight(Day(now)) <= now
      BY <1>2, <1>3, <1>8, <2>1, DayReached, DayBounds, MidnightType
    <3>2. QED
      BY <1>2, <2>1, <3>1
  <2>3. t >= Midnight(horizon)
    <3>1. t >= Midnight(k[2])
      BY <1>3, <1>8, <2>1, DayInstants
    <3>2. QED
      BY <1>3, <1>6, <2>1, <3>1, HorizonOrder
  <2>4. CASE up[d]
    BY <1>3, <2>1, <2>2, <2>4, ProbeDown DEF IncidentInv
  <2>5. CASE ~up[d]
    <3>1. DownIn(Mine(d)', t) <=>
             \/ DownIn(Mine(d), t)
             \/ strikes'[d].count = Threshold /\ strikes'[d].first <= t
      BY <1>3, <2>1, <2>5, ProbeDown DEF IncidentInv
    <3>2. ASSUME strikes'[d].count = Threshold, strikes'[d].first <= t
          PROVE  DownIn(Mine(d), t)
      <4>1. strikes'[d] = Failed(d, strikes[d]) /\ strikes[d].count \in Nat
        BY <1>3, <2>5, ProbeRun DEF IncidentInv, TypeInv, TypeOK
      <4>2. CASE strikes[d].count = Threshold
        <5>1. strikes'[d] = strikes[d]
          BY <4>1, <4>2 DEF Failed
        <5>2. PICK i \in incidents : i.device = d /\ i.resolved = None
          BY <1>3, <4>2 DEF IncidentInv, OpenTrue
        <5>3. i.started = strikes[d].first
          BY <5>2 DEF IncidentInv, OpenTrue
        <5>4. Covered(d, t)
          BY <3>2, <5>1, <5>2, <5>3 DEF Covered, Covers
        <5>5. QED
          BY <1>3, <2>3, <5>4 DEF IncidentInv, CoverTrue
      <4>3. CASE strikes[d].count # Threshold
        <5>1. Detects(d)
          BY <1>2, <3>2, <4>1, <4>3 DEF Failed, Detects
        <5>2. strikes'[d].first \in Nat
          BY <1>3, <4>1, FailedType DEF Instants
        <5>3. Day(strikes'[d].first) <= k[2]
          BY <1>8, <2>1, <3>2, <5>2, DayOrder
        <5>4. k \in spoilt'
          <6>1. Opened(d).device = d /\ Opened(d).started = strikes'[d].first
            BY <4>1 DEF Opened
          <6>2. k \in DOMAIN rollups /\ k[2] < Day(now)
            BY <1>3
          <6>3. QED
            BY <1>3, <2>5, <5>1, <5>3, <6>1, <6>2 DEF Probe, Opened
        <5>5. QED
          BY <1>6, <5>4
      <4>4. QED
        BY <4>2, <4>3
    <3>3. QED
      BY <3>1, <3>2
  <2>6. QED
    BY <2>4, <2>5
<1>9. DownOn(k)' = DownOn(k)
  <2>1. DownOn(k)' = {t \in Instants : Day(t) = k[2] /\ DownIn(Mine(k[1])', t)}
    BY DEF DownOn, DownIn, AnsweredIn, StreakOf, Day, Instants
  <2>2. QED
    BY <1>8, <2>1 DEF DownOn
<1>10. QED
  BY <1>1, <1>3, <1>6, <1>7, <1>9 DEF RowTrue, Ups

\* The rollup a pass writes is right, or it is known not to be.
LEMMA WriteRollups ==
    ASSUME TypeInv, PassWindow, IncidentInv, RowsKept, TodoTrue, RollupTrue,
           NEW c \in pass.todo, NEW down \in 0..DayLen, WriteRollup(c, down)
    PROVE  RollupTrue'
<1> DEFINE k == KeyOf(c)
           row == [total |-> c.total, up |-> c.up, down |-> down]
           right == c = CandidateOf(k) /\ down = DowntimeForDay(k)
<1>1. /\ pass.pc = "rollup"
      /\ rollups' = [l \in DOMAIN rollups \cup {k} |-> IF l = k THEN row ELSE rollups[l]]
      /\ spoilt' = IF right THEN spoilt \ {k} ELSE spoilt \cup {k}
      /\ UNCHANGED <<now, waiting, probes, heartbeats, incidents, horizon, lost>>
  BY DEF WriteRollup, KeyOf, service
<1>2. /\ k[1] \in Devices /\ k[2] \in Nat /\ k \in Devices \X Days /\ k[2] = c.day
      /\ pass.today \in Nat /\ Day(now) \in Nat /\ now \in Nat /\ horizon \in Int
  BY Fields DEF KeyOf, Candidate
<1>3. k \notin DOMAIN rollups /\ k[2] < Day(now)
  <2>1. pass.today <= Day(now)
    BY <1>1 DEF PassWindow
  <2>2. c.day < pass.today /\ k \notin DOMAIN rollups
    BY <1>1 DEF TodoTrue
  <2>3. QED
    BY <1>2, <2>1, <2>2
<1> HIDE DEF k
<1>4. ASSUME NEW l \in DOMAIN rollups
      PROVE  l[2] < Day(now') /\ (Sound(l)' => RowTrue(l, rollups[l])')
  <2>1. l # k /\ l \in DOMAIN rollups' /\ rollups'[l] = rollups[l]
    BY <1>1, <1>3
  <2>2. l \in spoilt \cup lost => l \in spoilt' \cup lost'
    BY <1>1, <2>1
  <2>3. Sound(l)' => ProbesOf(l) \cap waiting = {}
    BY <1>1 DEF Sound, ProbesOf
  <2>4. QED
    BY <1>1, <1>2, <2>1, <2>2, <2>3, RollupsStand
<1>5. ASSUME Sound(k)' PROVE RowTrue(k, row)
  <2>1. k \notin spoilt' /\ k \notin lost /\ k[2] >= horizon /\ ProbesOf(k) \cap waiting = {}
    BY <1>1, <1>5 DEF Sound, ProbesOf
  <2>2. right
    BY <1>1, <2>1
  <2>3. RowsOf(k) = ProbesOf(k)
    <3>1. RowsOf(k) \subseteq ProbesOf(k)
      BY DEF RowsOf, ProbesOf, TypeInv, RowsCountable
    <3>2. ASSUME NEW p \in ProbesOf(k) PROVE p \in RowsOf(k)
      <4>1. p \in probes /\ DeviceDay(p) = k /\ Day(p.at) = k[2]
        BY DEF ProbesOf, DeviceDay
      <4>2. p \in heartbeats \cup waiting
        BY <1>2, <1>3, <2>1, <4>1 DEF RowsKept, Kept
      <4>3. QED
        BY <2>1, <4>1, <4>2 DEF RowsOf
    <3>3. QED
      BY <3>1, <3>2
  <2>4. row.total = Cardinality(ProbesOf(k)) /\ row.up = Cardinality(Ups(ProbesOf(k)))
    BY <2>2, <2>3 DEF CandidateOf
  <2>5. DowntimeForDay(k) = Cardinality(DownOn(k))
    <3> DEFINE end == Midnight(k[2] + 1)
    <3>1. end \in Int /\ end <= MaxNow + 1
      <4>1. end <= Midnight(Day(now)) /\ Midnight(Day(now)) <= now
        BY <1>2, <1>3, MidnightOrder, DayBounds
      <4>2. now <= MaxNow /\ MaxNow \in Nat
        BY SizesAssumption DEF TypeInv, TypeOK, Instants
      <4>3. end \in Int /\ Midnight(Day(now)) \in Int
        BY <1>2, MidnightType
      <4>4. QED
        BY <1>2, <4>1, <4>2, <4>3
    <3>2. end <= Midnight(k[2] + 1)
      BY <3>1
    <3>3. DownBy(k, end) = Cardinality({t \in DownOn(k) : t < end})
      <4> HIDE DEF end
      <4>1. QED
        BY <1>2, <2>1, <3>1, <3>2, DownCount
    <3>4. {t \in DownOn(k) : t < end} = DownOn(k)
      BY <1>2, DayInstants DEF DownOn, Instants
    <3>5. QED
      BY <3>3, <3>4 DEF DowntimeForDay
  <2>6. QED
    BY <2>2, <2>4, <2>5 DEF RowTrue
<1>6. Sound(k)' => RowTrue(k, rollups[k])'
  <2>1. rollups'[k] = row
    BY <1>1
  <2>2. ProbesOf(k)' = ProbesOf(k) /\ DownOn(k)' = DownOn(k)
    BY <1>1 DEF ProbesOf, DownOn, Mine
  <2>3. RowTrue(k, row) => RowTrue(k, rollups[k])'
    <3> HIDE DEF row
    <3>1. QED
      BY <2>1, <2>2 DEF RowTrue, Ups
  <2>4. QED
    BY <1>5, <2>3
<1>7. QED
  BY <1>1, <1>2, <1>3, <1>4, <1>6 DEF RollupTrue

LEMMA NextRollups ==
    ASSUME TypeInv, TypeInv', PassWindow, IncidentInv, RowsKept, TodoTrue, RollupTrue, [Next]_vars
    PROVE  RollupTrue'
<1>1. /\ horizon' \in Int /\ horizon' >= horizon
      /\ Day(now') >= Day(now) /\ Day(now') \in Nat
  BY Advances DEF TypeInv, TypeOK
<1>2. CASE \E up \in [Devices -> BOOLEAN] : Probe(up)
  BY <1>2, ProbeRollups
<1>3. CASE \E c \in pass.todo : \E down \in 0..DayLen : WriteRollup(c, down)
  BY <1>3, WriteRollups
<1>4. CASE Flush
  <2> SUFFICES ASSUME NEW k \in DOMAIN rollups
               PROVE  k[2] < Day(now') /\ (Sound(k)' => RowTrue(k, rollups[k])')
    BY <1>4 DEF Flush, RollupTrue
  <2>1. /\ spoilt' = spoilt \cup { l \in DOMAIN rollups : \E h \in waiting : DeviceDay(h) = l /\ l[2] < Day(now) }
        /\ UNCHANGED <<rollups, probes, lost>>
    BY <1>4 DEF Flush
  <2>2. k[2] < Day(now)
    BY DEF RollupTrue
  <2>3. Sound(k)' => ProbesOf(k) \cap waiting = {}
    BY <2>1, <2>2 DEF Sound, ProbesOf
  <2>4. QED
    BY <1>1, <2>1, <2>3, RollupsStand
<1>5. CASE /\ ~Flush /\ ~\E up \in [Devices -> BOOLEAN] : Probe(up)
           /\ ~\E c \in pass.todo : \E down \in 0..DayLen : WriteRollup(c, down)
  <2>1. UNCHANGED <<probes, waiting, spoilt>> /\ lost \subseteq lost'
    BY <1>5 DEF Next, Off, SetRetention, Once, Begin, Find, Skip, EndRollUp, RollUpFails,
                PruneChunk, PruneRollups, PruneResolvedIncidents, PruneFails, Stop,
                vars, service, tables, history
  <2>2. /\ DOMAIN rollups' \subseteq DOMAIN rollups
        /\ \A k \in DOMAIN rollups' : rollups'[k] = rollups[k]
    <3>1. CASE PruneRollups
      BY <3>1 DEF PruneRollups
    <3>2. CASE ~PruneRollups
      <4>1. rollups' = rollups
        BY <1>5, <3>2 DEF Next, Off, SetRetention, Once, Begin, Find, Skip, EndRollUp, RollUpFails,
                          PruneChunk, PruneResolvedIncidents, PruneFails, Stop,
                          vars, tables
      <4>2. QED
        BY <4>1
    <3>3. QED
      BY <3>1, <3>2
  <2> SUFFICES ASSUME NEW k \in DOMAIN rollups'
               PROVE  k[2] < Day(now') /\ (Sound(k)' => RowTrue(k, rollups[k])')
    BY DEF RollupTrue
  <2>3. Sound(k)' => ProbesOf(k) \cap waiting = {}
    BY <2>1 DEF Sound, ProbesOf
  <2>4. QED
    BY <1>1, <2>1, <2>2, <2>3, RollupsStand
<1>6. QED
  BY <1>2, <1>3, <1>4, <1>5

LEMMA NextHistory == HistoryInv /\ [Next]_vars => HistoryInv'
<1> SUFFICES ASSUME HistoryInv, [Next]_vars PROVE HistoryInv'
  OBVIOUS
<1>1. TypeInv /\ PassWindow /\ TypeInv'
  BY NextType DEF HistoryInv, PruneInv
<1>2. PruneInv' /\ IncidentInv'
  BY <1>1, NextPrune, NextIncidents DEF HistoryInv
<1>3. RowsKept' /\ TodoTrue' /\ RollupTrue'
  BY <1>1, NextRows, NextTodo, NextRollups DEF HistoryInv
<1>4. QED
  BY <1>2, <1>3 DEF HistoryInv

\* What is shown of a day: its rollup, or its rows and incidents as they stand.
LEMMA HistoryHolds == HistoryInv => HistoryIsTrue
<1> SUFFICES ASSUME HistoryInv, NEW k \in Devices \X Days, Sound(k)
             PROVE  Shown(k) = Truth(k)
  BY DEF HistoryIsTrue, Sound
<1>1. TypeInv /\ IncidentInv /\ RowsKept /\ RollupTrue
  BY DEF HistoryInv, PruneInv
<1>2. /\ now \in Nat /\ Day(now) \in Nat /\ k[2] \in Nat /\ horizon \in Int /\ k[2] >= horizon
      /\ Midnight(k[2] + 1) \in Int /\ now <= MaxNow /\ MaxNow \in Nat
  <2>1. now \in Nat /\ Day(now) \in Nat /\ k[2] \in Nat /\ horizon \in Int /\ k[2] >= horizon
    BY <1>1, Fields DEF Days, Sound
  <2>2. now <= MaxNow /\ MaxNow \in Nat
    BY <1>1, SizesAssumption DEF TypeInv, TypeOK, Instants
  <2>3. QED
    BY <2>1, <2>2, MidnightType
<1>3. Truth(k) = [ total |-> Cardinality(ProbesOf(k)), up |-> Cardinality(Ups(ProbesOf(k))),
                   down  |-> Cardinality({t \in DownOn(k) : t < now}) ]
  <2>1. {t \in Instants : t < now /\ Day(t) = k[2] /\ WasDown(k[1], t)} = {t \in DownOn(k) : t < now}
    BY WasDownIs DEF DownOn
  <2>2. QED
    BY <2>1 DEF Truth
<1>4. CASE k \in DOMAIN rollups
  <2>1. k[2] < Day(now) /\ RowTrue(k, rollups[k])
    BY <1>1, <1>4 DEF RollupTrue
  <2>2. DownOn(k) = {t \in DownOn(k) : t < now}
    <3> SUFFICES ASSUME NEW t \in DownOn(k) PROVE t < now
      OBVIOUS
    <3>1. t \in Nat /\ Day(t) = k[2]
      BY DEF DownOn, Instants
    <3>2. t < Midnight(Day(now)) /\ Midnight(Day(now)) \in Int /\ Midnight(Day(now)) <= now
      BY <1>2, <2>1, <3>1, DayReached, DayBounds, MidnightType
    <3>3. QED
      BY <1>2, <3>1, <3>2
  <2>3. rollups[k] = [total |-> rollups[k].total, up |-> rollups[k].up, down |-> rollups[k].down]
    BY <1>1, <1>4 DEF TypeInv, TypeOK, Rollup
  <2>4. QED
    BY <1>3, <1>4, <2>1, <2>2, <2>3 DEF Shown, RowTrue
<1>5. CASE k \notin DOMAIN rollups
  <2> DEFINE end == Min({now, Midnight(k[2] + 1)})
  <2>1. RowsOf(k) = ProbesOf(k)
    <3>1. RowsOf(k) \subseteq ProbesOf(k)
      BY <1>1 DEF RowsOf, ProbesOf, TypeInv, RowsCountable
    <3>2. ASSUME NEW p \in ProbesOf(k) PROVE p \in RowsOf(k)
      <4>1. p \in probes /\ DeviceDay(p) = k /\ Day(p.at) = k[2]
        BY DEF ProbesOf, DeviceDay
      <4>2. p \in heartbeats \cup waiting
        BY <1>1, <1>2, <1>5, <4>1 DEF RowsKept, Kept, Sound
      <4>3. QED
        BY <4>1, <4>2 DEF RowsOf, ProbesOf, Sound
    <3>3. QED
      BY <3>1, <3>2
  <2>2. /\ end \in Int /\ end <= now /\ end <= Midnight(k[2] + 1)
        /\ end \in {now, Midnight(k[2] + 1)} /\ end <= MaxNow + 1
    <3>1. /\ end \in Int /\ end <= now /\ end <= Midnight(k[2] + 1)
          /\ end \in {now, Midnight(k[2] + 1)}
      <4> DEFINE m == Midnight(k[2] + 1)
      <4>1. now \in Int /\ m \in Int
        BY <1>2
      <4> HIDE DEF m
      <4>2. /\ Min({now, m}) \in Int /\ Min({now, m}) <= now /\ Min({now, m}) <= m
            /\ Min({now, m}) \in {now, m}
        BY <4>1, MinOfTwo
      <4>3. QED
        BY <4>2 DEF m
    <3> HIDE DEF end
    <3>2. QED
      BY <1>2, <3>1
  <2>3. DownBy(k, end) = Cardinality({t \in DownOn(k) : t < end})
    <3> HIDE DEF end
    <3>1. QED
      BY <1>1, <1>2, <2>2, DownCount
  <2>4. {t \in DownOn(k) : t < end} = {t \in DownOn(k) : t < now}
    <3>1. \A t \in DownOn(k) : t \in Nat /\ t < Midnight(k[2] + 1)
      BY <1>2, DayInstants DEF DownOn, Instants
    <3> HIDE DEF end
    <3>2. QED
      BY <1>2, <2>2, <3>1
  <2>5. QED
    BY <1>3, <1>5, <2>1, <2>3, <2>4 DEF Shown
<1>6. QED
  BY <1>4, <1>5

\* What the uptime queries show of a day is what its probes said ("aggregates
\* finished days, prunes what has aged out", janitor.go:1), for every size of a
\* day, a batch and a chunk, every threshold and every retention, and wherever
\* the pass stops.
THEOREM HistoryCorrect == Spec => []HistoryIsTrue
<1>1. Spec => []HistoryInv
  BY InitHistory, NextHistory, PTL DEF Spec
<1>2. QED
  BY <1>1, HistoryHolds, PTL

=============================================================================
