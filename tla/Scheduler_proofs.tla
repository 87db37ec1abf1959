--------------------------- MODULE Scheduler_proofs ---------------------------
(***************************************************************************)
(* Proofs about module Scheduler, for every set of devices, timings and     *)
(* requests and every size of the semaphore and of the result channel.       *)
(***************************************************************************)
EXTENDS Scheduler, TLAPS

Loops == [LoopIds -> Loop \cup {NoLoop}]

\* Telling a loop to stop leaves the others alone, and it is not live any more.
LEMMA CancelLoopEffect ==
    ASSUME NEW ls \in Loops, NEW i \in LoopIds
    PROVE  /\ CancelLoop(ls, i) \in Loops
           /\ \A j \in LoopIds \ {i} : CancelLoop(ls, i)[j] = ls[j]
           /\ CancelLoop(ls, i)[i] = NoLoop <=> ls[i] = NoLoop
           /\ ls[i] # NoLoop => CancelLoop(ls, i)[i].cancelled
<1> DEFINE l == [ls[i] EXCEPT !.cancelled = TRUE]
           new == IF ls[i] = NoLoop THEN NoLoop ELSE l
<1>1. CancelLoop(ls, i) = [ls EXCEPT ![i] = new]
  BY DEF CancelLoop
<1>2. ls[i] # NoLoop => l \in Loop /\ l.cancelled
  BY DEF Loops, Loop, LoopAt
<1>3. l \in Loop => l # NoLoop
  BY DEF Loop, LoopAt, NoLoop
<1> HIDE DEF l
<1>4. QED
  BY <1>1, <1>2, <1>3 DEF Loops

\* The place of a loop is not free, and the entry of a worker not empty.
LEMMA LoopIsALoop == \A l \in Loop : l # NoLoop
<1> SUFFICES ASSUME NEW l \in Loop
             PROVE  l # NoLoop
  OBVIOUS
<1>1. l.pc # "none"
  BY DEF Loop, LoopAt
<1>2. QED
  BY <1>1 DEF NoLoop

\* A row of the worker table is no empty row.
LEMMA WorkerIsAWorker == \A w \in [loop : LoopIds, timing : Timings] : w # NoWorker
<1> SUFFICES ASSUME NEW w \in [loop : LoopIds, timing : Timings]
             PROVE  w # NoWorker
  OBVIOUS
<1>1. w.loop # 0
  BY DEF LoopIds
<1>2. QED
  BY <1>1 DEF NoWorker

\* A new loop has the timing it is started with, and is live unless the run
\* context is cancelled already.
LEMMA NewLoopType ==
    ASSUME NEW timing \in Timings, root \in BOOLEAN
    PROVE  /\ NewLoop(timing) \in Loop /\ NewLoop(timing) # NoLoop
           /\ NewLoop(timing).cancelled = root /\ NewLoop(timing).timing = timing
BY DEF NewLoop, Loop, LoopAt, NoLoop

-----------------------------------------------------------------------------
(* Steps of one loop.                                                       *)

\* A loop that goes on keeps the timing it was started with, and whether it was
\* told to stop; one that returns was told to.
GoesOn(old, new) ==
    \/ new \in Loop /\ new.cancelled = old.cancelled /\ new.timing = old.timing
    \/ new = NoLoop /\ old.cancelled

\* A step of one goroutine puts a loop in its place and leaves the others.
LEMMA LoopStep ==
    ASSUME TypeOK, OneLoop, NEW d \in Devices, NEW i \in LoopIds, NEW new,
           loops[d][i] \in Loop, GoesOn(loops[d][i], new),
           Step(d, i, new)
    PROVE  /\ OneLoop'
           /\ loops' \in [Devices -> Loops]
<1> DEFINE old == loops[d][i]
<1>1. loops \in [Devices -> Loops] /\ workers \in [Devices -> [loop : LoopIds, timing : Timings] \cup {NoWorker}]
  BY DEF TypeOK, Loops
<1>2. new \in Loop \cup {NoLoop}
  BY DEF GoesOn
<1>3. loops' \in [Devices -> Loops]
  BY <1>1, <1>2 DEF Step, Loops
<1>4. \A e \in Devices, j \in LoopIds :
         loops'[e][j] = IF e = d /\ j = i THEN new ELSE loops[e][j]
  BY <1>1 DEF Step, Loops
<1>5. \A e \in Devices : Live(e)' = Live(e)
  BY <1>4, LoopIsALoop DEF Live, GoesOn
<1>6. ASSUME NEW e \in Devices, workers[e] # NoWorker, ~root
      PROVE  loops'[e][workers[e].loop].timing = loops[e][workers[e].loop].timing
  <2>1. workers[e].loop \in LoopIds
    BY <1>1, <1>6
  <2>2. workers[e].loop \in Live(e)
    BY <1>6 DEF OneLoop
  <2>3. ~loops[e][workers[e].loop].cancelled
    BY <2>2 DEF Live
  <2>4. QED
    BY <1>4, <2>1, <2>3 DEF GoesOn
<1>7. workers' = workers /\ root' = root
  BY DEF Step
<1>8. QED
  BY <1>3, <1>5, <1>6, <1>7 DEF OneLoop

-----------------------------------------------------------------------------
(* Apply, Cancel and Stop.                                                  *)

WorkerRow == [loop : LoopIds, timing : Timings] \cup {NoWorker}

\* What Apply does to one device: its loop is told to stop when it is not wanted
\* with that timing any more, and a new one is started in a free place.
LEMMA ApplyToDevice ==
    ASSUME TypeOK, OneLoop, NEW wanted \in WantedSets, Apply(wanted), NEW d \in Devices
    PROVE  /\ loops'[d] \in Loops
           /\ workers'[d] \in WorkerRow
           /\ IF workers'[d] = NoWorker \/ root THEN Live(d)' = {}
              ELSE /\ Live(d)' = {workers'[d].loop}
                   /\ loops'[d][workers'[d].loop].timing = workers'[d].timing
<1> DEFINE kept == IF Ends(d, wanted) THEN CancelLoop(loops[d], workers[d].loop) ELSE loops[d]
           KeptLive == { j \in LoopIds : kept[j] # NoLoop /\ ~kept[j].cancelled }
<1>1. /\ loops[d] \in Loops /\ workers[d] \in WorkerRow /\ root \in BOOLEAN
  BY DEF TypeOK, Loops, WorkerRow
<1>2. d \in DOMAIN wanted => wanted[d] \in Timings
  BY DEF WantedSets
<1>3. loops'[d] = IF Starts(d, wanted) THEN [kept EXCEPT ![NextFree(d)] = NewLoop(wanted[d])]
                  ELSE kept
  BY DEF Apply
<1>4. /\ Starts(d, wanted) => workers'[d] = [loop |-> NextFree(d), timing |-> wanted[d]]
      /\ d \in DOMAIN wanted /\ ~Starts(d, wanted) => workers'[d] = workers[d]
      /\ d \notin DOMAIN wanted => workers'[d] = NoWorker
  <2>1. workers'[d] = CASE Starts(d, wanted) -> [loop |-> NextFree(d), timing |-> wanted[d]]
                        [] d \in DOMAIN wanted /\ ~Starts(d, wanted) -> workers[d]
                        [] d \notin DOMAIN wanted -> NoWorker
    BY DEF Apply
  <2>2. Starts(d, wanted) => d \in DOMAIN wanted
    BY DEF Starts
  <2>3. QED
    BY <2>1, <2>2
<1>5. /\ kept \in Loops
      /\ \A j \in LoopIds : kept[j] = NoLoop <=> loops[d][j] = NoLoop
      /\ KeptLive = IF Ends(d, wanted) THEN Live(d) \ {workers[d].loop} ELSE Live(d)
  <2>1. CASE Ends(d, wanted)
    <3>1. workers[d].loop \in LoopIds
      BY <1>1, <2>1 DEF Ends, WorkerRow
    <3>2. kept = CancelLoop(loops[d], workers[d].loop)
      BY <2>1
    <3> DEFINE c == workers[d].loop
    <3> HIDE DEF kept
    <3>3. /\ kept \in Loops
          /\ \A j \in LoopIds \ {c} : kept[j] = loops[d][j]
          /\ kept[c] = NoLoop <=> loops[d][c] = NoLoop
          /\ loops[d][c] # NoLoop => kept[c].cancelled
      BY <1>1, <3>1, <3>2, CancelLoopEffect
    <3> HIDE DEF c
    <3>4. \A j \in LoopIds : kept[j] = NoLoop <=> loops[d][j] = NoLoop
      BY <3>3
    <3>5. \A j \in LoopIds :
             kept[j] # NoLoop /\ ~kept[j].cancelled
                <=> j # c /\ loops[d][j] # NoLoop /\ ~loops[d][j].cancelled
      BY <3>3
    <3>6. KeptLive = Live(d) \ {c}
      BY <3>5 DEF Live
    <3>7. QED
      BY <2>1, <3>3, <3>4, <3>6 DEF c
  <2>2. CASE ~Ends(d, wanted)
    BY <1>1, <2>2 DEF Live
  <2>3. QED
    BY <2>1, <2>2
<1>6. Starts(d, wanted) \/ d \notin DOMAIN wanted => KeptLive = {}
  <2>1. workers[d] = NoWorker \/ root => Live(d) = {}
    BY DEF OneLoop
  <2>2. workers[d] # NoWorker /\ ~root => Live(d) = {workers[d].loop}
    BY DEF OneLoop
  <2>3. (Starts(d, wanted) \/ d \notin DOMAIN wanted) /\ workers[d] # NoWorker => Ends(d, wanted)
    BY DEF Starts, Ends
  <2> HIDE DEF KeptLive
  <2>4. QED
    BY <1>5, <2>1, <2>2, <2>3
<1> HIDE DEF kept
<1>7. root' = root
  BY DEF Apply
<1>8. CASE Starts(d, wanted)
  <2> DEFINE i == NextFree(d)
             new == NewLoop(wanted[d])
  <2>1. i \in LoopIds /\ loops[d][i] = NoLoop
    <3>1. FreeLoops(d) # {}
      BY <1>8 DEF Apply
    <3>2. QED
      BY <3>1 DEF FreeLoops, NextFree
  <2>2. d \in DOMAIN wanted /\ wanted[d] \in Timings
    BY <1>2, <1>8 DEF Starts
  <2>3. /\ new \in Loop /\ new # NoLoop /\ new.cancelled = root /\ new.timing = wanted[d]
    BY <1>1, <2>2, NewLoopType
  <2>4. workers'[d] = [loop |-> i, timing |-> wanted[d]]
    BY <1>4, <1>8
  <2>5. loops'[d] = [kept EXCEPT ![i] = new]
    BY <1>3, <1>8
  <2> HIDE DEF i, new
  <2>6. loops'[d] \in Loops /\ loops'[d][i] = new /\ \A j \in LoopIds \ {i} : loops'[d][j] = kept[j]
    BY <1>5, <2>1, <2>3, <2>5 DEF Loops
  <2>7. Live(d)' = IF root THEN {} ELSE {i}
    BY <1>6, <1>8, <2>1, <2>3, <2>6 DEF Live
  <2>8. workers'[d] \in WorkerRow /\ workers'[d] # NoWorker
    <3>1. workers'[d] \in [loop : LoopIds, timing : Timings]
      BY <2>1, <2>2, <2>4
    <3>2. QED
      BY <3>1, WorkerIsAWorker DEF WorkerRow
  <2>9. QED
    BY <1>7, <2>3, <2>4, <2>6, <2>7, <2>8
<1>9. CASE ~Starts(d, wanted) /\ d \in DOMAIN wanted
  <2>1. ~Ends(d, wanted) /\ workers[d] # NoWorker
    BY <1>9 DEF Starts, Ends
  <2>2. loops'[d] = loops[d] /\ workers'[d] = workers[d]
    BY <1>3, <1>4, <1>9, <2>1 DEF kept
  <2>3. Live(d)' = Live(d)
    BY <2>2 DEF Live
  <2>4. QED
    BY <1>1, <2>1, <2>2, <2>3 DEF OneLoop
<1>10. CASE d \notin DOMAIN wanted
  <2>1. ~Starts(d, wanted)
    BY <1>10 DEF Starts
  <2>2. loops'[d] = kept /\ workers'[d] = NoWorker
    BY <1>3, <1>4, <1>10, <2>1
  <2>3. Live(d)' = {}
    BY <1>6, <1>10, <2>2 DEF Live
  <2>4. QED
    BY <1>5, <2>2, <2>3 DEF WorkerRow
<1>11. QED
  BY <1>8, <1>9, <1>10

\* Cancelling the run context ends every loop there is.
LEMMA CancelAllEndsAll ==
    ASSUME TypeOK, CancelAll
    PROVE  /\ loops' \in [Devices -> Loops]
           /\ \A d \in Devices : Live(d)' = {}
<1>1. ASSUME NEW d \in Devices, NEW i \in LoopIds
      PROVE  /\ loops'[d][i] \in Loop \cup {NoLoop}
             /\ loops'[d][i] # NoLoop => loops'[d][i].cancelled
  <2>1. loops[d] \in Loops
    BY DEF TypeOK, Loops
  <2>2. loops'[d][i] = CancelLoop(loops[d], i)[i]
    BY DEF CancelAll
  <2>3. QED
    BY <2>1, <2>2, CancelLoopEffect DEF Loops
<1>2. loops' \in [Devices -> Loops]
  BY <1>1 DEF CancelAll, Loops
<1>3. QED
  BY <1>1, <1>2 DEF Live

-----------------------------------------------------------------------------
(* The theorems.                                                            *)

Result == [device : Devices, class : Verdicts]

ResultsOK == results \in Seq(Result) /\ Len(results) <= QueueCap

\* What one loop does on its own is a step of it, in the sense of LoopStep.
LEMMA LoopActions ==
    ASSUME TypeOK, NEW d \in Devices, NEW i \in LoopIds,
           Tick(d, i) \/ Exit(d, i) \/ Advance(d, i)
    PROVE  /\ loops[d][i] \in Loop
           /\ \E new : GoesOn(loops[d][i], new) /\ Step(d, i, new)
           /\ ResultsOK'
<1> DEFINE l == loops[d][i]
<1>1. l \in Loop
  <2>1. l \in Loop \cup {NoLoop}
    BY DEF TypeOK
  <2>2. l.pc # "none"
    BY DEF Tick, Exit, Advance, TakeSlot, LeaveSlot, Probe, Publish, GiveUp
  <2>3. QED
    BY <2>1, <2>2 DEF NoLoop
<1>2. ResultsOK
  BY DEF TypeOK, ResultsOK, Result
<1>3. CASE Tick(d, i)
  <2> DEFINE new == [l EXCEPT !.pc = "slot"]
  <2>1. l.pc = "wait"
    BY <1>3 DEF Tick
  <2>2. GoesOn(l, new)
    <3> HIDE DEF l
    <3>1. QED
      BY <1>1, <2>1 DEF Loop, LoopAt, GoesOn
  <2>3. QED
    BY <1>1, <1>2, <1>3, <2>2 DEF Tick, ResultsOK
<1>4. CASE Exit(d, i)
  BY <1>1, <1>2, <1>4 DEF Exit, GoesOn, ResultsOK
<1>5. CASE TakeSlot(d, i)
  <2> DEFINE new == [l EXCEPT !.pc = "probe", !.doomed = l.cancelled]
  <2>1. l.pc = "slot"
    BY <1>5 DEF TakeSlot
  <2>2. GoesOn(l, new)
    <3> HIDE DEF l
    <3>1. QED
      BY <1>1, <2>1 DEF Loop, LoopAt, GoesOn
  <2>3. QED
    BY <1>1, <1>2, <1>5, <2>2 DEF TakeSlot, ResultsOK
<1>6. CASE LeaveSlot(d, i)
  <2> DEFINE new == [l EXCEPT !.pc = "wait"]
  <2>1. l.pc = "slot"
    BY <1>6 DEF LeaveSlot
  <2>2. GoesOn(l, new)
    <3> HIDE DEF l
    <3>1. QED
      BY <1>1, <2>1 DEF Loop, LoopAt, GoesOn
  <2>3. QED
    BY <1>1, <1>2, <1>6, <2>2 DEF LeaveSlot, ResultsOK
<1>7. CASE Probe(d, i)
  <2>1. PICK class \in Classes(l) :
           Step(d, i, [l EXCEPT !.pc = "publish", !.class = class, !.doomed = FALSE])
    BY <1>7 DEF Probe
  <2> DEFINE new == [l EXCEPT !.pc = "publish", !.class = class, !.doomed = FALSE]
  <2>2. class \in Verdicts
    BY DEF Classes, Verdicts
  <2>3. GoesOn(l, new)
    BY <1>1, <2>2 DEF Loop, LoopAt, GoesOn
  <2>4. QED
    BY <1>1, <1>2, <1>7, <2>1, <2>3 DEF Probe, ResultsOK
<1>8. CASE Publish(d, i)
  <2> DEFINE n   == IF l.cancelled /\ l.class # "CANCELED" THEN l.late + 1 ELSE l.late
             new == [l EXCEPT !.pc = "wait", !.class = "", !.late = n]
  <2>1. n \in Nat
    <3>1. l.late \in Nat
      BY <1>1 DEF Loop, LoopAt
    <3> HIDE DEF l
    <3>2. QED
      BY <3>1
  <2>2. Step(d, i, new)
    BY <1>8 DEF Publish
  <2> HIDE DEF n
  <2>3. GoesOn(l, new)
    BY <1>1, <2>1 DEF Loop, LoopAt, GoesOn
  <2>4. ResultsOK'
    <3> DEFINE r == [device |-> d, class |-> l.class]
    <3>1. l.pc = "publish" /\ Len(results) < QueueCap /\ results' = Append(results, r)
      BY <1>8 DEF Publish
    <3>2. r \in Result
      <4>1. l.class \in Verdicts
        BY <1>1, <3>1 DEF Loop, LoopAt
      <4>2. QED
        BY <4>1 DEF Result
    <3> HIDE DEF r, l
    <3>3. QED
      BY <1>2, <3>1, <3>2, BoundsAssumption DEF ResultsOK
  <2>5. QED
    BY <1>1, <2>2, <2>3, <2>4
<1>9. CASE GiveUp(d, i)
  <2> DEFINE new == [l EXCEPT !.pc = "wait", !.class = ""]
  <2>1. GoesOn(l, new)
    BY <1>1 DEF Loop, LoopAt, GoesOn
  <2>2. QED
    BY <1>1, <1>2, <1>9, <2>1 DEF GiveUp, ResultsOK
<1>10. QED
  BY <1>3, <1>4, <1>5, <1>6, <1>7, <1>8, <1>9 DEF Advance

Inv == TypeOK /\ OneLoop

\* The invariant holds at the start.
LEMMA InitInv == Init => Inv
<1> SUFFICES ASSUME Init
             PROVE  Inv
  OBVIOUS
<1>1. TypeOK
  <2>1. results \in Seq([device : Devices, class : Verdicts]) /\ Len(results) <= QueueCap
    BY BoundsAssumption DEF Init
  <2>2. loops \in [Devices -> [LoopIds -> Loop \cup {NoLoop}]]
    BY DEF Init
  <2>3. asked \in WantedSets
    <3>1. <<>> \in [{} -> Timings]
      OBVIOUS
    <3>2. QED
      BY <3>1 DEF Init, WantedSets
  <2>4. QED
    BY <2>1, <2>2, <2>3 DEF Init, TypeOK
<1>2. OneLoop
  BY DEF Init, OneLoop, Live
<1>3. QED
  BY <1>1, <1>2 DEF Inv

\* One case for each action of Next.
LEMMA StepInv == Inv /\ [Next]_vars => Inv'
<1> SUFFICES ASSUME Inv, [Next]_vars
             PROVE  Inv'
  OBVIOUS
<1>0. TypeOK /\ OneLoop
  BY DEF Inv
<1>1. ASSUME NEW d \in Devices, NEW i \in LoopIds,
             Tick(d, i) \/ Exit(d, i) \/ Advance(d, i)
      PROVE  Inv'
  <2>1. PICK new : GoesOn(loops[d][i], new) /\ Step(d, i, new)
    BY <1>0, <1>1, LoopActions
  <2>2. loops[d][i] \in Loop /\ ResultsOK'
    BY <1>0, <1>1, LoopActions
  <2>3. OneLoop' /\ loops' \in [Devices -> Loops]
    BY <1>0, <2>1, <2>2, LoopStep
  <2>4. QED
    BY <1>0, <2>1, <2>2, <2>3 DEF Inv, TypeOK, Step, Loops, ResultsOK, Result
<1>2. ASSUME NEW wanted \in WantedSets, Apply(wanted)
      PROVE  Inv'
  <2>1. /\ loops' \in [Devices -> Loops] /\ workers' \in [Devices -> WorkerRow]
        /\ OneLoop'
    <3>1. loops' = [d \in Devices |-> loops'[d]] /\ workers' = [d \in Devices |-> workers'[d]]
      BY <1>2 DEF Apply
    <3>2. root' = root
      BY <1>2 DEF Apply
    <3>3. QED
      BY <1>0, <1>2, <3>1, <3>2, ApplyToDevice DEF OneLoop
  <2>2. QED
    BY <1>0, <1>2, <2>1 DEF Inv, TypeOK, Apply, Loops, WorkerRow
<1>3. CASE Cancel
  <2>1. loops' \in [Devices -> Loops] /\ \A d \in Devices : Live(d)' = {}
    BY <1>0, <1>3, CancelAllEndsAll DEF Cancel
  <2>2. QED
    BY <1>0, <1>3, <2>1 DEF Inv, TypeOK, OneLoop, Cancel, Loops
<1>4. CASE Stop
  <2>1. loops' \in [Devices -> Loops] /\ \A d \in Devices : Live(d)' = {}
    BY <1>0, <1>4, CancelAllEndsAll DEF Stop
  <2>2. QED
    BY <1>0, <1>4, <2>1 DEF Inv, TypeOK, OneLoop, Stop, Loops, NoWorker
<1>5. ASSUME Receive \/ \E c \in Checks : CheckBegin(c) \/ CheckEnd(c)
      PROVE  Inv'
  <2>1. /\ loops' = loops /\ workers' = workers /\ root' = root /\ stopped' = stopped
        /\ asked' = asked
    BY <1>5 DEF Receive, CheckBegin, CheckEnd
  <2>2. OneLoop'
    BY <1>0, <2>1 DEF OneLoop, Live
  <2>3. checks' \subseteq Checks
    BY <1>0, <1>5 DEF TypeOK, Receive, CheckBegin, CheckEnd
  <2>4. ResultsOK'
    <3>1. ResultsOK /\ QueueCap \in Nat
      BY <1>0, BoundsAssumption DEF TypeOK, ResultsOK, Result
    <3>2. results' = results \/ (results # <<>> /\ results' = Tail(results))
      BY <1>5 DEF Receive, CheckBegin, CheckEnd
    <3>3. QED
      BY <3>1, <3>2 DEF ResultsOK
  <2>5. QED
    BY <1>0, <2>1, <2>2, <2>3, <2>4 DEF Inv, TypeOK, ResultsOK, Result
<1>6. CASE UNCHANGED vars
  BY <1>0, <1>6 DEF Inv, TypeOK, OneLoop, Live, vars
<1>7. QED
  BY <1>1, <1>2, <1>3, <1>4, <1>5, <1>6 DEF Next

\* The invariant holds in every reachable state.
LEMMA Invariance == Spec => []Inv
<1>1. Init => Inv
  BY InitInv
<1>2. Inv /\ [Next]_vars => Inv'
  BY StepInv
<1>3. QED
  BY <1>1, <1>2, PTL DEF Spec

\* Every variable of the scheduler keeps its type, and the result channel its
\* capacity.
THEOREM TypeCorrect == Spec => []TypeOK
<1>1. Inv => TypeOK
  BY DEF Inv
<1>2. QED
  BY <1>1, Invariance, PTL

\* A device has one live loop, the one the scheduler knows, probing with the
\* settings the scheduler has for it (Apply, start, Stop).
THEOREM OneLoopEach == Spec => []OneLoop
<1>1. Inv => OneLoop
  BY DEF Inv
<1>2. QED
  BY <1>1, Invariance, PTL

-----------------------------------------------------------------------------
(* Scheduler implements WorkerSet.                                          *)

\* What is probed, as the refinement mapping has it, and what the table of
\* workers says.
Probing == [ d \in { x \in Devices : Live(x) # {} } |->
               loops[d][CHOOSE i \in Live(d) : TRUE].timing ]
Known   == [ d \in { x \in Devices : workers[x] # NoWorker } |-> workers[d].timing ]

\* Until Scheduler.Stop empties it, the table of workers says what Apply was last
\* given.
Obeyed ==
    /\ stopped => root
    /\ ~stopped => Known = asked

\* The devices that start, those that end and those left alone add up to what
\* Apply is given.
LEMMA ApplyObeys ==
    ASSUME TypeOK, NEW wanted \in WantedSets, Apply(wanted)
    PROVE  Known' = wanted
<1>1. PICK ds \in SUBSET Devices : wanted \in [ds -> Timings]
  BY DEF WantedSets
<1>2. ASSUME NEW d \in Devices
      PROVE  /\ workers'[d] # NoWorker <=> d \in ds
             /\ d \in ds => workers'[d].timing = wanted[d]
  <2>1. workers'[d] = CASE Starts(d, wanted) -> [loop |-> NextFree(d), timing |-> wanted[d]]
                        [] d \in DOMAIN wanted /\ ~Starts(d, wanted) -> workers[d]
                        [] d \notin DOMAIN wanted -> NoWorker
    BY DEF Apply
  <2>2. CASE Starts(d, wanted)
    <3>1. d \in ds /\ workers'[d] = [loop |-> NextFree(d), timing |-> wanted[d]]
      BY <1>1, <2>1, <2>2 DEF Starts
    <3>2. NextFree(d) \in LoopIds
      BY <2>2 DEF Apply, FreeLoops, NextFree
    <3>3. workers'[d] # NoWorker
      <4>1. wanted[d] \in Timings
        BY <1>1, <3>1
      <4>2. workers'[d] \in [loop : LoopIds, timing : Timings]
        BY <3>1, <3>2, <4>1
      <4>3. QED
        BY <4>2, WorkerIsAWorker
    <3>4. QED
      BY <3>1, <3>3
  <2>3. CASE d \in ds /\ ~Starts(d, wanted)
    BY <1>1, <2>1, <2>3 DEF Starts, Changed
  <2>4. CASE d \notin ds
    BY <1>1, <2>1, <2>4 DEF Starts
  <2>5. QED
    BY <2>2, <2>3, <2>4
<1>3. { x \in Devices : workers'[x] # NoWorker } = ds
  BY <1>2
<1>4. Known' = [d \in ds |-> wanted[d]]
  BY <1>2, <1>3 DEF Known
<1>5. QED
  BY <1>1, <1>4

\* Only Apply and Stop touch the table or what was asked.
LEMMA OthersObey ==
    ASSUME [Next]_vars, ~(\E wanted \in WantedSets : Apply(wanted)), ~Stop
    PROVE  /\ workers' = workers /\ asked' = asked /\ stopped' = stopped
           /\ Cancel \/ root' = root
<1>1. ASSUME NEW d \in Devices, NEW i \in LoopIds,
             Tick(d, i) \/ Exit(d, i) \/ Advance(d, i)
      PROVE  workers' = workers /\ asked' = asked /\ stopped' = stopped /\ root' = root
  BY <1>1 DEF Tick, Exit, Advance, TakeSlot, LeaveSlot, Probe, Publish, GiveUp, Step
<1>2. ASSUME Receive \/ (\E c \in Checks : CheckBegin(c) \/ CheckEnd(c)) \/ UNCHANGED vars
      PROVE  workers' = workers /\ asked' = asked /\ stopped' = stopped /\ root' = root
  BY <1>2 DEF Receive, CheckBegin, CheckEnd, vars
<1>3. CASE Cancel
  BY <1>3 DEF Cancel
<1>4. QED
  BY <1>1, <1>2, <1>3 DEF Next

LEMMA StepObeys == Inv /\ Obeyed /\ [Next]_vars => Obeyed'
<1> SUFFICES ASSUME Inv, Obeyed, [Next]_vars
             PROVE  Obeyed'
  OBVIOUS
<1>1. ASSUME NEW wanted \in WantedSets, Apply(wanted)
      PROVE  Obeyed'
  <2>1. Known' = wanted
    BY <1>1, ApplyObeys DEF Inv
  <2>2. asked' = wanted /\ stopped' = stopped /\ ~stopped
    BY <1>1 DEF Apply
  <2>3. QED
    BY <2>1, <2>2 DEF Obeyed
<1>2. CASE Stop
  BY <1>2 DEF Stop, Obeyed
<1>3. CASE ~(\E wanted \in WantedSets : Apply(wanted)) /\ ~Stop
  <2>1. workers' = workers /\ asked' = asked /\ stopped' = stopped /\ (Cancel \/ root' = root)
    BY <1>3, OthersObey
  <2>2. Known' = Known
    BY <2>1 DEF Known
  <2>3. root => root'
    BY <2>1 DEF Cancel
  <2>4. QED
    BY <2>1, <2>2, <2>3 DEF Obeyed
<1>4. QED
  BY <1>1, <1>2, <1>3

\* Until the run context is cancelled what is probed is what was asked for;
\* from then on it is nothing.
LEMMA ProbingIsAsked == Inv /\ Obeyed => Probing = IF root THEN <<>> ELSE asked
<1> SUFFICES ASSUME Inv, Obeyed
             PROVE  Probing = IF root THEN <<>> ELSE asked
  OBVIOUS
<1>0. OneLoop
  BY DEF Inv
<1>1. CASE root
  <2>1. { x \in Devices : Live(x) # {} } = {}
    BY <1>0, <1>1 DEF OneLoop
  <2>2. QED
    BY <1>1, <2>1 DEF Probing
<1>2. CASE ~root
  <2>1. \A x \in Devices : Live(x) # {} <=> workers[x] # NoWorker
    BY <1>0, <1>2 DEF OneLoop
  <2>2. ASSUME NEW d \in Devices, workers[d] # NoWorker
        PROVE  loops[d][CHOOSE i \in Live(d) : TRUE].timing = workers[d].timing
    BY <1>0, <1>2, <2>2 DEF OneLoop
  <2>3. Probing = Known
    BY <2>1, <2>2 DEF Probing, Known
  <2>4. QED
    BY <1>2, <2>3 DEF Obeyed
<1>3. QED
  BY <1>1, <1>2

\* An initial state maps to one.
LEMMA InitRefines == Init => Obeyed /\ W!Init
<1> SUFFICES ASSUME Init
             PROVE  Obeyed /\ W!Init
  OBVIOUS
<1>1. { x \in Devices : workers[x] # NoWorker } = {}
  BY DEF Init
<1>2. Known = <<>>
  BY <1>1 DEF Known
<1>3. Obeyed
  BY <1>2 DEF Init, Obeyed
<1>4. Probing = asked /\ ~root
  BY <1>3, InitInv, ProbingIsAsked DEF Init
<1>5. QED
  BY <1>3, <1>4 DEF W!Init, Probing, Init

\* Apply is Apply, the cancellation is Stop, and every other step, Scheduler.Stop
\* too, changes nothing anybody sees.
LEMMA StepRefines ==
    Inv /\ Inv' /\ Obeyed /\ Obeyed' /\ [Next]_vars
        => W!Next \/ UNCHANGED <<asked, Probing, root>>
<1> SUFFICES ASSUME Inv, Inv', Obeyed, Obeyed', [Next]_vars
             PROVE  W!Next \/ UNCHANGED <<asked, Probing, root>>
  OBVIOUS
<1>0. /\ Probing  = IF root  THEN <<>> ELSE asked
      /\ Probing' = IF root' THEN <<>> ELSE asked'
  <2>1. (Inv /\ Obeyed => Probing = IF root THEN <<>> ELSE asked)'
    BY ProbingIsAsked, PTL
  <2>2. QED
    BY <2>1, ProbingIsAsked
<1>1. ASSUME NEW wanted \in WantedSets, Apply(wanted)
      PROVE  W!Next
  <2>1. wanted \in W!Table(Devices, Timings)
    BY DEF WantedSets, W!Table
  <2>2. asked' = wanted /\ root' = root
    BY <1>1 DEF Apply
  <2>3. W!Apply(wanted)
    BY <1>0, <2>2 DEF W!Apply, Probing
  <2>4. QED
    BY <2>1, <2>3 DEF W!Next
<1>2. CASE Cancel
  <2>1. root' = TRUE /\ asked' = asked
    BY <1>2 DEF Cancel
  <2>2. W!Stop
    BY <1>0, <2>1 DEF W!Stop, Probing
  <2>3. QED
    BY <2>2 DEF W!Next
<1>3. CASE asked' = asked /\ root' = root
  BY <1>0, <1>3
<1>4. QED
  <2>1. Stop => asked' = asked /\ root' = root
    BY DEF Stop
  <2>2. QED
    BY <1>1, <1>2, <1>3, <2>1, OthersObey

\* What the goroutines probe, their cancellation and their replacement apart, is
\* what Apply was last given, until it is nothing for good.
THEOREM Implementation == Spec => ImplementsWorkerSet
<1>1. Init => Obeyed /\ W!Init
  BY InitRefines
<1>2. Inv /\ Obeyed /\ [Next]_vars => Obeyed'
  BY StepObeys
<1>3. Inv /\ Inv' /\ Obeyed /\ Obeyed' /\ [Next]_vars
         => [W!Next]_<<asked, Probing, root>>
  BY StepRefines
<1>4. QED
  BY <1>1, <1>2, <1>3, Invariance, PTL DEF Spec, ImplementsWorkerSet, W!Spec, Probing

-----------------------------------------------------------------------------
(* Verdicts of loops that were told to stop.                                *)

\* A loop has published no verdict too many: none before it is told to stop;
\* after one, what it still has in hand is no verdict.
Spent(l) ==
    /\ l.late \in {0, 1}
    /\ ~l.cancelled => l.late = 0
    /\ l.late = 1 /\ l.pc = "probe" => l.doomed
    /\ l.late = 1 /\ l.pc = "publish" => l.class = "CANCELED"

SpentInv == \A d \in Devices, i \in LoopIds : loops[d][i] # NoLoop => Spent(loops[d][i])

\* Being told to stop spends nothing.
LEMMA CancelSpends ==
    ASSUME NEW l \in Loop, Spent(l)
    PROVE  Spent([l EXCEPT !.cancelled = TRUE])
<1> DEFINE m == [l EXCEPT !.cancelled = TRUE]
<1>1. /\ m.cancelled /\ m.late = l.late /\ m.pc = l.pc
      /\ m.doomed = l.doomed /\ m.class = l.class
  BY DEF Loop, LoopAt
<1> HIDE DEF m
<1>2. Spent(m)
  BY <1>1 DEF Spent
<1>3. QED
  BY <1>2 DEF m

\* Neither does CancelLoop, on a place with a loop or without.
LEMMA CancelLoopSpends ==
    ASSUME NEW ls \in Loops, NEW i \in LoopIds, NEW j \in LoopIds,
           ls[j] # NoLoop => Spent(ls[j]), CancelLoop(ls, i)[j] # NoLoop
    PROVE  Spent(CancelLoop(ls, i)[j])
<1>1. ls[j] \in Loop \cup {NoLoop}
  BY DEF Loops
<1>2. CASE i # j
  BY <1>2, CancelLoopEffect
<1>3. CASE i = j
  <2>1. ls[j] # NoLoop /\ ls[j] \in Loop
    BY <1>1, <1>3, CancelLoopEffect
  <2>2. CancelLoop(ls, i)[j] = [ls[j] EXCEPT !.cancelled = TRUE]
    BY <1>3, <2>1 DEF CancelLoop, Loops
  <2>3. QED
    BY <2>1, <2>2, CancelSpends
<1>4. QED
  BY <1>2, <1>3

\* A new loop has published nothing.
LEMMA NewLoopSpends == \A timing \in Timings : Spent(NewLoop(timing))
BY DEF NewLoop, Spent

\* A step of one loop replaces that loop alone.
LEMMA StepSpends ==
    ASSUME TypeOK, SpentInv, NEW d \in Devices, NEW i \in LoopIds, NEW new,
           new # NoLoop => Spent(new), Step(d, i, new)
    PROVE  SpentInv'
<1>1. loops \in [Devices -> Loops]
  BY DEF TypeOK, Loops
<1>2. \A e \in Devices, j \in LoopIds :
         loops'[e][j] = IF e = d /\ j = i THEN new ELSE loops[e][j]
  BY <1>1 DEF Step, Loops
<1>3. QED
  BY <1>2 DEF SpentInv

\* The step of a loop from any place keeps it within its one verdict: a dial
\* begun after the cancellation is doomed, and a doomed dial is no verdict.
LEMMA LoopSpends ==
    ASSUME TypeOK, SpentInv, NEW d \in Devices, NEW i \in LoopIds,
           Tick(d, i) \/ Exit(d, i) \/ Advance(d, i)
    PROVE  SpentInv'
<1> DEFINE l == loops[d][i]
<1>1. l \in Loop /\ Spent(l)
  BY LoopActions, LoopIsALoop DEF SpentInv
<1>2. CASE Exit(d, i)
  BY <1>2, StepSpends DEF Exit
<1>3. CASE Tick(d, i) \/ LeaveSlot(d, i) \/ GiveUp(d, i)
  <2>1. PICK new : /\ Step(d, i, new)
                   /\ \/ new = [l EXCEPT !.pc = "slot"]
                      \/ new = [l EXCEPT !.pc = "wait"]
                      \/ new = [l EXCEPT !.pc = "wait", !.class = ""]
    BY <1>3 DEF Tick, LeaveSlot, GiveUp
  <2>2. Spent(new)
    <3> HIDE DEF l
    <3>1. new.pc \in {"slot", "wait"} /\ new.late = l.late /\ new.cancelled = l.cancelled
      BY <1>1, <2>1 DEF Loop, LoopAt
    <3>2. QED
      BY <1>1, <3>1 DEF Spent
  <2>3. QED
    BY <2>1, <2>2, StepSpends
<1>4. CASE TakeSlot(d, i)
  <2> DEFINE new == [l EXCEPT !.pc = "probe", !.doomed = l.cancelled]
  <2>1. Step(d, i, new)
    BY <1>4 DEF TakeSlot
  <2>2. Spent(new)
    <3> HIDE DEF l
    <3>1. /\ new.pc = "probe" /\ new.late = l.late
          /\ new.cancelled = l.cancelled /\ new.doomed = l.cancelled
      BY <1>1 DEF Loop, LoopAt
    <3>2. QED
      BY <1>1, <3>1 DEF Spent
  <2> HIDE DEF new
  <2>3. QED
    BY <2>1, <2>2, StepSpends
<1>5. CASE Probe(d, i)
  <2>1. PICK class \in Classes(l) :
           Step(d, i, [l EXCEPT !.pc = "publish", !.class = class, !.doomed = FALSE])
    BY <1>5 DEF Probe
  <2> DEFINE new == [l EXCEPT !.pc = "publish", !.class = class, !.doomed = FALSE]
  <2>2. l.pc = "probe"
    BY <1>5 DEF Probe
  <2>3. Spent(new)
    <3>1. l.doomed => class = "CANCELED"
      BY DEF Classes
    <3> HIDE DEF l
    <3>2. /\ new.pc = "publish" /\ new.late = l.late
          /\ new.cancelled = l.cancelled /\ new.class = class
      BY <1>1 DEF Loop, LoopAt
    <3>3. QED
      BY <1>1, <2>2, <3>1, <3>2 DEF Spent
  <2>4. QED
    BY <2>1, <2>3, StepSpends
<1>6. CASE Publish(d, i)
  <2> DEFINE n   == IF l.cancelled /\ l.class # "CANCELED" THEN l.late + 1 ELSE l.late
             new == [l EXCEPT !.pc = "wait", !.class = "", !.late = n]
  <2>1. Step(d, i, new) /\ l.pc = "publish"
    BY <1>6 DEF Publish
  <2>2. Spent(new)
    <3>1. n \in {0, 1} /\ (~l.cancelled => n = 0)
      <4> HIDE DEF l
      <4>1. QED
        BY <1>1, <2>1 DEF Spent
    <3> HIDE DEF l, n
    <3>2. new.pc = "wait" /\ new.late = n /\ new.cancelled = l.cancelled
      BY <1>1 DEF Loop, LoopAt
    <3>3. QED
      BY <3>1, <3>2 DEF Spent
  <2> HIDE DEF new
  <2>3. QED
    BY <2>1, <2>2, StepSpends
<1>7. QED
  BY <1>2, <1>3, <1>4, <1>5, <1>6 DEF Advance

\* Every step keeps the count of late verdicts.
LEMMA StepSpent == Inv /\ SpentInv /\ [Next]_vars => SpentInv'
<1> SUFFICES ASSUME Inv, SpentInv, [Next]_vars
             PROVE  SpentInv'
  OBVIOUS
<1>0. TypeOK /\ loops \in [Devices -> Loops]
  BY DEF Inv, TypeOK, Loops
<1>1. ASSUME NEW d \in Devices, NEW i \in LoopIds,
             Tick(d, i) \/ Exit(d, i) \/ Advance(d, i)
      PROVE  SpentInv'
  BY <1>0, <1>1, LoopSpends
<1>2. ASSUME NEW wanted \in WantedSets, Apply(wanted)
      PROVE  SpentInv'
  <2> SUFFICES ASSUME NEW d \in Devices, NEW j \in LoopIds, loops'[d][j] # NoLoop
               PROVE  Spent(loops'[d][j])
    BY DEF SpentInv
  <2> DEFINE kept == IF Ends(d, wanted) THEN CancelLoop(loops[d], workers[d].loop) ELSE loops[d]
  <2>1. loops'[d] = IF Starts(d, wanted) THEN [kept EXCEPT ![NextFree(d)] = NewLoop(wanted[d])]
                    ELSE kept
    BY <1>2 DEF Apply
  <2>2. kept \in Loops /\ (kept[j] # NoLoop => Spent(kept[j]))
    <3>1. CASE Ends(d, wanted)
      <4>1. workers[d].loop \in LoopIds
        BY <1>0, <3>1 DEF TypeOK, Ends
      <4>2. QED
        BY <1>0, <3>1, <4>1, CancelLoopEffect, CancelLoopSpends DEF SpentInv
    <3>2. CASE ~Ends(d, wanted)
      BY <1>0, <3>2 DEF SpentInv
    <3>3. QED
      BY <3>1, <3>2
  <2> HIDE DEF kept
  <2>3. CASE Starts(d, wanted) /\ j = NextFree(d)
    <3>1. wanted[d] \in Timings
      BY <2>3 DEF Starts, WantedSets
    <3>2. loops'[d][j] = NewLoop(wanted[d])
      BY <2>1, <2>2, <2>3 DEF Loops
    <3>3. QED
      BY <3>1, <3>2, NewLoopSpends
  <2>4. CASE ~(Starts(d, wanted) /\ j = NextFree(d))
    <3>1. loops'[d][j] = kept[j]
      BY <2>1, <2>2, <2>4 DEF Loops
    <3>2. QED
      BY <2>2, <3>1
  <2>5. QED
    BY <2>3, <2>4
<1>3. CASE Cancel \/ Stop
  <2> SUFFICES ASSUME NEW d \in Devices, NEW j \in LoopIds, loops'[d][j] # NoLoop
               PROVE  Spent(loops'[d][j])
    BY DEF SpentInv
  <2>1. loops'[d][j] = CancelLoop(loops[d], j)[j]
    BY <1>3 DEF Cancel, Stop, CancelAll
  <2>2. QED
    BY <1>0, <2>1, CancelLoopSpends DEF SpentInv
<1>4. ASSUME Receive \/ (\E c \in Checks : CheckBegin(c) \/ CheckEnd(c)) \/ UNCHANGED vars
      PROVE  SpentInv'
  BY <1>4 DEF Receive, CheckBegin, CheckEnd, vars, SpentInv
<1>5. QED
  BY <1>1, <1>2, <1>3, <1>4 DEF Next

\* A loop that was told to stop publishes one more verdict at most, however
\* often it goes round before it notices.
THEOREM OneLate == Spec => []OneLateVerdict
<1>1. Init => SpentInv
  BY DEF Init, SpentInv
<1>2. Inv /\ Inv' /\ SpentInv /\ [Next]_vars => SpentInv'
  BY StepSpent
<1>3. SpentInv => OneLateVerdict
  BY DEF SpentInv, Spent, OneLateVerdict
<1>4. QED
  BY <1>1, <1>2, <1>3, Invariance, PTL DEF Spec
===============================================================================
