------------------------------ MODULE Scheduler ------------------------------
(***************************************************************************)
(* internal/scheduler: one probe goroutine per device, reconciled with the  *)
(* effective set by Apply, a semaphore that bounds the dials, the channel    *)
(* the results go out on (core.App.results), and Stop.                      *)
(*                                                                         *)
(* A goroutine captures its settings when it starts and learns of a change   *)
(* only by being cancelled, which it notices at its next select; until then  *)
(* it lives beside the goroutine that replaced it.  A select with several    *)
(* ready cases takes any of them.                                          *)
(***************************************************************************)
EXTENDS Naturals, Sequences, FiniteSets

CONSTANTS
    Devices,
    Timings,    \* address, interval and timeout, all a loop captures
    Checks,     \* concurrent "check now" requests
    Slots,      \* maxConcurrent
    QueueCap,   \* capacity of the result channel
    MaxLoops    \* bounds the goroutines of one device

ASSUME BoundsAssumption == {Slots, QueueCap, MaxLoops} \subseteq Nat \ {0}

VARIABLES
    loops,      \* the probe goroutines of each device
    workers,    \* Scheduler.workers: per device, its loop and the settings it has
    checks,     \* check-now requests that hold a slot
    results,    \* the result channel
    root,       \* the run context, parent of every loop's, is cancelled
    stopped,    \* Scheduler.stopped
    asked       \* history: what Apply was last given

vars == <<loops, workers, checks, results, root, stopped, asked>>

LoopIds == 1 .. MaxLoops
LoopAt(pcs, classes) ==
    [ pc : pcs, timing : Timings, cancelled : BOOLEAN,
      class : classes,
      doomed : BOOLEAN,   \* the dial began after the cancellation
      late : Nat ]        \* history: verdicts published after the cancellation
Verdicts == {"UP", "DOWN", "CANCELED"}
Loop     == LoopAt({"wait", "slot", "probe"}, {""}) \cup LoopAt({"publish"}, Verdicts)
NoLoop   == [pc |-> "none"]
NoWorker == [loop |-> 0]

\* What Apply may be given: the devices to probe, by id, each with its timing.  A
\* device that is paused, disabled or deleted is not in it.
WantedSets == UNION { [ds -> Timings] : ds \in SUBSET Devices }

TypeOK ==
    /\ loops \in [Devices -> [LoopIds -> Loop \cup {NoLoop}]]
    /\ workers \in [Devices -> [loop : LoopIds, timing : Timings] \cup {NoWorker}]
    /\ checks \subseteq Checks
    /\ results \in Seq([device : Devices, class : Verdicts])
    /\ Len(results) <= QueueCap
    /\ root \in BOOLEAN /\ stopped \in BOOLEAN
    /\ asked \in WantedSets

Init ==
    /\ loops = [d \in Devices |-> [i \in LoopIds |-> NoLoop]]
    /\ workers = [d \in Devices |-> NoWorker]
    /\ checks = {}
    /\ results = <<>>
    /\ root = FALSE /\ stopped = FALSE
    /\ asked = <<>>

-----------------------------------------------------------------------------
(* Apply                                                                   *)

\* Mutant: a restarted device's old loop is forgotten without being cancelled.
ForgetLoop(ls, i) == ls

\* Loop i of a device is told to stop; the goroutine itself lives on.
CancelLoop(ls, i) ==
    [ls EXCEPT ![i] = IF @ = NoLoop THEN NoLoop ELSE [@ EXCEPT !.cancelled = TRUE]]

FreeLoops(d) == { i \in LoopIds : loops[d][i] = NoLoop }
NextFree(d)  == CHOOSE i \in FreeLoops(d) : TRUE

\* start: a child of a cancelled context is born cancelled.
NewLoop(timing) ==
    [ pc |-> "wait", timing |-> timing, cancelled |-> root,
      doomed |-> FALSE, class |-> "", late |-> 0 ]

\* Mutant: a loop keeps the settings it was started with.
NeverChanged(d, wanted) == FALSE

Changed(d, wanted) == workers[d].timing # wanted[d]
Starts(d, wanted)  == d \in DOMAIN wanted /\ (workers[d] = NoWorker \/ Changed(d, wanted))
Ends(d, wanted)    == workers[d] # NoWorker /\ (d \notin DOMAIN wanted \/ Changed(d, wanted))

Apply(wanted) ==
    /\ ~stopped
    /\ \A d \in Devices : Starts(d, wanted) => FreeLoops(d) # {}
    /\ loops' = [ d \in Devices |->
          LET kept == IF Ends(d, wanted) THEN CancelLoop(loops[d], workers[d].loop)
                      ELSE loops[d]
          IN  IF Starts(d, wanted) THEN [kept EXCEPT ![NextFree(d)] = NewLoop(wanted[d])]
              ELSE kept ]
    /\ workers' = [ d \in Devices |->
          CASE Starts(d, wanted) -> [loop |-> NextFree(d), timing |-> wanted[d]]
            [] d \in DOMAIN wanted /\ ~Starts(d, wanted) -> workers[d]
            [] d \notin DOMAIN wanted -> NoWorker ]
    /\ asked' = wanted
    /\ UNCHANGED <<checks, results, root, stopped>>

-----------------------------------------------------------------------------
(* loop and probeOnce                                                      *)

Step(d, i, next) ==
    /\ loops' = [loops EXCEPT ![d][i] = next]
    /\ UNCHANGED <<workers, checks, root, stopped, asked>>

SlotsTaken ==
    Cardinality({ di \in Devices \X LoopIds :
                    loops[di[1]][di[2]].pc \in {"probe", "publish"} }) + Cardinality(checks)

\* The jitter is over, or the ticker fires.
Tick(d, i) ==
    /\ loops[d][i].pc = "wait"
    /\ Step(d, i, [loops[d][i] EXCEPT !.pc = "slot"])
    /\ UNCHANGED results

\* Mutant: the loop ends by itself after a probe.
ExitAnyway(d, i) ==
    /\ loops[d][i].pc = "wait"
    /\ Step(d, i, NoLoop)
    /\ UNCHANGED results

Exit(d, i) ==
    /\ loops[d][i].pc = "wait" /\ loops[d][i].cancelled
    /\ Step(d, i, NoLoop)
    /\ UNCHANGED results

TakeSlot(d, i) ==
    /\ loops[d][i].pc = "slot" /\ SlotsTaken < Slots
    /\ Step(d, i, [loops[d][i] EXCEPT !.pc = "probe", !.doomed = loops[d][i].cancelled])
    /\ UNCHANGED results

LeaveSlot(d, i) ==
    /\ loops[d][i].pc = "slot" /\ loops[d][i].cancelled
    /\ Step(d, i, [loops[d][i] EXCEPT !.pc = "wait"])
    /\ UNCHANGED results

\* Mutant: a dial on a cancelled context still reports a verdict.
ClassesAlwaysVerdict(l) == {"UP", "DOWN"}

\* probe.Probe: a dial on a cancelled context fails at once; one cancelled on
\* the way is excused if it fails, and counts if it succeeds.
Classes(l) ==
    IF l.doomed THEN {"CANCELED"}
    ELSE IF l.cancelled THEN {"UP", "CANCELED"} ELSE {"UP", "DOWN"}

Probe(d, i) ==
    /\ loops[d][i].pc = "probe"
    /\ \E class \in Classes(loops[d][i]) :
          Step(d, i, [loops[d][i] EXCEPT !.pc = "publish", !.class = class, !.doomed = FALSE])
    /\ UNCHANGED results

\* The slot is held until the result is handed over ...
Publish(d, i) ==
    /\ loops[d][i].pc = "publish" /\ Len(results) < QueueCap
    /\ results' = Append(results, [device |-> d, class |-> loops[d][i].class])
    /\ Step(d, i, [loops[d][i] EXCEPT !.pc = "wait", !.class = "",
            !.late = IF loops[d][i].cancelled /\ loops[d][i].class # "CANCELED"
                     THEN @ + 1 ELSE @])

\* Mutant: ... whether or not anybody still reads.
NeverGivesUp(d, i) == FALSE /\ UNCHANGED vars

\* ... or the loop is told to stop.
GiveUp(d, i) ==
    /\ loops[d][i].pc = "publish" /\ loops[d][i].cancelled
    /\ Step(d, i, [loops[d][i] EXCEPT !.pc = "wait", !.class = ""])
    /\ UNCHANGED results

\* The evaluator takes a result (core.runEvaluator), until it is cancelled.
Receive ==
    /\ ~root /\ results # <<>>
    /\ results' = Tail(results)
    /\ UNCHANGED <<loops, workers, checks, root, stopped, asked>>

\* CheckNow: one dial outside the schedule; the answer goes to the caller.
CheckBegin(c) ==
    /\ ~root /\ c \notin checks /\ SlotsTaken < Slots
    /\ checks' = checks \cup {c}
    /\ UNCHANGED <<loops, workers, results, root, stopped, asked>>

CheckEnd(c) ==
    /\ c \in checks
    /\ checks' = checks \ {c}
    /\ UNCHANGED <<loops, workers, results, root, stopped, asked>>

-----------------------------------------------------------------------------
(* core.Shutdown: the run context first, then Scheduler.Stop, which waits.   *)

CancelAll == loops' = [ d \in Devices |-> [ i \in LoopIds |-> CancelLoop(loops[d], i)[i] ] ]

Cancel ==
    /\ ~root
    /\ root' = TRUE
    /\ CancelAll
    /\ UNCHANGED <<workers, checks, results, stopped, asked>>

Stop ==
    /\ root /\ ~stopped
    /\ stopped' = TRUE
    /\ CancelAll
    /\ workers' = [d \in Devices |-> NoWorker]
    /\ UNCHANGED <<checks, results, root, asked>>

Gone  == \A d \in Devices, i \in LoopIds : loops[d][i] = NoLoop

Advance(d, i) ==
    TakeSlot(d, i) \/ LeaveSlot(d, i) \/ Probe(d, i) \/ Publish(d, i) \/ GiveUp(d, i)

Next ==
    \/ \E wanted \in WantedSets : Apply(wanted)
    \/ \E d \in Devices, i \in LoopIds : Tick(d, i) \/ Exit(d, i) \/ Advance(d, i)
    \/ \E c \in Checks : CheckBegin(c) \/ CheckEnd(c)
    \/ Receive \/ Cancel \/ Stop

\* Dials time out and goroutines run.  Go's select chooses at random among its
\* ready cases, so a cancelled loop does not miss ctx.Done for ever: strong
\* fairness on Exit.  Nothing is assumed of the evaluator, which may be slow or
\* gone, except where a property says so.
Fairness ==
    /\ WF_vars(Stop)
    /\ \A c \in Checks : WF_vars(CheckEnd(c))
    /\ \A d \in Devices, i \in LoopIds :
          WF_vars(Advance(d, i)) /\ SF_vars(Exit(d, i))

Spec == Init /\ [][Next]_vars /\ Fairness

-----------------------------------------------------------------------------
Live(d) == { i \in LoopIds : loops[d][i] # NoLoop /\ ~loops[d][i].cancelled }

\* A device has at most one loop that is not on its way out: the one the
\* scheduler knows, probing with the settings the scheduler has for it.  Once
\* the run context is cancelled there is none, even when a refresh in flight
\* still reaches Apply (Apply, start, Stop).
OneLoop ==
    \A d \in Devices :
       IF workers[d] = NoWorker \/ root THEN Live(d) = {}
       ELSE /\ Live(d) = {workers[d].loop}
            /\ loops[d][workers[d].loop].timing = workers[d].timing

\* A loop told to stop delivers at most one more verdict, however long it
\* lingers: a device that was edited is judged at most once more by its old
\* address and timeout (probeOnce, probe.Probe, classify).
OneLateVerdict ==
    \A d \in Devices, i \in LoopIds : loops[d][i] # NoLoop => loops[d][i].late <= 1

\* Told to stop, every loop returns, although nobody reads the result channel
\* any more and it may be full (Stop's wg.Wait, probeOnce's second select).
StopReturns == root ~> (stopped /\ Gone)

\* What the other parts rely on: the loops that are not on their way out, as a
\* function from devices to timings, are what Apply was last given, however it
\* told new, changed and gone devices apart, until the run context is cancelled;
\* no loop ends by itself (module WorkerSet).
W == INSTANCE WorkerSet WITH
        probing <- [ d \in { x \in Devices : Live(x) # {} } |->
                       loops[d][CHOOSE i \in Live(d) : TRUE].timing ],
        stopped <- root
ImplementsWorkerSet == W!Spec
=============================================================================
