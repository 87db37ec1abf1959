------------------------------- MODULE Monitor -------------------------------
(***************************************************************************)
(* From a settings edit to the probes that obey it: the devices, groups and *)
(* settings tables, the API handlers that write them (internal/api), the    *)
(* refresh loop that folds them into the effective set (core.runRefresh,    *)
(* store.LoadEffective, model.Resolve) and hands it to the scheduler, which *)
(* is module WorkerSet here.                                                *)
(*                                                                         *)
(* A timing stands for the address, the interval and the timeout; names,    *)
(* tags, thresholds and recipients reach the evaluator through the effective *)
(* set alone and are left out.  A request that is refused changes nothing   *)
(* and is no step.  Every table write is one transaction on the one write   *)
(* connection; reads go to other connections, one snapshot per statement.   *)
(***************************************************************************)
EXTENDS Naturals, FiniteSets

CONSTANTS
    Devices, Groups,   \* row ids; AUTOINCREMENT never gives one out twice
    Timings,
    Inherit, NoGroup,  \* an unset override; devices.group_id IS NULL
    Handlers,          \* concurrent API requests
    MaxNow,            \* bounds the clock
    MaxEdits,          \* bounds the table writes
    MaxFaults          \* bounds the failed reads

ASSUME InheritAssumption == Inherit \notin Timings /\ NoGroup \notin Groups
ASSUME TimingsAssumption == Timings # {}
ASSUME BoundsAssumption  == {MaxNow, MaxEdits, MaxFaults} \subseteq Nat

VARIABLES
    devices, groups, default,  \* the tables: rows by id, and the default timing
    used,       \* the device and group ids given out so far
    incidents,  \* devices with an open row in the incidents table
    handler,    \* the API requests in progress
    reload,     \* App.reload holds a token
    refresher,  \* the refresh goroutine, with what it has read so far
    effs,       \* App.effs
    snaps,      \* App.snaps: devices known, and whether each has an incident open
    probing, stopped,  \* the scheduler (module WorkerSet); never stopped here
    now,
    appliedAt,  \* history: when the scheduler was last given the effective set
    excused,    \* history: an edit may have been left to the refresh ticker
    edits, faults

S == INSTANCE WorkerSet WITH asked <- probing

tables == <<devices, groups, default, used>>
engine == <<refresher, effs, snaps, probing, stopped, appliedAt>>
vars   == <<tables, incidents, handler, reload, engine, now, excused, edits, faults>>

Time      == 0 .. MaxNow
Overrides == Timings \cup {Inherit}
DeviceRow == [ group : Groups \cup {NoGroup}, own : Overrides,
               enabled : BOOLEAN, paused : Time ]
GroupRow  == [ own : Overrides, paused : Time ]
Eff       == [ timing : Timings, paused : Time ]

Without(f, ids) == [ i \in DOMAIN f \ ids |-> f[i] ]
With(f, i, v)   == [ j \in DOMAIN f \cup {i} |-> IF j = i THEN v ELSE f[j] ]

Idle == [ pc |-> "idle" ]

DeviceTable == S!Table(Devices, DeviceRow)
GroupTable  == S!Table(Groups, GroupRow)

\* A PATCH holds the row it has read, a refresh the tables it has read.
Handler   == [pc : {"idle", "reload"}] \cup [pc : {"device"}, id : Devices, row : DeviceRow]
             \cup [pc : {"group"}, id : Groups, row : GroupRow]
Refresher == [pc : {"idle", "apply"}] \cup [pc : {"groups"}, default : Timings]
             \cup [pc : {"devices"}, default : Timings, groups : GroupTable]

TypeOK ==
    /\ devices \in DeviceTable /\ groups \in GroupTable /\ default \in Timings
    /\ used \subseteq Devices \cup Groups
    /\ incidents \subseteq DOMAIN devices
    /\ handler \in [Handlers -> Handler]
    /\ reload \in BOOLEAN
    /\ refresher \in Refresher
    /\ effs \in S!Table(Devices, Eff)
    /\ snaps \in S!Table(Devices, BOOLEAN)
    /\ probing \in S!Table(Devices, Timings) /\ ~stopped
    /\ now \in Time /\ appliedAt \in Time /\ excused \in BOOLEAN

\* Start has read the snapshots and refreshed, in effect at once: nothing else
\* runs before.  Some devices, one of them perhaps in an outage, are there;
\* the timings are interchangeable, so the first default may be any.
Init ==
    /\ \E ds \in SUBSET Devices, gs \in SUBSET Groups, g \in Groups \cup {NoGroup} :
          /\ g \in gs \cup {NoGroup}
          /\ devices = [ d \in ds |-> [ group |-> g, own |-> Inherit,
                                       enabled |-> TRUE, paused |-> 0 ] ]
          /\ groups = [ x \in gs |-> [own |-> Inherit, paused |-> 0] ]
          /\ used = ds \cup gs
    /\ default = CHOOSE t \in Timings : TRUE
    /\ incidents \in SUBSET DOMAIN devices
    /\ handler = [h \in Handlers |-> Idle]
    /\ reload = FALSE
    /\ refresher = Idle
    /\ effs = [d \in DOMAIN devices |-> [timing |-> default, paused |-> 0]]
    /\ snaps = [d \in DOMAIN devices |-> d \in incidents]
    /\ probing = [d \in DOMAIN devices |-> default] /\ stopped = FALSE
    /\ now = 0 /\ appliedAt = 0 /\ excused = FALSE /\ edits = 0 /\ faults = 0

-----------------------------------------------------------------------------
(* model.Resolve: device, else group, else default; the later pause wins.  A *)
(* group id that is not in the table resolves like no group (Resolver.Group).*)

GroupTier(row, grps) ==
    IF row.group \in DOMAIN grps THEN grps[row.group] ELSE [own |-> Inherit, paused |-> 0]

ResolveTiming(row, g, dflt) ==
    CASE row.own # Inherit -> row.own
      [] row.own = Inherit /\ g.own # Inherit -> g.own
      [] OTHER -> dflt

\* Mutant: a group's window, once it had one, replaces the device's own pause.
ResolveAssign(row, grps, dflt) ==
    LET g == GroupTier(row, grps)
    IN  [ timing |-> ResolveTiming(row, g, dflt),
          paused |-> IF g.paused > 0 THEN g.paused ELSE row.paused ]

Resolve(row, grps, dflt) ==
    LET g == GroupTier(row, grps)
    IN  [ timing |-> ResolveTiming(row, g, dflt),
          paused |-> IF g.paused > row.paused THEN g.paused ELSE row.paused ]

\* LoadEffective: only enabled devices are in the set.
EffectiveSet(devs, grps, dflt) ==
    [ d \in { i \in DOMAIN devs : devs[i].enabled } |-> Resolve(devs[d], grps, dflt) ]

Paused(eff) == eff.paused > now

-----------------------------------------------------------------------------
(* The API handlers                                                        *)

\* A table write by request h, whose handler then goes on to nxt.
Edit(h, nxt) ==
    /\ edits < MaxEdits
    /\ edits' = edits + 1
    /\ handler' = [handler EXCEPT ![h] = nxt]
    /\ UNCHANGED <<reload, engine, now>>

\* Every successful write but CreateGroup's is followed by Reload.
WriteThenReload(h) ==
    /\ Edit(h, [pc |-> "reload"])
    /\ UNCHANGED <<faults, excused>>

\* CreateDevice and the two Updates read the row back; when that read fails
\* the handler answers an error and never reaches Reload.
WriteThenReadBack(h) ==
    \/ WriteThenReload(h)
    \/ /\ faults < MaxFaults
       /\ Edit(h, Idle)
       /\ faults' = faults + 1
       /\ excused' = TRUE

\* The foreign key devices.group_id refuses a group that is gone.
GroupExists(g) == g \in DOMAIN groups \cup {NoGroup}

CreateDevice(h) ==
    /\ handler[h] = Idle
    /\ \E d \in Devices \ used, row \in DeviceRow :
          /\ GroupExists(row.group) /\ row.paused = 0
          /\ devices' = With(devices, d, row)
          /\ used' = used \cup {d}
    /\ WriteThenReadBack(h)
    /\ UNCHANGED <<groups, default, incidents>>

CreateGroup(h) ==
    /\ handler[h] = Idle
    /\ \E g \in Groups \ used, own \in Overrides :
          /\ groups' = With(groups, g, [own |-> own, paused |-> 0])
          /\ used' = used \cup {g}
    /\ Edit(h, Idle)
    /\ UNCHANGED <<devices, default, incidents, faults, excused>>

\* PATCH reads the whole row, folds the body into it ...
PatchRead(h) ==
    /\ handler[h] = Idle /\ edits < MaxEdits
    /\ \/ \E d \in DOMAIN devices :
             handler' = [handler EXCEPT ![h] = [pc |-> "device", id |-> d, row |-> devices[d]]]
       \/ \E g \in DOMAIN groups :
             handler' = [handler EXCEPT ![h] = [pc |-> "group", id |-> g, row |-> groups[g]]]
    /\ UNCHANGED <<tables, incidents, reload, engine, now, excused, edits, faults>>

\* The fields a body may name; it cannot name the pause.
PatchedDevice(row) ==
       { [row EXCEPT !.group = g] : g \in { x \in Groups \cup {NoGroup} : GroupExists(x) } }
  \cup { [row EXCEPT !.own = t] : t \in Overrides }
  \cup { [row EXCEPT !.enabled = b] : b \in BOOLEAN }

\* ... and writes every column of it back.
PatchDevice(h) ==
    /\ handler[h].pc = "device" /\ handler[h].id \in DOMAIN devices
    /\ GroupExists(handler[h].row.group)
    /\ \E row \in PatchedDevice(handler[h].row) :
          devices' = [devices EXCEPT ![handler[h].id] = row]
    /\ WriteThenReadBack(h)
    /\ UNCHANGED <<groups, default, used, incidents>>

PatchGroup(h) ==
    /\ handler[h].pc = "group" /\ handler[h].id \in DOMAIN groups
    /\ \E own \in Overrides :
          groups' = [groups EXCEPT ![handler[h].id] = [handler[h].row EXCEPT !.own = own]]
    /\ WriteThenReadBack(h)
    /\ UNCHANGED <<devices, default, used, incidents>>

\* The row went away, the body is refused, or the group in it is gone.
PatchFails(h) ==
    /\ handler[h].pc \in {"device", "group"}
    /\ handler' = [handler EXCEPT ![h] = Idle]
    /\ UNCHANGED <<tables, incidents, reload, engine, now, excused, edits, faults>>

\* Pause and bulk pause; until 0 resumes.
PauseDevices(h) ==
    /\ handler[h] = Idle
    /\ \E ids \in (SUBSET DOMAIN devices) \ {{}}, until \in {0} \cup (now + 1 .. MaxNow) :
          devices' = [ d \in DOMAIN devices |->
                         IF d \in ids THEN [devices[d] EXCEPT !.paused = until] ELSE devices[d] ]
    /\ WriteThenReload(h)
    /\ UNCHANGED <<groups, default, used, incidents>>

BulkMove(h) ==
    /\ handler[h] = Idle
    /\ \E ids \in (SUBSET DOMAIN devices) \ {{}}, g \in Groups \cup {NoGroup} :
          /\ GroupExists(g)
          /\ devices' = [ d \in DOMAIN devices |->
                            IF d \in ids THEN [devices[d] EXCEPT !.group = g] ELSE devices[d] ]
    /\ WriteThenReload(h)
    /\ UNCHANGED <<groups, default, used, incidents>>

\* incidents.device_id is ON DELETE CASCADE.
Cascade(ids) == incidents \ ids

\* Delete and bulk delete.
DeleteDevices(h) ==
    /\ handler[h] = Idle
    /\ \E ids \in (SUBSET DOMAIN devices) \ {{}} :
          /\ devices' = Without(devices, ids)
          /\ incidents' = Cascade(ids)
    /\ WriteThenReload(h)
    /\ UNCHANGED <<groups, default, used>>

PauseGroup(h) ==
    /\ handler[h] = Idle
    /\ \E g \in DOMAIN groups, until \in {0} \cup (now + 1 .. MaxNow) :
          groups' = [groups EXCEPT ![g].paused = until]
    /\ WriteThenReload(h)
    /\ UNCHANGED <<devices, default, used, incidents>>

\* Members survive, ungrouped (ON DELETE SET NULL).
DeleteGroup(h) ==
    /\ handler[h] = Idle
    /\ \E g \in DOMAIN groups :
          /\ groups' = Without(groups, {g})
          /\ devices' = [ d \in DOMAIN devices |->
                            IF devices[d].group = g THEN [devices[d] EXCEPT !.group = NoGroup]
                            ELSE devices[d] ]
    /\ WriteThenReload(h)
    /\ UNCHANGED <<default, used, incidents>>

PutSettings(h) ==
    /\ handler[h] = Idle
    /\ default' \in Timings \ {default}
    /\ WriteThenReload(h)
    /\ UNCHANGED <<devices, groups, used, incidents>>

\* Mutant: nothing is asked of a refresh that is already running.
ReloadUnlessBusy(h) ==
    /\ handler[h].pc = "reload"
    /\ handler' = [handler EXCEPT ![h] = Idle]
    /\ reload' = (refresher = Idle \/ reload)
    /\ UNCHANGED <<tables, incidents, engine, now, excused, edits, faults>>

\* App.Reload: a full channel means a refresh is already owed.
Reload(h) ==
    /\ handler[h].pc = "reload"
    /\ handler' = [handler EXCEPT ![h] = Idle]
    /\ reload' = TRUE
    /\ UNCHANGED <<tables, incidents, engine, now, excused, edits, faults>>

-----------------------------------------------------------------------------
(* runRefresh and refresh: the defaults, the groups and the devices are      *)
(* three reads.                                                            *)

\* Whatever was left to the ticker is seen by the refresh that starts now.
RefreshBegin(ticked) ==
    /\ refresher = Idle
    /\ IF ticked THEN UNCHANGED reload ELSE reload /\ reload' = FALSE
    /\ refresher' = [pc |-> "groups", default |-> default]
    /\ excused' = FALSE
    /\ UNCHANGED <<tables, incidents, handler, effs, snaps, probing, stopped, appliedAt,
                   now, edits, faults>>

RefreshGroups ==
    /\ refresher.pc = "groups"
    /\ refresher' = [pc |-> "devices", default |-> refresher.default, groups |-> groups]
    /\ UNCHANGED <<tables, incidents, handler, reload, effs, snaps, probing, stopped,
                   appliedAt, now, excused, edits, faults>>

\* Mutant: snapshots of devices that left the effective set are pruned.
KnownLive(old, new) ==
    [ d \in DOMAIN new |-> IF d \in DOMAIN old THEN old[d] ELSE FALSE ]

\* Devices new to the engine get a snapshot; none is ever dropped, since a
\* disabled device may have an incident open.
Known(old, new) ==
    [ d \in DOMAIN old \cup DOMAIN new |-> IF d \in DOMAIN old THEN old[d] ELSE FALSE ]

RefreshDevices ==
    /\ refresher.pc = "devices"
    /\ effs' = EffectiveSet(devices, refresher.groups, refresher.default)
    /\ snaps' = Known(snaps, effs')
    /\ refresher' = [pc |-> "apply"]
    /\ UNCHANGED <<tables, incidents, handler, reload, probing, stopped, appliedAt,
                   now, excused, edits, faults>>

\* A read fails: the error is logged, and the token that asked is spent.
RefreshFails ==
    /\ refresher.pc \in {"groups", "devices"}
    /\ faults < MaxFaults
    /\ faults' = faults + 1
    /\ refresher' = Idle
    /\ excused' = TRUE
    /\ UNCHANGED <<tables, incidents, handler, reload, effs, snaps, probing, stopped,
                   appliedAt, now, edits>>

\* Mutant: a pause that has run out is not noticed.
NeverPaused == { d \in DOMAIN effs : effs[d].paused = 0 }

\* scheduler.Apply leaves out what is paused at that moment.
Unpaused == { d \in DOMAIN effs : ~Paused(effs[d]) }

RefreshApply ==
    /\ refresher.pc = "apply"
    /\ S!Apply([ d \in Unpaused |-> effs[d].timing ])
    /\ refresher' = Idle
    /\ appliedAt' = now
    /\ UNCHANGED <<tables, incidents, handler, reload, effs, snaps, now, excused, edits, faults>>

Refresh ==
    RefreshBegin(TRUE) \/ RefreshBegin(FALSE) \/ RefreshGroups \/ RefreshDevices \/ RefreshApply

-----------------------------------------------------------------------------
(* A verdict reaches the evaluator, perhaps one queued before its device was *)
(* paused, disabled or deleted.  Whether it crosses a threshold is module     *)
(* Evaluator's question; here it may, or nothing changes.                     *)

Opens(d) ==
    /\ ~snaps[d] /\ d \in DOMAIN devices   \* the incident's foreign key
    /\ snaps' = [snaps EXCEPT ![d] = TRUE]
    /\ incidents' = incidents \cup {d}

Closes(d) ==
    /\ snaps[d]
    /\ snaps' = [snaps EXCEPT ![d] = FALSE]
    /\ incidents' = incidents \ {d}

Evaluate(d) ==
    /\ d \in DOMAIN effs
    /\ Opens(d) \/ Closes(d)
    /\ UNCHANGED <<tables, handler, reload, refresher, effs, probing, stopped, appliedAt,
                   now, excused, edits, faults>>

Clock ==
    /\ now < MaxNow
    /\ now' = now + 1
    /\ UNCHANGED <<tables, incidents, handler, reload, engine, excused, edits, faults>>

Request(h) ==
    \/ CreateDevice(h) \/ CreateGroup(h) \/ PatchRead(h) \/ PatchDevice(h)
    \/ PatchGroup(h) \/ PatchFails(h) \/ PauseDevices(h) \/ BulkMove(h)
    \/ DeleteDevices(h) \/ PauseGroup(h) \/ DeleteGroup(h) \/ PutSettings(h)

Next ==
    \/ \E h \in Handlers : Request(h) \/ Reload(h)
    \/ Refresh \/ RefreshFails
    \/ \E d \in Devices : Evaluate(d)
    \/ Clock

\* The refresh ticker always comes, and a request that has written goes on to
\* Reload.  Nothing is assumed of clients or of the clock.
Spec == Init /\ [][Next]_vars /\ WF_vars(Refresh) /\ \A h \in Handlers : WF_vars(Reload(h))

-----------------------------------------------------------------------------
\* Nothing is on its way from the tables to the scheduler: no token, no refresh,
\* no handler between its write and Reload.  A read that failed leaves its edit
\* to the next tick.
Quiet ==
    /\ refresher = Idle /\ ~reload /\ ~excused
    /\ \A h \in Handlers : handler[h].pc # "reload"

\* "Pause a group and nothing in it is probed.  A device you had paused
\* individually stays paused afterwards" (README.md:117): once the edits have
\* arrived, no device is probed whose own pause or whose group's ran past the
\* last refresh, whichever was set or lifted first (Resolve, Apply, PauseGroup).
MaintenanceHolds ==
    Quiet => \A d \in DOMAIN probing :
       /\ d \in DOMAIN devices /\ devices[d].enabled /\ devices[d].paused <= appliedAt
       /\ devices[d].group # NoGroup => groups[devices[d].group].paused <= appliedAt

\* No edit is missed: when nothing is on its way, the effective set is what the
\* tables resolve to, however the edits, the refreshes and the failed reads
\* interleaved (App.Reload's channel of one, runRefresh, internal/api).
NoMissedEdit == Quiet => effs = EffectiveSet(devices, groups, default)

\* The engine knows of a device's open incident, so that it can close it, and
\* of no other: through edits, pauses, and the device being disabled and
\* enabled again (refresh keeps snapshots, evaluate).
IncidentNotLost ==
    \A d \in DOMAIN devices : d \in incidents <=> (d \in DOMAIN snaps /\ snaps[d])

\* Once edits stop, the probes follow the tables for good: every enabled device
\* whose pauses are over is probed with its resolved timing, and nothing else
\* is, whatever reads failed on the way (runRefresh's ticker).
Settled ==
    LET wanted == EffectiveSet(devices, groups, default)
    IN  probing = [ d \in { x \in DOMAIN wanted : ~Paused(wanted[x]) } |-> wanted[d].timing ]
EditsTakeEffect == <>[]Settled

\* A PATCH body "that omits check_interval_sec leaves the override alone"
\* (internal/api/json.go:22): a field it does not name, here the pause, which
\* it cannot name, is what it was.
PatchLeavesPause ==
    [][ \A h \in Handlers :
          PatchDevice(h) => devices'[handler[h].id].paused = devices[handler[h].id].paused ]_vars
=============================================================================
