---------------------------- MODULE Monitor_proofs ----------------------------
(***************************************************************************)
(* Proofs about module Monitor, for every set of devices, groups, timings    *)
(* and API requests, and every bound; and, at the end, about module          *)
(* HeartbeatWriter, the other half of core.go.                                *)
(***************************************************************************)
EXTENDS Monitor, FiniteSetTheorems, SequenceTheorems, TLAPS

-----------------------------------------------------------------------------
(* Tables.                                                                  *)

\* Membership in a table, and what it gives.
LEMMA TableIntro ==
    ASSUME NEW Id, NEW Row, NEW ids \in SUBSET Id, NEW f \in [ids -> Row]
    PROVE  f \in S!Table(Id, Row)
BY DEF S!Table

\* A table holds rows for ids.
LEMMA TableElim ==
    ASSUME NEW Id, NEW Row, NEW f \in S!Table(Id, Row)
    PROVE  DOMAIN f \in SUBSET Id /\ f \in [DOMAIN f -> Row]
BY DEF S!Table

\* A row is inserted.
LEMMA TableWith ==
    ASSUME NEW Id, NEW Row, NEW f \in S!Table(Id, Row), NEW i \in Id, NEW v \in Row
    PROVE  With(f, i, v) \in S!Table(Id, Row) /\ DOMAIN With(f, i, v) = DOMAIN f \cup {i}
<1>1. DOMAIN f \in SUBSET Id /\ f \in [DOMAIN f -> Row]
  BY TableElim
<1>2. With(f, i, v) \in [DOMAIN f \cup {i} -> Row]
  BY <1>1 DEF With
<1>3. QED
  BY <1>1, <1>2, TableIntro

\* Rows are deleted.
LEMMA TableWithout ==
    ASSUME NEW Id, NEW Row, NEW f \in S!Table(Id, Row), NEW ids
    PROVE  Without(f, ids) \in S!Table(Id, Row) /\ DOMAIN Without(f, ids) = DOMAIN f \ ids
<1>1. DOMAIN f \in SUBSET Id /\ f \in [DOMAIN f -> Row]
  BY TableElim
<1>2. Without(f, ids) \in [DOMAIN f \ ids -> Row]
  BY <1>1 DEF Without
<1>3. QED
  BY <1>1, <1>2, TableIntro

\* Rows are replaced, none is added or deleted.
LEMMA TableMap ==
    ASSUME NEW Id, NEW Row, NEW f \in S!Table(Id, Row), NEW g,
           g = [i \in DOMAIN f |-> g[i]], \A i \in DOMAIN f : g[i] \in Row
    PROVE  g \in S!Table(Id, Row) /\ DOMAIN g = DOMAIN f
<1>1. DOMAIN f \in SUBSET Id
  BY TableElim
<1>2. g \in [DOMAIN f -> Row]
  OBVIOUS
<1>3. QED
  BY <1>1, <1>2, TableIntro

\* One row is replaced.
LEMMA TableUpdate ==
    ASSUME NEW Id, NEW Row, NEW f \in S!Table(Id, Row), NEW i, NEW v \in Row
    PROVE  [f EXCEPT ![i] = v] \in S!Table(Id, Row) /\ DOMAIN [f EXCEPT ![i] = v] = DOMAIN f
<1>1. DOMAIN f \in SUBSET Id /\ f \in [DOMAIN f -> Row]
  BY TableElim
<1>2. [f EXCEPT ![i] = v] \in [DOMAIN f -> Row]
  BY <1>1
<1>3. QED
  BY <1>1, <1>2, TableIntro

-----------------------------------------------------------------------------
(* Rows.                                                                    *)

\* Facts of the constants.
LEMMA TimeIsTime == 0 \in Time /\ Time \subseteq Nat /\ Inherit \in Overrides
BY BoundsAssumption DEF Time, Overrides

\* Resolve yields an entry of the effective set, whatever the group id.
LEMMA ResolveType ==
    ASSUME NEW row \in DeviceRow, NEW grps \in GroupTable, NEW dflt \in Timings
    PROVE  Resolve(row, grps, dflt) \in Eff
<1> DEFINE g == GroupTier(row, grps)
<1>1. g \in GroupRow
  <2>1. grps \in [DOMAIN grps -> GroupRow]
    BY TableElim DEF GroupTable
  <2>2. [own |-> Inherit, paused |-> 0] \in GroupRow
    BY TimeIsTime DEF GroupRow
  <2>3. QED
    BY <2>1, <2>2 DEF GroupTier
<1> HIDE DEF g
<1>2. ResolveTiming(row, g, dflt) \in Timings
  BY <1>1 DEF ResolveTiming, DeviceRow, GroupRow, Overrides
<1>3. (IF g.paused > row.paused THEN g.paused ELSE row.paused) \in Time
  BY <1>1 DEF DeviceRow, GroupRow
<1>4. QED
  BY <1>2, <1>3 DEF Resolve, Eff, g

\* LoadEffective yields settings for devices that exist.
LEMMA EffectiveSetType ==
    ASSUME NEW devs \in DeviceTable, NEW grps \in GroupTable, NEW dflt \in Timings
    PROVE  /\ EffectiveSet(devs, grps, dflt) \in S!Table(Devices, Eff)
           /\ DOMAIN EffectiveSet(devs, grps, dflt) \subseteq DOMAIN devs
<1> DEFINE ids == { i \in DOMAIN devs : devs[i].enabled }
<1>1. DOMAIN devs \in SUBSET Devices /\ devs \in [DOMAIN devs -> DeviceRow]
  BY TableElim DEF DeviceTable
<1>2. \A d \in ids : Resolve(devs[d], grps, dflt) \in Eff
  BY <1>1, ResolveType
<1>3. EffectiveSet(devs, grps, dflt) \in [ids -> Eff]
  BY <1>2 DEF EffectiveSet
<1>4. QED
  BY <1>1, <1>3, TableIntro

\* What a PATCH makes of a row is a row.
LEMMA PatchedDeviceType ==
    ASSUME NEW row \in DeviceRow, groups \in GroupTable
    PROVE  PatchedDevice(row) \subseteq DeviceRow
<1>1. DOMAIN groups \subseteq Groups
  BY TableElim DEF GroupTable
<1>2. QED
  BY <1>1 DEF PatchedDevice, GroupExists, DeviceRow

-----------------------------------------------------------------------------
(* The invariant.                                                           *)

TablesOK ==
    /\ devices \in DeviceTable /\ groups \in GroupTable /\ default \in Timings
    /\ used \subseteq Devices \cup Groups
    /\ incidents \subseteq DOMAIN devices

EngineOK ==
    /\ handler \in [Handlers -> Handler]
    /\ reload \in BOOLEAN
    /\ refresher \in Refresher
    /\ effs \in S!Table(Devices, Eff)
    /\ snaps \in S!Table(Devices, BOOLEAN)
    /\ probing \in S!Table(Devices, Timings) /\ ~stopped
    /\ now \in Time /\ appliedAt \in Time /\ excused \in BOOLEAN

\* Ids are not given out again, and the engine has a snapshot of every device
\* it evaluates: a row or a snapshot is of a device that was created.
IdsOK ==
    /\ DOMAIN devices \subseteq used /\ DOMAIN snaps \subseteq used
    /\ DOMAIN effs \subseteq DOMAIN snaps

Inv == TypeOK /\ IdsOK /\ IncidentNotLost

\* The type invariant in two parts: what the handlers write, and the rest.
LEMMA TypeParts == TypeOK <=> TablesOK /\ EngineOK
BY DEF TypeOK, TablesOK, EngineOK

\* The invariant holds at the start.
LEMMA InitInv == Init => Inv
<1> SUFFICES ASSUME Init
             PROVE  Inv
  OBVIOUS
<1>1. PICK ds \in SUBSET Devices, gs \in SUBSET Groups, g \in Groups \cup {NoGroup} :
         /\ devices = [ d \in ds |-> [ group |-> g, own |-> Inherit,
                                      enabled |-> TRUE, paused |-> 0 ] ]
         /\ groups = [ x \in gs |-> [own |-> Inherit, paused |-> 0] ]
         /\ used = ds \cup gs
  BY DEF Init
<1>2. default \in Timings
  BY TimingsAssumption DEF Init
<1>3. devices \in [ds -> DeviceRow] /\ groups \in [gs -> GroupRow]
  BY <1>1, TimeIsTime DEF DeviceRow, GroupRow
<1>4. TablesOK
  BY <1>1, <1>2, <1>3, TableIntro DEF Init, TablesOK, DeviceTable, GroupTable
<1>5. /\ effs \in [ds -> Eff] /\ snaps \in [ds -> BOOLEAN] /\ probing \in [ds -> Timings]
      /\ snaps = [d \in ds |-> d \in incidents]
  BY <1>1, <1>2, TimeIsTime DEF Init, Eff
<1>6. EngineOK
  BY <1>5, TableIntro, TimeIsTime DEF Init, EngineOK, Handler, Refresher, Idle
<1>7. IdsOK /\ IncidentNotLost
  BY <1>1, <1>5 DEF IdsOK, IncidentNotLost
<1>8. QED
  BY <1>4, <1>6, <1>7, TypeParts DEF Inv

-----------------------------------------------------------------------------
(* The requests.                                                            *)

\* A table write leaves the engine alone, and its handler in a place it knows.
LEMMA EditKeepsEngine ==
    ASSUME Inv, NEW h \in Handlers, NEW nxt \in Handler, Edit(h, nxt), excused' \in BOOLEAN
    PROVE  EngineOK' /\ UNCHANGED <<snaps, effs>>
<1>1. EngineOK
  BY TypeParts DEF Inv
<1>2. handler' \in [Handlers -> Handler]
  BY <1>1 DEF EngineOK, Edit
<1>3. QED
  BY <1>1, <1>2 DEF EngineOK, Edit, engine

\* The same for a write that goes on to Reload or to a read of its row.
LEMMA WriteKeepsEngine ==
    ASSUME Inv, NEW h \in Handlers, WriteThenReload(h) \/ WriteThenReadBack(h)
    PROVE  EngineOK' /\ UNCHANGED <<snaps, effs>>
<1>1. Idle \in Handler /\ [pc |-> "reload"] \in Handler
  BY DEF Handler, Idle
<1>2. excused \in BOOLEAN
  BY DEF Inv, TypeOK
<1>3. CASE WriteThenReload(h)
  BY <1>1, <1>2, <1>3, EditKeepsEngine DEF WriteThenReload
<1>4. CASE WriteThenReadBack(h)
  BY <1>1, <1>2, <1>4, EditKeepsEngine DEF WriteThenReload, WriteThenReadBack
<1>5. QED
  BY <1>3, <1>4

\* A write that inserts and deletes no device.
LEMMA SameDevices ==
    ASSUME Inv, EngineOK', UNCHANGED <<snaps, effs>>,
           devices' \in DeviceTable, DOMAIN devices' = DOMAIN devices,
           groups' \in GroupTable, default' \in Timings,
           used \subseteq used', used' \subseteq Devices \cup Groups,
           incidents' = incidents
    PROVE  Inv'
<1>1. TypeOK'
  <2>1. TablesOK'
    BY DEF Inv, TypeOK, TablesOK
  <2>2. QED
    BY <2>1 DEF TypeOK, TablesOK, EngineOK
<1>2. IdsOK'
  BY DEF Inv, IdsOK
<1>3. IncidentNotLost'
  BY DEF Inv, IncidentNotLost
<1>4. QED
  BY <1>1, <1>2, <1>3 DEF Inv

\* The rows of the tables have their types.
LEMMA RowOfTable ==
    ASSUME Inv
    PROVE  /\ DOMAIN devices \subseteq Devices /\ \A d \in DOMAIN devices : devices[d] \in DeviceRow
           /\ DOMAIN groups \subseteq Groups /\ \A g \in DOMAIN groups : groups[g] \in GroupRow
           /\ devices = [d \in DOMAIN devices |-> devices[d]]
           /\ groups = [g \in DOMAIN groups |-> groups[g]]
<1>1. devices \in DeviceTable /\ groups \in GroupTable
  BY DEF Inv, TypeOK
<1>2. DOMAIN devices \in SUBSET Devices /\ devices \in [DOMAIN devices -> DeviceRow]
  BY <1>1, TableElim DEF DeviceTable
<1>3. DOMAIN groups \in SUBSET Groups /\ groups \in [DOMAIN groups -> GroupRow]
  BY <1>1, TableElim DEF GroupTable
<1>4. QED
  BY <1>2, <1>3

\* What a request may pause until is an instant.
LEMMA UntilIsTime == Inv => {0} \cup (now + 1 .. MaxNow) \subseteq Time
<1> SUFFICES ASSUME Inv
             PROVE  {0} \cup (now + 1 .. MaxNow) \subseteq Time
  OBVIOUS
<1>1. now \in 0 .. MaxNow /\ MaxNow \in Nat
  BY BoundsAssumption DEF Inv, TypeOK, Time
<1>2. QED
  BY <1>1 DEF Time

\* A new device has an id that no incident and no snapshot was ever of.
LEMMA CreateKeeps ==
    ASSUME Inv, NEW h \in Handlers, CreateDevice(h)
    PROVE  Inv'
<1>1. PICK d \in Devices \ used, row \in DeviceRow :
         devices' = With(devices, d, row) /\ used' = used \cup {d}
  BY DEF CreateDevice
<1>2. EngineOK' /\ UNCHANGED <<snaps, effs>>
  BY WriteKeepsEngine DEF CreateDevice
<1>3. TablesOK /\ UNCHANGED <<groups, default, incidents>>
  BY TypeParts DEF Inv, CreateDevice
<1>4. devices' \in DeviceTable /\ DOMAIN devices' = DOMAIN devices \cup {d}
  BY <1>1, <1>3, TableWith DEF TablesOK, DeviceTable
<1>5. TablesOK'
  BY <1>1, <1>3, <1>4 DEF TablesOK
<1>6. IdsOK'
  BY <1>1, <1>2, <1>4 DEF Inv, IdsOK
<1>7. IncidentNotLost'
  BY <1>1, <1>2, <1>3, <1>4 DEF Inv, IdsOK, IncidentNotLost, TablesOK
<1>8. TypeOK'
  BY <1>2, <1>5 DEF TypeOK, TablesOK, EngineOK
<1>9. QED
  BY <1>6, <1>7, <1>8 DEF Inv

\* The incidents of a deleted device go with it.
LEMMA DeleteKeeps ==
    ASSUME Inv, NEW h \in Handlers, DeleteDevices(h)
    PROVE  Inv'
<1>1. PICK ids : devices' = Without(devices, ids) /\ incidents' = Cascade(ids)
  BY DEF DeleteDevices
<1>2. EngineOK' /\ UNCHANGED <<snaps, effs>>
  BY WriteKeepsEngine DEF DeleteDevices
<1>3. TablesOK /\ UNCHANGED <<groups, default, used>>
  BY TypeParts DEF Inv, DeleteDevices
<1>4. devices' \in DeviceTable /\ DOMAIN devices' = DOMAIN devices \ ids
  BY <1>1, <1>3, TableWithout DEF TablesOK, DeviceTable
<1>5. TablesOK'
  BY <1>1, <1>3, <1>4 DEF TablesOK, Cascade
<1>6. IdsOK'
  BY <1>2, <1>3, <1>4 DEF Inv, IdsOK
<1>7. IncidentNotLost'
  BY <1>1, <1>2, <1>4 DEF Inv, IncidentNotLost, Cascade
<1>8. TypeOK'
  BY <1>2, <1>5 DEF TypeOK, TablesOK, EngineOK
<1>9. QED
  BY <1>6, <1>7, <1>8 DEF Inv

\* The other writes replace rows of devices, or touch the groups and settings.
LEMMA WriteKeeps ==
    ASSUME Inv, NEW h \in Handlers,
           \/ CreateGroup(h) \/ PatchDevice(h) \/ PatchGroup(h) \/ PauseDevices(h)
           \/ BulkMove(h) \/ PauseGroup(h) \/ DeleteGroup(h) \/ PutSettings(h)
    PROVE  Inv'
<1>0. /\ TablesOK /\ EngineOK /\ devices \in DeviceTable /\ groups \in GroupTable
      /\ default \in Timings /\ used \subseteq Devices \cup Groups
  BY TypeParts DEF Inv, TablesOK
<1>1. CASE CreateGroup(h)
  <2>1. EngineOK' /\ UNCHANGED <<snaps, effs>>
    <3>1. Idle \in Handler /\ excused' \in BOOLEAN
      BY <1>0, <1>1 DEF Handler, Idle, EngineOK, CreateGroup
    <3>2. QED
      BY <1>1, <3>1, EditKeepsEngine DEF CreateGroup
  <2>2. PICK g \in Groups \ used, own \in Overrides :
           groups' = With(groups, g, [own |-> own, paused |-> 0]) /\ used' = used \cup {g}
    BY <1>1 DEF CreateGroup
  <2>3. [own |-> own, paused |-> 0] \in GroupRow
    BY TimeIsTime DEF GroupRow
  <2>4. groups' \in GroupTable
    BY <1>0, <2>2, <2>3, TableWith DEF GroupTable
  <2>5. QED
    BY <1>0, <1>1, <2>1, <2>2, <2>4, SameDevices DEF CreateGroup
<1>2. CASE PatchDevice(h)
  <2>1. EngineOK' /\ UNCHANGED <<snaps, effs>>
    BY <1>2, WriteKeepsEngine DEF PatchDevice
  <2>2. handler[h].row \in DeviceRow
    BY <1>0, <1>2 DEF PatchDevice, EngineOK, Handler
  <2>3. PICK row \in DeviceRow : devices' = [devices EXCEPT ![handler[h].id] = row]
    BY <1>0, <1>2, <2>2, PatchedDeviceType DEF PatchDevice
  <2>4. devices' \in DeviceTable /\ DOMAIN devices' = DOMAIN devices
    BY <1>0, <2>3, TableUpdate DEF DeviceTable
  <2>5. QED
    BY <1>0, <1>2, <2>1, <2>4, SameDevices DEF PatchDevice
<1>3. CASE PatchGroup(h)
  <2>1. EngineOK' /\ UNCHANGED <<snaps, effs>>
    BY <1>3, WriteKeepsEngine DEF PatchGroup
  <2>2. handler[h].row \in GroupRow
    BY <1>0, <1>3 DEF PatchGroup, EngineOK, Handler
  <2>3. PICK own \in Overrides :
           groups' = [groups EXCEPT ![handler[h].id] = [handler[h].row EXCEPT !.own = own]]
    BY <1>3 DEF PatchGroup
  <2>4. [handler[h].row EXCEPT !.own = own] \in GroupRow
    BY <2>2 DEF GroupRow
  <2>5. groups' \in GroupTable
    BY <1>0, <2>3, <2>4, TableUpdate DEF GroupTable
  <2>6. QED
    BY <1>0, <1>3, <2>1, <2>5, SameDevices DEF PatchGroup
<1>4. CASE PauseDevices(h)
  <2>1. EngineOK' /\ UNCHANGED <<snaps, effs>>
    BY <1>4, WriteKeepsEngine DEF PauseDevices
  <2>2. PICK ids \in SUBSET DOMAIN devices, until \in Time :
           devices' = [ d \in DOMAIN devices |->
                          IF d \in ids THEN [devices[d] EXCEPT !.paused = until] ELSE devices[d] ]
    BY <1>4, UntilIsTime DEF PauseDevices
  <2>3. \A row \in DeviceRow : [row EXCEPT !.paused = until] \in DeviceRow
    BY DEF DeviceRow
  <2>4. devices' \in DeviceTable /\ DOMAIN devices' = DOMAIN devices
    BY <1>0, <2>2, <2>3, RowOfTable, TableMap DEF DeviceTable
  <2>5. QED
    BY <1>0, <1>4, <2>1, <2>4, SameDevices DEF PauseDevices
<1>5. CASE BulkMove(h)
  <2>1. EngineOK' /\ UNCHANGED <<snaps, effs>>
    BY <1>5, WriteKeepsEngine DEF BulkMove
  <2>2. PICK ids \in SUBSET DOMAIN devices, g \in Groups \cup {NoGroup} :
           devices' = [ d \in DOMAIN devices |->
                          IF d \in ids THEN [devices[d] EXCEPT !.group = g] ELSE devices[d] ]
    BY <1>5 DEF BulkMove
  <2>3. \A row \in DeviceRow : [row EXCEPT !.group = g] \in DeviceRow
    BY DEF DeviceRow
  <2>4. devices' \in DeviceTable /\ DOMAIN devices' = DOMAIN devices
    BY <1>0, <2>2, <2>3, RowOfTable, TableMap DEF DeviceTable
  <2>5. QED
    BY <1>0, <1>5, <2>1, <2>4, SameDevices DEF BulkMove
<1>6. CASE PauseGroup(h)
  <2>1. EngineOK' /\ UNCHANGED <<snaps, effs>>
    BY <1>6, WriteKeepsEngine DEF PauseGroup
  <2>2. PICK g \in DOMAIN groups, until \in Time : groups' = [groups EXCEPT ![g].paused = until]
    BY <1>6, UntilIsTime DEF PauseGroup
  <2>3. [groups[g] EXCEPT !.paused = until] \in GroupRow
    BY <2>2, RowOfTable DEF GroupRow
  <2>4. groups' \in GroupTable
    <3>1. groups' = [groups EXCEPT ![g] = [groups[g] EXCEPT !.paused = until]]
      BY <2>2
    <3>2. QED
      BY <1>0, <2>3, <3>1, TableUpdate DEF GroupTable
  <2>5. QED
    BY <1>0, <1>6, <2>1, <2>4, SameDevices DEF PauseGroup
<1>7. CASE DeleteGroup(h)
  <2>1. EngineOK' /\ UNCHANGED <<snaps, effs>>
    BY <1>7, WriteKeepsEngine DEF DeleteGroup
  <2>2. PICK g \in DOMAIN groups :
           /\ groups' = Without(groups, {g})
           /\ devices' = [ d \in DOMAIN devices |->
                             IF devices[d].group = g THEN [devices[d] EXCEPT !.group = NoGroup]
                             ELSE devices[d] ]
    BY <1>7 DEF DeleteGroup
  <2>3. \A row \in DeviceRow : [row EXCEPT !.group = NoGroup] \in DeviceRow
    BY DEF DeviceRow
  <2>4. devices' \in DeviceTable /\ DOMAIN devices' = DOMAIN devices
    BY <1>0, <2>2, <2>3, RowOfTable, TableMap DEF DeviceTable
  <2>5. groups' \in GroupTable
    BY <1>0, <2>2, TableWithout DEF GroupTable
  <2>6. QED
    BY <1>0, <1>7, <2>1, <2>4, <2>5, SameDevices DEF DeleteGroup
<1>8. CASE PutSettings(h)
  <2>1. EngineOK' /\ UNCHANGED <<snaps, effs>>
    BY <1>8, WriteKeepsEngine DEF PutSettings
  <2>2. QED
    BY <1>0, <1>8, <2>1, SameDevices DEF PutSettings
<1>9. QED
  BY <1>1, <1>2, <1>3, <1>4, <1>5, <1>6, <1>7, <1>8

\* A request that reads, is refused or asks for a refresh writes no table.
LEMMA HandlerKeeps ==
    ASSUME Inv, NEW h \in Handlers, PatchRead(h) \/ PatchFails(h) \/ Reload(h)
    PROVE  Inv'
<1>0. EngineOK /\ TablesOK
  BY TypeParts DEF Inv
<1>1. handler' \in [Handlers -> Handler]
  <2>1. CASE PatchRead(h)
    <3>1. PICK next \in Handler : handler' = [handler EXCEPT ![h] = next]
      BY <2>1, RowOfTable DEF PatchRead, Handler
    <3>2. QED
      BY <1>0, <3>1 DEF EngineOK
  <2>2. CASE PatchFails(h) \/ Reload(h)
    <3>1. Idle \in Handler
      BY DEF Handler, Idle
    <3>2. QED
      BY <1>0, <2>2, <3>1 DEF EngineOK, PatchFails, Reload
  <2>3. QED
    BY <2>1, <2>2
<1>2. reload' \in BOOLEAN /\ UNCHANGED <<tables, incidents, engine, now>>
  <2>1. CASE PatchRead(h)
    BY <1>0, <2>1 DEF PatchRead, EngineOK
  <2>2. CASE PatchFails(h)
    BY <1>0, <2>2 DEF PatchFails, EngineOK
  <2>3. CASE Reload(h)
    BY <1>0, <2>3 DEF Reload, EngineOK
  <2>4. QED
    BY <2>1, <2>2, <2>3
<1>3. excused' \in BOOLEAN
  BY <1>0 DEF PatchRead, PatchFails, Reload, EngineOK
<1>4. EngineOK' /\ UNCHANGED <<tables, incidents, snaps, effs>>
  BY <1>0, <1>1, <1>2, <1>3 DEF EngineOK, engine
<1>5. QED
  BY <1>0, <1>4, SameDevices DEF tables, TablesOK

-----------------------------------------------------------------------------
(* The engine.                                                              *)

\* A step that touches neither tables nor snapshots nor the effective set.
LEMMA SameEngine ==
    ASSUME Inv, EngineOK', UNCHANGED <<tables, incidents, snaps, effs>>
    PROVE  Inv'
<1>1. TablesOK
  BY TypeParts DEF Inv
<1>2. QED
  BY <1>1, SameDevices DEF tables, TablesOK

\* A refresh keeps the invariant, read by read, and when it fails.
LEMMA RefreshKeeps ==
    ASSUME Inv, Refresh \/ RefreshFails
    PROVE  Inv'
<1>0. EngineOK /\ TablesOK
  BY TypeParts DEF Inv
<1>1. ASSUME NEW ticked \in BOOLEAN, RefreshBegin(ticked)
      PROVE  Inv'
  <2>1. refresher' \in Refresher
    BY <1>0, <1>1 DEF RefreshBegin, Refresher, TablesOK
  <2>2. EngineOK'
    BY <1>0, <1>1, <2>1 DEF RefreshBegin, EngineOK
  <2>3. QED
    BY <1>1, <2>2, SameEngine DEF RefreshBegin
<1>2. CASE RefreshGroups
  <2>1. refresher.default \in Timings
    BY <1>0, <1>2 DEF RefreshGroups, EngineOK, Refresher
  <2>2. refresher' \in Refresher
    BY <1>0, <1>2, <2>1 DEF RefreshGroups, Refresher, TablesOK
  <2>3. EngineOK'
    BY <1>0, <1>2, <2>2 DEF RefreshGroups, EngineOK
  <2>4. QED
    BY <1>2, <2>3, SameEngine DEF RefreshGroups
<1>3. CASE RefreshFails
  <2>1. EngineOK'
    BY <1>0, <1>3 DEF RefreshFails, EngineOK, Refresher, Idle
  <2>2. QED
    BY <1>3, <2>1, SameEngine DEF RefreshFails
<1>4. CASE RefreshDevices
  <2> DEFINE new == EffectiveSet(devices, refresher.groups, refresher.default)
  <2>1. refresher.groups \in GroupTable /\ refresher.default \in Timings
    BY <1>0, <1>4 DEF RefreshDevices, EngineOK, Refresher
  <2>2. new \in S!Table(Devices, Eff) /\ DOMAIN new \subseteq DOMAIN devices
    BY <1>0, <2>1, EffectiveSetType DEF TablesOK
  <2>3. effs' = new /\ snaps' = Known(snaps, new)
    BY <1>4 DEF RefreshDevices
  <2> HIDE DEF new
  <2>4. /\ DOMAIN snaps' = DOMAIN snaps \cup DOMAIN new
        /\ \A d \in DOMAIN snaps : snaps'[d] = snaps[d]
        /\ \A d \in DOMAIN new \ DOMAIN snaps : snaps'[d] = FALSE
    BY <2>3 DEF Known
  <2>5. snaps' \in S!Table(Devices, BOOLEAN)
    <3>1. DOMAIN snaps \in SUBSET Devices /\ snaps \in [DOMAIN snaps -> BOOLEAN]
      BY <1>0, TableElim DEF EngineOK
    <3>2. DOMAIN new \in SUBSET Devices
      BY <2>2, TableElim
    <3>3. snaps' \in [DOMAIN snaps \cup DOMAIN new -> BOOLEAN]
      BY <2>3, <3>1 DEF Known
    <3>4. QED
      BY <3>1, <3>2, <3>3, TableIntro
  <2>6. EngineOK'
    BY <1>0, <1>4, <2>2, <2>3, <2>5 DEF RefreshDevices, EngineOK, Refresher
  <2>7. UNCHANGED <<devices, groups, default, used, incidents>>
    BY <1>4 DEF RefreshDevices, tables
  <2>8. TypeOK'
    BY <1>0, <2>6, <2>7 DEF TypeOK, TablesOK, EngineOK
  <2>9. IdsOK'
    BY <2>2, <2>3, <2>4, <2>7 DEF Inv, IdsOK
  <2>10. IncidentNotLost'
    BY <2>4, <2>7 DEF Inv, IncidentNotLost
  <2>11. QED
    BY <2>8, <2>9, <2>10 DEF Inv
<1>5. CASE RefreshApply
  <2> DEFINE wanted == [ d \in Unpaused |-> effs[d].timing ]
  <2>1. wanted \in S!Table(Devices, Timings)
    <3>1. DOMAIN effs \in SUBSET Devices /\ effs \in [DOMAIN effs -> Eff]
      BY <1>0, TableElim DEF EngineOK
    <3>2. Unpaused \subseteq DOMAIN effs
      BY DEF Unpaused
    <3>3. wanted \in [Unpaused -> Timings]
      BY <3>1, <3>2 DEF Eff
    <3>4. QED
      BY <3>1, <3>2, <3>3, TableIntro
  <2>2. probing' = wanted /\ stopped' = stopped
    BY <1>5 DEF RefreshApply, S!Apply
  <2> HIDE DEF wanted
  <2>3. EngineOK'
    BY <1>0, <1>5, <2>1, <2>2 DEF RefreshApply, EngineOK, Refresher, Idle
  <2>4. QED
    BY <1>5, <2>3, SameEngine DEF RefreshApply
<1>6. QED
  BY <1>1, <1>2, <1>3, <1>4, <1>5 DEF Refresh

\* The evaluator writes the incident and the snapshot of one device, together.
LEMMA EvaluateKeeps ==
    ASSUME Inv, NEW d \in Devices, Evaluate(d)
    PROVE  Inv'
<1>0. EngineOK /\ TablesOK /\ d \in DOMAIN snaps
  BY TypeParts DEF Inv, IdsOK, Evaluate
<1>1. PICK b \in BOOLEAN : snaps' = [snaps EXCEPT ![d] = b]
  BY DEF Evaluate, Opens, Closes
<1>2. snaps' \in S!Table(Devices, BOOLEAN) /\ DOMAIN snaps' = DOMAIN snaps
  BY <1>0, <1>1, TableUpdate DEF EngineOK
<1>3. EngineOK' /\ UNCHANGED <<devices, groups, default, used, effs>>
  BY <1>0, <1>2 DEF EngineOK, Evaluate, tables
<1>4. TypeOK' /\ IncidentNotLost'
  <2>1. CASE Opens(d)
    <3>1. /\ d \in DOMAIN devices /\ incidents' = incidents \cup {d}
          /\ snaps' = [snaps EXCEPT ![d] = TRUE]
      BY <2>1 DEF Opens
    <3>2. QED
      BY <1>0, <1>2, <1>3, <3>1 DEF Inv, TypeOK, TablesOK, EngineOK, IncidentNotLost
  <2>2. CASE Closes(d)
    <3>1. incidents' = incidents \ {d} /\ snaps' = [snaps EXCEPT ![d] = FALSE]
      BY <2>2 DEF Closes
    <3>2. QED
      BY <1>0, <1>2, <1>3, <3>1 DEF Inv, TypeOK, TablesOK, EngineOK, IncidentNotLost
  <2>3. QED
    BY <2>1, <2>2 DEF Evaluate
<1>5. IdsOK'
  BY <1>2, <1>3 DEF Inv, IdsOK
<1>6. QED
  BY <1>4, <1>5 DEF Inv

\* Every step keeps the invariant.
LEMMA StepInv == Inv /\ [Next]_vars => Inv'
<1> SUFFICES ASSUME Inv, [Next]_vars
             PROVE  Inv'
  OBVIOUS
<1>1. ASSUME NEW h \in Handlers, Request(h) \/ Reload(h)
      PROVE  Inv'
  BY <1>1, CreateKeeps, DeleteKeeps, WriteKeeps, HandlerKeeps DEF Request
<1>2. CASE Refresh \/ RefreshFails
  BY <1>2, RefreshKeeps
<1>3. ASSUME NEW d \in Devices, Evaluate(d)
      PROVE  Inv'
  BY <1>3, EvaluateKeeps
<1>4. CASE Clock \/ UNCHANGED vars
  <2>1. EngineOK
    BY TypeParts DEF Inv
  <2>2. now' \in Time
    BY <1>4, <2>1, BoundsAssumption DEF Clock, vars, EngineOK, Time
  <2>3. EngineOK' /\ UNCHANGED <<tables, incidents, snaps, effs>>
    BY <1>4, <2>1, <2>2 DEF Clock, vars, engine, EngineOK
  <2>4. QED
    BY <2>3, SameEngine
<1>5. QED
  BY <1>1, <1>2, <1>3, <1>4 DEF Next

\* The invariant holds in every reachable state.
LEMMA Invariance == Spec => []Inv
<1>1. Init => Inv
  BY InitInv
<1>2. Inv /\ [Next]_vars => Inv'
  BY StepInv
<1>3. QED
  BY <1>1, <1>2, PTL DEF Spec

\* Every variable of the monitor keeps its type.
THEOREM TypeCorrect == Spec => []TypeOK
<1>1. Inv => TypeOK
  BY DEF Inv
<1>2. QED
  BY <1>1, Invariance, PTL

\* The engine knows of every open incident of a device that is there, and of no
\* other, however devices are edited, disabled, deleted and created meanwhile.
THEOREM IncidentsKnown == Spec => []IncidentNotLost
<1>1. Inv => IncidentNotLost
  BY DEF Inv
<1>2. QED
  BY <1>1, Invariance, PTL

-----------------------------------------------------------------------------
(* The way of an edit to the scheduler.                                     *)

\* Something is on its way that a refresh yet to begin will see.
Pending == reload \/ excused \/ \E h \in Handlers : handler[h].pc = "reload"

\* A group id is given out once, and a device's group is there.
MembersOK ==
    /\ DOMAIN groups \subseteq used
    /\ \A d \in DOMAIN devices : GroupExists(devices[d].group)

\* With nothing pending, what the refresher has read so far is not stale.
Arriving ==
    ~Pending =>
      /\ refresher.pc \in {"idle", "apply"} => effs = EffectiveSet(devices, groups, default)
      /\ refresher.pc = "groups" => refresher.default = default
      /\ refresher.pc = "devices" =>
           EffectiveSet(devices, refresher.groups, refresher.default)
             = EffectiveSet(devices, groups, default)

\* Between refreshes the scheduler probes what the effective set let through.
Handed ==
    refresher.pc # "apply" =>
      \A d \in DOMAIN probing : d \in DOMAIN effs /\ effs[d].paused <= appliedAt

Flow == MembersOK /\ Arriving /\ Handed

\* The tables are in effect at the start.
LEMMA InitFlow == Init => Flow
<1> SUFFICES ASSUME Init
             PROVE  Flow
  OBVIOUS
<1>1. PICK ds \in SUBSET Devices, gs \in SUBSET Groups, g \in Groups \cup {NoGroup} :
         /\ g \in gs \cup {NoGroup}
         /\ devices = [ d \in ds |-> [ group |-> g, own |-> Inherit,
                                      enabled |-> TRUE, paused |-> 0 ] ]
         /\ groups = [ x \in gs |-> [own |-> Inherit, paused |-> 0] ]
         /\ used = ds \cup gs
  BY DEF Init
<1> DEFINE row == [ group |-> g, own |-> Inherit, enabled |-> TRUE, paused |-> 0 ]
<1>2. effs = [d \in ds |-> [timing |-> default, paused |-> 0]]
  BY <1>1 DEF Init
<1>3. GroupTier(row, groups) = [own |-> Inherit, paused |-> 0]
  BY <1>1 DEF GroupTier
<1>4. Resolve(row, groups, default) = [timing |-> default, paused |-> 0]
  BY <1>3 DEF Resolve, ResolveTiming
<1>5. EffectiveSet(devices, groups, default)
        = [d \in ds |-> Resolve(row, groups, default)]
  BY <1>1 DEF EffectiveSet
<1> HIDE DEF row
<1>6. Arriving
  <2>1. EffectiveSet(devices, groups, default) = effs
    BY <1>2, <1>4, <1>5
  <2>2. QED
    BY <2>1 DEF Init, Idle, Arriving
<1>7. MembersOK
  BY <1>1 DEF MembersOK, GroupExists
<1>8. Handed
  BY <1>1, <1>2 DEF Init, Idle, Handed
<1>9. QED
  BY <1>6, <1>7, <1>8 DEF Flow

\* A table write that is followed by Reload, or whose read back fails, is pending.
LEMMA WritePends ==
    ASSUME Inv, NEW h \in Handlers, WriteThenReload(h) \/ WriteThenReadBack(h)
    PROVE  Pending' /\ UNCHANGED <<refresher, effs, probing, appliedAt>>
<1>1. handler \in [Handlers -> Handler]
  BY DEF Inv, TypeOK
<1>2. CASE WriteThenReload(h)
  BY <1>1, <1>2 DEF WriteThenReload, Edit, Pending, engine
<1>3. CASE WriteThenReadBack(h)
  BY <1>1, <1>3 DEF WriteThenReload, WriteThenReadBack, Edit, Pending, engine
<1>4. QED
  BY <1>2, <1>3

\* Such a write keeps what is known of the flow, once the members are seen to.
LEMMA PendingKeeps ==
    ASSUME Inv, Flow, NEW h \in Handlers, WriteThenReload(h) \/ WriteThenReadBack(h),
           MembersOK'
    PROVE  Flow'
<1>1. Pending' /\ UNCHANGED <<refresher, effs, probing, appliedAt>>
  BY WritePends
<1>2. Arriving'
  BY <1>1 DEF Arriving
<1>3. Handed'
  BY <1>1 DEF Flow, Handed
<1>4. QED
  BY <1>2, <1>3 DEF Flow

\* A group nobody is a member of resolves nothing.
LEMMA StrangerResolvesNothing ==
    ASSUME Inv, MembersOK, NEW g \in Groups \ used, NEW v
    PROVE  EffectiveSet(devices, With(groups, g, v), default)
             = EffectiveSet(devices, groups, default)
<1>1. ASSUME NEW d \in DOMAIN devices
      PROVE  GroupTier(devices[d], With(groups, g, v)) = GroupTier(devices[d], groups)
  <2>1. g \notin DOMAIN groups /\ devices[d].group # g
    BY <1>1, InheritAssumption DEF MembersOK, GroupExists
  <2>2. QED
    BY <2>1 DEF GroupTier, With
<1>2. ASSUME NEW d \in DOMAIN devices
      PROVE  Resolve(devices[d], With(groups, g, v), default) = Resolve(devices[d], groups, default)
  BY <1>1, <1>2 DEF Resolve
<1>3. QED
  BY <1>2 DEF EffectiveSet

\* CreateGroup asks for no refresh, and needs none.
LEMMA CreateGroupFlows ==
    ASSUME Inv, Flow, NEW h \in Handlers, CreateGroup(h)
    PROVE  Flow'
<1>1. PICK g \in Groups \ used, own \in Overrides :
         groups' = With(groups, g, [own |-> own, paused |-> 0]) /\ used' = used \cup {g}
  BY DEF CreateGroup
<1>2. /\ UNCHANGED <<devices, default, excused, reload, refresher, effs, probing, appliedAt>>
      /\ handler' = [handler EXCEPT ![h] = Idle] /\ handler[h] = Idle
  BY DEF CreateGroup, Edit, engine
<1>3. DOMAIN groups' = DOMAIN groups \cup {g}
  BY <1>1 DEF With
<1>4. MembersOK'
  BY <1>1, <1>2, <1>3 DEF Flow, MembersOK, GroupExists
<1>5. EffectiveSet(devices', groups', default') = EffectiveSet(devices, groups, default)
  BY <1>1, <1>2, StrangerResolvesNothing DEF Flow
<1>6. UNCHANGED Pending
  <2>1. handler \in [Handlers -> Handler]
    BY DEF Inv, TypeOK
  <2>2. handler' = handler
    BY <1>2, <2>1
  <2>3. QED
    BY <1>2, <2>2 DEF Pending
<1>7. EffectiveSet(devices, refresher.groups, refresher.default)'
        = EffectiveSet(devices, refresher.groups, refresher.default)
  BY <1>2 DEF EffectiveSet
<1>8. Arriving'
  BY <1>2, <1>5, <1>6, <1>7 DEF Flow, Arriving
<1>9. Handed'
  BY <1>2 DEF Flow, Handed
<1>10. QED
  BY <1>4, <1>8, <1>9 DEF Flow

\* The other writes keep every member in a group that is there.
LEMMA WriteFlows ==
    ASSUME Inv, Flow, NEW h \in Handlers,
           \/ CreateDevice(h) \/ PatchDevice(h) \/ PatchGroup(h) \/ PauseDevices(h)
           \/ BulkMove(h) \/ DeleteDevices(h) \/ PauseGroup(h) \/ DeleteGroup(h)
           \/ PutSettings(h)
    PROVE  Flow'
<1>0. MembersOK /\ (WriteThenReload(h) \/ WriteThenReadBack(h))
  BY DEF Flow, CreateDevice, PatchDevice, PatchGroup, PauseDevices, BulkMove,
         DeleteDevices, PauseGroup, DeleteGroup, PutSettings
<1> SUFFICES MembersOK'
  BY <1>0, PendingKeeps
<1>1. CASE CreateDevice(h)
  <2>1. PICK d \in Devices \ used, row \in DeviceRow :
           /\ GroupExists(row.group)
           /\ devices' = With(devices, d, row) /\ used' = used \cup {d}
    BY <1>1 DEF CreateDevice
  <2>2. groups' = groups
    BY <1>1 DEF CreateDevice
  <2>3. QED
    BY <1>0, <2>1, <2>2 DEF MembersOK, GroupExists, With
<1>2. CASE PatchDevice(h)
  <2>1. PICK row \in PatchedDevice(handler[h].row) :
           devices' = [devices EXCEPT ![handler[h].id] = row]
    BY <1>2 DEF PatchDevice
  <2>2. /\ UNCHANGED <<groups, used>> /\ handler[h].row \in DeviceRow
        /\ GroupExists(handler[h].row.group)
    BY <1>2 DEF PatchDevice, Inv, TypeOK, Handler
  <2>3. GroupExists(row.group)
    BY <2>1, <2>2 DEF PatchedDevice, DeviceRow
  <2>4. DOMAIN devices' = DOMAIN devices
        /\ \A d \in DOMAIN devices : devices'[d] = devices[d] \/ devices'[d] = row
    BY <2>1, RowOfTable
  <2>5. QED
    BY <1>0, <2>2, <2>3, <2>4 DEF MembersOK, GroupExists
<1>3. CASE PatchGroup(h) \/ PauseGroup(h)
  <2>1. UNCHANGED <<devices, used>> /\ DOMAIN groups' = DOMAIN groups
    BY <1>3, RowOfTable DEF PatchGroup, PauseGroup
  <2>2. QED
    BY <1>0, <2>1 DEF MembersOK, GroupExists
<1>4. CASE PauseDevices(h)
  <2>1. UNCHANGED <<groups, used>>
    BY <1>4 DEF PauseDevices
  <2>2. PICK ids, until :
           devices' = [ d \in DOMAIN devices |->
                          IF d \in ids THEN [devices[d] EXCEPT !.paused = until] ELSE devices[d] ]
    BY <1>4 DEF PauseDevices
  <2>3. /\ DOMAIN devices' = DOMAIN devices
        /\ \A d \in DOMAIN devices : devices'[d].group = devices[d].group
    BY <2>2, RowOfTable DEF DeviceRow
  <2>4. QED
    BY <1>0, <2>1, <2>3 DEF MembersOK, GroupExists
<1>5. CASE BulkMove(h)
  <2>1. UNCHANGED <<groups, used>>
    BY <1>5 DEF BulkMove
  <2>2. PICK ids, g :
           /\ GroupExists(g)
           /\ devices' = [ d \in DOMAIN devices |->
                             IF d \in ids THEN [devices[d] EXCEPT !.group = g] ELSE devices[d] ]
    BY <1>5 DEF BulkMove
  <2>3. /\ DOMAIN devices' = DOMAIN devices
        /\ \A d \in DOMAIN devices : devices'[d].group \in {g, devices[d].group}
    BY <2>2, RowOfTable DEF DeviceRow
  <2>4. QED
    BY <1>0, <2>1, <2>2, <2>3 DEF MembersOK, GroupExists
<1>6. CASE DeleteDevices(h)
  <2>1. PICK ids : devices' = Without(devices, ids)
    BY <1>6 DEF DeleteDevices
  <2>2. UNCHANGED <<groups, used>>
    BY <1>6 DEF DeleteDevices
  <2>3. QED
    BY <1>0, <2>1, <2>2 DEF MembersOK, GroupExists, Without
<1>7. CASE DeleteGroup(h)
  <2>1. PICK g \in DOMAIN groups :
           /\ groups' = Without(groups, {g})
           /\ devices' = [ d \in DOMAIN devices |->
                             IF devices[d].group = g THEN [devices[d] EXCEPT !.group = NoGroup]
                             ELSE devices[d] ]
    BY <1>7 DEF DeleteGroup
  <2>2. used' = used
    BY <1>7 DEF DeleteGroup
  <2>3. DOMAIN groups' = DOMAIN groups \ {g}
    BY <2>1 DEF Without
  <2>4. /\ DOMAIN devices' = DOMAIN devices
        /\ \A d \in DOMAIN devices :
             devices'[d].group = IF devices[d].group = g THEN NoGroup ELSE devices[d].group
    BY <2>1, RowOfTable DEF DeviceRow
  <2>5. QED
    BY <1>0, <2>2, <2>3, <2>4 DEF MembersOK, GroupExists
<1>8. CASE PutSettings(h)
  BY <1>0, <1>8 DEF PutSettings, MembersOK, GroupExists
<1>9. QED
  BY <1>1, <1>2, <1>3, <1>4, <1>5, <1>6, <1>7, <1>8

\* A request that writes no table: Reload hands its duty to the token.
LEMMA HandlerFlows ==
    ASSUME Inv, Flow, NEW h \in Handlers, PatchRead(h) \/ PatchFails(h) \/ Reload(h)
    PROVE  Flow'
<1>0. handler \in [Handlers -> Handler]
  BY DEF Inv, TypeOK
<1>1. UNCHANGED <<devices, groups, default, used, refresher, effs, probing, appliedAt, excused>>
  BY DEF PatchRead, PatchFails, Reload, tables, engine
<1>2. Pending => Pending'
  <2>1. CASE Reload(h)
    BY <2>1 DEF Reload, Pending
  <2>2. CASE PatchRead(h) \/ PatchFails(h)
    <3>1. handler[h].pc # "reload" /\ UNCHANGED <<reload, excused>>
      BY <2>2 DEF PatchRead, PatchFails, Idle
    <3>2. \A k \in Handlers \ {h} : handler'[k] = handler[k]
      BY <1>0, <2>2 DEF PatchRead, PatchFails
    <3>3. QED
      BY <3>1, <3>2 DEF Pending
  <2>3. QED
    BY <2>1, <2>2
<1>3. MembersOK' /\ Handed'
  BY <1>1 DEF Flow, MembersOK, GroupExists, Handed
<1>4. Arriving'
  BY <1>1, <1>2 DEF Flow, Arriving, EffectiveSet, Resolve, ResolveTiming, GroupTier
<1>5. QED
  BY <1>3, <1>4 DEF Flow

\* A refresh reads what is in the tables, or what was there when an edit that
\* is still pending had not been made.
LEMMA RefreshFlows ==
    ASSUME Inv, Flow, Refresh \/ RefreshFails
    PROVE  Flow'
<1>0. UNCHANGED <<devices, groups, default, used, handler>>
  BY DEF Refresh, RefreshBegin, RefreshGroups, RefreshDevices, RefreshApply, RefreshFails, tables
<1>1. MembersOK'
  BY <1>0 DEF Flow, MembersOK, GroupExists
<1> DEFINE set == EffectiveSet(devices, groups, default)
<1>2. EffectiveSet(devices, groups, default)' = set
  BY <1>0
<1>3. ASSUME NEW ticked \in BOOLEAN, RefreshBegin(ticked)
      PROVE  Arriving' /\ Handed'
  <2>1. refresher = Idle /\ refresher' = [pc |-> "groups", default |-> default]
    BY <1>3 DEF RefreshBegin
  <2>2. UNCHANGED <<effs, probing, appliedAt>>
    BY <1>3 DEF RefreshBegin
  <2>3. QED
    BY <1>0, <2>1, <2>2 DEF Flow, Arriving, Handed, Idle
<1>4. ASSUME RefreshGroups
      PROVE  Arriving' /\ Handed'
  <2>1. /\ refresher.pc = "groups"
        /\ refresher' = [pc |-> "devices", default |-> refresher.default, groups |-> groups]
        /\ UNCHANGED <<effs, probing, appliedAt, reload, excused>>
    BY <1>4 DEF RefreshGroups
  <2>2. Pending' = Pending
    BY <1>0, <2>1 DEF Pending
  <2>3. EffectiveSet(devices, refresher.groups, refresher.default)'
          = EffectiveSet(devices, groups, refresher.default)
    BY <1>0, <2>1
  <2>4. Arriving'
    BY <1>2, <2>1, <2>2, <2>3 DEF Flow, Arriving
  <2>5. Handed'
    BY <2>1 DEF Flow, Handed
  <2>6. QED
    BY <2>4, <2>5
<1>5. ASSUME RefreshDevices
      PROVE  Arriving' /\ Handed'
  <2>1. /\ refresher.pc = "devices" /\ refresher' = [pc |-> "apply"]
        /\ effs' = EffectiveSet(devices, refresher.groups, refresher.default)
        /\ UNCHANGED <<reload, excused>>
    BY <1>5 DEF RefreshDevices
  <2>2. Pending' = Pending
    BY <1>0, <2>1 DEF Pending
  <2>3. QED
    BY <1>2, <2>1, <2>2 DEF Flow, Arriving, Handed
<1>6. ASSUME RefreshApply
      PROVE  Arriving' /\ Handed'
  <2>1. /\ refresher.pc = "apply" /\ refresher' = Idle /\ appliedAt' = now
        /\ UNCHANGED <<effs, reload, excused>>
        /\ probing' = [ d \in Unpaused |-> effs[d].timing ]
    BY <1>6 DEF RefreshApply, S!Apply
  <2>2. Pending' = Pending
    BY <1>0, <2>1 DEF Pending
  <2>3. Arriving'
    BY <1>2, <2>1, <2>2 DEF Flow, Arriving, Idle
  <2>4. \A d \in Unpaused : d \in DOMAIN effs /\ effs[d].paused <= now
    <3>1. effs \in [DOMAIN effs -> Eff] /\ now \in Nat
      BY TableElim, TimeIsTime DEF Inv, TypeOK
    <3>2. \A d \in DOMAIN effs : effs[d].paused \in Nat
      BY <3>1, TimeIsTime DEF Eff
    <3>3. QED
      BY <3>1, <3>2 DEF Unpaused, Paused
  <2>5. Handed'
    BY <2>1, <2>4 DEF Handed
  <2>6. QED
    BY <2>3, <2>5
<1>7. ASSUME RefreshFails
      PROVE  Arriving' /\ Handed'
  <2>1. /\ refresher.pc \in {"groups", "devices"} /\ excused'
        /\ UNCHANGED <<effs, probing, appliedAt>>
    BY <1>7 DEF RefreshFails
  <2>2. QED
    BY <2>1 DEF Flow, Arriving, Handed, Pending
<1>8. Arriving' /\ Handed'
  BY <1>3, <1>4, <1>5, <1>6, <1>7 DEF Refresh
<1>9. QED
  BY <1>1, <1>8 DEF Flow

\* Every step keeps what is known of the flow.
LEMMA StepFlow == Inv /\ Flow /\ [Next]_vars => Flow'
<1> SUFFICES ASSUME Inv, Flow, [Next]_vars
             PROVE  Flow'
  OBVIOUS
<1>1. ASSUME NEW h \in Handlers, Request(h) \/ Reload(h)
      PROVE  Flow'
  BY <1>1, CreateGroupFlows, WriteFlows, HandlerFlows DEF Request
<1>2. CASE Refresh \/ RefreshFails
  BY <1>2, RefreshFlows
<1>3. CASE (\E d \in Devices : Evaluate(d)) \/ Clock \/ UNCHANGED vars
  <2>1. UNCHANGED <<devices, groups, default, used, handler, reload, excused, refresher,
                    effs, probing, appliedAt>>
    BY <1>3 DEF Evaluate, Clock, vars, tables, engine
  <2>2. UNCHANGED <<MembersOK, Pending, Handed>>
    BY <2>1 DEF MembersOK, GroupExists, Pending, Handed
  <2>3. UNCHANGED Arriving
    BY <2>1, <2>2 DEF Arriving, EffectiveSet, Resolve, ResolveTiming, GroupTier
  <2>4. QED
    BY <2>2, <2>3 DEF Flow
<1>4. QED
  BY <1>1, <1>2, <1>3 DEF Next

\* The two invariants hold in every reachable state.
LEMMA FlowInvariance == Spec => [](Inv /\ Flow)
<1>1. Init => Inv /\ Flow
  BY InitInv, InitFlow
<1>2. (Inv /\ Flow) /\ [Next]_vars => (Inv /\ Flow)'
  BY StepInv, StepFlow
<1>3. QED
  BY <1>1, <1>2, PTL DEF Spec

\* With nothing on its way, the effective set is what the tables resolve to.
LEMMA FlowArrives == Flow => NoMissedEdit
BY DEF Flow, Arriving, Pending, Quiet, Idle, NoMissedEdit

\* No edit is missed, however the requests, the refreshes and the failed reads
\* interleave.
THEOREM EditsSeen == Spec => []NoMissedEdit
<1>1. Inv /\ Flow => NoMissedEdit
  BY FlowArrives
<1>2. QED
  BY <1>1, FlowInvariance, PTL

\* Once the edits have arrived, no probe runs whose device or group is paused:
\* the scheduler was handed an effective set that is still the tables', and the
\* later of the two pauses is in it.
THEOREM PausesHold == Spec => []MaintenanceHolds
<1>1. ASSUME Inv, Flow, Quiet, NEW d \in DOMAIN probing
      PROVE  /\ d \in DOMAIN devices /\ devices[d].enabled /\ devices[d].paused <= appliedAt
             /\ devices[d].group # NoGroup => groups[devices[d].group].paused <= appliedAt
  <2>1. effs = EffectiveSet(devices, groups, default)
    BY <1>1, FlowArrives DEF NoMissedEdit
  <2>2. d \in DOMAIN effs /\ effs[d].paused <= appliedAt
    BY <1>1 DEF Flow, Handed, Quiet, Idle
  <2>3. d \in DOMAIN devices /\ devices[d].enabled
    BY <2>1, <2>2 DEF EffectiveSet
  <2>4. effs[d] = Resolve(devices[d], groups, default)
    BY <2>1, <2>3 DEF EffectiveSet
  <2> DEFINE g == GroupTier(devices[d], groups)
  <2>5. effs[d].paused = IF g.paused > devices[d].paused THEN g.paused ELSE devices[d].paused
    BY <2>4 DEF Resolve
  <2>6. devices[d].paused \in Nat /\ appliedAt \in Nat
    BY <1>1, <2>3, RowOfTable, TimeIsTime DEF DeviceRow, Inv, TypeOK
  <2>7. g.paused \in Nat
    BY <1>1, <2>3, RowOfTable, TimeIsTime DEF GroupTier, GroupRow
  <2>8. devices[d].group # NoGroup => g = groups[devices[d].group]
    BY <1>1, <2>3 DEF Flow, MembersOK, GroupExists, GroupTier
  <2> HIDE DEF g
  <2>9. devices[d].paused <= appliedAt /\ g.paused <= appliedAt
    BY <2>2, <2>5, <2>6, <2>7
  <2>10. QED
    BY <2>3, <2>8, <2>9
<1>2. Inv /\ Flow => MaintenanceHolds
  BY <1>1 DEF MaintenanceHolds
<1>3. QED
  BY <1>2, FlowInvariance, PTL

-----------------------------------------------------------------------------
(* The other goroutine of core.go, runWriter: proofs about HeartbeatWriter,  *)
(* for any set of devices and any sizes of the channel and of the batches.   *)
(* It shares no variable with Monitor; the assumption on its constants is a   *)
(* hypothesis of each theorem.                                               *)

CONSTANTS ChannelSize, FlushSize, DrainSize, MaxSamples, MaxLost
VARIABLES samples, channel, batch, table, deleted, proc, alive, gone

W == INSTANCE HeartbeatWriter WITH MaxFaults <- MaxLost

SampleIds == 1 .. MaxSamples

\* The heartbeats in a sequence, and that none is in it twice.
In(s)   == {s[k] : k \in DOMAIN s}
Once(s) == \A j, k \in DOMAIN s : s[j] = s[k] => j = k

\* Exactly one of six things.
OneOf(a, b, c, d, e, f) ==
    \/ a /\ ~b /\ ~c /\ ~d /\ ~e /\ ~f
    \/ ~a /\ b /\ ~c /\ ~d /\ ~e /\ ~f
    \/ ~a /\ ~b /\ c /\ ~d /\ ~e /\ ~f
    \/ ~a /\ ~b /\ ~c /\ d /\ ~e /\ ~f
    \/ ~a /\ ~b /\ ~c /\ ~d /\ e /\ ~f
    \/ ~a /\ ~b /\ ~c /\ ~d /\ ~e /\ f

\* Where heartbeat i is: in one place once it is recorded, nowhere before.
InOne(i) == OneOf(i \in In(channel), i \in In(batch), table[i] = 1,
                  i \in gone.dropped, i \in gone.failed, i \in gone.cascaded)
Nowhere(i) == /\ i \notin In(channel) /\ i \notin In(batch) /\ table[i] = 0
              /\ i \notin gone.dropped /\ i \notin gone.failed /\ i \notin gone.cascaded

\* The inductive invariant behind OnePlace: no heartbeat is twice in the
\* channel, in the batch or in the table, and each is in one place.
PlacesInv ==
    /\ Once(channel) /\ Once(batch)
    /\ \A i \in SampleIds : table[i] \in {0, 1}
    /\ \A i \in SampleIds : IF i <= Len(samples) THEN InOne(i) ELSE Nowhere(i)

\* The cardinality of the module is the cardinality of here.
LEMMA SameCardinality == ASSUME NEW A PROVE W!Cardinality(A) = Cardinality(A)
BY DEF W!Cardinality, Cardinality

\* How often a heartbeat is in a sequence without repetition.
LEMMA OccurrencesOnce ==
    ASSUME NEW A, NEW s \in Seq(A), Once(s), NEW i
    PROVE  W!Occurrences(s, i) = IF i \in In(s) THEN 1 ELSE 0
<1> DEFINE K == {k \in DOMAIN s : s[k] = i}
<1>1. CASE i \in In(s)
  <2>1. PICK k \in DOMAIN s : s[k] = i
    BY <1>1 DEF In
  <2>2. K = {k}
    BY <2>1 DEF Once
  <2>3. Cardinality(K) = 1
    BY <2>2, FS_Singleton
  <2>4. QED
    BY <1>1, <2>3, SameCardinality DEF W!Occurrences
<1>2. CASE i \notin In(s)
  <2>1. K = {}
    BY <1>2 DEF In
  <2>2. Cardinality(K) = 0
    BY <2>1, FS_EmptySet
  <2>3. QED
    BY <1>2, <2>2, SameCardinality DEF W!Occurrences
<1>3. QED
  BY <1>1, <1>2

\* The heartbeats of a longer sequence, and of a sequence cut in two.
LEMMA AppendOnce ==
    ASSUME NEW A, NEW s \in Seq(A), NEW x, Once(s), x \notin In(s)
    PROVE  Once(Append(s, x)) /\ In(Append(s, x)) = In(s) \cup {x}
<1>1. Len(s) \in Nat /\ DOMAIN s = 1..Len(s) /\ DOMAIN Append(s, x) = 1..Len(s)+1
  OBVIOUS
<1>2. /\ \A k \in 1..Len(s) : Append(s, x)[k] = s[k]
      /\ Append(s, x)[Len(s)+1] = x
  OBVIOUS
<1>3. Once(Append(s, x))
  <2> SUFFICES ASSUME NEW j \in 1..Len(s)+1, NEW k \in 1..Len(s)+1,
                      Append(s, x)[j] = Append(s, x)[k]
               PROVE  j = k
    BY <1>1 DEF Once
  <2> QED
    BY <1>1, <1>2 DEF Once, In
<1>4. In(Append(s, x)) = In(s) \cup {x}
  <2>1. \A y \in In(s) \cup {x} : y \in In(Append(s, x))
    BY <1>1, <1>2 DEF In
  <2>2. \A y \in In(Append(s, x)) : y \in In(s) \cup {x}
    BY <1>1, <1>2 DEF In
  <2>3. QED
    BY <2>1, <2>2
<1>5. QED
  BY <1>3, <1>4

LEMMA CutOnce ==
    ASSUME NEW A, NEW s \in Seq(A), Once(s), NEW n \in 0..Len(s)
    PROVE  LET front == SubSeq(s, 1, n)
               back  == SubSeq(s, n + 1, Len(s))
           IN  /\ front \in Seq(A) /\ back \in Seq(A) /\ Len(back) = Len(s) - n
               /\ Once(front) /\ Once(back)
               /\ In(s) = In(front) \cup In(back) /\ In(front) \cap In(back) = {}
<1> DEFINE front == SubSeq(s, 1, n)
           back  == SubSeq(s, n + 1, Len(s))
           L     == Len(s)
<1>1. L \in Nat /\ n \in Nat /\ n <= L /\ DOMAIN s = 1..L
  OBVIOUS
<1>2. /\ front \in Seq(A) /\ DOMAIN front = 1..n
      /\ \A k \in 1..n : front[k] = s[k]
  BY <1>1
<1>3. /\ back \in Seq(A) /\ Len(back) = L - n /\ DOMAIN back = 1..(L - n)
      /\ \A k \in 1..(L - n) : back[k] = s[n + k]
  <2>1. \A k \in (n + 1)..L : s[k] \in A
    BY <1>1
  <2>2. /\ back \in Seq(A) /\ Len(back) = IF n + 1 <= L THEN L - (n + 1) + 1 ELSE 0
        /\ \A k \in 1..(L - (n + 1) + 1) : back[k] = s[n + 1 + k - 1]
    BY <1>1, <2>1, SubSeqProperties
  <2> HIDE DEF back, L
  <2>3. Len(back) = L - n /\ DOMAIN back = 1..(L - n)
    BY <1>1, <2>2
  <2>4. ASSUME NEW k \in 1..(L - n) PROVE back[k] = s[n + k]
    <3>1. k \in 1..(L - (n + 1) + 1) /\ n + 1 + k - 1 = n + k
      BY <1>1
    <3>2. QED
      BY <2>2, <3>1
  <2>5. QED
    BY <2>2, <2>3, <2>4
<1> HIDE DEF front, back, L
<1>4. Once(front)
  BY <1>1, <1>2 DEF Once
<1>5. Once(back)
  <2> SUFFICES ASSUME NEW j \in 1..(L - n), NEW k \in 1..(L - n), back[j] = back[k]
               PROVE  j = k
    BY <1>3 DEF Once
  <2>1. n + j \in 1..L /\ n + k \in 1..L /\ s[n + j] = s[n + k]
    BY <1>1, <1>3
  <2>2. n + j = n + k
    BY <1>1, <2>1 DEF Once
  <2>3. QED
    BY <1>1, <2>2
<1>6. ASSUME NEW y \in In(s) PROVE y \in In(front) \cup In(back)
  <2>1. PICK k \in 1..L : s[k] = y
    BY <1>1, <1>6 DEF In
  <2>2. CASE k <= n
    BY <1>1, <1>2, <2>1, <2>2 DEF In
  <2>3. CASE k > n
    <3>1. k - n \in 1..(L - n) /\ n + (k - n) = k
      BY <1>1, <2>1, <2>3
    <3>2. QED
      BY <1>3, <2>1, <3>1 DEF In
  <2>4. QED
    BY <1>1, <2>1, <2>2, <2>3
<1>7. In(front) \subseteq In(s)
  BY <1>1, <1>2 DEF In
<1>8. In(back) \subseteq In(s)
  <2> SUFFICES ASSUME NEW k \in 1..(L - n) PROVE back[k] \in In(s)
    BY <1>3 DEF In
  <2>1. n + k \in 1..L
    BY <1>1
  <2>2. QED
    BY <1>1, <1>3, <2>1 DEF In
<1>9. ASSUME NEW y \in In(front), y \in In(back) PROVE FALSE
  <2>1. PICK j \in 1..n : s[j] = y
    BY <1>2, <1>9 DEF In
  <2>2. PICK k \in 1..(L - n) : s[n + k] = y
    BY <1>3, <1>9 DEF In
  <2>3. j \in 1..L /\ n + k \in 1..L /\ j # n + k
    BY <1>1, <2>1, <2>2
  <2>4. QED
    BY <1>1, <2>1, <2>2, <2>3 DEF Once
<1>10. QED
  BY <1>2, <1>3, <1>4, <1>5, <1>6, <1>7, <1>8, <1>9 DEF front, back, L

\* What the invariants say of the sequences.
LEMMA PlaceFacts ==
    ASSUME W!SizesAssumption, W!TypeOK
    PROVE  /\ Len(samples) \in Nat /\ W!Samples = 1..Len(samples)
           /\ Len(samples) <= MaxSamples /\ 1..Len(samples) \subseteq SampleIds
           /\ channel \in Seq(W!Samples) /\ batch \in Seq(W!Samples)
           /\ In(channel) \subseteq W!Samples /\ In(batch) \subseteq W!Samples
           /\ table \in [SampleIds -> Nat] /\ gone \in W!Gone
           /\ gone.dropped \subseteq Nat /\ gone.failed \subseteq Nat
           /\ gone.cascaded \subseteq Nat /\ gone.faults \in Nat
<1> USE DEF W!TypeOK
<1>1. samples \in Seq(Devices) /\ W!Samples = 1..Len(samples) /\ Len(samples) \in Nat
  BY DEF W!Samples
<1>2. Len(samples) <= MaxSamples /\ channel \in Seq(W!Samples) /\ batch \in Seq(W!Samples)
  OBVIOUS
<1>3. 1..Len(samples) \subseteq SampleIds
  <2>1. MaxSamples \in Nat
    BY DEF W!SizesAssumption
  <2>2. QED
    BY <1>1, <1>2, <2>1 DEF SampleIds
<1>4. In(channel) \subseteq W!Samples /\ In(batch) \subseteq W!Samples
  BY <1>2 DEF In
<1>5. table \in [SampleIds -> Nat] /\ gone \in W!Gone
  BY DEF SampleIds
<1>6. /\ gone.dropped \subseteq Nat /\ gone.failed \subseteq Nat
      /\ gone.cascaded \subseteq Nat /\ gone.faults \in Nat
  BY <1>5 DEF W!Gone
<1>7. QED
  BY <1>1, <1>2, <1>3, <1>4, <1>5, <1>6

\* A transaction writes each heartbeat of its batch once, or the whole batch is
\* lost.
Written(b, g) ==
    /\ gone'.failed = g.failed
    /\ \A i \in SampleIds : table'[i] = IF i \in In(b) THEN 1 ELSE table[i]
Lost(b, g) == gone'.failed = g.failed \cup In(b) /\ table' = table

LEMMA InsertEffect ==
    ASSUME W!SizesAssumption, W!TypeOK, NEW b \in Seq(W!Samples), Once(b),
           \A i \in In(b) : table[i] = 0,
           NEW open, NEW g \in W!Gone, W!Insert(b, open, g)
    PROVE  /\ table' \in [SampleIds -> Nat] /\ gone' \in W!Gone
           /\ gone'.dropped = g.dropped /\ gone'.cascaded = g.cascaded
           /\ Written(b, g) \/ Lost(b, g)
<1> DEFINE failed == [g EXCEPT !.failed = @ \cup In(b)]
           failedFault == [failed EXCEPT !.faults = @ + 1]
<1>1. /\ table \in [SampleIds -> Nat] /\ DOMAIN table = SampleIds /\ In(b) \subseteq Nat
  BY PlaceFacts DEF In
<1>2. W!ToSet(b) = In(b)
  BY DEF W!ToSet, In
<1>3. /\ failed \in W!Gone /\ failed.dropped = g.dropped /\ failed.cascaded = g.cascaded
      /\ failed.failed = g.failed \cup In(b)
  BY <1>1 DEF W!Gone
<1>4. /\ failedFault \in W!Gone /\ failedFault.dropped = g.dropped
      /\ failedFault.cascaded = g.cascaded /\ failedFault.failed = g.failed \cup In(b)
  <2> HIDE DEF failed
  <2>1. failed.faults + 1 \in Nat
    BY <1>3 DEF W!Gone
  <2>2. failedFault = [failed EXCEPT !.faults = failed.faults + 1]
    BY <1>3 DEF W!Gone
  <2> HIDE DEF failedFault
  <2>3. failedFault \in W!Gone
    BY <1>3, <2>1, <2>2 DEF W!Gone
  <2>4. QED
    BY <1>3, <2>2, <2>3 DEF W!Gone
<1>5. \/ /\ gone' = g
         /\ table' = [i \in SampleIds |-> table[i] + W!Occurrences(b, i)]
      \/ gone' \in {failed, failedFault} /\ table' = table
  BY <1>1, <1>2 DEF W!Insert
<1> HIDE DEF failed, failedFault
<1>6. CASE /\ gone' = g
           /\ table' = [i \in SampleIds |-> table[i] + W!Occurrences(b, i)]
  <2>1. ASSUME NEW i \in SampleIds
        PROVE  table[i] + W!Occurrences(b, i) = IF i \in In(b) THEN 1 ELSE table[i]
    <3>1. W!Occurrences(b, i) = IF i \in In(b) THEN 1 ELSE 0
      BY OccurrencesOnce
    <3>2. table[i] \in Nat
      BY <1>1
    <3>3. QED
      BY <3>1, <3>2
  <2>2. ASSUME NEW i \in SampleIds PROVE table[i] + W!Occurrences(b, i) \in Nat
    BY <1>1, <2>1
  <2>3. table' \in [SampleIds -> Nat]
    BY <1>6, <2>2
  <2>4. QED
    BY <1>6, <2>1, <2>3 DEF Written
<1>7. CASE gone' \in {failed, failedFault} /\ table' = table
  BY <1>1, <1>3, <1>4, <1>7 DEF Lost
<1>8. QED
  BY <1>5, <1>6, <1>7

\* Heartbeats taken from the channel or the batch into a transaction stay in
\* one place; so do those moved from the one to the other.
LEMMA Moved ==
    ASSUME W!TypeOK, PlacesInv, samples' = samples, NEW M,
           Once(channel'), Once(batch'),
           In(channel') \cap In(batch') = {},
           In(channel') \cup In(batch') = (In(channel) \cup In(batch)) \ M,
           M \subseteq In(channel) \cup In(batch),
           gone'.dropped = gone.dropped, gone'.cascaded = gone.cascaded,
           \/ /\ gone'.failed = gone.failed
              /\ \A i \in SampleIds : table'[i] = IF i \in M THEN 1 ELSE table[i]
           \/ gone'.failed = gone.failed \cup M /\ table' = table
    PROVE  PlacesInv'
<1> SUFFICES ASSUME NEW i \in SampleIds
             PROVE  /\ table'[i] \in {0, 1}
                    /\ IF i <= Len(samples) THEN InOne(i)' ELSE Nowhere(i)'
  BY DEF PlacesInv
<1>1. /\ table[i] \in {0, 1}
      /\ IF i <= Len(samples) THEN InOne(i) ELSE Nowhere(i)
  BY DEF PlacesInv
<1>2. CASE i \in M
  <2>1. InOne(i) /\ i <= Len(samples)
    BY <1>1, <1>2 DEF Nowhere
  <2>2. /\ table[i] = 0 /\ i \notin gone.dropped /\ i \notin gone.failed
        /\ i \notin gone.cascaded
    BY <1>1, <1>2, <2>1 DEF InOne, OneOf
  <2>3. i \notin In(channel') /\ i \notin In(batch')
    BY <1>2
  <2>4. \/ table'[i] = 1 /\ i \notin gone'.failed
        \/ table'[i] = 0 /\ i \in gone'.failed
    BY <1>2, <2>2
  <2>5. InOne(i)'
    BY <2>2, <2>3, <2>4 DEF InOne, OneOf, In
  <2>6. QED
    BY <2>1, <2>4, <2>5
<1>3. CASE i \notin M
  <2>1. /\ table'[i] = table[i] /\ i \in gone'.failed <=> i \in gone.failed
        /\ i \in gone'.dropped <=> i \in gone.dropped
        /\ i \in gone'.cascaded <=> i \in gone.cascaded
    BY <1>3
  <2>2. /\ (i \in In(channel') \/ i \in In(batch')) <=> (i \in In(channel) \/ i \in In(batch))
        /\ ~(i \in In(channel') /\ i \in In(batch'))
    BY <1>3
  <2>3. CASE i <= Len(samples)
    <3>1. InOne(i)'
      BY <1>1, <2>1, <2>2, <2>3 DEF InOne, OneOf, In
    <3>2. QED
      BY <1>1, <2>1, <2>3, <3>1
  <2>4. CASE ~(i <= Len(samples))
    <3>1. Nowhere(i)'
      BY <1>1, <2>1, <2>2, <2>4 DEF Nowhere, In
    <3>2. QED
      BY <1>1, <2>1, <2>4, <3>1
  <2>5. QED
    BY <2>3, <2>4
<1>4. QED
  BY <1>2, <1>3

\* What is in the channel or in the batch is nowhere else.
LEMMA InMemory ==
    ASSUME W!SizesAssumption, W!TypeOK, PlacesInv
    PROVE  /\ In(channel) \cap In(batch) = {}
           /\ \A i \in In(channel) \cup In(batch) : table[i] = 0
<1>1. In(channel) \cup In(batch) \subseteq SampleIds
  BY PlaceFacts
<1>2. ASSUME NEW i \in In(channel) \cup In(batch)
      PROVE  ~(i \in In(channel) /\ i \in In(batch)) /\ table[i] = 0
  <2>1. InOne(i) /\ table[i] \in {0, 1}
    BY <1>1, <1>2 DEF PlacesInv, Nowhere
  <2>2. QED
    BY <1>2, <2>1 DEF InOne, OneOf
<1>3. QED
  BY <1>2

LEMMA RecordPlaces ==
    ASSUME W!SizesAssumption, W!TypeOK, PlacesInv, NEW d \in Devices, W!Record(d)
    PROVE  W!TypeOK' /\ PlacesInv'
<1> DEFINE n == Len(samples) + 1
<1>1. /\ Len(samples) < MaxSamples /\ samples' = Append(samples, d)
      /\ samples \in Seq(Devices)
      /\ UNCHANGED <<batch, table, deleted, proc, alive>>
  BY DEF W!Record, W!TypeOK
<1>2. /\ samples' \in Seq(Devices) /\ Len(samples') = n /\ n <= MaxSamples
      /\ n \in SampleIds /\ W!Samples' = 1..n /\ n \in Nat /\ W!Samples = 1..Len(samples)
  BY <1>1, PlaceFacts DEF W!Samples, SampleIds, W!SizesAssumption
<1>3. W!Samples \subseteq 1..n /\ n \notin W!Samples
  BY <1>2, PlaceFacts
<1>4. channel \in Seq(1..n) /\ batch \in Seq(1..n)
  BY <1>3, PlaceFacts
<1>5. n \notin In(channel) /\ Nowhere(n)
  BY <1>2, PlaceFacts DEF PlacesInv, Nowhere
<1>6. Len(channel) <= ChannelSize /\ ChannelSize \in Nat
  BY DEF W!TypeOK, W!SizesAssumption
<1>7. \/ /\ Len(channel) < ChannelSize /\ channel' = Append(channel, n) /\ gone' = gone
      \/ channel' = channel /\ gone' = [gone EXCEPT !.dropped = @ \cup {n}]
  BY DEF W!Record
<1>8. /\ gone' \in W!Gone /\ gone'.failed = gone.failed /\ gone'.cascaded = gone.cascaded
      /\ gone'.dropped = IF channel' = channel THEN gone.dropped \cup {n} ELSE gone.dropped
      /\ channel' # channel => gone' = gone
  <2>1. channel \in Seq(1..n) /\ gone \in W!Gone
    BY <1>4, PlaceFacts
  <2>2. Append(channel, n) # channel
    BY <2>1
  <2> DEFINE more == [gone EXCEPT !.dropped = @ \cup {n}]
  <2>3. /\ more \in W!Gone /\ more.dropped = gone.dropped \cup {n}
        /\ more.failed = gone.failed /\ more.cascaded = gone.cascaded
    <3> HIDE DEF n
    <3>1. QED
      BY <1>2, <2>1 DEF W!Gone
  <2> HIDE DEF more
  <2>4. QED
    BY <1>7, <2>1, <2>2, <2>3 DEF more
<1>9. /\ channel' \in Seq(1..n) /\ Len(channel') <= ChannelSize
      /\ Once(channel') /\ In(channel') = IF channel' = channel THEN In(channel) ELSE In(channel) \cup {n}
  <2>1. Once(channel)
    BY DEF PlacesInv
  <2>2. CASE channel' = channel
    BY <1>4, <1>6, <2>1, <2>2
  <2>3. CASE channel' # channel
    <3>1. channel' = Append(channel, n) /\ Len(channel) < ChannelSize
      BY <1>7, <2>3
    <3>2. Once(channel') /\ In(channel') = In(channel) \cup {n}
      BY <1>4, <1>5, <2>1, <3>1, AppendOnce
    <3>3. channel' \in Seq(1..n) /\ Len(channel') <= ChannelSize
      BY <1>2, <1>4, <1>6, <3>1
    <3>4. QED
      BY <2>3, <3>2, <3>3
  <2>4. QED
    BY <2>2, <2>3
<1> HIDE DEF n
<1>10. W!TypeOK'
  BY <1>1, <1>2, <1>4, <1>8, <1>9 DEF W!TypeOK
<1>11. PlacesInv'
  <2> SUFFICES ASSUME NEW i \in SampleIds
               PROVE  IF i <= n THEN InOne(i)' ELSE Nowhere(i)'
    BY <1>1, <1>2, <1>9 DEF PlacesInv
  <2>1. IF i <= Len(samples) THEN InOne(i) ELSE Nowhere(i)
    BY DEF PlacesInv
  <2>2. CASE i = n
    <3>1. /\ i \notin In(batch') /\ table'[i] = 0 /\ i \notin gone'.failed
          /\ i \notin gone'.cascaded
      BY <1>1, <1>5, <1>8, <2>2 DEF Nowhere
    <3>2. IF channel' = channel THEN i \notin In(channel') /\ i \in gone'.dropped
                                ELSE i \in In(channel') /\ i \notin gone'.dropped
      BY <1>5, <1>8, <1>9, <2>2 DEF Nowhere
    <3>3. InOne(i)'
      BY <3>1, <3>2 DEF InOne, OneOf, In
    <3>4. QED
      BY <1>2, <2>2, <3>3
  <2>3. CASE i # n
    <3>1. /\ i \in In(channel') <=> i \in In(channel)
          /\ i \in In(batch') <=> i \in In(batch)
          /\ i \in gone'.dropped <=> i \in gone.dropped
          /\ gone'.failed = gone.failed /\ gone'.cascaded = gone.cascaded /\ table' = table
      BY <1>1, <1>8, <1>9, <2>3
    <3>2. InOne(i) <=> InOne(i)'
      BY <3>1 DEF InOne, OneOf, In
    <3>3. Nowhere(i) <=> Nowhere(i)'
      BY <3>1 DEF Nowhere, In
    <3>4. i <= n <=> i <= Len(samples)
      BY <1>2, <2>3, PlaceFacts DEF n, SampleIds
    <3>5. QED
      BY <2>1, <3>2, <3>3, <3>4
  <2>4. QED
    BY <2>2, <2>3
<1>12. QED
  BY <1>10, <1>11

\* A flush empties the batch it is given into the table or loses it.
LEMMA FlushPlaces ==
    ASSUME W!SizesAssumption, W!TypeOK, PlacesInv,
           NEW b \in Seq(W!Samples), Once(b),
           In(b) \subseteq In(channel) \cup In(batch), W!Flush(b),
           channel' \in Seq(W!Samples), Once(channel'), Len(channel') <= ChannelSize,
           In(channel') = (In(channel) \cup In(batch)) \ In(b),
           UNCHANGED <<samples, deleted, proc>>, alive' \subseteq {"evaluator", "writer"}
    PROVE  W!TypeOK' /\ PlacesInv'
<1>1. \A i \in In(b) : table[i] = 0
  BY InMemory
<1>2. W!Insert(b, proc = "up", gone) /\ batch' = <<>> /\ gone \in W!Gone
  BY PlaceFacts DEF W!Flush
<1>3. /\ table' \in [SampleIds -> Nat] /\ gone' \in W!Gone
      /\ gone'.dropped = gone.dropped /\ gone'.cascaded = gone.cascaded
      /\ Written(b, gone) \/ Lost(b, gone)
  BY <1>1, <1>2, InsertEffect
<1>4. Once(batch') /\ In(batch') = {} /\ Len(batch') = 0
  BY <1>2 DEF Once, In
<1>5. PlacesInv'
  <2> DEFINE M == In(b)
  <2>1. \/ /\ gone'.failed = gone.failed
           /\ \A i \in SampleIds : table'[i] = IF i \in M THEN 1 ELSE table[i]
        \/ gone'.failed = gone.failed \cup M /\ table' = table
    BY <1>3 DEF Written, Lost
  <2>2. /\ M \subseteq In(channel) \cup In(batch) /\ In(channel') \cap In(batch') = {}
        /\ In(channel') \cup In(batch') = (In(channel) \cup In(batch)) \ M
    BY <1>4
  <2> HIDE DEF M
  <2>3. QED
    BY <1>3, <1>4, <2>1, <2>2, Moved
<1>6. W!TypeOK'
  <2>1. W!Samples' = W!Samples
    BY DEF W!Samples
  <2>2. batch' \in Seq(W!Samples) /\ Len(batch') < FlushSize
    BY <1>2, <1>4 DEF W!SizesAssumption
  <2>3. QED
    BY <1>3, <2>1, <2>2 DEF W!TypeOK, SampleIds
<1>7. QED
  BY <1>5, <1>6

LEMMA TakePlaces ==
    ASSUME W!SizesAssumption, W!TypeOK, PlacesInv, W!Take
    PROVE  W!TypeOK' /\ PlacesInv'
<1> DEFINE h == Head(channel)
           b == Append(batch, h)
<1>1. /\ channel \in Seq(W!Samples) /\ batch \in Seq(W!Samples) /\ channel # <<>>
      /\ Once(channel) /\ Once(batch) /\ Len(channel) \in Nat /\ 1 \in 0..Len(channel)
  <2>1. /\ channel \in Seq(W!Samples) /\ batch \in Seq(W!Samples) /\ channel # <<>>
        /\ Once(channel) /\ Once(batch)
    BY PlaceFacts DEF PlacesInv, W!Take
  <2>2. QED
    BY <2>1
<1>2. /\ channel' = Tail(channel)
      /\ IF W!Full(b) THEN W!Flush(b) ELSE batch' = b /\ UNCHANGED <<table, gone>>
      /\ UNCHANGED <<samples, deleted, proc, alive>>
  BY DEF W!Take
<1>3. /\ channel' \in Seq(W!Samples) /\ Once(channel') /\ Len(channel') = Len(channel) - 1
      /\ In(channel) = {h} \cup In(channel') /\ h \notin In(channel')
  <2> DEFINE front == SubSeq(channel, 1, 1)
             back  == SubSeq(channel, 1 + 1, Len(channel))
  <2>1. channel' = back
    BY <1>1, <1>2, TailIsSubSeq
  <2>2. /\ back \in Seq(W!Samples) /\ Len(back) = Len(channel) - 1 /\ Once(back)
        /\ In(channel) = In(front) \cup In(back) /\ In(front) \cap In(back) = {}
    <3> DEFINE n == 1
    <3>1. n \in 0..Len(channel)
      BY <1>1
    <3> HIDE DEF n
    <3>2. LET f == SubSeq(channel, 1, n)
              k == SubSeq(channel, n + 1, Len(channel))
          IN  /\ k \in Seq(W!Samples) /\ Len(k) = Len(channel) - n /\ Once(k)
              /\ In(channel) = In(f) \cup In(k) /\ In(f) \cap In(k) = {}
      BY <1>1, <3>1, CutOnce
    <3>3. QED
      BY <3>2 DEF n
  <2>3. front \in Seq(W!Samples) /\ Len(front) = 1 /\ front[1] = h
    <3>1. \A k \in 1..1 : channel[k] \in W!Samples
      BY <1>1
    <3>2. /\ front \in Seq(W!Samples) /\ Len(front) = 1 - 1 + 1 /\ front[1] = channel[1 + 1 - 1]
      BY <3>1, SubSeqProperties
    <3>3. h = channel[1]
      BY <1>1
    <3>4. QED
      BY <3>2, <3>3
  <2>4. In(front) = {h}
    <3> HIDE DEF front
    <3>1. DOMAIN front = {1}
      BY <2>3
    <3>2. QED
      BY <2>3, <3>1 DEF In
  <2>5. QED
    BY <2>1, <2>2, <2>4
<1>4. h \in W!Samples /\ h \in In(channel) /\ h \notin In(batch)
  BY <1>3, InMemory, PlaceFacts
<1>5. b \in Seq(W!Samples) /\ Once(b) /\ In(b) = In(batch) \cup {h} /\ Len(b) = Len(batch) + 1
  BY <1>1, <1>4, AppendOnce
<1>6. Len(channel) <= ChannelSize /\ ChannelSize \in Nat /\ FlushSize \in Nat
  BY DEF W!TypeOK, W!SizesAssumption
<1>7. Len(channel') <= ChannelSize
  BY <1>1, <1>3, <1>6
<1>8. In(channel') \cup In(b) = In(channel) \cup In(batch) /\ In(channel') \cap In(b) = {}
  BY <1>3, <1>5, InMemory
<1> HIDE DEF b, h
<1>9. CASE W!Full(b)
  <2>1. W!Flush(b) /\ In(b) \subseteq In(channel) \cup In(batch)
    BY <1>2, <1>8, <1>9
  <2>2. In(channel') = (In(channel) \cup In(batch)) \ In(b)
    BY <1>8
  <2>3. alive' \subseteq {"evaluator", "writer"}
    BY <1>2 DEF W!TypeOK
  <2>4. QED
    BY <1>2, <1>3, <1>5, <1>7, <2>1, <2>2, <2>3, FlushPlaces
<1>10. CASE ~W!Full(b)
  <2>1. batch' = b /\ UNCHANGED <<table, gone>> /\ Len(b) < FlushSize
    BY <1>1, <1>2, <1>5, <1>6, <1>10 DEF W!Full
  <2>2. W!Samples' = W!Samples
    BY <1>2 DEF W!Samples
  <2>3. W!TypeOK'
    BY <1>2, <1>3, <1>5, <1>7, <2>1, <2>2 DEF W!TypeOK
  <2>4. PlacesInv'
    <3> DEFINE M == {}
    <3>1. gone'.failed = gone.failed \cup M /\ table' = table
      BY <2>1
    <3>2. /\ M \subseteq In(channel) \cup In(batch) /\ In(channel') \cap In(batch') = {}
          /\ In(channel') \cup In(batch') = (In(channel) \cup In(batch)) \ M
          /\ Once(channel') /\ Once(batch')
      BY <1>3, <1>5, <1>8, <2>1
    <3>3. samples' = samples /\ gone'.dropped = gone.dropped /\ gone'.cascaded = gone.cascaded
      BY <1>2, <2>1
    <3> HIDE DEF M
    <3>4. QED
      BY <3>1, <3>2, <3>3, Moved
  <2>5. QED
    BY <2>3, <2>4
<1>11. QED
  BY <1>9, <1>10

\* The batch is flushed by the ticker, or for good when the writer stops.
LEMMA FlushBatchPlaces ==
    ASSUME W!SizesAssumption, W!TypeOK, PlacesInv, W!Flush(batch),
           UNCHANGED <<samples, channel, deleted, proc>>,
           alive' \subseteq {"evaluator", "writer"}
    PROVE  W!TypeOK' /\ PlacesInv'
<1>1. /\ batch \in Seq(W!Samples) /\ Once(batch) /\ channel' \in Seq(W!Samples)
      /\ Once(channel') /\ Len(channel') <= ChannelSize
  BY PlaceFacts DEF PlacesInv, W!TypeOK
<1>2. /\ In(batch) \subseteq In(channel) \cup In(batch)
      /\ In(channel') = (In(channel) \cup In(batch)) \ In(batch)
  BY InMemory
<1>3. QED
  BY <1>1, <1>2, FlushPlaces

\* Nothing moves.
LEMMA StillPlaces ==
    ASSUME W!TypeOK, PlacesInv, UNCHANGED <<samples, channel, batch, table, deleted, gone>>,
           proc' \in {"up", "stopping", "closed"}, alive' \subseteq {"evaluator", "writer"}
    PROVE  W!TypeOK' /\ PlacesInv'
<1>1. W!Samples' = W!Samples
  BY DEF W!Samples
<1>2. W!TypeOK'
  BY <1>1 DEF W!TypeOK
<1>3. PlacesInv'
  BY DEF PlacesInv, InOne, Nowhere, Once, In
<1>4. QED
  BY <1>2, <1>3

LEMMA DeletePlaces ==
    ASSUME W!SizesAssumption, W!TypeOK, PlacesInv, NEW d \in Devices, W!DeleteDevice(d)
    PROVE  W!TypeOK' /\ PlacesInv'
<1> DEFINE rows == {i \in W!Samples : table[i] > 0 /\ samples[i] = d}
           more == [gone EXCEPT !.cascaded = @ \cup rows]
<1>1. /\ table' = [i \in SampleIds |-> IF i \in rows THEN 0 ELSE table[i]]
      /\ gone' = more /\ deleted' = deleted \cup {d}
      /\ UNCHANGED <<samples, channel, batch, proc, alive>>
  BY PlaceFacts DEF W!DeleteDevice
<1>2. rows \subseteq 1..Len(samples) /\ rows \subseteq Nat /\ \A i \in rows : table[i] > 0
  BY PlaceFacts
<1> HIDE DEF rows
<1>3. /\ more \in W!Gone /\ more.cascaded = gone.cascaded \cup rows
      /\ more.dropped = gone.dropped /\ more.failed = gone.failed
  BY <1>2, PlaceFacts DEF W!Gone
<1>4. table' \in [SampleIds -> Nat]
  <2>1. ASSUME NEW i \in SampleIds PROVE (IF i \in rows THEN 0 ELSE table[i]) \in Nat
    BY PlaceFacts
  <2>2. QED
    BY <1>1, <2>1
<1> HIDE DEF more
<1>5. W!TypeOK'
  <2>1. W!Samples' = W!Samples
    BY <1>1 DEF W!Samples
  <2>2. QED
    BY <1>1, <1>3, <1>4, <2>1 DEF W!TypeOK, SampleIds
<1>6. PlacesInv'
  <2> SUFFICES ASSUME NEW i \in SampleIds
               PROVE  /\ table'[i] \in {0, 1}
                      /\ IF i <= Len(samples) THEN InOne(i)' ELSE Nowhere(i)'
    BY <1>1 DEF PlacesInv, Once
  <2>1. /\ table[i] \in {0, 1}
        /\ IF i <= Len(samples) THEN InOne(i) ELSE Nowhere(i)
    BY DEF PlacesInv
  <2>2. /\ i \in In(channel)' <=> i \in In(channel)
        /\ i \in In(batch)' <=> i \in In(batch)
        /\ gone'.dropped = gone.dropped /\ gone'.failed = gone.failed
    BY <1>1, <1>3 DEF In
  <2>3. CASE i \in rows
    <3>1. i <= Len(samples) /\ table[i] = 1 /\ InOne(i)
    <4>1. i \in 1..Len(samples) /\ table[i] > 0 /\ table[i] \in {0, 1}
        BY <1>2, <2>1, <2>3
      <4>2. i <= Len(samples) /\ table[i] = 1
        BY <4>1, PlaceFacts
      <4>3. QED
        BY <2>1, <4>2
    <3>2. table'[i] = 0 /\ i \in gone'.cascaded
      BY <1>1, <1>3, <2>3
    <3>3. InOne(i)'
      BY <2>2, <3>1, <3>2 DEF InOne, OneOf
    <3>4. QED
      BY <3>1, <3>2, <3>3
  <2>4. CASE i \notin rows
    <3>1. table'[i] = table[i] /\ (i \in gone'.cascaded <=> i \in gone.cascaded)
      BY <1>1, <1>3, <2>4
    <3>2. InOne(i) <=> InOne(i)'
      BY <2>2, <3>1 DEF InOne, OneOf
    <3>3. Nowhere(i) <=> Nowhere(i)'
      BY <2>2, <3>1 DEF Nowhere
    <3>4. QED
      BY <2>1, <3>1, <3>2, <3>3
  <2>5. QED
    BY <2>3, <2>4
<1>7. QED
  BY <1>5, <1>6

LEMMA FinishPlaces ==
    ASSUME W!SizesAssumption, W!TypeOK, PlacesInv, W!Finish
    PROVE  W!TypeOK' /\ PlacesInv'
<1> DEFINE n     == IF Len(channel) < DrainSize THEN Len(channel) ELSE DrainSize
           g     == IF alive = {} THEN gone ELSE [gone EXCEPT !.faults = @ + 1]
           front == SubSeq(channel, 1, n)
           back  == SubSeq(channel, n + 1, Len(channel))
<1>1. /\ channel' = back /\ W!Insert(front, TRUE, g) /\ proc' = "closed"
      /\ UNCHANGED <<samples, batch, deleted, alive>>
  BY DEF W!Finish
<1>2. /\ channel \in Seq(W!Samples) /\ Len(channel) \in Nat /\ n \in 0..Len(channel)
      /\ Len(channel) <= ChannelSize /\ ChannelSize \in Nat /\ Once(channel) /\ Once(batch)
      /\ gone \in W!Gone
  <2>1. /\ channel \in Seq(W!Samples) /\ DrainSize \in Nat /\ ChannelSize \in Nat
        /\ Len(channel) <= ChannelSize /\ Once(channel) /\ Once(batch) /\ gone \in W!Gone
    BY PlaceFacts DEF W!SizesAssumption, PlacesInv, W!TypeOK
  <2>2. QED
    BY <2>1
<1> HIDE DEF n
<1>3. /\ front \in Seq(W!Samples) /\ back \in Seq(W!Samples)
      /\ Len(back) = Len(channel) - n /\ Once(front) /\ Once(back)
      /\ In(channel) = In(front) \cup In(back) /\ In(front) \cap In(back) = {}
  BY <1>2, CutOnce
<1>4. /\ g \in W!Gone /\ g.dropped = gone.dropped /\ g.failed = gone.failed
      /\ g.cascaded = gone.cascaded
  <2> DEFINE late == [gone EXCEPT !.faults = @ + 1]
  <2>1. gone.faults + 1 \in Nat
    BY PlaceFacts
  <2>2. /\ late \in W!Gone /\ late.dropped = gone.dropped /\ late.failed = gone.failed
        /\ late.cascaded = gone.cascaded
    BY <1>2, <2>1 DEF W!Gone
  <2> HIDE DEF late
  <2>3. g = gone \/ g = late
    BY DEF late
  <2>4. QED
    BY <1>2, <2>2, <2>3
<1> HIDE DEF front, back, g
<1>5. \A i \in In(front) : table[i] = 0
  BY <1>3, InMemory
<1>6. /\ table' \in [SampleIds -> Nat] /\ gone' \in W!Gone
      /\ gone'.dropped = g.dropped /\ gone'.cascaded = g.cascaded
      /\ Written(front, g) \/ Lost(front, g)
  BY <1>1, <1>3, <1>4, <1>5, InsertEffect
<1>7. Len(channel') <= ChannelSize
  BY <1>1, <1>2, <1>3
<1>8. W!TypeOK'
  <2>1. W!Samples' = W!Samples
    BY <1>1 DEF W!Samples
  <2>2. QED
    BY <1>1, <1>3, <1>6, <1>7, <2>1 DEF W!TypeOK, SampleIds
<1>9. PlacesInv'
  <2> DEFINE M == In(front)
  <2>1. \/ /\ gone'.failed = gone.failed
           /\ \A i \in SampleIds : table'[i] = IF i \in M THEN 1 ELSE table[i]
        \/ gone'.failed = gone.failed \cup M /\ table' = table
    BY <1>4, <1>6 DEF Written, Lost
  <2>2. /\ M \subseteq In(channel) \cup In(batch) /\ In(channel') \cap In(batch') = {}
        /\ In(channel') \cup In(batch') = (In(channel) \cup In(batch)) \ M
    BY <1>1, <1>3, InMemory
  <2>3. Once(channel') /\ Once(batch') /\ samples' = samples
    BY <1>1, <1>2, <1>3
  <2>4. gone'.dropped = gone.dropped /\ gone'.cascaded = gone.cascaded
    BY <1>4, <1>6
  <2> HIDE DEF M
  <2>5. QED
    BY <2>1, <2>2, <2>3, <2>4, Moved
<1>10. QED
  BY <1>8, <1>9

LEMMA PlacesInit ==
    ASSUME W!SizesAssumption, W!Init
    PROVE  W!TypeOK /\ PlacesInv
<1>1. /\ samples = <<>> /\ channel = <<>> /\ batch = <<>>
      /\ table = [i \in SampleIds |-> 0] /\ MaxSamples \in Nat
      /\ {ChannelSize, FlushSize} \subseteq Nat \ {0}
      /\ gone = [dropped |-> {}, failed |-> {}, cascaded |-> {}, faults |-> 0]
      /\ deleted = {} /\ proc = "up" /\ alive = {"evaluator", "writer"}
  BY DEF W!Init, SampleIds, W!SizesAssumption
<1>2. W!TypeOK
  BY <1>1 DEF W!TypeOK, W!Gone, SampleIds
<1>3. Once(channel) /\ Once(batch) /\ In(channel) = {} /\ In(batch) = {} /\ Len(samples) = 0
  BY <1>1 DEF Once, In
<1>4. \A i \in SampleIds : table[i] = 0 /\ ~(i <= 0) /\ Nowhere(i)
  BY <1>1, <1>3 DEF Nowhere, SampleIds
<1>5. QED
  BY <1>2, <1>3, <1>4 DEF PlacesInv

LEMMA PlacesStep ==
    ASSUME W!SizesAssumption, W!TypeOK, PlacesInv, [W!Next]_(W!vars)
    PROVE  W!TypeOK' /\ PlacesInv'
<1> USE DEF W!Next
<1>0. proc \in {"up", "stopping", "closed"} /\ alive \subseteq {"evaluator", "writer"}
  BY DEF W!TypeOK
<1>1. CASE \E d \in Devices : W!Record(d)
  BY <1>1, RecordPlaces
<1>2. CASE \E d \in Devices : W!DeleteDevice(d)
  BY <1>2, DeletePlaces
<1>3. CASE W!Take
  BY <1>3, TakePlaces
<1>4. CASE W!FlushTick
  BY <1>0, <1>4, FlushBatchPlaces DEF W!FlushTick
<1>5. CASE W!WriterStops
  <2>1. alive' \subseteq {"evaluator", "writer"} /\ UNCHANGED <<samples, channel, deleted, proc>>
    BY <1>0, <1>5 DEF W!WriterStops
  <2>2. W!Flush(batch) \/ UNCHANGED <<batch, table, gone>>
    BY <1>5 DEF W!WriterStops
  <2>3. QED
    BY <1>0, <2>1, <2>2, FlushBatchPlaces, StillPlaces
<1>6. CASE W!EvaluatorStops
  BY <1>0, <1>6, StillPlaces DEF W!EvaluatorStops
<1>7. CASE W!Cancel
  BY <1>0, <1>7, StillPlaces DEF W!Cancel
<1>8. CASE W!Finish
  BY <1>8, FinishPlaces
<1>9. CASE UNCHANGED W!vars
  BY <1>0, <1>9, StillPlaces DEF W!vars
<1>10. QED
  BY <1>1, <1>2, <1>3, <1>4, <1>5, <1>6, <1>7, <1>8, <1>9

\* A heartbeat that is in one place is counted once.
LEMMA CountedOnce ==
    ASSUME W!SizesAssumption, W!TypeOK, PlacesInv
    PROVE  W!OnePlace
<1> SUFFICES ASSUME NEW i \in W!Samples
             PROVE  W!Occurrences(channel, i) + W!Occurrences(batch, i) + table[i]
                    + Cardinality({r \in {"dropped", "failed", "cascaded"} : i \in gone[r]}) = 1
  BY SameCardinality DEF W!OnePlace
<1> DEFINE R == {r \in {"dropped", "failed", "cascaded"} : i \in gone[r]}
<1>1. i \in SampleIds /\ i <= Len(samples)
  BY PlaceFacts
<1>2. InOne(i)
  BY <1>1 DEF PlacesInv
<1>3. /\ W!Occurrences(channel, i) = IF i \in In(channel) THEN 1 ELSE 0
      /\ W!Occurrences(batch, i) = IF i \in In(batch) THEN 1 ELSE 0
  BY PlaceFacts, OccurrencesOnce DEF PlacesInv
<1>4. table[i] \in {0, 1}
  BY <1>1 DEF PlacesInv
<1>5. /\ "dropped" \in R <=> i \in gone.dropped
      /\ "failed" \in R <=> i \in gone.failed
      /\ "cascaded" \in R <=> i \in gone.cascaded
      /\ R \subseteq {"dropped", "failed", "cascaded"}
  OBVIOUS
<1> HIDE DEF R
<1>6. \/ R = {} /\ OneOf(i \in In(channel), i \in In(batch), table[i] = 1, FALSE, FALSE, FALSE)
      \/ /\ i \notin In(channel) /\ i \notin In(batch) /\ table[i] # 1
         /\ \E r : R = {r}
  BY <1>2, <1>5 DEF InOne, OneOf
<1>7. Cardinality(R) = IF R = {} THEN 0 ELSE 1
  BY <1>6, FS_EmptySet, FS_Singleton
<1>8. \A r : {r} # {}
  OBVIOUS
<1>9. QED
  BY <1>3, <1>4, <1>6, <1>7, <1>8 DEF OneOf, R

\* The channel and the batch never exceed their sizes (core.go: record drops a
\* heartbeat rather than wait, runWriter flushes a batch that is full).
THEOREM WriterTypes == ASSUME W!SizesAssumption PROVE W!Spec => []W!TypeOK
<1>1. W!Init => W!TypeOK /\ PlacesInv
  BY PlacesInit
<1>2. W!TypeOK /\ PlacesInv /\ [W!Next]_(W!vars) => (W!TypeOK /\ PlacesInv)'
  BY PlacesStep
<1>3. QED
  BY <1>1, <1>2, PTL DEF W!Spec

\* Every heartbeat recorded is in one place, and none is written twice, by the
\* writer and the shutdown together (core.go: runWriter, flushRemaining).
THEOREM HeartbeatsPlaced == ASSUME W!SizesAssumption PROVE W!Spec => []W!OnePlace
<1>1. W!Init => W!TypeOK /\ PlacesInv
  BY PlacesInit
<1>2. W!TypeOK /\ PlacesInv /\ [W!Next]_(W!vars) => (W!TypeOK /\ PlacesInv)'
  BY PlacesStep
<1>3. W!TypeOK /\ PlacesInv => W!OnePlace
  BY CountedOnce
<1>4. QED
  BY <1>1, <1>2, <1>3, PTL DEF W!Spec

=============================================================================
