----------------------------- MODULE SenPiProofs -----------------------------
(***************************************************************************)
(* Proofs about SenPi for every value of the constants: any set of hosts,  *)
(* any datagrams, any number of polls and rows.  First the table of boards *)
(* and the polls' copies of it, then what the polls store and log, for any *)
(* resources and records.                                                  *)
(***************************************************************************)
EXTENDS SenPi, TLAPS

USE TableAssumption, ListenerAssumption, PollerAssumption

-----------------------------------------------------------------------------
(* What the helpers of the actions do to the parts of the type invariant.  *)

(* INSERT adds a row behind the existing ones and keeps those. *)
LEMMA InsertRowType ==
    ASSUME TableTypeOK, NEW a \in Addresses, InsertRow(a)
    PROVE  /\ TableTypeOK'
           /\ lastId' = lastId + 1
           /\ devices'[lastId'] = [Address |-> a, FailedAttempts |-> 0]
           /\ \A i \in 1..lastId : devices'[i] = devices[i]
<1>1. lastId \in Nat /\ lastId + 1 \in 0..MaxRows
  BY DEF TableTypeOK, InsertRow
<1>2. \A i \in 1..(lastId + 1) : i \in 1..lastId \/ i = lastId + 1
  BY <1>1
<1>3. DOMAIN devices = 1..lastId /\ \A i \in 1..lastId : devices[i] \in Row
  BY DEF TableTypeOK
<1>4. [Address |-> a, FailedAttempts |-> 0] \in Row
  BY DEF Row
<1>5. devices' \in [1..(lastId + 1) -> Row]
  BY <1>3, <1>4 DEF InsertRow
<1>6. lastId + 1 \notin 1..lastId /\ lastId + 1 \in 1..(lastId + 1)
  BY <1>1
<1>7. \A i \in 1..lastId : i \in 1..(lastId + 1)
  BY <1>1
<1>. QED
  BY <1>1, <1>3, <1>5, <1>6, <1>7 DEF InsertRow, TableTypeOK

(* Device.Update keeps the set of rows and writes one of them. *)
LEMMA UpdateRowType ==
    ASSUME TableTypeOK, NEW d \in Device, UpdateRow(d)
    PROVE  /\ TableTypeOK'
           /\ lastId' = lastId
           /\ \A i \in 1..lastId :
                devices'[i] = IF i = d.Id
                              THEN [Address |-> d.Address,
                                    FailedAttempts |-> d.FailedAttempts]
                              ELSE devices[i]
  BY DEF TableTypeOK, UpdateRow, Device, Row

(* The rows of a SELECT are well-typed Devices. *)
LEMMA RowsType ==
    ASSUME TableTypeOK
    PROVE  Rows \in SUBSET Device
<1>. SUFFICES ASSUME NEW i \in DOMAIN devices
     PROVE [Id |-> i, Address |-> devices[i].Address,
            FailedAttempts |-> devices[i].FailedAttempts] \in Device
  BY DEF Rows
<1>1. i \in Ids /\ devices[i] \in Row
  BY DEF TableTypeOK, Ids
<1>. QED
  BY <1>1 DEF Row, Device

(* The part of the type invariant that NextDevice writes. *)
LEMMA NextDeviceType ==
    ASSUME PollerTypeOK, NEW p \in Polls, NEW rest \in SUBSET Device,
           NextDevice(p, rest)
    PROVE  /\ pc' \in [Polls -> PollState]
           /\ todo' \in [Polls -> SUBSET Device]
           /\ device' \in [Polls -> Device \cup {NoDevice}]
           /\ left' \in [Polls -> SUBSET Resources]
           /\ messages' \in [Polls -> SUBSET RecordNames]
           /\ \A q \in Polls : pc'[q] \in {"discover", "update", "fetch", "save"}
                                 => device'[q] \in Device
<1>1. CASE rest = {}
  BY <1>1 DEF PollerTypeOK, NextDevice, PollState, Running
<1>2. CASE rest # {}
  <2>1. PICK d \in rest : /\ pc' = [pc EXCEPT ![p] = "discover"]
                          /\ device' = [device EXCEPT ![p] = d]
                          /\ todo' = [todo EXCEPT ![p] = rest \ {d}]
    BY <1>2 DEF NextDevice
  <2>. QED
    BY <2>1 DEF PollerTypeOK, NextDevice, PollState, Running
<1>. QED
  BY <1>1, <1>2

(* device.FailedAttempts++ leaves id and address of the copy alone. *)
LEMMA CountedType ==
    ASSUME NEW d \in Device
    PROVE  LET e == [d EXCEPT !.FailedAttempts = @ + 1]
           IN  /\ e \in Device
               /\ e.Id = d.Id
               /\ e.Address = d.Address
               /\ e.FailedAttempts = d.FailedAttempts + 1
  BY DEF Device

(* Init has the right types. *)
LEMMA InitType == Init => TypeOK
<1>. SUFFICES ASSUME Init PROVE TypeOK
  OBVIOUS
<1>1. TableTypeOK
  BY DEF Init, TableInit, TableTypeOK
<1>2. ListenerTypeOK
  BY DEF Init, ListenerInit, ListenerTypeOK, Idle, Positions
<1>3. PollerTypeOK
  BY DEF Init, PollerInit, PollerTypeOK, PollState, Running
<1>. QED
  BY <1>1, <1>2, <1>3 DEF TypeOK

(* Every action of the listener keeps the types. *)
LEMMA ListenerStepType == TypeOK /\ ListenerNext /\ UNCHANGED pollVars => TypeOK'
<1>. SUFFICES ASSUME TypeOK, ListenerNext, UNCHANGED pollVars PROVE TypeOK'
  OBVIOUS
<1>. USE DEF TypeOK
<1>1. PollerTypeOK'
  BY DEF pollVars, PollerTypeOK
<1>2. TableTypeOK' /\ ListenerTypeOK'
  <2>1. ASSUME NEW a \in Addresses, NEW m \in Payloads, Receive(a, m)
        PROVE  TableTypeOK' /\ ListenerTypeOK'
    <3>1. Overwritten(m) \in [Positions -> BOOLEAN]
      BY DEF Overwritten, Positions, ListenerTypeOK
    <3>. QED
      BY <2>1, <3>1 DEF Receive, ListenerTypeOK, Idle, TableTypeOK, tableVars
  <2>2. CASE RegisterFails \/ SelectFinds
    BY <2>2 DEF RegisterFails, SelectFinds, ListenerTypeOK, Idle, TableTypeOK, tableVars
  <2>3. CASE SelectFindsNothing
    BY <2>3 DEF SelectFindsNothing, ListenerTypeOK, TableTypeOK, tableVars
  <2>4. CASE Insert
    <3>1. listener.address \in Addresses
      BY <2>4 DEF Insert, ListenerTypeOK
    <3>. QED
      BY <2>4, <3>1, InsertRowType DEF Insert, ListenerTypeOK, Idle
  <2>. QED
    BY <2>1, <2>2, <2>3, <2>4 DEF ListenerNext, Register
<1>. QED
  BY <1>1, <1>2

(* Every action of a poll keeps the types. *)
LEMMA PollerStepType == TypeOK /\ PollerNext /\ UNCHANGED listenVars => TypeOK'
<1>. SUFFICES ASSUME TypeOK, UNCHANGED listenVars,
                     NEW p \in Polls, Tick(p) \/ PollStep(p)
     PROVE TypeOK'
  BY DEF PollerNext
<1>. USE DEF TypeOK
<1>1. ListenerTypeOK'
  BY DEF listenVars, ListenerTypeOK
<1>a. ASSUME UNCHANGED tableVars PROVE TableTypeOK'
  BY <1>a DEF tableVars, TableTypeOK
<1>b. ASSUME NEW s \in Resources \cup RecordNames \cup {"request"}, device[p] \in Device
      PROVE LogOf(p, s) \subseteq LogEntry
  BY <1>b DEF LogOf, LogEntry, PollerTypeOK, Device
<1>2. TableTypeOK' /\ PollerTypeOK'
  <2>1. CASE Tick(p)
    BY <2>1, <1>a DEF Tick, PollerTypeOK, PollState, Running
  <2>2. CASE List(p)
    <3>1. PICK rows \in SUBSET Rows : /\ devicesOf' = [devicesOf EXCEPT ![p] = rows]
                                      /\ NextDevice(p, rows)
      BY <2>2 DEF List
    <3>2. rows \in SUBSET Device
      BY RowsType
    <3>. QED
      BY <2>2, <3>1, <3>2, <1>a, NextDeviceType DEF List, PollerTypeOK
  <2>3. CASE ListFails(p)
    BY <2>3, <1>a DEF ListFails, PollerTypeOK, PollState, Running
  <2>4. CASE Discover(p)
    <3>1. Offers[device[p].Address] \in SUBSET Resources
      BY <2>4 DEF Discover, PollerTypeOK, Device
    <3>. QED
      BY <2>4, <3>1, <1>a DEF Discover, PollerTypeOK, PollState, Running
  <2>5. CASE DiscoverFails(p)
    <3>0. device[p] \in Device
      BY <2>5 DEF DiscoverFails, PollerTypeOK
    <3>1. [device[p] EXCEPT !.FailedAttempts = @ + 1] \in Device
      BY <3>0, CountedType
    <3>2. device' = [device EXCEPT ![p] = [device[p] EXCEPT !.FailedAttempts = @ + 1]]
      BY <2>5 DEF DiscoverFails
    <3>. QED
      BY <2>5, <3>0, <3>1, <3>2, <1>a DEF DiscoverFails, PollerTypeOK, PollState, Running
  <2>6. CASE Update(p)
    <3>1. device[p] \in Device /\ device[p].Id \in Ids /\ todo[p] \in SUBSET Device
      BY <2>6 DEF Update, PollerTypeOK, Device
    <3>2. TableTypeOK'
      BY <2>6, <3>1, UpdateRowType DEF Update
    <3>3. updates' \in [Ids -> Nat]
      BY <2>6, <3>1 DEF Update, PollerTypeOK
    <3>4. log' \subseteq LogEntry
      BY <2>6, <3>1, <1>b DEF Update
    <3>. QED
      BY <2>6, <3>1, <3>2, <3>3, <3>4, NextDeviceType DEF Update, PollerTypeOK
  <2>7. CASE UpdateFails(p) \/ FetchFails(p)
    <3>1. device[p] \in Device /\ todo[p] \in SUBSET Device
      BY <2>7 DEF UpdateFails, FetchFails, PollerTypeOK
    <3>2. log' \subseteq LogEntry
      BY <2>7, <3>1, <1>b DEF UpdateFails, FetchFails
    <3>. QED
      BY <2>7, <3>1, <3>2, <1>a, NextDeviceType DEF UpdateFails, FetchFails, PollerTypeOK
  <2>8. CASE Fetch(p)
    <3>1. PICK path \in Resources :
            /\ left' = [left EXCEPT ![p] = @ \ {path}]
            /\ pc' = [pc EXCEPT ![p] = IF left[p] = {path} THEN "save" ELSE "fetch"]
            /\ messages' = [messages EXCEPT ![p] = @ \cup Records[path]]
      BY <2>8 DEF Fetch, Requested
    <3>2. Records[path] \in SUBSET RecordNames
      OBVIOUS
    <3>3. device[p] \in Device
      BY <2>8 DEF Fetch, PollerTypeOK
    <3>. QED
      BY <2>8, <3>1, <3>2, <3>3, <1>a DEF Fetch, PollerTypeOK, PollState, Running
  <2>9. CASE FetchSkips(p)
    <3>1. PICK path \in Resources :
            /\ left' = [left EXCEPT ![p] = @ \ {path}]
            /\ pc' = [pc EXCEPT ![p] = IF left[p] = {path} THEN "save" ELSE "fetch"]
            /\ log' = LogOf(p, path)
      BY <2>9 DEF FetchSkips, Requested
    <3>2. device[p] \in Device
      BY <2>9 DEF FetchSkips, PollerTypeOK
    <3>3. log' \subseteq LogEntry
      BY <3>1, <3>2, <1>b
    <3>. QED
      BY <2>9, <3>1, <3>2, <3>3, <1>a DEF FetchSkips, PollerTypeOK, PollState, Running
  <2>10. CASE Save(p)
    <3>1. PICK record \in messages[p] :
            /\ messages' = [messages EXCEPT ![p] = @ \ {record}]
            /\ \/ /\ data' = [data EXCEPT ![Point(p, record)] = @ + 1]
                  /\ UNCHANGED log
               \/ /\ log' = LogOf(p, record)
                  /\ UNCHANGED data
      BY <2>10 DEF Save
    <3>2. device[p] \in Device /\ record \in RecordNames
      BY <2>10, <3>1 DEF Save, PollerTypeOK
    <3>3. Point(p, record) \in DataPoint
      BY <3>2 DEF Point, DataPoint, Device
    <3>4. data' \in [DataPoint -> Nat] /\ log' \subseteq LogEntry
      BY <3>1, <3>2, <3>3, <1>b DEF PollerTypeOK
    <3>. QED
      BY <2>10, <3>1, <3>2, <3>4, <1>a DEF Save, PollerTypeOK
  <2>11. CASE SaveEnds(p)
    <3>1. todo[p] \in SUBSET Device
      BY DEF PollerTypeOK
    <3>. QED
      BY <2>11, <3>1, <1>a, NextDeviceType DEF SaveEnds, PollerTypeOK
  <2>. QED
    BY <2>1, <2>2, <2>3, <2>4, <2>5, <2>6, <2>7, <2>8, <2>9, <2>10, <2>11 DEF PollStep
<1>. QED
  BY <1>1, <1>2

(* A restart keeps the types. *)
LEMMA RestartType == TypeOK /\ Restart => TypeOK'
<1>. SUFFICES ASSUME TypeOK, Restart PROVE TypeOK'
  OBVIOUS
<1>. USE DEF TypeOK, Restart
<1>1. TableTypeOK'
  BY DEF tableVars, TableTypeOK
<1>2. ListenerTypeOK'
  BY DEF ListenerTypeOK, Idle
<1>3. PollerTypeOK'
  BY DEF PollerTypeOK, PollState, Running, IsRunning
<1>. QED
  BY <1>1, <1>2, <1>3

(* A step that changes nothing keeps the types. *)
LEMMA StutterType == TypeOK /\ UNCHANGED vars => TypeOK'
  BY DEF TypeOK, TableTypeOK, ListenerTypeOK, PollerTypeOK,
         vars, tableVars, listenVars, pollVars

(* Every reachable state is well typed, whatever the schedule of listener,  *)
(* polls and restarts: all processes keep to their own kinds of data.      *)
THEOREM TypeCorrect == Spec => []TypeOK
<1>1. TypeOK /\ [Next]_vars => TypeOK'
  BY ListenerStepType, PollerStepType, RestartType, StutterType DEF Next
<1>. QED
  BY InitType, <1>1, PTL DEF Spec

-----------------------------------------------------------------------------
(* What one step does to the parts of the state that SnapshotInv relates.  *)

(* Rows stay under their address and ids, failure counts only grow. *)
Grows ==
    /\ DOMAIN devices \subseteq DOMAIN devices'
    /\ \A i \in DOMAIN devices : devices'[i].Address = devices[i].Address
    /\ \A i \in Ids : updates[i] <= updates'[i]

(* What NextDevice leaves in the hands of a poll. *)
LEMMA NextDeviceEffect ==
    ASSUME PollerTypeOK, NEW p \in Polls, NEW rest \in SUBSET Device,
           NextDevice(p, rest)
    PROVE  /\ \A q \in Polls \ {p} : /\ todo'[q] = todo[q]
                                     /\ device'[q] = device[q]
                                     /\ pc'[q] = pc[q]
           /\ \/ pc'[p] = "done" /\ todo'[p] = {} /\ device'[p] = NoDevice
              \/ /\ pc'[p] = "discover"
                 /\ device'[p] \in rest
                 /\ todo'[p] = rest \ {device'[p]}
<1>1. CASE rest = {} /\ pc' = [pc EXCEPT ![p] = "done"]
           /\ device' = [device EXCEPT ![p] = NoDevice]
           /\ todo' = [todo EXCEPT ![p] = {}]
  BY <1>1 DEF PollerTypeOK
<1>2. ASSUME NEW d \in rest, pc' = [pc EXCEPT ![p] = "discover"],
             device' = [device EXCEPT ![p] = d],
             todo' = [todo EXCEPT ![p] = rest \ {d}]
      PROVE  /\ \A q \in Polls \ {p} : todo'[q] = todo[q] /\ device'[q] = device[q]
                                         /\ pc'[q] = pc[q]
             /\ pc'[p] = "discover" /\ device'[p] \in rest
             /\ todo'[p] = rest \ {device'[p]}
  BY <1>2 DEF PollerTypeOK
<1>. QED
  BY <1>1, <1>2 DEF NextDevice

(* A listener step only adds rows; a poll step only writes counters. *)
LEMMA ListenerGrows ==
    ASSUME TypeOK, ListenerNext, UNCHANGED pollVars
    PROVE  /\ Grows
           /\ \A i \in DOMAIN devices : devices'[i] = devices[i]
           /\ \A i \in DOMAIN devices' \ DOMAIN devices :
                devices'[i].FailedAttempts = 0
<1>0. updates' = updates /\ \A i \in Ids : updates[i] \in Nat
  BY DEF pollVars, TypeOK, PollerTypeOK
<1>1. CASE Insert
  <2>1. listener.address \in Addresses /\ InsertRow(listener.address)
    BY <1>1 DEF Insert, TypeOK, ListenerTypeOK
  <2>a. TableTypeOK
    BY DEF TypeOK
  <2>b. /\ TableTypeOK' /\ lastId' = lastId + 1
        /\ devices'[lastId'] = [Address |-> listener.address, FailedAttempts |-> 0]
        /\ \A i \in 1..lastId : devices'[i] = devices[i]
    BY <2>a, <2>1, InsertRowType
  <2>2. /\ TableTypeOK /\ TableTypeOK' /\ lastId' = lastId + 1
        /\ devices'[lastId'].FailedAttempts = 0
        /\ \A i \in 1..lastId : devices'[i] = devices[i]
    BY <2>a, <2>b
  <2>3. DOMAIN devices = 1..lastId /\ DOMAIN devices' = 1..(lastId + 1) /\ lastId \in Nat
    BY <2>2 DEF TableTypeOK
  <2>4. DOMAIN devices \subseteq DOMAIN devices'
    BY <2>3
  <2>5. \A i \in DOMAIN devices' \ DOMAIN devices : i = lastId'
    BY <2>2, <2>3
  <2>6. \A i \in DOMAIN devices : devices'[i] = devices[i]
    BY <2>2, <2>3
  <2>7. Grows
    BY <2>4, <2>6, <1>0 DEF Grows
  <2>. QED
    BY <2>2, <2>5, <2>6, <2>7
<1>2. CASE UNCHANGED tableVars
  BY <1>0, <1>2 DEF tableVars, Grows
<1>3. UNCHANGED tableVars \/ Insert
  BY DEF ListenerNext, Receive, Register, RegisterFails, SelectFinds, SelectFindsNothing
<1>. QED
  BY <1>1, <1>2, <1>3

(* A poll's step removes no row, changes no address and takes back no failure. *)
LEMMA PollerGrows ==
    ASSUME TypeOK, SnapshotInv, NEW p \in Polls, PollStep(p)
    PROVE  Grows /\ lastId' = lastId
<1>0. \A i \in Ids : updates[i] \in Nat
  BY DEF TypeOK, PollerTypeOK
<1>1. CASE Update(p)
  <2>1. device[p] \in Device /\ device[p].Id \in Ids /\ UpdateRow(device[p])
    BY <1>1 DEF Update, TypeOK, PollerTypeOK, Device
  <2>2. device[p].Address = devices[device[p].Id].Address
    BY <1>1 DEF Update, SnapshotInv, SnapshotOf, Handling
  <2>3. /\ TableTypeOK /\ TableTypeOK' /\ lastId' = lastId
        /\ \A i \in 1..lastId :
             devices'[i] = IF i = device[p].Id
                           THEN [Address |-> device[p].Address,
                                 FailedAttempts |-> device[p].FailedAttempts]
                           ELSE devices[i]
    BY <2>1, UpdateRowType DEF TypeOK
  <2>4. \A i \in Ids : updates[i] <= updates'[i]
    BY <1>1, <2>1, <1>0 DEF Update, TypeOK, PollerTypeOK
  <2>. QED
    BY <2>2, <2>3, <2>4 DEF Grows, TableTypeOK
<1>2. CASE UNCHANGED <<updates, tableVars>>
  BY <1>2, <1>0 DEF tableVars, Grows
<1>3. Update(p) \/ UNCHANGED <<updates, tableVars>>
  BY DEF PollStep, List, ListFails, Discover, DiscoverFails, UpdateFails, Fetch,
         FetchSkips, FetchFails, Save, SaveEnds
<1>. QED
  BY <1>1, <1>2, <1>3

(* A copy that is in some hands keeps describing its row. *)
LEMMA SnapshotStays ==
    ASSUME TypeOK, TypeOK', Grows, NEW d \in Device, NEW n \in Nat, SnapshotOf(d, n)
    PROVE  /\ d.Id \in DOMAIN devices'
           /\ d.Address = devices'[d.Id].Address
           /\ d.FailedAttempts <= updates'[d.Id] + n
<1>1. /\ updates[d.Id] \in Nat /\ updates'[d.Id] \in Nat
      /\ d.Id \in Ids /\ d.FailedAttempts \in Nat
  BY DEF TypeOK, PollerTypeOK, Device
<1>2. updates[d.Id] <= updates'[d.Id]
  BY <1>1 DEF Grows
<1>. QED
  BY <1>1, <1>2 DEF Grows, SnapshotOf

(* What SnapshotInv says of one poll. *)
HandsOK(p) ==
    /\ \A d \in todo[p] : SnapshotOf(d, 0)
    /\ Handling(p) => SnapshotOf(device[p], Ahead(p))

(* What a poll holds stays current when table and history only grow. *)
LEMMA HandsStay ==
    ASSUME TypeOK, TypeOK', Grows, NEW q \in Polls, HandsOK(q),
           todo'[q] = todo[q], device'[q] = device[q], pc'[q] = pc[q]
    PROVE  HandsOK(q)'
<1>1. \A d \in todo[q] : d \in Device /\ SnapshotOf(d, 0)'
  BY SnapshotStays DEF TypeOK, PollerTypeOK, HandsOK, SnapshotOf
<1>2. ASSUME Handling(q) PROVE SnapshotOf(device[q], Ahead(q))'
  <2>1. device[q] \in Device /\ Ahead(q) \in Nat /\ Ahead(q)' = Ahead(q)
    BY <1>2 DEF TypeOK, PollerTypeOK, Handling, Ahead
  <2>2. SnapshotOf(device[q], Ahead(q))
    BY <1>2 DEF HandsOK
  <2>. QED
    BY <2>1, <2>2, SnapshotStays DEF SnapshotOf
<1>. QED
  BY <1>1, <1>2 DEF HandsOK, Handling

(* What a poll holds after NextDevice is current if the rest of its list was. *)
LEMMA HandsAfterNext ==
    ASSUME TypeOK, TypeOK', Grows, NEW p \in Polls, NEW rest \in SUBSET Device,
           \A q \in Polls : HandsOK(q), NextDevice(p, rest),
           \A d \in rest : SnapshotOf(d, 0)
    PROVE  \A q \in Polls : HandsOK(q)'
<1>1. ASSUME NEW q \in Polls \ {p} PROVE HandsOK(q)'
  <2>1. todo'[q] = todo[q] /\ device'[q] = device[q] /\ pc'[q] = pc[q]
    BY <1>1, NextDeviceEffect DEF TypeOK
  <2>. QED
    BY <1>1, <2>1, HandsStay
<1>2. \A d \in rest : SnapshotOf(d, 0)'
  BY SnapshotStays DEF SnapshotOf
<1>3. \/ pc'[p] = "done" /\ todo'[p] = {} /\ device'[p] = NoDevice
      \/ pc'[p] = "discover" /\ device'[p] \in rest /\ todo'[p] = rest \ {device'[p]}
  BY NextDeviceEffect DEF TypeOK
<1>4. HandsOK(p)'
  <2>1. CASE pc'[p] = "done" /\ todo'[p] = {}
    BY <2>1 DEF HandsOK, Handling
  <2>2. CASE pc'[p] = "discover" /\ device'[p] \in rest /\ todo'[p] = rest \ {device'[p]}
    <3>1. Ahead(p)' = 0
      BY <2>2 DEF Ahead
    <3>2. SnapshotOf(device[p], 0)'
      BY <2>2, <1>2 DEF SnapshotOf
    <3>. QED
      BY <2>2, <3>1, <3>2, <1>2 DEF HandsOK, SnapshotOf
  <2>. QED
    BY <1>3, <2>1, <2>2
<1>. QED
  BY <1>1, <1>4

(* SnapshotInv, spelled out for one poll. *)
LEMMA SnapshotHands ==
    SnapshotInv <=> NeverOvercounted /\ \A q \in Polls : HandsOK(q)
  BY DEF SnapshotInv, HandsOK

(* The listener keeps SnapshotInv. *)
LEMMA ListenerStepSnapshot ==
    ASSUME TypeOK, TypeOK', SnapshotInv, ListenerNext, UNCHANGED pollVars
    PROVE  SnapshotInv'
<1>1. Grows /\ \A i \in DOMAIN devices : devices'[i] = devices[i]
  BY ListenerGrows
<1>2. \A q \in Polls : HandsOK(q)'
  <2>. SUFFICES ASSUME NEW q \in Polls PROVE HandsOK(q)'
    OBVIOUS
  <2>1. HandsOK(q) /\ todo'[q] = todo[q] /\ device'[q] = device[q] /\ pc'[q] = pc[q]
    BY SnapshotHands DEF pollVars
  <2>. QED
    BY <1>1, <2>1, HandsStay
<1>3. NeverOvercounted'
  <2>. SUFFICES ASSUME NEW i \in DOMAIN devices'
       PROVE  devices'[i].FailedAttempts <= updates'[i]
    BY DEF NeverOvercounted
  <2>1. i \in Ids /\ updates'[i] \in Nat /\ updates' = updates
    BY DEF TypeOK, TableTypeOK, PollerTypeOK, Ids, pollVars
  <2>2. CASE i \in DOMAIN devices
    BY <2>1, <2>2, <1>1 DEF SnapshotInv, NeverOvercounted
  <2>3. CASE i \notin DOMAIN devices
    BY <2>1, <2>3, ListenerGrows
  <2>. QED
    BY <2>2, <2>3
<1>. QED
  BY <1>2, <1>3 DEF SnapshotInv, HandsOK

(* A poll's step keeps SnapshotInv. *)
LEMMA PollerStepSnapshot ==
    ASSUME TypeOK, TypeOK', SnapshotInv, NEW p \in Polls, PollStep(p)
    PROVE  SnapshotInv'
<1>a. Grows
  BY PollerGrows
<1>b. \A q \in Polls : HandsOK(q)
  BY SnapshotHands
<1>c. todo[p] \in SUBSET Device /\ \A d \in todo[p] : SnapshotOf(d, 0)
  BY <1>b DEF TypeOK, PollerTypeOK, HandsOK
<1>d. ASSUME UNCHANGED <<updates, tableVars>> PROVE NeverOvercounted'
  BY <1>d DEF SnapshotInv, NeverOvercounted, tableVars
<1>1. \A q \in Polls : HandsOK(q)'
  <2>1. CASE List(p)
    <3>1. PICK rows \in SUBSET Rows : NextDevice(p, rows)
      BY <2>1 DEF List
    <3>2. rows \in SUBSET Device
      BY RowsType DEF TypeOK
    <3>3. ASSUME NEW d \in rows PROVE SnapshotOf(d, 0)
      <4>1. PICK i \in DOMAIN devices :
              d = [Id |-> i, Address |-> devices[i].Address,
                   FailedAttempts |-> devices[i].FailedAttempts]
        BY <3>3 DEF Rows
      <4>2. i \in Ids /\ updates[i] \in Nat
        BY DEF TypeOK, TableTypeOK, PollerTypeOK, Ids
      <4>3. d.FailedAttempts <= updates[i]
        BY <4>1 DEF SnapshotInv, NeverOvercounted
      <4>. QED
        BY <4>1, <4>2, <4>3 DEF SnapshotOf
    <3>. QED
      BY <3>1, <3>2, <3>3, <1>a, <1>b, HandsAfterNext
  <2>2. CASE Update(p) \/ UpdateFails(p) \/ FetchFails(p) \/ SaveEnds(p)
    <3>1. NextDevice(p, todo[p])
      BY <2>2 DEF Update, UpdateFails, FetchFails, SaveEnds
    <3>. QED
      BY <3>1, <1>a, <1>b, <1>c, HandsAfterNext
  <2>3. CASE ListFails(p) \/ Discover(p) \/ DiscoverFails(p) \/ Fetch(p)
             \/ FetchSkips(p) \/ Save(p)
    <3>0. UNCHANGED <<devices, updates, todo>>
      BY <2>3 DEF ListFails, Discover, DiscoverFails, Fetch, FetchSkips, Save, tableVars
    <3>1. ASSUME NEW q \in Polls, q # p PROVE HandsOK(q)'
      <4>1. device'[q] = device[q] /\ pc'[q] = pc[q]
        BY <3>1, <2>3 DEF ListFails, Discover, DiscoverFails, Fetch, FetchSkips,
             Requested, Save, TypeOK, PollerTypeOK
      <4>. QED
        BY <3>0, <3>1, <4>1, <1>a, <1>b, HandsStay
    <3>2. \A d \in todo'[p] : SnapshotOf(d, 0)'
      BY <3>0, <1>c DEF SnapshotOf
    <3>3. ASSUME Handling(p)' PROVE SnapshotOf(device[p], Ahead(p))'
      <4>1. CASE DiscoverFails(p)
        <5>1. device[p] \in Device /\ pc[p] = "discover"
          BY <4>1 DEF DiscoverFails, TypeOK, PollerTypeOK
        <5>2. SnapshotOf(device[p], 0)
          BY <5>1, <1>b DEF HandsOK, Handling, Ahead
        <5>3. device'[p] = [device[p] EXCEPT !.FailedAttempts = @ + 1] /\ Ahead(p)' = 1
          BY <4>1 DEF DiscoverFails, TypeOK, PollerTypeOK, Ahead
        <5>4. /\ device'[p].Id = device[p].Id
              /\ device'[p].Address = device[p].Address
              /\ device'[p].FailedAttempts = device[p].FailedAttempts + 1
          BY <5>1, <5>3, CountedType
        <5>5. updates[device[p].Id] \in Nat /\ device[p].FailedAttempts \in Nat
          BY <5>1 DEF Device, TypeOK, PollerTypeOK
        <5>. QED
          BY <5>2, <5>3, <5>4, <5>5, <3>0 DEF SnapshotOf
      <4>2. CASE Discover(p) \/ Fetch(p) \/ FetchSkips(p) \/ Save(p)
        <5>1. /\ Handling(p) /\ pc[p] # "update" /\ pc'[p] # "update"
              /\ device' = device
          BY <4>2 DEF Discover, Fetch, FetchSkips, Requested, Save, Handling, TypeOK, PollerTypeOK
        <5>2. SnapshotOf(device[p], 0) /\ Ahead(p)' = 0
          BY <5>1, <1>b DEF HandsOK, Ahead
        <5>. QED
          BY <5>1, <5>2, <3>0 DEF SnapshotOf
      <4>3. CASE ListFails(p)
        BY <4>3, <3>3 DEF ListFails, Handling, TypeOK, PollerTypeOK
      <4>. QED
        BY <2>3, <4>1, <4>2, <4>3
    <3>. QED
      BY <3>1, <3>2, <3>3 DEF HandsOK
  <2>. QED
    BY <2>1, <2>2, <2>3 DEF PollStep
<1>2. NeverOvercounted'
  <2>1. CASE Update(p)
    <3>1. /\ device[p] \in Device /\ device[p].Id \in Ids /\ UpdateRow(device[p])
          /\ updates' = [updates EXCEPT ![device[p].Id] = @ + 1]
      BY <2>1 DEF Update, TypeOK, PollerTypeOK, Device
    <3>2. device[p].FailedAttempts <= updates[device[p].Id] + 1
      BY <2>1, <1>b DEF Update, HandsOK, Handling, Ahead, SnapshotOf
    <3>3. /\ TableTypeOK
          /\ lastId' = lastId
          /\ \A i \in 1..lastId :
               devices'[i] = IF i = device[p].Id
                             THEN [Address |-> device[p].Address,
                                   FailedAttempts |-> device[p].FailedAttempts]
                             ELSE devices[i]
      BY <3>1, UpdateRowType DEF TypeOK
    <3>4. ASSUME NEW i \in 1..lastId PROVE devices'[i].FailedAttempts <= updates'[i]
      <4>1. i \in Ids /\ devices[i].FailedAttempts <= updates[i]
        BY <3>3, <3>4 DEF TableTypeOK, Ids, SnapshotInv, NeverOvercounted
      <4>2. CASE i = device[p].Id
        BY <4>2, <3>1, <3>2, <3>3, <4>1 DEF TypeOK, PollerTypeOK
      <4>3. CASE i # device[p].Id
        BY <4>3, <3>1, <3>3, <4>1 DEF TypeOK, PollerTypeOK
      <4>. QED
        BY <4>2, <4>3
    <3>5. DOMAIN devices' = 1..lastId
      BY <3>3 DEF TypeOK, TableTypeOK
    <3>. QED
      BY <3>4, <3>5 DEF NeverOvercounted
  <2>2. CASE UNCHANGED <<updates, tableVars>>
    BY <2>2, <1>d
  <2>3. Update(p) \/ UNCHANGED <<updates, tableVars>>
    BY DEF PollStep, List, ListFails, Discover, DiscoverFails, UpdateFails, Fetch,
           FetchSkips, FetchFails, Save, SaveEnds
  <2>. QED
    BY <2>1, <2>2, <2>3
<1>. QED
  BY <1>1, <1>2 DEF SnapshotInv, HandsOK

(* Tick and Restart put no copy into anybody's hands. *)
LEMMA TickSnapshot ==
    ASSUME TypeOK, SnapshotInv, NEW p \in Polls, Tick(p)
    PROVE  SnapshotInv'
<1>1. ~Handling(p) /\ ~Handling(p)' /\ \A q \in Polls \ {p} : pc'[q] = pc[q]
  BY DEF Tick, Handling, TypeOK, PollerTypeOK
<1>2. UNCHANGED <<devices, updates, todo, device>>
  BY DEF Tick, tableVars
<1>. QED
  BY <1>1, <1>2 DEF SnapshotInv, SnapshotOf, NeverOvercounted, Handling, Ahead

(* A restart keeps SnapshotInv: no poll holds anything. *)
LEMMA RestartSnapshot ==
    ASSUME TypeOK, SnapshotInv, Restart
    PROVE  SnapshotInv'
<1>1. \A q \in Polls : ~Handling(q)' /\ todo'[q] = {}
  BY DEF Restart, Handling, IsRunning, Running, TypeOK, PollerTypeOK
<1>2. UNCHANGED <<devices, updates>>
  BY DEF Restart, tableVars
<1>. QED
  BY <1>1, <1>2 DEF SnapshotInv, NeverOvercounted

(* Every copy a poll works on describes a row of the table. *)
THEOREM SnapshotsCurrent == Spec => []SnapshotInv
<1>1. Init => SnapshotInv
  BY DEF Init, TableInit, PollerInit, SnapshotInv, NeverOvercounted, Handling
<1>2. TypeOK /\ TypeOK' /\ SnapshotInv /\ [Next]_vars => SnapshotInv'
  <2>. SUFFICES ASSUME TypeOK, TypeOK', SnapshotInv, [Next]_vars PROVE SnapshotInv'
    OBVIOUS
  <2>1. CASE UNCHANGED vars
    BY <2>1 DEF vars, tableVars, pollVars, SnapshotInv, SnapshotOf,
       NeverOvercounted, Handling, Ahead
  <2>. QED
    BY <2>1, ListenerStepSnapshot, PollerStepSnapshot, TickSnapshot, RestartSnapshot
    DEF Next, PollerNext
<1>. QED
  BY <1>1, <1>2, TypeCorrect, PTL DEF Spec

(* Device.Update writes back a copy that may be stale, in any interleaving  *)
(* of any number of polls: the counter may lose failures, it never invents *)
(* one.                                                                    *)
THEOREM NeverOvercountedHolds == Spec => []NeverOvercounted
<1>1. SnapshotInv => NeverOvercounted
  BY DEF SnapshotInv
<1>. QED
  BY <1>1, SnapshotsCurrent, PTL

-----------------------------------------------------------------------------
(* The registered addresses.                                               *)

LEMMA SameAddresses ==
    ASSUME TypeOK, TypeOK', Grows, lastId' = lastId
    PROVE  /\ DOMAIN devices' = DOMAIN devices
           /\ RegisteredAddresses' = RegisteredAddresses
           /\ UniqueAddress => UniqueAddress'
<1>1. DOMAIN devices' = DOMAIN devices
  BY DEF TypeOK, TableTypeOK
<1>2. \A i \in DOMAIN devices : devices'[i].Address = devices[i].Address
  BY DEF Grows
<1>. QED
  BY <1>1, <1>2 DEF RegisteredAddresses, UniqueAddress

(* Any step but the listener's leaves the registered addresses alone. *)
LEMMA OthersKeepAddresses ==
    ASSUME TypeOK, TypeOK', SnapshotInv,
           (PollerNext /\ UNCHANGED listenVars) \/ Restart \/ UNCHANGED vars
    PROVE  /\ RegisteredAddresses' = RegisteredAddresses
           /\ UniqueAddress => UniqueAddress'
<1>1. ASSUME NEW p \in Polls, PollStep(p)
      PROVE  Grows /\ lastId' = lastId
  BY <1>1, PollerGrows
<1>2. CASE UNCHANGED tableVars
  BY <1>2 DEF tableVars, RegisteredAddresses, UniqueAddress
<1>3. UNCHANGED tableVars \/ \E p \in Polls : PollStep(p)
  BY DEF PollerNext, Tick, Restart, vars
<1>. QED
  BY <1>1, <1>2, <1>3, SameAddresses

(* What Insert does to the registered addresses. *)
LEMMA InsertAddresses ==
    ASSUME TypeOK, TypeOK', Insert
    PROVE  /\ RegisteredAddresses' = RegisteredAddresses \cup {listener.address}
           /\ UniqueAddress /\ ~IsRegistered(listener.address) => UniqueAddress'
<1>1. listener.address \in Addresses /\ InsertRow(listener.address) /\ TableTypeOK
  BY DEF Insert, TypeOK, ListenerTypeOK
<1>2. /\ lastId' = lastId + 1
      /\ devices'[lastId'] = [Address |-> listener.address, FailedAttempts |-> 0]
      /\ \A i \in 1..lastId : devices'[i] = devices[i]
  BY <1>1, InsertRowType
<1>3. lastId \in Nat /\ DOMAIN devices = 1..lastId /\ DOMAIN devices' = 1..(lastId + 1)
  BY <1>2 DEF TypeOK, TableTypeOK
<1>4. /\ DOMAIN devices' = DOMAIN devices \cup {lastId'}
      /\ \A i \in DOMAIN devices : devices'[i].Address = devices[i].Address
      /\ devices'[lastId'].Address = listener.address
  BY <1>2, <1>3
<1>. QED
  BY <1>4 DEF RegisteredAddresses, UniqueAddress, IsRegistered

(* Every step keeps UniqueInv if no result set breaks off. *)
LEMMA UniqueStep ==
    ASSUME ReadFaults = FALSE, TypeOK, TypeOK', SnapshotInv, UniqueInv, [Next]_vars
    PROVE  UniqueInv'
<1>1. CASE ListenerNext
  <2>1. CASE Insert
    <3>1. ~IsRegistered(listener.address) /\ listener'.pc = "receive"
      BY <2>1 DEF Insert, UniqueInv, Idle
    <3>. QED
      BY <2>1, <3>1, InsertAddresses DEF UniqueInv
  <2>2. CASE UNCHANGED tableVars /\ ~SelectFindsNothing /\ ~Insert
    <3>1. listener'.pc # "insert"
      BY <1>1, <2>2 DEF ListenerNext, Receive, Register, RegisterFails, SelectFinds, Idle
    <3>. QED
      BY <2>2, <3>1 DEF tableVars, UniqueInv, UniqueAddress
  <2>3. CASE SelectFindsNothing
    <3>1. ~IsRegistered(listener.address) /\ listener'.address = listener.address
      BY <2>3 DEF SelectFindsNothing, TypeOK, ListenerTypeOK
    <3>. QED
      BY <2>3, <3>1 DEF SelectFindsNothing, tableVars, UniqueInv, UniqueAddress,
         IsRegistered, RegisteredAddresses
  <2>4. Insert \/ UNCHANGED tableVars
    BY <1>1 DEF ListenerNext, Receive, Register, RegisterFails, SelectFinds,
       SelectFindsNothing
  <2>. QED
    BY <2>1, <2>2, <2>3, <2>4
<1>2. CASE (PollerNext /\ UNCHANGED listenVars) \/ Restart \/ UNCHANGED vars
  <2>1. listener' = listener \/ listener' = Idle
    BY <1>2 DEF listenVars, Restart, vars
  <2>. QED
    BY <1>2, <2>1, OthersKeepAddresses DEF UniqueInv, IsRegistered, Idle
<1>. QED
  BY <1>1, <1>2 DEF Next

(* RegisterDevice's check and insert are two statements, in no transaction  *)
(* and on a table without a unique key.  One goroutine registers, and      *)
(* nobody else adds or readdresses rows: if result sets are read to the    *)
(* end, no address is ever in two rows, for any hosts, datagrams, polls    *)
(* and restarts.                                                           *)
THEOREM UniqueAddressHolds ==
    ASSUME ReadFaults = FALSE
    PROVE  Spec => []UniqueAddress
<1>1. Init => UniqueInv
  BY DEF Init, TableInit, ListenerInit, Idle, UniqueInv, UniqueAddress
<1>2. TypeOK /\ TypeOK' /\ SnapshotInv /\ UniqueInv /\ [Next]_vars => UniqueInv'
  BY UniqueStep
<1>3. UniqueInv => UniqueAddress
  BY DEF UniqueInv
<1>. QED
  BY <1>1, <1>2, <1>3, TypeCorrect, SnapshotsCurrent, PTL DEF Spec

-----------------------------------------------------------------------------
(* Who gets registered.                                                    *)

(* No datagram is shorter than the application id. *)
LongPayloads == \A m \in Payloads : Len(m) >= AppIdLen

(* A full-length datagram leaves nothing of earlier ones in the bytes that  *)
(* HasPrefix looks at.                                                     *)
LEMMA PrefixIsAnnouncement ==
    ASSUME LongPayloads, NEW m \in Payloads, HasPrefix(Overwritten(m))
    PROVE  IsAnnouncement(m)
<1>1. Len(m) \in Nat /\ Len(m) >= AppIdLen
  BY DEF LongPayloads
<1>2. \A k \in Positions : k <= Len(m)
  BY <1>1 DEF Positions
<1>3. \A k \in Positions : Overwritten(m)[k] = m[k]
  BY <1>2 DEF Overwritten
<1>. QED
  BY <1>1, <1>3 DEF HasPrefix, IsAnnouncement

(* Every step keeps AnnouncedInv if no datagram is short. *)
LEMMA AnnouncedStep ==
    ASSUME LongPayloads, TypeOK, TypeOK', SnapshotInv, AnnouncedInv, [Next]_vars
    PROVE  AnnouncedInv'
<1>1. ASSUME NEW a \in Addresses, NEW m \in Payloads, Receive(a, m)
      PROVE  AnnouncedInv'
  <2>1. RegisteredAddresses' = RegisteredAddresses /\ announced \subseteq announced'
    BY <1>1 DEF Receive, tableVars, RegisteredAddresses
  <2>2. CASE HasPrefix(Overwritten(m))
    <3>1. a \in announced' /\ listener'.address = a
      BY <1>1, <2>2, PrefixIsAnnouncement DEF Receive
    <3>. QED
      BY <2>1, <3>1 DEF AnnouncedInv, OnlyAnnounced
  <2>3. CASE ~HasPrefix(Overwritten(m))
    <3>1. listener'.pc = "receive"
      BY <1>1, <2>3 DEF Receive, Idle
    <3>. QED
      BY <2>1, <3>1 DEF AnnouncedInv, OnlyAnnounced
  <2>. QED
    BY <2>2, <2>3
<1>2. CASE Insert
  <2>1. listener.address \in announced /\ announced' = announced /\ listener'.pc = "receive"
    BY <1>2 DEF Insert, AnnouncedInv, Idle
  <2>. QED
    BY <1>2, <2>1, InsertAddresses DEF AnnouncedInv, OnlyAnnounced
<1>3. CASE RegisterFails \/ SelectFinds \/ SelectFindsNothing
  <2>1. UNCHANGED <<tableVars, announced>>
    BY <1>3 DEF RegisterFails, SelectFinds, SelectFindsNothing
  <2>2. listener'.pc # "receive" => listener'.address = listener.address
                                    /\ listener.pc # "receive"
    BY <1>3 DEF RegisterFails, SelectFinds, SelectFindsNothing, Idle, TypeOK, ListenerTypeOK
  <2>. QED
    BY <2>1, <2>2 DEF AnnouncedInv, OnlyAnnounced, tableVars, RegisteredAddresses
<1>4. CASE (PollerNext /\ UNCHANGED listenVars) \/ Restart \/ UNCHANGED vars
  <2>1. announced' = announced /\ (listener' = listener \/ listener' = Idle)
    BY <1>4 DEF listenVars, Restart, vars
  <2>. QED
    BY <1>4, <2>1, OthersKeepAddresses DEF AnnouncedInv, OnlyAnnounced, Idle
<1>. QED
  BY <1>1, <1>2, <1>3, <1>4 DEF Next, ListenerNext, Register

(* handleRequest looks at a buffer that is reused for every datagram.  If   *)
(* no host sends datagrams shorter than the application id, only hosts     *)
(* that announced themselves are ever registered, and so polled.           *)
THEOREM OnlyAnnouncedHolds ==
    ASSUME LongPayloads
    PROVE  Spec => []OnlyAnnounced
<1>1. Init => AnnouncedInv
  BY DEF Init, TableInit, ListenerInit, Idle, AnnouncedInv, OnlyAnnounced, RegisteredAddresses
<1>2. TypeOK /\ TypeOK' /\ SnapshotInv /\ AnnouncedInv /\ [Next]_vars => AnnouncedInv'
  BY AnnouncedStep
<1>3. AnnouncedInv => OnlyAnnounced
  BY DEF AnnouncedInv
<1>. QED
  BY <1>1, <1>2, <1>3, TypeCorrect, SnapshotsCurrent, PTL DEF Spec

-----------------------------------------------------------------------------
(* The register of boards.                                                 *)

Entries == {[id |-> i, address |-> devices[i].Address] : i \in DOMAIN devices}

(* The server begins with an empty register. *)
LEMMA RegisterInit == Init => R!Init
  BY DEF Init, TableInit, ListenerInit, R!Init

(* A step of the server that leaves the rows' ids and addresses alone is a  *)
(* stutter of the register, or an announcement.                            *)
LEMMA SameEntries ==
    ASSUME DOMAIN devices' = DOMAIN devices,
           \A i \in DOMAIN devices : devices'[i].Address = devices[i].Address
    PROVE  Entries' = Entries
  BY DEF Entries

(* Every step of the server is a step of the register or changes nothing of it. *)
LEMMA RegisterStep ==
    ASSUME LongPayloads, TypeOK, TypeOK', SnapshotInv, UniqueInv, AnnouncedInv, [Next]_vars
    PROVE  [R!Next]_(R!vars)
<1>. USE DEF R!Next, R!vars, R!Announce, R!Enter
<1>1. ASSUME NEW a \in Addresses, NEW m \in Payloads, Receive(a, m)
      PROVE  [R!Next]_(R!vars)
  <2>1. Entries' = Entries /\ (announced' = announced \/ announced' = announced \cup {a})
    BY <1>1 DEF Receive, tableVars, Entries
  <2>. QED
    BY <2>1 DEF Entries
<1>2. CASE Insert
  <2>1. /\ listener.address \in Addresses /\ InsertRow(listener.address)
        /\ listener.address \in announced /\ announced' = announced
        /\ ~IsRegistered(listener.address) /\ TableTypeOK
    BY <1>2 DEF Insert, AnnouncedInv, UniqueInv, TypeOK, ListenerTypeOK
  <2>2. /\ lastId' = lastId + 1
        /\ devices'[lastId'] = [Address |-> listener.address, FailedAttempts |-> 0]
        /\ \A i \in 1..lastId : devices'[i] = devices[i]
    BY <2>1, InsertRowType
  <2>3. /\ lastId \in Nat /\ DOMAIN devices = 1..lastId
        /\ DOMAIN devices' = 1..(lastId + 1) /\ lastId' \in Ids
    BY <2>2 DEF TypeOK, TableTypeOK, Ids
  <2>4. /\ DOMAIN devices' = DOMAIN devices \cup {lastId'}
        /\ \A i \in DOMAIN devices : i < lastId' /\ devices'[i].Address = devices[i].Address
        /\ devices'[lastId'].Address = listener.address
    BY <2>2, <2>3
  <2>5. Entries' = Entries \cup {[id |-> lastId', address |-> listener.address]}
    BY <2>4 DEF Entries
  <2>6. \A e \in Entries : e.address # listener.address /\ e.id < lastId'
    BY <2>1, <2>4 DEF Entries, IsRegistered, RegisteredAddresses
  <2>7. \E id \in Ids : /\ \A e \in Entries : e.id < id
                        /\ Entries' = Entries \cup {[id |-> id, address |-> listener.address]}
    BY <2>3, <2>5, <2>6
  <2>8. R!Enter(listener.address)
    BY <2>1, <2>6, <2>7 DEF Entries
  <2>. QED
    BY <2>1, <2>8
<1>3. CASE RegisterFails \/ SelectFinds \/ SelectFindsNothing
  <2>1. devices' = devices /\ announced' = announced
    BY <1>3 DEF RegisterFails, SelectFinds, SelectFindsNothing, tableVars
  <2>. QED
    BY <2>1 DEF Entries
<1>4. CASE (PollerNext /\ UNCHANGED listenVars) \/ Restart \/ UNCHANGED vars
  <2>1. announced' = announced
    BY <1>4 DEF listenVars, Restart, vars
  <2>2. ASSUME NEW p \in Polls, PollStep(p) PROVE Entries' = Entries
    <3>1. Grows /\ lastId' = lastId
      BY <2>2, PollerGrows
    <3>2. DOMAIN devices' = DOMAIN devices
      BY <3>1 DEF TypeOK, TableTypeOK
    <3>. QED
      BY <3>1, <3>2, SameEntries DEF Grows
  <2>3. ASSUME UNCHANGED tableVars PROVE Entries' = Entries
    BY <2>3 DEF tableVars, Entries
  <2>4. UNCHANGED tableVars \/ \E p \in Polls : PollStep(p)
    BY <1>4 DEF PollerNext, Tick, Restart, vars
  <2>5. Entries' = Entries
    BY <2>2, <2>3, <2>4
  <2>. QED
    BY <2>1, <2>5 DEF Entries
<1>. QED
  BY <1>1, <1>2, <1>3, <1>4 DEF Next, ListenerNext, Register

(* The device table, with its buffer, its two-statement registration, its   *)
(* polls that rewrite rows and its restarts, is a register of boards: each *)
(* step enters an announced host once under a fresh id, or changes nothing *)
(* of what was entered.                                                    *)
THEOREM ImplementsRegister ==
    ASSUME ReadFaults = FALSE, LongPayloads
    PROVE  Spec => IsRegister
<1>1. Init => UniqueInv /\ AnnouncedInv
  BY DEF Init, TableInit, ListenerInit, Idle, UniqueInv, UniqueAddress,
     AnnouncedInv, OnlyAnnounced, RegisteredAddresses
<1>2. TypeOK /\ TypeOK' /\ SnapshotInv /\ UniqueInv /\ [Next]_vars => UniqueInv'
  BY UniqueStep
<1>3. TypeOK /\ TypeOK' /\ SnapshotInv /\ AnnouncedInv /\ [Next]_vars => AnnouncedInv'
  BY AnnouncedStep
<1>4. TypeOK /\ TypeOK' /\ SnapshotInv /\ UniqueInv /\ AnnouncedInv /\ [Next]_vars
        => [R!Next]_(R!vars)
  BY RegisterStep
<1>. QED
  BY <1>1, <1>2, <1>3, <1>4, RegisterInit, TypeCorrect, SnapshotsCurrent, PTL
  DEF Spec, IsRegister, R!Spec

-----------------------------------------------------------------------------
(* The failure counters of polls that do not overlap.                      *)

(* What ExactInv says of the one poll that runs. *)
ExactHands(p) ==
    Handling(p) =>
        /\ device[p].FailedAttempts = updates[device[p].Id] + Ahead(p)
        /\ \A d \in todo[p] : /\ d.FailedAttempts = updates[d.Id]
                              /\ d.Id # device[p].Id
        /\ \A d, e \in todo[p] : d.Id = e.Id => d = e

OneRuns == \A p, q \in Polls : IsRunning(p) /\ IsRunning(q) => p = q

(* The next device of a list of current copies of distinct rows. *)
LEMMA ExactAfterNext ==
    ASSUME TypeOK, NEW p \in Polls, NEW rest \in SUBSET Device, NextDevice(p, rest),
           \A d \in rest : d.FailedAttempts = updates'[d.Id],
           \A d \in rest : updates'[d.Id] \in Nat,
           \A d, e \in rest : d.Id = e.Id => d = e
    PROVE  ExactHands(p)'
<1>1. \/ pc'[p] = "done"
      \/ pc'[p] = "discover" /\ device'[p] \in rest /\ todo'[p] = rest \ {device'[p]}
  BY NextDeviceEffect DEF TypeOK
<1>2. CASE pc'[p] = "done"
  BY <1>2 DEF ExactHands, Handling
<1>3. CASE pc'[p] = "discover" /\ device'[p] \in rest /\ todo'[p] = rest \ {device'[p]}
  <2>1. Ahead(p)' = 0
    BY <1>3 DEF Ahead
  <2>. QED
    BY <1>3, <2>1 DEF ExactHands
<1>. QED
  BY <1>1, <1>2, <1>3

(* The listener keeps ExactInv. *)
LEMMA ListenerStepExact ==
    ASSUME TypeOK, TypeOK', ExactInv, ListenerNext, UNCHANGED pollVars
    PROVE  ExactInv'
<1>1. /\ DOMAIN devices \subseteq DOMAIN devices'
      /\ \A i \in DOMAIN devices : devices'[i] = devices[i]
      /\ \A i \in DOMAIN devices' \ DOMAIN devices : devices'[i].FailedAttempts = 0
  BY ListenerGrows DEF Grows
<1>2. UNCHANGED <<updates, overlapped, pc, device, todo>>
  BY DEF pollVars
<1>3. DOMAIN devices' \subseteq Ids
  BY DEF TypeOK, TableTypeOK, Ids
<1>4. ExactCount'
  BY <1>1, <1>2, <1>3 DEF ExactInv, ExactCount
<1>. QED
  BY <1>1, <1>2, <1>4 DEF ExactInv, IsRunning, Handling, Ahead

(* Starting a poll keeps ExactInv. *)
LEMMA TickExact ==
    ASSUME TypeOK, ExactInv, NEW p \in Polls, Tick(p)
    PROVE  ExactInv'
<1>1. UNCHANGED <<devices, updates, todo, device>>
  BY DEF Tick, tableVars
<1>2. /\ pc'[p] = "list" /\ \A q \in Polls \ {p} : pc'[q] = pc[q]
      /\ ~overlapped' => ~overlapped /\ \A q \in Polls : ~IsRunning(q)
  BY DEF Tick, TypeOK, PollerTypeOK
<1>3. ~overlapped' => \A q \in Polls : ~Handling(q)' /\ (IsRunning(q)' => q = p)
  BY <1>2 DEF Handling, IsRunning, Running
<1>. QED
  BY <1>1, <1>2, <1>3 DEF ExactInv, ExactCount

(* A restart keeps ExactInv. *)
LEMMA RestartExact ==
    ASSUME TypeOK, ExactInv, Restart
    PROVE  ExactInv'
<1>1. UNCHANGED <<devices, updates, overlapped>>
  BY DEF Restart, tableVars
<1>2. \A q \in Polls : ~Handling(q)' /\ ~IsRunning(q)'
  BY DEF Restart, Handling, IsRunning, Running, TypeOK, PollerTypeOK
<1>. QED
  BY <1>1, <1>2 DEF ExactInv, ExactCount

(* A poll step leaves every other poll where it stands. *)
LEMMA StepIsLocal ==
    ASSUME TypeOK, NEW p \in Polls, PollStep(p)
    PROVE  /\ IsRunning(p)
           /\ \A q \in Polls \ {p} : pc'[q] = pc[q]
           /\ overlapped' = overlapped
<1>1. CASE List(p) \/ Update(p) \/ UpdateFails(p) \/ FetchFails(p) \/ SaveEnds(p)
  <2>1. PICK rest \in SUBSET Device : NextDevice(p, rest)
    BY <1>1, RowsType DEF List, Update, UpdateFails, FetchFails, SaveEnds,
       TypeOK, PollerTypeOK
  <2>2. \A q \in Polls \ {p} : pc'[q] = pc[q]
    BY <2>1, NextDeviceEffect DEF TypeOK
  <2>. QED
    BY <1>1, <2>2 DEF List, Update, UpdateFails, FetchFails, SaveEnds, IsRunning, Running
<1>2. CASE ~(List(p) \/ Update(p) \/ UpdateFails(p) \/ FetchFails(p) \/ SaveEnds(p))
  BY <1>2 DEF PollStep, ListFails, Discover, DiscoverFails, Fetch, FetchSkips, Requested,
     Save, IsRunning, Running, TypeOK, PollerTypeOK
<1>. QED
  BY <1>1, <1>2

(* A poll's step keeps ExactInv. *)
LEMMA PollerStepExact ==
    ASSUME TypeOK, TypeOK', SnapshotInv, ExactInv, NEW p \in Polls, PollStep(p)
    PROVE  ExactInv'
<1>1. /\ IsRunning(p) /\ overlapped' = overlapped
      /\ \A q \in Polls \ {p} : pc'[q] = pc[q]
  BY StepIsLocal
<1>2. DOMAIN devices' = DOMAIN devices
  BY PollerGrows DEF TypeOK, TableTypeOK
<1>3. ~overlapped => /\ OneRuns' /\ \A q \in Polls \ {p} : ExactHands(q)'
  BY <1>1 DEF ExactInv, OneRuns, ExactHands, IsRunning, Handling, Running
<1>4. CASE Update(p)
  <2>1. /\ device[p] \in Device /\ device[p].Id \in Ids /\ UpdateRow(device[p])
        /\ updates' = [updates EXCEPT ![device[p].Id] = @ + 1]
        /\ pc[p] = "update" /\ todo[p] \in SUBSET Device /\ NextDevice(p, todo[p])
    BY <1>4 DEF Update, TypeOK, PollerTypeOK, Device
  <2>2. device[p].Id \in DOMAIN devices
    BY <2>1 DEF SnapshotInv, SnapshotOf, Handling
  <2>3. \A i \in Ids \ DOMAIN devices' : updates'[i] = 0
    BY <1>2, <2>1, <2>2 DEF ExactInv, TypeOK, PollerTypeOK
  <2>4. \A i \in DOMAIN devices :
           devices'[i] = IF i = device[p].Id
                         THEN [Address |-> device[p].Address,
                               FailedAttempts |-> device[p].FailedAttempts]
                         ELSE devices[i]
    BY <2>1, UpdateRowType DEF TypeOK, TableTypeOK
  <2>. SUFFICES ASSUME ~overlapped PROVE ExactCount' /\ ExactHands(p)'
    BY <1>1, <1>3, <2>3 DEF ExactInv, ExactHands, OneRuns, ExactCount
  <2>5. /\ device[p].FailedAttempts = updates[device[p].Id] + 1
        /\ \A d \in todo[p] : d.FailedAttempts = updates[d.Id] /\ d.Id # device[p].Id
        /\ \A d, e \in todo[p] : d.Id = e.Id => d = e
    BY <2>1 DEF ExactInv, Handling, Ahead
  <2>6. ExactCount'
    <3>1. ASSUME NEW i \in DOMAIN devices PROVE devices'[i].FailedAttempts = updates'[i]
      <4>1. i \in Ids /\ devices[i].FailedAttempts = updates[i]
        BY <3>1 DEF ExactInv, ExactCount, TypeOK, TableTypeOK, Ids
      <4>. QED
        BY <4>1, <2>1, <2>4, <2>5 DEF TypeOK, PollerTypeOK
    <3>. QED
      BY <3>1, <1>2 DEF ExactCount
  <2>7. \A d \in todo[p] : d.FailedAttempts = updates'[d.Id] /\ updates'[d.Id] \in Nat
    BY <2>1, <2>5 DEF TypeOK, PollerTypeOK, Device
  <2>. QED
    BY <2>1, <2>5, <2>6, <2>7, ExactAfterNext
<1>5. CASE UNCHANGED <<updates, tableVars>>
  <2>0. UNCHANGED <<updates, devices>>
    BY <1>5 DEF tableVars
  <2>. SUFFICES ASSUME ~overlapped PROVE ExactHands(p)'
    BY <2>0, <1>1, <1>3 DEF ExactInv, ExactHands, OneRuns, ExactCount
  <2>h. ExactHands(p)
    BY DEF ExactInv, ExactHands
  <2>1. CASE List(p)
    <3>1. PICK rows \in SUBSET Rows : NextDevice(p, rows)
      BY <2>1 DEF List
    <3>2. rows \in SUBSET Device
      BY RowsType DEF TypeOK
    <3>3. ASSUME NEW d \in rows
          PROVE  d.FailedAttempts = updates'[d.Id] /\ updates'[d.Id] \in Nat
      <4>1. PICK i \in DOMAIN devices :
              d = [Id |-> i, Address |-> devices[i].Address,
                   FailedAttempts |-> devices[i].FailedAttempts]
        BY <3>3 DEF Rows
      <4>2. i \in Ids /\ updates[i] \in Nat
        BY DEF TypeOK, TableTypeOK, PollerTypeOK, Ids
      <4>. QED
        BY <4>1, <4>2, <2>0 DEF ExactInv, ExactCount
    <3>4. \A d, e \in rows : d.Id = e.Id => d = e
      BY DEF Rows
    <3>. QED
      BY <3>1, <3>2, <3>3, <3>4, ExactAfterNext
  <2>2. CASE UpdateFails(p) \/ FetchFails(p) \/ SaveEnds(p)
    <3>1. NextDevice(p, todo[p]) /\ Handling(p) /\ todo[p] \in SUBSET Device
      BY <2>2 DEF UpdateFails, FetchFails, SaveEnds, Handling, TypeOK, PollerTypeOK
    <3>2. /\ \A d \in todo[p] : d.FailedAttempts = updates'[d.Id] /\ updates'[d.Id] \in Nat
          /\ \A d, e \in todo[p] : d.Id = e.Id => d = e
      BY <3>1, <2>0, <2>h DEF ExactHands, TypeOK, PollerTypeOK, Device
    <3>. QED
      BY <3>1, <3>2, ExactAfterNext
  <2>3. CASE DiscoverFails(p)
    <3>1. device[p] \in Device /\ Handling(p) /\ pc[p] = "discover"
      BY <2>3 DEF DiscoverFails, Handling, TypeOK, PollerTypeOK
    <3>2. device'[p] = [device[p] EXCEPT !.FailedAttempts = @ + 1] /\ Ahead(p)' = 1
      BY <2>3 DEF DiscoverFails, TypeOK, PollerTypeOK, Ahead
    <3>3. /\ device'[p].Id = device[p].Id
          /\ device'[p].FailedAttempts = device[p].FailedAttempts + 1
      BY <3>1, <3>2, CountedType
    <3>4. device[p].FailedAttempts = updates[device[p].Id] /\ updates[device[p].Id] \in Nat
      BY <3>1, <2>h DEF ExactHands, Ahead, TypeOK, PollerTypeOK, Device
    <3>5. todo' = todo
      BY <2>3 DEF DiscoverFails
    <3>. QED
      BY <3>1, <3>2, <3>3, <3>4, <3>5, <2>0, <2>h DEF ExactHands
  <2>4. CASE Discover(p) \/ Fetch(p) \/ FetchSkips(p) \/ Save(p)
    <3>1. /\ Handling(p) /\ Ahead(p) = 0 /\ Ahead(p)' = 0
          /\ UNCHANGED <<device, todo>>
      BY <2>4 DEF Discover, Fetch, FetchSkips, Requested, Save, Handling, Ahead,
         TypeOK, PollerTypeOK
    <3>. QED
      BY <3>1, <2>0, <2>h DEF ExactHands
  <2>5. CASE ListFails(p)
    BY <2>5 DEF ListFails, ExactHands, Handling, TypeOK, PollerTypeOK
  <2>6. CASE Update(p)
    <3>1. updates' = [updates EXCEPT ![device[p].Id] = @ + 1] /\ device[p].Id \in Ids
      BY <2>6 DEF Update, TypeOK, PollerTypeOK, Device
    <3>2. FALSE
      BY <3>1, <2>0 DEF TypeOK, PollerTypeOK
    <3>. QED
      BY <3>2
  <2>. QED
    BY <2>1, <2>2, <2>3, <2>4, <2>5, <2>6 DEF PollStep
<1>6. Update(p) \/ UNCHANGED <<updates, tableVars>>
  BY DEF PollStep, List, ListFails, Discover, DiscoverFails, UpdateFails, Fetch,
         FetchSkips, FetchFails, Save, SaveEnds
<1>. QED
  BY <1>4, <1>5, <1>6

(* GetDataPointsFromDevice reads, increments and writes the counter back in *)
(* three steps.  The count is exact all the same, for any number of boards *)
(* and polls and across registrations and restarts, until the scheduler    *)
(* starts a poll while another one is still running.                       *)
THEOREM ExactCountHolds == Spec => []ExactCount
<1>1. Init => ExactInv
  BY DEF Init, TableInit, PollerInit, ExactInv, ExactCount, IsRunning, Running, Handling
<1>2. TypeOK /\ TypeOK' /\ SnapshotInv /\ ExactInv /\ [Next]_vars => ExactInv'
  <2>. SUFFICES ASSUME TypeOK, TypeOK', SnapshotInv, ExactInv, [Next]_vars PROVE ExactInv'
    OBVIOUS
  <2>1. CASE UNCHANGED vars
    BY <2>1 DEF vars, tableVars, pollVars, ExactInv, ExactCount, IsRunning, Handling, Ahead
  <2>. QED
    BY <2>1, ListenerStepExact, PollerStepExact, TickExact, RestartExact
    DEF Next, PollerNext
<1>3. ExactInv => ExactCount
  BY DEF ExactInv
<1>. QED
  BY <1>1, <1>2, <1>3, TypeCorrect, SnapshotsCurrent, PTL DEF Spec

-----------------------------------------------------------------------------
(* What was stored and logged, from one state to the next.                 *)

(* Nothing stored or logged is forgotten. *)
Kept == Stored \subseteq Stored' /\ log \subseteq log'

(* A step stores and logs nothing for a poll. *)
NothingFor(q) ==
    /\ \A x : x.poll = q => (x \in Stored' <=> x \in Stored)
    /\ \A e : e.poll = q => (e \in log' <=> e \in log)

(* What became of a device stays so. *)
LEMMA SettledStays ==
    ASSUME Kept, NEW p, NEW d, Settled(p, d)
    PROVE  Settled(p, d)'
<1>1. \A s : Logged(p, d, s) => Logged(p, d, s)'
  BY DEF Kept, Logged
<1>2. \A record : RecordSettled(p, d, record) => RecordSettled(p, d, record)'
  BY <1>1 DEF Kept, RecordSettled
<1>. QED
  BY <1>1, <1>2 DEF Settled

(* The bookkeeping of a poll is not disturbed by what others do. *)
LEMMA OtherPoll ==
    ASSUME NEW q \in Polls, PollOK(q), NothingFor(q),
           pc'[q] = pc[q], devicesOf'[q] = devicesOf[q], todo'[q] = todo[q],
           device'[q] = device[q], left'[q] = left[q], messages'[q] = messages[q]
    PROVE  PollOK(q)'
<1>1. \A i : Untouched(q, i) => Untouched(q, i)'
  BY DEF NothingFor, Untouched
<1>2. \A d, s : Logged(q, d, s) <=> Logged(q, d, s)'
  BY DEF NothingFor, Logged
<1>3. \A d, record : RecordSettled(q, d, record) <=> RecordSettled(q, d, record)'
  BY <1>2 DEF NothingFor, RecordSettled
<1>4. \A d : Settled(q, d) => Settled(q, d)'
  BY <1>2, <1>3 DEF Settled
<1>5. Handling(q)' <=> Handling(q)
  BY DEF Handling
<1>6. ListOK(q) => ListOK(q)'
  BY <1>1 DEF ListOK
<1>7. CurrentOK(q) => CurrentOK(q)'
  <2>1. \A record : Point(q, record)' = Point(q, record)
    BY DEF Point
  <2>2. \A record : Point(q, record) \in Stored' <=> Point(q, record) \in Stored
    BY DEF NothingFor, Point
  <2>3. \A s : Logged(q, device[q], s)' <=> Logged(q, device[q], s)
    BY <1>2 DEF Logged
  <2>4. \A record : RecordSettled(q, device[q], record)' <=> RecordSettled(q, device[q], record)
    BY <1>3 DEF RecordSettled, Logged
  <2>. QED
    BY <2>1, <2>2, <2>3, <2>4 DEF CurrentOK, NothingFor
<1>8. ListCovered(q) => ListCovered(q)'
  BY <1>4, <1>5 DEF ListCovered
<1>. QED
  BY <1>1, <1>5, <1>6, <1>7, <1>8 DEF PollOK

(* The bookkeeping of a poll that goes on to the next device of its list. *)
LEMMA AfterNext ==
    ASSUME TypeOK, NEW p \in Polls, NEW rest \in SUBSET Device, NextDevice(p, rest),
           \A d \in rest : Untouched(p, d.Id)',
           \A d, e \in rest : d.Id = e.Id => d = e,
           \A d \in devicesOf'[p] : d \in rest \/ Settled(p, d)'
    PROVE  PollOK(p)'
<1>1. messages'[p] = {}
  BY DEF NextDevice, TypeOK, PollerTypeOK
<1>2. \/ rest = {} /\ pc'[p] = "done"
      \/ /\ pc'[p] = "discover"
         /\ device'[p] \in rest
         /\ todo'[p] = rest \ {device'[p]}
  BY NextDeviceEffect DEF TypeOK, NextDevice, PollerTypeOK
<1>3. CASE rest = {} /\ pc'[p] = "done"
  BY <1>3 DEF PollOK, ListCovered, Handling
<1>4. CASE pc'[p] = "discover" /\ device'[p] \in rest /\ todo'[p] = rest \ {device'[p]}
  <2>1. ListOK(p)'
    BY <1>4 DEF ListOK
  <2>2. CurrentOK(p)'
    <3>1. /\ \A x \in Stored' : x.poll = p => x.id # device'[p].Id
          /\ \A e \in log' : e.poll = p => e.id # device'[p].Id
      BY <1>4 DEF Untouched
    <3>. QED
      BY <1>1, <1>4, <3>1 DEF CurrentOK, Logged
  <2>3. ListCovered(p)'
    BY <1>4 DEF ListCovered, Handling
  <2>. QED
    BY <1>4, <2>1, <2>2, <2>3 DEF PollOK
<1>. QED
  BY <1>2, <1>3, <1>4

-----------------------------------------------------------------------------
(* The steps of a poll.                                                    *)

(* What PollInv says of all polls but one. *)
OthersOK(p) == \A q \in Polls \ {p} : PollOK(q)'

(* A poll's step is about its own part of the state. *)
LEMMA StepKeepsOthers ==
    ASSUME TypeOK, \A q \in Polls : PollOK(q), NEW p \in Polls, PollStep(p)
    PROVE  OthersOK(p)
<1>. SUFFICES ASSUME NEW q \in Polls \ {p} PROVE PollOK(q)'
  BY DEF OthersOK
<1>1. /\ pc'[q] = pc[q] /\ devicesOf'[q] = devicesOf[q] /\ todo'[q] = todo[q]
      /\ device'[q] = device[q] /\ left'[q] = left[q] /\ messages'[q] = messages[q]
  <2>1. CASE List(p) \/ Update(p) \/ UpdateFails(p) \/ FetchFails(p) \/ SaveEnds(p)
    <3>1. PICK rest \in SUBSET Device : NextDevice(p, rest)
      BY <2>1, RowsType DEF List, Update, UpdateFails, FetchFails, SaveEnds,
         TypeOK, PollerTypeOK
    <3>2. todo'[q] = todo[q] /\ device'[q] = device[q] /\ pc'[q] = pc[q]
      BY <3>1, NextDeviceEffect DEF TypeOK
    <3>3. left'[q] = left[q] /\ messages'[q] = messages[q]
      BY <3>1 DEF NextDevice, TypeOK, PollerTypeOK
    <3>4. devicesOf'[q] = devicesOf[q]
      BY <2>1 DEF List, Update, UpdateFails, FetchFails, SaveEnds, TypeOK, PollerTypeOK
    <3>. QED
      BY <3>2, <3>3, <3>4
  <2>2. CASE ListFails(p) \/ Discover(p) \/ DiscoverFails(p) \/ Save(p)
    BY <2>2 DEF ListFails, Discover, DiscoverFails, Save, TypeOK, PollerTypeOK
  <2>3. CASE Fetch(p) \/ FetchSkips(p)
    BY <2>3 DEF Fetch, FetchSkips, Requested, TypeOK, PollerTypeOK
  <2>. QED
    BY <2>1, <2>2, <2>3 DEF PollStep
<1>2. NothingFor(q)
  <2>1. CASE Save(p)
    <3>1. PICK record \in messages[p] :
            \/ data' = [data EXCEPT ![Point(p, record)] = @ + 1] /\ UNCHANGED log
            \/ log' = LogOf(p, record) /\ UNCHANGED data
      BY <2>1 DEF Save
    <3>. QED
      BY <3>1 DEF NothingFor, Stored, LogOf, Point, TypeOK, PollerTypeOK
  <2>2. CASE ~Save(p)
    <3>1. data' = data /\ (log' = log \/ \E s : log' = LogOf(p, s))
      BY <2>2 DEF PollStep, List, ListFails, Discover, DiscoverFails, Update, UpdateFails,
         Fetch, FetchSkips, FetchFails, SaveEnds
    <3>. QED
      BY <3>1 DEF NothingFor, Stored, LogOf
  <2>. QED
    BY <2>1, <2>2
<1>. QED
  BY <1>1, <1>2, OtherPoll

(* What a step has to keep, apart from the other polls. *)
OwnPart(p) == StoredOK' /\ NothingAfterRequestError' /\ PollOK(p)'

(* Rows that stay under their address keep StoredOK if nothing is stored. *)
LEMMA StoredStays ==
    ASSUME StoredOK, Grows, data' = data
    PROVE  StoredOK'
  BY DEF StoredOK, Stored, Grows

(* GetRegisteredDevices: the list is read once, by a poll that did nothing yet. *)
LEMMA ListInv ==
    ASSUME TypeOK, PollInv, Grows, NEW p \in Polls, List(p)
    PROVE  OwnPart(p)
<1>1. PICK rows \in SUBSET Rows : /\ devicesOf' = [devicesOf EXCEPT ![p] = rows]
                                  /\ NextDevice(p, rows)
  BY DEF List
<1>2. rows \in SUBSET Device
  BY RowsType DEF TypeOK
<1>3. data' = data /\ log' = log
  BY DEF List
<1>4. \A d \in rows : Untouched(p, d.Id)'
  <2>1. \A d \in rows : Untouched(p, d.Id)
    BY <1>2 DEF List, PollInv, PollOK, Device
  <2>. QED
    BY <2>1, <1>3 DEF Untouched, Stored
<1>5. \A d, e \in rows : d.Id = e.Id => d = e
  BY DEF Rows
<1>6. devicesOf'[p] = rows
  BY <1>1 DEF TypeOK, PollerTypeOK
<1>7. PollOK(p)'
  BY <1>1, <1>2, <1>4, <1>5, <1>6, AfterNext
<1>. QED
  BY <1>3, <1>7, StoredStays DEF OwnPart, PollInv, NothingAfterRequestError, Stored

(* A failed request gives the device up before anything of it is stored. *)
LEMMA RequestFailsInv ==
    ASSUME TypeOK, PollInv, Grows, NEW p \in Polls,
           Update(p) \/ UpdateFails(p) \/ FetchFails(p)
    PROVE  OwnPart(p)
<1>1. /\ Handling(p) /\ pc[p] # "save" /\ NextDevice(p, todo[p])
      /\ data' = data /\ log' = LogOf(p, "request") /\ devicesOf' = devicesOf
      /\ device[p] \in Device /\ todo[p] \in SUBSET Device
  BY DEF Update, UpdateFails, FetchFails, Handling, TypeOK, PollerTypeOK
<1>2. ListOK(p) /\ CurrentOK(p) /\ ListCovered(p)
  BY <1>1 DEF PollInv, PollOK, Handling
<1>3. Stored' = Stored /\ Kept
  BY <1>1 DEF Stored, Kept, LogOf
<1>4. \A d \in todo[p] : Untouched(p, d.Id)'
  BY <1>1, <1>2, <1>3 DEF ListOK, Untouched, LogOf
<1>5. ASSUME NEW d \in devicesOf'[p] PROVE d \in todo[p] \/ Settled(p, d)'
  <2>1. CASE Settled(p, d)
    BY <2>1, <1>3, SettledStays
  <2>2. CASE d.Id = device[p].Id
    BY <2>2, <1>1 DEF Settled, Logged, LogOf
  <2>. QED
    BY <1>1, <1>2, <1>5, <2>1, <2>2 DEF ListCovered
<1>6. PollOK(p)'
  BY <1>1, <1>2, <1>4, <1>5, AfterNext DEF ListOK
<1>7. NothingAfterRequestError'
  BY <1>1, <1>2, <1>3 DEF NothingAfterRequestError, CurrentOK, LogOf, PollInv
<1>. QED
  BY <1>1, <1>6, <1>7, StoredStays DEF OwnPart, PollInv

(* When all records are settled the device is. *)
LEMMA SaveEndsInv ==
    ASSUME TypeOK, PollInv, Grows, NEW p \in Polls, SaveEnds(p)
    PROVE  OwnPart(p)
<1>1. /\ Handling(p) /\ pc[p] = "save" /\ NextDevice(p, todo[p]) /\ messages[p] = {}
      /\ data' = data /\ log' = log /\ devicesOf' = devicesOf
      /\ todo[p] \in SUBSET Device
  BY DEF SaveEnds, Handling, TypeOK, PollerTypeOK
<1>2. ListOK(p) /\ CurrentOK(p) /\ ListCovered(p)
  BY <1>1 DEF PollInv, PollOK, Handling
<1>3. Stored' = Stored /\ Kept
  BY <1>1 DEF Stored, Kept
<1>4. \A d \in todo[p] : Untouched(p, d.Id)'
  BY <1>1, <1>2, <1>3 DEF ListOK, Untouched
<1>5. Settled(p, device[p])
  BY <1>1, <1>2 DEF CurrentOK, Settled
<1>6. ASSUME NEW d \in devicesOf'[p] PROVE d \in todo[p] \/ Settled(p, d)'
  <2>1. CASE Settled(p, d)
    BY <2>1, <1>3, SettledStays
  <2>2. CASE d.Id = device[p].Id /\ d.Address = device[p].Address
    <3>1. Settled(p, d)
      BY <2>2, <1>5 DEF Settled, RecordSettled, Logged
    <3>. QED
      BY <3>1, <1>3, SettledStays
  <2>. QED
    BY <1>1, <1>2, <1>6, <2>1, <2>2 DEF ListCovered
<1>7. PollOK(p)'
  BY <1>1, <1>2, <1>4, <1>6, AfterNext DEF ListOK
<1>. QED
  BY <1>1, <1>3, <1>7, StoredStays DEF OwnPart, PollInv, NothingAfterRequestError

(* While a poll stays with a device, its list is not disturbed. *)
LEMMA SameDevice ==
    ASSUME PollInv, NEW p \in Polls, Handling(p), Handling(p)', Kept,
           devicesOf'[p] = devicesOf[p], todo'[p] = todo[p],
           device'[p].Id = device[p].Id, device'[p].Address = device[p].Address,
           \A x \in Stored' : x \in Stored \/ x.id = device[p].Id,
           \A e \in log' : e \in log \/ e.id = device[p].Id,
           CurrentOK(p)'
    PROVE  PollOK(p)'
<1>1. ListOK(p) /\ ListCovered(p)
  BY DEF PollInv, PollOK, Handling
<1>2. ListOK(p)'
  BY <1>1 DEF ListOK, Untouched
<1>3. ListCovered(p)'
  BY <1>1, SettledStays DEF ListCovered
<1>. QED
  BY <1>2, <1>3 DEF PollOK, Handling

(* GetCoAPResources: asking a device for its resources settles nothing. *)
LEMMA DiscoverInv ==
    ASSUME TypeOK, PollInv, Grows, NEW p \in Polls, Discover(p) \/ DiscoverFails(p)
    PROVE  OwnPart(p)
<1>1. /\ Handling(p) /\ Handling(p)' /\ pc[p] = "discover" /\ pc'[p] # "save"
      /\ UNCHANGED <<data, log, devicesOf, todo, messages>> /\ device[p] \in Device
  BY DEF Discover, DiscoverFails, Handling, TypeOK, PollerTypeOK
<1>2. device'[p].Id = device[p].Id /\ device'[p].Address = device[p].Address
  <2>1. CASE DiscoverFails(p)
    <3>1. device'[p] = [device[p] EXCEPT !.FailedAttempts = @ + 1]
      BY <2>1 DEF DiscoverFails, TypeOK, PollerTypeOK
    <3>. QED
      BY <3>1, <1>1, CountedType
  <2>. QED
    BY <2>1 DEF Discover
<1>3. Stored' = Stored
  BY <1>1 DEF Stored
<1>4. CurrentOK(p)'
  <2>1. CurrentOK(p)
    BY <1>1 DEF PollInv, PollOK
  <2>2. pc'[p] = "update" \/ (pc'[p] = "fetch" /\ left'[p] = Offers[device'[p].Address])
    BY <1>2 DEF Discover, DiscoverFails, TypeOK, PollerTypeOK
  <2>. QED
    BY <1>1, <1>2, <1>3, <2>1, <2>2 DEF CurrentOK, Logged, Point
<1>5. PollOK(p)'
  BY <1>1, <1>2, <1>3, <1>4, SameDevice DEF Kept
<1>. QED
  BY <1>1, <1>3, <1>5, StoredStays DEF OwnPart, PollInv, NothingAfterRequestError

(* One turn of the loop of GetDataPoints: a resource is not forgotten. *)
LEMMA FetchInv ==
    ASSUME NamesAssumption, TypeOK, PollInv, Grows, NEW p \in Polls,
           Fetch(p) \/ FetchSkips(p)
    PROVE  OwnPart(p)
<1>1. PICK path \in Resources :
        /\ path \in left[p] /\ left'[p] = left[p] \ {path}
        /\ pc'[p] = IF left[p] = {path} THEN "save" ELSE "fetch"
        /\ \/ messages'[p] = messages[p] \cup Records[path] /\ log' = log
           \/ messages'[p] = messages[p] /\ log' = LogOf(p, path)
  BY DEF Fetch, FetchSkips, Requested, TypeOK, PollerTypeOK
<1>2. /\ Handling(p) /\ Handling(p)' /\ pc[p] = "fetch"
      /\ UNCHANGED <<data, devicesOf, todo, device>>
  BY <1>1 DEF Fetch, FetchSkips, Handling
<1>3. Stored' = Stored /\ Kept
  BY <1>1, <1>2 DEF Stored, Kept, LogOf
<1>4. CurrentOK(p)
  BY <1>2 DEF PollInv, PollOK
<1>5. path # "request"
  BY DEF NamesAssumption
<1>6. CurrentOK(p)'
  <2>1. ~Logged(p, device[p], "request")'
    BY <1>1, <1>2, <1>4, <1>5 DEF CurrentOK, Logged, LogOf
  <2>2. \A record : Point(p, record)' = Point(p, record) /\ Point(p, record) \notin Stored
    BY <1>2, <1>4 DEF CurrentOK, Point
  <2>3. pc'[p] = "save" => left'[p] = {}
    BY <1>1
  <2>4. ASSUME NEW other \in Offers[device[p].Address]
        PROVE  \/ other \in left'[p]
               \/ Logged(p, device[p], other)'
               \/ \A record \in Records[other] :
                     record \in messages'[p] \/ RecordSettled(p, device[p], record)'
    <3>1. CASE other = path
      BY <1>1, <1>2, <3>1 DEF Logged, LogOf
    <3>2. CASE other # path
      <4>1. Logged(p, device[p], other) => Logged(p, device[p], other)'
        BY <1>2, <1>3 DEF Logged, Kept
      <4>2. \A record : RecordSettled(p, device[p], record)
                          => RecordSettled(p, device[p], record)'
        BY <1>2, <1>3 DEF RecordSettled, Logged, Kept
      <4>. QED
        BY <1>1, <1>2, <1>4, <3>2, <4>1, <4>2 DEF CurrentOK
    <3>. QED
      BY <3>1, <3>2
  <2>5. \A x \in Stored' : x.poll = p => x.id # device'[p].Id
    BY <1>2, <1>3, <1>4 DEF CurrentOK
  <2>. QED
    BY <1>2, <1>3, <2>1, <2>2, <2>3, <2>4, <2>5 DEF CurrentOK
<1>7. PollOK(p)'
  <2>1. \A e \in log' : e \in log \/ e.id = device[p].Id
    BY <1>1 DEF LogOf
  <2>. QED
    BY <1>2, <1>3, <1>6, <2>1, SameDevice
<1>8. NothingAfterRequestError'
  BY <1>1, <1>3, <1>5 DEF NothingAfterRequestError, LogOf, PollInv
<1>. QED
  BY <1>2, <1>7, <1>8, StoredStays DEF OwnPart, PollInv

(* InsertDataPoint: a record is taken from what is left and settled. *)
LEMMA SaveInv ==
    ASSUME NamesAssumption, TypeOK, SnapshotInv, PollInv, Grows, NEW p \in Polls, Save(p)
    PROVE  OwnPart(p)
<1>1. PICK record \in messages[p] :
        /\ messages'[p] = messages[p] \ {record}
        /\ \/ data' = [data EXCEPT ![Point(p, record)] = @ + 1] /\ log' = log
           \/ log' = LogOf(p, record) /\ data' = data
  BY DEF Save, TypeOK, PollerTypeOK
<1>2. /\ Handling(p) /\ Handling(p)' /\ pc[p] = "save" /\ pc' = pc
      /\ UNCHANGED <<devicesOf, todo, device, left, devices>>
      /\ device[p] \in Device /\ record \in RecordNames
  BY DEF Save, Handling, tableVars, TypeOK, PollerTypeOK
<1>3. record # "request"
  BY <1>2 DEF NamesAssumption
<1>4. CurrentOK(p) /\ Point(p, record) \in DataPoint /\ Point(p, record) \notin Stored
  BY <1>1, <1>2 DEF PollInv, PollOK, CurrentOK, Point, DataPoint, Device
<1>5. \/ Stored' = Stored \cup {Point(p, record)} /\ log' = log /\ data'[Point(p, record)] = 1
         /\ \A x \in Stored : data'[x] = data[x]
      \/ Stored' = Stored /\ log' = LogOf(p, record) /\ data' = data
  BY <1>1, <1>4 DEF Stored, TypeOK, PollerTypeOK
<1>6. Kept
  BY <1>5 DEF Kept, LogOf
<1>7. StoredOK'
  <2>1. device[p].Id \in DOMAIN devices /\ device[p].Address = devices[device[p].Id].Address
    BY <1>2 DEF SnapshotInv, SnapshotOf
  <2>. QED
    BY <1>2, <1>5, <2>1 DEF PollInv, StoredOK, Point
<1>8. NothingAfterRequestError'
  <2>1. [poll |-> p, id |-> device[p].Id, subject |-> "request"] \notin log
    BY <1>4 DEF CurrentOK, Logged
  <2>2. CASE Stored' = Stored \cup {Point(p, record)} /\ log' = log
    <3>1. Point(p, record).poll = p /\ Point(p, record).id = device[p].Id
      BY DEF Point
    <3>2. NothingAfterRequestError
      BY DEF PollInv
    <3>. QED
      BY <2>1, <2>2, <3>1, <3>2 DEF NothingAfterRequestError
  <2>3. CASE Stored' = Stored /\ log' = LogOf(p, record)
    BY <1>3, <2>3 DEF NothingAfterRequestError, PollInv, LogOf
  <2>. QED
    BY <1>5, <2>2, <2>3
<1>9. CurrentOK(p)'
  <2>1. ~Logged(p, device[p], "request")'
    BY <1>2, <1>3, <1>4, <1>5 DEF CurrentOK, Logged, LogOf
  <2>2. \A other \in messages'[p] : Point(p, other)' \notin Stored'
    BY <1>1, <1>2, <1>4, <1>5 DEF CurrentOK, Point
  <2>3. RecordSettled(p, device[p], record)'
    BY <1>2, <1>5 DEF RecordSettled, Logged, LogOf, Point
  <2>4. \A s : Logged(p, device[p], s) => Logged(p, device[p], s)'
    BY <1>2, <1>6 DEF Logged, Kept
  <2>5. \A other : RecordSettled(p, device[p], other) => RecordSettled(p, device[p], other)'
    BY <1>2, <1>6, <2>4 DEF RecordSettled, Kept
  <2>. QED
    BY <1>1, <1>2, <1>4, <2>1, <2>2, <2>3, <2>4, <2>5 DEF CurrentOK
<1>10. PollOK(p)'
  <2>1. /\ \A x \in Stored' : x \in Stored \/ x.id = device[p].Id
        /\ \A e \in log' : e \in log \/ e.id = device[p].Id
    BY <1>5 DEF LogOf, Point
  <2>. QED
    BY <1>2, <1>6, <1>9, <2>1, SameDevice
<1>. QED
  BY <1>7, <1>8, <1>10 DEF OwnPart

(* Every step of a poll keeps PollInv. *)
LEMMA PollStepInv ==
    ASSUME NamesAssumption, TypeOK, SnapshotInv, PollInv, NEW p \in Polls, PollStep(p)
    PROVE  PollInv'
<1>1. Grows
  BY PollerGrows
<1>2. OthersOK(p)
  BY StepKeepsOthers DEF PollInv
<1>3. CASE ListFails(p)
  <2>1. /\ pc'[p] = "done" /\ devicesOf'[p] = {} /\ data' = data /\ log' = log
    BY <1>3 DEF ListFails, PollInv, PollOK, TypeOK, PollerTypeOK
  <2>2. PollOK(p)'
    BY <2>1 DEF PollOK, ListCovered, Handling
  <2>. QED
    BY <1>1, <1>2, <2>1, <2>2, StoredStays
    DEF PollInv, OthersOK, NothingAfterRequestError, Stored
<1>4. CASE ~ListFails(p)
  <2>1. OwnPart(p)
    BY <1>1, <1>4, ListInv, RequestFailsInv, SaveEndsInv, DiscoverInv, FetchInv, SaveInv
    DEF PollStep
  <2>. QED
    BY <1>2, <2>1 DEF PollInv, OthersOK, OwnPart
<1>. QED
  BY <1>3, <1>4

(* Nothing is stored or logged outside of the polls' steps. *)
LEMMA OutsideInv ==
    ASSUME TypeOK, PollInv,
           \/ ListenerNext /\ UNCHANGED pollVars
           \/ \E p \in Polls : Tick(p)
           \/ Restart
           \/ UNCHANGED vars
    PROVE  PollInv'
<1>1. UNCHANGED <<data, log, devicesOf>> /\ Stored' = Stored /\ Grows
  <2>1. UNCHANGED <<data, log, devicesOf, updates>>
    BY DEF pollVars, Tick, Restart, vars
  <2>2. (ListenerNext /\ UNCHANGED pollVars) \/ UNCHANGED devices
    BY DEF Tick, Restart, vars, tableVars
  <2>3. UNCHANGED devices => Grows
    BY <2>1 DEF Grows, TypeOK, PollerTypeOK
  <2>4. Stored' = Stored
    BY <2>1 DEF Stored
  <2>. QED
    BY <2>1, <2>2, <2>3, <2>4, ListenerGrows
<1>2. ASSUME NEW q \in Polls PROVE PollOK(q)'
  <2>0. PollOK(q) /\ NothingFor(q)
    BY <1>1, <1>2 DEF PollInv, NothingFor
  <2>1. CASE UNCHANGED pollVars \/ UNCHANGED vars
    BY <1>2, <2>0, <2>1, OtherPoll DEF pollVars, vars
  <2>2. CASE Restart
    <3>1. \A i : Untouched(q, i)' <=> Untouched(q, i)
      BY <1>1 DEF Untouched
    <3>2. \A d : Settled(q, d) => Settled(q, d)'
      BY <1>1, SettledStays DEF Kept
    <3>3. ~Handling(q)' /\ (pc'[q] = pc[q] \/ pc'[q] = "killed")
          /\ (pc[q] = "list" => pc'[q] = "killed")
          /\ (Handling(q) => pc'[q] = "killed")
      BY <2>2 DEF Restart, Handling, IsRunning, Running, TypeOK, PollerTypeOK
    <3>4. pc'[q] # "killed" => ListCovered(q)'
      BY <1>1, <2>0, <3>2, <3>3 DEF PollOK, ListCovered
    <3>. QED
      BY <1>1, <2>0, <3>1, <3>3, <3>4 DEF PollOK
  <2>3. ASSUME NEW p \in Polls, Tick(p) PROVE PollOK(q)'
    <3>1. CASE p # q
      BY <1>2, <2>0, <2>3, <3>1, OtherPoll DEF Tick, TypeOK, PollerTypeOK
    <3>2. CASE p = q
      <4>1. pc[q] = "unborn" /\ pc'[q] = "list" /\ ~Handling(q)'
        BY <2>3, <3>2 DEF Tick, Handling, TypeOK, PollerTypeOK
      <4>2. devicesOf'[q] = {} /\ \A i \in Ids : Untouched(q, i)'
        BY <1>1, <2>0, <4>1 DEF PollOK, Untouched
      <4>. QED
        BY <4>1, <4>2 DEF PollOK, ListCovered
    <3>. QED
      BY <3>1, <3>2
  <2>. QED
    BY <2>1, <2>2, <2>3
<1>. QED
  BY <1>1, <1>2, StoredStays DEF PollInv, NothingAfterRequestError

(* What a poll has listed it has settled, has in hand or has still to visit. *)
THEOREM PollsKeepAccount == Spec => []PollInv
<1>1. Init => PollInv
  <2>. SUFFICES ASSUME Init PROVE PollInv
    OBVIOUS
  <2>1. Stored = {} /\ log = {}
    BY DEF Init, PollerInit, Stored
  <2>2. \A p \in Polls : pc[p] = "unborn" /\ devicesOf[p] = {}
    BY DEF Init, PollerInit
  <2>. QED
    BY <2>1, <2>2 DEF PollInv, StoredOK, NothingAfterRequestError, PollOK, Untouched,
       Handling, ListCovered
<1>2. TypeOK /\ SnapshotInv /\ PollInv /\ [Next]_vars => PollInv'
  <2>. SUFFICES ASSUME TypeOK, SnapshotInv, PollInv, [Next]_vars PROVE PollInv'
    OBVIOUS
  <2>. QED
    BY PollStepInv, OutsideInv, NamesAssumption DEF Next, PollerNext
<1>. QED
  BY <1>1, <1>2, TypeCorrect, SnapshotsCurrent, PTL DEF Spec

(* GetDataPoints returns nil at the first failed request: in no             *)
(* interleaving of polls, kills and restarts is a record stored of a       *)
(* device for which the same poll logged a failed request.                 *)
THEOREM NothingAfterRequestErrorHolds == Spec => []NothingAfterRequestError
<1>1. PollInv => NothingAfterRequestError
  BY DEF PollInv
<1>. QED
  BY <1>1, PollsKeepAccount, PTL

(* pollRegisteredDevices accounts for every record of every board on its    *)
(* list when it ends, for any boards, resources, records and failures.     *)
THEOREM AccountedHolds == Spec => []Accounted
<1>1. PollInv => Accounted
  BY DEF PollInv, PollOK, ListCovered, Handling, Accounted
<1>. QED
  BY <1>1, PollsKeepAccount, PTL

(* If result sets are read to the end, and so no board is in two rows, one  *)
(* poll stores a record of a board at most once.                           *)
THEOREM OnePointPerPollHolds ==
    ASSUME ReadFaults = FALSE
    PROVE  Spec => []OnePointPerPoll
<1>1. PollInv /\ UniqueAddress => OnePointPerPoll
  <2>. SUFFICES ASSUME PollInv, UniqueAddress PROVE OnePointPerPoll
    OBVIOUS
  <2>1. ASSUME NEW x \in Stored, NEW y \in Stored,
               x.poll = y.poll, x.Device = y.Device, x.record = y.record
        PROVE  x = y
    <3>1. x.id = y.id
      BY <2>1 DEF PollInv, StoredOK, UniqueAddress
    <3>. QED
      BY <2>1, <3>1 DEF Stored, DataPoint
  <2>. QED
    BY <2>1 DEF OnePointPerPoll, PollInv, StoredOK
<1>. QED
  BY <1>1, PollsKeepAccount, UniqueAddressHolds, PTL

=============================================================================
