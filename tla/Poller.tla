------------------------------- MODULE Poller -------------------------------
(***************************************************************************)
(* The polls: every tick of the scheduler starts a goroutine that runs     *)
(* pollRegisteredDevices once (SenPi/riot/riot_server.go), with            *)
(* GetDataPointsFromDevice and GetDataPoints (SenPi/riot/riot_client.go),  *)
(* Device.Update (db_device.go) and InsertDataPoint (db_datapoint.go).     *)
(* The scheduler does not wait for a poll, so polls may overlap.           *)
(*                                                                         *)
(* A CoAP exchange is one step that succeeds or fails: every request dials *)
(* a socket of its own, so an answer cannot reach another request.  A      *)
(* resource's SenML message is the set of its records; records that have   *)
(* the same name in two messages are two records here.                     *)
(***************************************************************************)
EXTENDS DeviceTable

CONSTANTS
    Polls,        \* one element for each tick of the run
    Resources,    \* resource paths
    RecordNames,  \* SenML records
    Offers,       \* the resources a host lists at /.well-known/core
    Records,      \* the records in the message of a resource
    NoDevice      \* the poll handles no device

ASSUME PollerAssumption ==
    /\ Offers \in [Addresses -> SUBSET Resources]
    /\ Records \in [Resources -> SUBSET RecordNames]
    /\ NoDevice \notin Device

(* A record belongs to one resource, and the tags of a logged line tell a    *)
(* record, a resource and a request apart.                                 *)
ASSUME NamesAssumption ==
    /\ \A path, other \in Resources :
         path # other => Records[path] \cap Records[other] = {}
    /\ Resources \cap RecordNames = {}
    /\ "request" \notin Resources \cup RecordNames

VARIABLES
    pc,          \* where each poll stands
    devicesOf,   \* pollRegisteredDevices: devices, the list as it was read
    todo,        \* the part of the list the loop has not reached
    device,      \* the loop variable (with FailedAttempts++ applied)
    left,        \* deviceResources not requested yet
    messages,    \* records of the messages collected / still to be saved
    data,        \* the datapoint table: how many rows there are of each kind
    log,         \* lines logged, each with a history of what was given up
    updates,     \* history: successful failed-attempt updates of each id
    overlapped   \* history: a poll was started while another one was running

pollVars == <<pc, devicesOf, todo, device, left, messages,
              data, log, updates, overlapped>>

Running == {"list", "discover", "update", "fetch", "save"}
PollState == Running \cup {"unborn", "done", "killed"}

(* poll and id say which insert made a row. *)
DataPoint == [poll : Polls, id : Ids, Device : Addresses, record : RecordNames]
(* The tags of a line in the log say what it is about.  They are history:    *)
(* riot_client.go:79 and :84 and riot_server.go:90 and :99 log the text of *)
(* the error and add neither device nor resource, so a reader of the log   *)
(* learns that something was given up, and seldom what.                    *)
LogEntry  == [poll : Polls, id : Ids, subject : Resources \cup RecordNames \cup {"request"}]

PollerTypeOK ==
    /\ pc \in [Polls -> PollState]
    /\ devicesOf \in [Polls -> SUBSET Device]
    /\ todo \in [Polls -> SUBSET Device]
    /\ device \in [Polls -> Device \cup {NoDevice}]
    /\ \A p \in Polls : pc[p] \in {"discover", "update", "fetch", "save"} => device[p] \in Device
    /\ left \in [Polls -> SUBSET Resources]
    /\ messages \in [Polls -> SUBSET RecordNames]
    /\ data \in [DataPoint -> Nat]
    /\ log \subseteq LogEntry
    /\ updates \in [Ids -> Nat]
    /\ overlapped \in BOOLEAN

PollerInit ==
    /\ pc = [p \in Polls |-> "unborn"]
    /\ devicesOf = [p \in Polls |-> {}]
    /\ todo = [p \in Polls |-> {}]
    /\ device = [p \in Polls |-> NoDevice]
    /\ left = [p \in Polls |-> {}]
    /\ messages = [p \in Polls |-> {}]
    /\ data = [x \in DataPoint |-> 0]
    /\ log = {}
    /\ updates = [i \in Ids |-> 0]
    /\ overlapped = FALSE

IsRunning(p) == pc[p] \in Running

(* The row that saving a record of the current device inserts *)
Point(p, record) ==
    [poll |-> p, id |-> device[p].Id, Device |-> device[p].Address, record |-> record]

(* A line is logged about a record, a resource or a request of the device    *)
(* in hand.                                                                *)
LogOf(p, subject) == log \cup {[poll |-> p, id |-> device[p].Id, subject |-> subject]}

(* go pollRegisteredDevices(configuration) *)
Tick(p) ==
    /\ pc[p] = "unborn"
    /\ pc' = [pc EXCEPT ![p] = "list"]
    /\ overlapped' = (overlapped \/ \E q \in Polls : IsRunning(q))
    /\ UNCHANGED <<devicesOf, todo, device, left, messages, data, log, updates, tableVars>>

(* The next device of the list, or the end of the loop; nothing of the     *)
(* previous device's requests is kept.                                     *)
NextDevice(p, rest) ==
    /\ left' = [left EXCEPT ![p] = {}]
    /\ messages' = [messages EXCEPT ![p] = {}]
    /\ \/ /\ rest = {}
          /\ pc' = [pc EXCEPT ![p] = "done"]
          /\ device' = [device EXCEPT ![p] = NoDevice]
          /\ todo' = [todo EXCEPT ![p] = {}]
       \/ \E d \in rest :
          /\ pc' = [pc EXCEPT ![p] = "discover"]
          /\ device' = [device EXCEPT ![p] = d]
          /\ todo' = [todo EXCEPT ![p] = rest \ {d}]

(* db.GetRegisteredDevices: the rows, of which reading may break off after  *)
(* any number without an error.                                             *)
List(p) ==
    /\ pc[p] = "list"
    /\ \E rows \in IF ReadFaults THEN SUBSET Rows ELSE {Rows} :
         /\ devicesOf' = [devicesOf EXCEPT ![p] = rows]
         /\ NextDevice(p, rows)
    /\ UNCHANGED <<data, log, updates, overlapped, tableVars>>

(* GetRegisteredDevices returns an error *)
ListFails(p) ==
    /\ pc[p] = "list"
    /\ pc' = [pc EXCEPT ![p] = "done"]
    /\ UNCHANGED <<devicesOf, todo, device, left, messages, data, log, updates,
                   overlapped, tableVars>>

(* GetCoAPResources answers with a non-empty payload *)
Discover(p) ==
    /\ pc[p] = "discover"
    /\ Offers[device[p].Address] # {}
    /\ pc' = [pc EXCEPT ![p] = "fetch"]
    /\ left' = [left EXCEPT ![p] = Offers[device[p].Address]]
    /\ UNCHANGED <<devicesOf, todo, device, messages, data, log, updates,
                   overlapped, tableVars>>

(* GetCoAPResources fails: device.FailedAttempts++ on the copy *)
DiscoverFails(p) ==
    /\ pc[p] = "discover"
    /\ pc' = [pc EXCEPT ![p] = "update"]
    /\ device' = [device EXCEPT ![p].FailedAttempts = @ + 1]
    /\ UNCHANGED <<devicesOf, todo, left, messages, data, log, updates,
                   overlapped, tableVars>>

(* device.Update() writes the copy back; the error is logged either way *)
Update(p) ==
    /\ pc[p] = "update"
    /\ UpdateRow(device[p])
    /\ updates' = [updates EXCEPT ![device[p].Id] = @ + 1]
    /\ log' = LogOf(p, "request")
    /\ NextDevice(p, todo[p])
    /\ UNCHANGED <<devicesOf, data, overlapped>>

(* device.Update() fails and only leaves a line in the log *)
UpdateFails(p) ==
    /\ pc[p] = "update"
    /\ log' = LogOf(p, "request")
    /\ NextDevice(p, todo[p])
    /\ UNCHANGED <<devicesOf, data, updates, overlapped, tableVars>>

(* The loop of GetDataPoints leaves path behind; after the last one the     *)
(* collected records are saved.                                            *)
Requested(p, path) ==
    /\ path \in left[p]
    /\ left' = [left EXCEPT ![p] = @ \ {path}]
    /\ pc' = [pc EXCEPT ![p] = IF left[p] = {path} THEN "save" ELSE "fetch"]

(* One resource answers with SenML that decodes and resolves *)
Fetch(p) ==
    /\ pc[p] = "fetch"
    /\ \E path \in Resources :
         /\ Requested(p, path)
         /\ messages' = [messages EXCEPT ![p] = @ \cup Records[path]]
    /\ UNCHANGED <<devicesOf, todo, device, data, log, updates, overlapped, tableVars>>

(* Mutant: break instead of continue. *)
FetchSkips_Breaks(p) ==
    /\ pc[p] = "fetch"
    /\ \E path \in left[p] : log' = LogOf(p, path)
    /\ left' = [left EXCEPT ![p] = {}]
    /\ pc' = [pc EXCEPT ![p] = "save"]
    /\ UNCHANGED <<devicesOf, todo, device, messages, data, updates, overlapped, tableVars>>

(* Mutant: an unreadable answer starts the device over. *)
FetchSkips_StartsOver(p) ==
    /\ pc[p] = "fetch"
    /\ \E path \in left[p] : log' = LogOf(p, path)
    /\ pc' = [pc EXCEPT ![p] = "discover"]
    /\ left' = [left EXCEPT ![p] = {}]
    /\ messages' = [messages EXCEPT ![p] = {}]
    /\ UNCHANGED <<devicesOf, todo, device, data, updates, overlapped, tableVars>>

(* One resource answers with something else: logged and skipped *)
FetchSkips(p) ==
    /\ pc[p] = "fetch"
    /\ \E path \in Resources :
         /\ Requested(p, path)
         /\ log' = LogOf(p, path)
    /\ UNCHANGED <<devicesOf, todo, device, messages, data, updates, overlapped, tableVars>>

(* Mutant: a failed request ends the loop, what was collected is returned. *)
FetchFails_KeepsMessages(p) ==
    /\ pc[p] = "fetch"
    /\ log' = LogOf(p, "request")
    /\ left' = [left EXCEPT ![p] = {}]
    /\ pc' = [pc EXCEPT ![p] = "save"]
    /\ UNCHANGED <<devicesOf, todo, device, messages, data, updates, overlapped, tableVars>>

(* One request fails: GetDataPoints returns nil, whatever was collected,    *)
(* and FailedAttempts is not touched.                                       *)
FetchFails(p) ==
    /\ pc[p] = "fetch"
    /\ log' = LogOf(p, "request")
    /\ NextDevice(p, todo[p])
    /\ UNCHANGED <<devicesOf, data, updates, overlapped, tableVars>>

(* db.InsertDataPoint(dataPoint, device) inserts, or fails and is logged *)
Save(p) ==
    /\ pc[p] = "save"
    /\ \E record \in messages[p] :
         /\ messages' = [messages EXCEPT ![p] = @ \ {record}]
         /\ \/ /\ data' = [data EXCEPT ![Point(p, record)] = @ + 1]
               /\ UNCHANGED log
            \/ /\ log' = LogOf(p, record)
               /\ UNCHANGED data
    /\ UNCHANGED <<pc, devicesOf, todo, device, left, updates, overlapped, tableVars>>

SaveEnds(p) ==
    /\ pc[p] = "save"
    /\ messages[p] = {}
    /\ NextDevice(p, todo[p])
    /\ UNCHANGED <<devicesOf, data, log, updates, overlapped, tableVars>>

PollStep(p) ==
    \/ List(p)     \/ ListFails(p)
    \/ Discover(p) \/ DiscoverFails(p)
    \/ Update(p)   \/ UpdateFails(p)
    \/ Fetch(p)    \/ FetchSkips(p) \/ FetchFails(p)
    \/ Save(p)     \/ SaveEnds(p)

PollerNext == \E p \in Polls : Tick(p) \/ PollStep(p)

=============================================================================
