-------------------------------- MODULE SenPi --------------------------------
(***************************************************************************)
(* The running server: the listening goroutine and the polling goroutines  *)
(* over one device table, and the death and restart of the process, which  *)
(* only the database survives.                                             *)
(***************************************************************************)
EXTENDS Listener, Poller

vars == <<tableVars, listenVars, pollVars>>

Init == TableInit /\ ListenerInit /\ PollerInit

(* The process ends at any point (main returns into os.Exit, the init       *)
(* script kills it) and is started again.                                  *)
Restart ==
    /\ buffer' = [k \in Positions |-> FALSE]
    /\ listener' = Idle
    /\ pc' = [p \in Polls |-> IF IsRunning(p) THEN "killed" ELSE pc[p]]
    /\ todo' = [p \in Polls |-> {}]
    /\ device' = [p \in Polls |-> NoDevice]
    /\ left' = [p \in Polls |-> {}]
    /\ messages' = [p \in Polls |-> {}]
    /\ UNCHANGED <<tableVars, announced, devicesOf, data, log, updates, overlapped>>

Next ==
    \/ ListenerNext /\ UNCHANGED pollVars
    \/ PollerNext /\ UNCHANGED listenVars
    \/ Restart

(* The Go scheduler runs every goroutine that can run, and every CoAP       *)
(* request and database statement ends with an answer or an error, so a    *)
(* poll that has begun keeps stepping.                                     *)
Fairness == \A p \in Polls : WF_vars(PollStep(p) /\ UNCHANGED listenVars)

Spec == Init /\ [][Next]_vars
FairSpec == Spec /\ Fairness

-----------------------------------------------------------------------------
(* The one type invariant. *)
TypeOK == TableTypeOK /\ ListenerTypeOK /\ PollerTypeOK

(* RegisterDevice: a check and an insert, two statements in no transaction, *)
(* on a table without a unique key, across polls that rewrite whole rows   *)
(* and across restarts, never leave one address in two rows.               *)
UniqueAddress ==
    \A i, j \in DOMAIN devices : devices[i].Address = devices[j].Address => i = j

(* handleRequest: a host is registered only if it sent an announcement      *)
(* itself, although every datagram is read into the same buffer.           *)
OnlyAnnounced == RegisteredAddresses \subseteq announced

(* GetDataPointsFromDevice counts on a copy of the row: whatever the polls' *)
(* interleaving, a counter never exceeds the number of failures written.   *)
NeverOvercounted ==
    \A i \in DOMAIN devices : devices[i].FailedAttempts <= updates[i]

(* As long as no poll was started over another one, FailedAttempts is the   *)
(* number of failures written.                                             *)
ExactCount ==
    ~overlapped => \A i \in DOMAIN devices : devices[i].FailedAttempts = updates[i]

Stored == {x \in DataPoint : data[x] > 0}

(* pollRegisteredDevices: one poll stores a record of a board at most once. *)
OnePointPerPoll ==
    /\ \A x \in Stored : data[x] = 1
    /\ \A x, y \in Stored :
        (x.poll = y.poll /\ x.Device = y.Device /\ x.record = y.record) => x = y

Logged(p, d, subject) == [poll |-> p, id |-> d.Id, subject |-> subject] \in log

(* GetDataPoints gives up a device at the first failed request: what it had *)
(* collected is not stored.                                                *)
NothingAfterRequestError ==
    \A x \in Stored : [poll |-> x.poll, id |-> x.id, subject |-> "request"] \notin log

(* What became of a record: it is stored, or its insert failed. *)
RecordSettled(p, d, record) ==
    \/ Logged(p, d, record)
    \/ [poll |-> p, id |-> d.Id, Device |-> d.Address, record |-> record] \in Stored

(* What became of a device: a request to it failed, or each of its resources *)
(* was unreadable or had its records settled.                              *)
Settled(p, d) ==
    \/ Logged(p, d, "request")
    \/ \A path \in Offers[d.Address] :
          \/ Logged(p, d, path)
          \/ \A record \in Records[path] : RecordSettled(p, d, record)

(* pollRegisteredDevices and its callees: when a poll has ended, every      *)
(* record a listed board offers is stored, or a line was logged for what   *)
(* it was lost with: its insert, its resource or a request to its board.   *)
(* (There is a line for each loss; whose it is, its text need not tell.)   *)
Accounted ==
    \A p \in Polls : pc[p] = "done" => \A d \in devicesOf[p] : Settled(p, d)

(* StartScheduledPolling: a poll that was started comes to an end. *)
EveryPollEnds ==
    \A p \in Polls : (pc[p] = "list") ~> (pc[p] \in {"done", "killed"})

(* The register of boards that the table implements. *)
R == INSTANCE Registry WITH
       Hosts <- Addresses,
       EntryIds <- Ids,
       entries <- {[id |-> i, address |-> devices[i].Address] : i \in DOMAIN devices},
       candidates <- announced

IsRegister == R!Spec

-----------------------------------------------------------------------------
(* What makes the invariants above inductive (SenPiProofs). *)

Handling(p) == pc[p] \in {"discover", "update", "fetch", "save"}

(* How far the copy in hand is ahead of the row it was read from. *)
Ahead(p) == IF pc[p] = "update" THEN 1 ELSE 0

(* A Device in a poll's hands is a row that still exists under the same     *)
(* address, and its counter is not ahead of the failures written.          *)
SnapshotOf(d, ahead) ==
    /\ d.Id \in DOMAIN devices
    /\ d.Address = devices[d.Id].Address
    /\ d.FailedAttempts <= updates[d.Id] + ahead

SnapshotInv ==
    /\ NeverOvercounted
    /\ \A p \in Polls :
         /\ \A d \in todo[p] : SnapshotOf(d, 0)
         /\ Handling(p) => SnapshotOf(device[p], Ahead(p))

(* Between the SELECT that found nothing and the INSERT nobody else can     *)
(* enter the address, since registration happens in one goroutine only.    *)
UniqueInv ==
    /\ UniqueAddress
    /\ listener.pc = "insert" => ~IsRegistered(listener.address)

(* Who is being registered has announced itself. *)
AnnouncedInv ==
    /\ OnlyAnnounced
    /\ listener.pc # "receive" => listener.address \in announced

(* With one poll at a time its copies are current, and of distinct rows. *)
ExactInv ==
    /\ \A i \in Ids \ DOMAIN devices : updates[i] = 0
    /\ ExactCount
    /\ ~overlapped =>
         /\ \A p, q \in Polls : IsRunning(p) /\ IsRunning(q) => p = q
         /\ \A p \in Polls : Handling(p) =>
              /\ device[p].FailedAttempts = updates[device[p].Id] + Ahead(p)
              /\ \A d \in todo[p] : /\ d.FailedAttempts = updates[d.Id]
                                    /\ d.Id # device[p].Id
              /\ \A d, e \in todo[p] : d.Id = e.Id => d = e

(* Nothing of this poll is stored or logged for a row. *)
Untouched(p, id) ==
    /\ \A x \in Stored : x.poll = p => x.id # id
    /\ \A e \in log : e.poll = p => e.id # id

(* What a poll has still to visit are distinct rows it has not touched. *)
ListOK(p) ==
    /\ \A d \in todo[p] : Untouched(p, d.Id) /\ d.Id # device[p].Id
    /\ \A d, e \in todo[p] : d.Id = e.Id => d = e

(* What a poll has stored and logged of the device in hand: nothing before   *)
(* all of its resources were asked, no failed request, no record it still  *)
(* has to save, and nothing has got lost so far.                           *)
CurrentOK(p) ==
    /\ ~Logged(p, device[p], "request")
    /\ pc[p] # "save" => \A x \in Stored : x.poll = p => x.id # device[p].Id
    /\ \A record \in messages[p] : Point(p, record) \notin Stored
    /\ pc[p] = "save" => left[p] = {}
    /\ pc[p] \in {"fetch", "save"} =>
         \A path \in Offers[device[p].Address] :
            \/ path \in left[p]
            \/ Logged(p, device[p], path)
            \/ \A record \in Records[path] :
                  record \in messages[p] \/ RecordSettled(p, device[p], record)

(* Each listed device is still to come, in hand or settled. *)
ListCovered(p) ==
    \A d \in devicesOf[p] :
        \/ Handling(p) /\ d \in todo[p]
        \/ Handling(p) /\ d.Id = device[p].Id /\ d.Address = device[p].Address
        \/ Settled(p, d)

PollOK(p) ==
    /\ pc[p] \in {"unborn", "list"} => devicesOf[p] = {} /\ \A i \in Ids : Untouched(p, i)
    /\ Handling(p) => ListOK(p) /\ CurrentOK(p)
    /\ pc[p] # "killed" => ListCovered(p)

(* A stored record is there once, under the row and the address of its board. *)
StoredOK ==
    \A x \in Stored : /\ data[x] = 1
                      /\ x.id \in DOMAIN devices
                      /\ x.Device = devices[x.id].Address

(* Between its list and its end a poll holds all that it has not settled. *)
PollInv ==
    /\ StoredOK
    /\ NothingAfterRequestError
    /\ \A p \in Polls : PollOK(p)

=============================================================================
