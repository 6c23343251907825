---------------------------- MODULE DeviceTable ----------------------------
(***************************************************************************)
(* The table of registered boards that the SenPi server keeps in MySQL     *)
(* (SenPi/db/db.go creates it, SenPi/db/db_device.go reads and writes it). *)
(* A row is [Address, FailedAttempts] under its AUTO_INCREMENT primary     *)
(* key.  Nothing but the primary key is unique: the table itself accepts   *)
(* the same Address twice.                                                 *)
(*                                                                         *)
(* Every statement is one auto-committed request to the database, so it is *)
(* one step; two statements of one function are two steps.                 *)
(***************************************************************************)
EXTENDS Integers, FiniteSets

CONSTANTS
    Addresses,   \* link-local addresses of the hosts on the radio link
    MaxRows,     \* the last id AUTO_INCREMENT can hand out (an INT column)
    ReadFaults   \* TRUE: a result set may break off while it is being read

ASSUME TableAssumption == MaxRows \in Nat /\ ReadFaults \in BOOLEAN

VARIABLES
    devices,     \* the rows, a function from the ids in use
    lastId       \* the id AUTO_INCREMENT gave last

tableVars == <<devices, lastId>>

Ids == 1..MaxRows

Row == [Address : Addresses, FailedAttempts : Nat]

(* A Device of db_device.go: a row together with its id. *)
Device == [Id : Ids, Address : Addresses, FailedAttempts : Nat]

TableTypeOK ==
    /\ lastId \in 0..MaxRows
    /\ devices \in [1..lastId -> Row]

TableInit ==
    /\ devices = [i \in 1..0 |-> <<>>]
    /\ lastId = 0

RegisteredAddresses == {devices[i].Address : i \in DOMAIN devices}

(* SELECT ID FROM devices WHERE Address=? *)
IsRegistered(address) == address \in RegisteredAddresses

(* Mutant: the nullable counter is scanned but never assigned. *)
Rows_NoCounter ==
    {[Id |-> i, Address |-> devices[i].Address, FailedAttempts |-> 0] : i \in DOMAIN devices}

(* SELECT * FROM devices, each row scanned into a Device *)
Rows == {[Id |-> i,
          Address |-> devices[i].Address,
          FailedAttempts |-> devices[i].FailedAttempts] : i \in DOMAIN devices}

(* Mutant: an id is given out without being counted. *)
InsertRow_NotCounted(address) ==
    /\ lastId < MaxRows
    /\ UNCHANGED lastId
    /\ devices' = [i \in 1..(lastId + 1) |->
                     IF i \in DOMAIN devices
                     THEN devices[i]
                     ELSE [Address |-> address, FailedAttempts |-> 0]]

(* INSERT devices SET Address=?  (FailedAttempts has DEFAULT 0) *)
InsertRow(address) ==
    /\ lastId < MaxRows
    /\ lastId' = lastId + 1
    /\ devices' = [i \in 1..(lastId + 1) |->
                     IF i \in DOMAIN devices
                     THEN devices[i]
                     ELSE [Address |-> address, FailedAttempts |-> 0]]

(* Mutant: the statement adds the counter of the copy to that of the row. *)
UpdateRow_Adds(device) ==
    /\ devices' = [i \in DOMAIN devices |->
                     IF i = device.Id
                     THEN [Address |-> device.Address,
                           FailedAttempts |-> devices[i].FailedAttempts + device.FailedAttempts]
                     ELSE devices[i]]
    /\ UNCHANGED lastId

(* Mutant: the statement lost its WHERE clause. *)
UpdateRow_EveryRow(device) ==
    /\ devices' = [i \in DOMAIN devices |->
                     [Address |-> device.Address,
                      FailedAttempts |-> device.FailedAttempts]]
    /\ UNCHANGED lastId

(* UPDATE devices SET Address=?,FailedAttempts=? WHERE Id=? : the whole row *)
(* is written from the caller's copy; no row has the id, nothing happens.   *)
UpdateRow(device) ==
    /\ devices' = [i \in DOMAIN devices |->
                     IF i = device.Id
                     THEN [Address |-> device.Address,
                           FailedAttempts |-> device.FailedAttempts]
                     ELSE devices[i]]
    /\ UNCHANGED lastId

=============================================================================
