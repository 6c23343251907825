------------------------------ MODULE Listener ------------------------------
(***************************************************************************)
(* The goroutine that listens for announcements: the loop of               *)
(* listenToLinkLocalMulticast with handleRequest and db.RegisterDevice     *)
(* (SenPi/riot/riot_server.go, SenPi/db/db_device.go).                     *)
(*                                                                         *)
(* A datagram is abstracted to what HasPrefix can tell of it: position k   *)
(* is TRUE iff its k-th byte is the k-th byte of the application id        *)
(* "riot-swp-2017-se".  The loop reads every datagram into the same buffer *)
(* and hands the whole buffer on, so the bytes behind a short datagram are *)
(* those of earlier ones.                                                  *)
(***************************************************************************)
EXTENDS DeviceTable, Sequences

CONSTANTS
    AppIdLen,    \* length of the application id
    Payloads,    \* the datagrams hosts send to the port, each a Seq(BOOLEAN)
    NoAddress    \* no datagram is being handled

ASSUME ListenerAssumption ==
    /\ AppIdLen \in Nat \ {0}
    /\ Payloads \subseteq Seq(BOOLEAN)
    /\ NoAddress \notin Addresses

VARIABLES
    buffer,      \* the first AppIdLen bytes of the receive buffer
    listener,    \* [pc, address]: where RegisterDevice stands, and for whom
    announced    \* history: hosts that sent a datagram starting with the id

listenVars == <<buffer, listener, announced>>

Positions == 1..AppIdLen

Idle == [pc |-> "receive", address |-> NoAddress]

ListenerTypeOK ==
    /\ buffer \in [Positions -> BOOLEAN]
    /\ listener \in [pc : {"receive", "select", "insert"},
                     address : Addresses \cup {NoAddress}]
    /\ (listener.pc = "receive") <=> (listener.address = NoAddress)
    /\ announced \subseteq Addresses

ListenerInit ==
    /\ buffer = [k \in Positions |-> FALSE]   \* make([]byte, 1024) is zeroed
    /\ listener = Idle
    /\ announced = {}

(* conn.ReadFromUDP(buffer[0:]): the datagram lands at the front *)
Overwritten(payload) ==
    [k \in Positions |-> IF k <= Len(payload) THEN payload[k] ELSE buffer[k]]

(* Mutant: only the first byte is compared. *)
HasPrefix_FirstByte(bytes) == bytes[1]

(* strings.HasPrefix(string(response[:]), "riot-swp-2017-se") *)
HasPrefix(bytes) == \A k \in Positions : bytes[k]

(* The datagram by itself is an announcement. *)
IsAnnouncement(payload) ==
    Len(payload) >= AppIdLen /\ \A k \in Positions : payload[k]

Receive(address, payload) ==
    /\ listener.pc = "receive"
    /\ buffer' = Overwritten(payload)
    /\ listener' = IF HasPrefix(buffer')
                   THEN [pc |-> "select", address |-> address]
                   ELSE Idle
    /\ announced' = IF IsAnnouncement(payload)
                    THEN announced \cup {address}
                    ELSE announced
    /\ UNCHANGED tableVars

(* Mutant: an error of handleRequest ends the loop (break for continue). *)
RegisterFails_Breaks ==
    /\ listener.pc \in {"select", "insert"}
    /\ listener' = [pc |-> "stopped", address |-> NoAddress]
    /\ UNCHANGED <<buffer, announced, tableVars>>

(* RegisterDevice returns early: no connection, a failed statement *)
RegisterFails ==
    /\ listener.pc \in {"select", "insert"}
    /\ listener' = Idle
    /\ UNCHANGED <<buffer, announced, tableVars>>

(* rows.Next(): "Already in database" *)
SelectFinds ==
    /\ listener.pc = "select"
    /\ IsRegistered(listener.address)
    /\ listener' = Idle
    /\ UNCHANGED <<buffer, announced, tableVars>>

(* Mutant: the result of the SELECT is not looked at. *)
SelectFindsNothing_Unchecked ==
    /\ listener.pc = "select"
    /\ listener' = [listener EXCEPT !.pc = "insert"]
    /\ UNCHANGED <<buffer, announced, tableVars>>

(* rows.Next() is false, which is also what it returns when reading the     *)
(* result set failed: the caller never asks rows.Err().                     *)
SelectFindsNothing ==
    /\ listener.pc = "select"
    /\ ~IsRegistered(listener.address) \/ ReadFaults
    /\ listener' = [listener EXCEPT !.pc = "insert"]
    /\ UNCHANGED <<buffer, announced, tableVars>>

Insert ==
    /\ listener.pc = "insert"
    /\ InsertRow(listener.address)
    /\ listener' = Idle
    /\ UNCHANGED <<buffer, announced>>

Register == RegisterFails \/ SelectFinds \/ SelectFindsNothing \/ Insert

ListenerNext ==
    \/ \E address \in Addresses, payload \in Payloads : Receive(address, payload)
    \/ Register

=============================================================================
