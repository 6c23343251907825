------------------------------- MODULE Emulator -------------------------------
(***************************************************************************)
(* The server emulator (server-emulator/main.c): a thread that enters the  *)
(* boards it hears from into the array boards, and the interrupt handler   *)
(* of the button, which sends a request to every board of the array.  The  *)
(* interrupt may come between any two steps of the thread, and nothing     *)
(* guards the array.                                                       *)
(*                                                                         *)
(* Datagrams are abstracted as in Listener: a Seq(BOOLEAN) that says which *)
(* bytes agree with the application id.                                    *)
(***************************************************************************)
EXTENDS Integers, Sequences

CONSTANTS
    Hosts,          \* the hosts on the link
    MAX_BOARD_NUM,  \* length of the array
    AppIdLen,       \* length of the application id without its final NUL
    Payloads,       \* the datagrams sent to the port
    Unset,          \* an endpoint nobody has written (static storage: zeros),
                    \* or of which memcpy has written a part
    RecvFaults      \* TRUE: sock_udp_recv may return an error

ASSUME EmulatorAssumption ==
    /\ MAX_BOARD_NUM \in Nat \ {0}
    /\ AppIdLen \in Nat \ {0}
    /\ Payloads \subseteq Seq(BOOLEAN)
    /\ Unset \notin Hosts
    /\ RecvFaults \in BOOLEAN

VARIABLES
    boards,      \* the array: [init, board_ep] for each index
    port,        \* boards[i].board_ep.port, the rest of the endpoint
    conn_buf,    \* what the receive buffer has in common with the id
    thread,      \* [pc, remote, board_index] of the connect thread
    requested,   \* endpoints the last button press sent a request to
    heard,       \* history: at which positions some datagram had the id's byte
    announced,   \* history: hosts that sent the whole application id
    prefixed     \* history: hosts that sent its first bytes (or none at all)
                 \* when datagrams before had brought the others

history == <<heard, announced, prefixed>>
vars == <<boards, port, conn_buf, thread, requested, history>>

Slots == 1..MAX_BOARD_NUM
Positions == 1..AppIdLen

Receiving == [pc |-> "receive", remote |-> Unset, board_index |-> 0]

Ports == {"unset", "source", "GCOAP_PORT"}

Board  == [init : BOOLEAN, board_ep : Hosts \cup {Unset}]
Thread == [pc : {"receive", "init", "memcpy", "terminated"},
           remote : Hosts \cup {Unset}, board_index : 0..MAX_BOARD_NUM]

TypeOK ==
    /\ boards \in [Slots -> Board]
    /\ conn_buf \in [Positions -> BOOLEAN]
    /\ thread \in Thread
    /\ port \in [Slots -> Ports]
    /\ requested \subseteq Hosts \cup {Unset}
    /\ heard \subseteq Positions /\ announced \subseteq Hosts /\ prefixed \subseteq Hosts

Init ==
    /\ boards = [i \in Slots |-> [init |-> FALSE, board_ep |-> Unset]]
    /\ conn_buf = [k \in Positions |-> FALSE]
    /\ port = [i \in Slots |-> "unset"]
    /\ thread = Receiving
    /\ requested = {}
    /\ heard = {} /\ announced = {} /\ prefixed = {}

Overwritten(payload) ==
    [k \in Positions |-> IF k <= Len(payload) THEN payload[k] ELSE conn_buf[k]]

(* Mutant: only the first byte is compared. *)
StartsWith_FirstByte(buf) == buf[1]

(* startsWith: conn_buf begins with app_id *)
StartsWith(buf) == \A k \in Positions : buf[k]

(* A ping carries the id with its final NUL; conn_buf has just that size.     *)
APP_ID_LEN == AppIdLen + 1

(* The datagram by itself begins with the application id. *)
IsAnnouncement(payload) ==
    Len(payload) >= AppIdLen /\ \A k \in Positions : payload[k]

(* The datagram is shorter than the application id and agrees with it as far   *)
(* as it goes; the empty one is of this kind.                              *)
IsPrefix(payload) ==
    Len(payload) < AppIdLen /\ \A k \in 1..Len(payload) : payload[k]

(* What the datagrams so far, this one left out, brought of the id           *)
Completes(payload) ==
    IsPrefix(payload) /\ \A k \in Positions : k > Len(payload) => k \in heard

InUse(host) == \E i \in Slots : boards[i].init /\ boards[i].board_ep = host
FreeSlots == {i \in Slots : ~boards[i].init}

FirstFree == CHOOSE i \in FreeSlots : \A j \in FreeSlots : i <= j

EnterAt(remote, i) == [pc |-> "init", remote |-> remote, board_index |-> i]

(* Mutant: the search does not look for the board that pinged. *)
Search_NoCompare(remote) ==
    IF FreeSlots = {} THEN [Receiving EXCEPT !.pc = "terminated"]
    ELSE EnterAt(remote, FirstFree)

(* Mutant: the check for a full array is missing. *)
Search_Unbounded(remote) ==
    IF InUse(remote) THEN Receiving
    ELSE EnterAt(remote, IF FreeSlots = {} THEN MAX_BOARD_NUM + 1 ELSE FirstFree)

(* Mutant: a full array is filled again from its first slot on. *)
Search_Wraps(remote) ==
    IF InUse(remote) THEN Receiving
    ELSE EnterAt(remote, IF FreeSlots = {} THEN 1 ELSE FirstFree)

(* The loop over the slots in use and the two ifs behind it: the thread      *)
(* ends when every slot is in use, even for a board it knows.              *)
Search(remote) ==
    IF FreeSlots = {} THEN [Receiving EXCEPT !.pc = "terminated"]
    ELSE IF InUse(remote) THEN Receiving
    ELSE EnterAt(remote, FirstFree)

(* sock_udp_recv returns a datagram that fits into conn_buf *)
Recv(remote, payload) ==
    /\ thread.pc = "receive"
    /\ Len(payload) <= APP_ID_LEN
    /\ conn_buf' = Overwritten(payload)
    /\ thread' = IF StartsWith(conn_buf') THEN Search(remote) ELSE Receiving
    /\ heard' = heard \cup {k \in Positions : k <= Len(payload) /\ payload[k]}
    /\ announced' = IF IsAnnouncement(payload) THEN announced \cup {remote} ELSE announced
    /\ prefixed' = IF Completes(payload) THEN prefixed \cup {remote} ELSE prefixed
    /\ UNCHANGED <<boards, port, requested>>

(* sock_udp_recv returns an error, as it does for a datagram longer than     *)
(* conn_buf: the loop ends.                                                *)
RecvFails(payload) ==
    /\ thread.pc = "receive"
    /\ RecvFaults \/ Len(payload) > APP_ID_LEN
    /\ thread' = [thread EXCEPT !.pc = "terminated"]
    /\ UNCHANGED <<boards, port, conn_buf, requested, history>>

(* boards[board_index].init = true *)
SetInit ==
    /\ thread.pc = "init"
    /\ boards' = [boards EXCEPT ![thread.board_index].init = TRUE]
    /\ thread' = [thread EXCEPT !.pc = "memcpy"]
    /\ UNCHANGED <<port, conn_buf, requested, history>>

(* memcpy(&boards[board_index].board_ep, &remote, sizeof(sock_udp_ep_t)),    *)
(* with the port the ping came from                                        *)
Memcpy ==
    /\ thread.pc = "memcpy"
    /\ boards' = [boards EXCEPT ![thread.board_index].board_ep = thread.remote]
    /\ port' = [port EXCEPT ![thread.board_index] = "source"]
    /\ thread' = Receiving
    /\ UNCHANGED <<conn_buf, requested, history>>

(* button_handler, in interrupt context: every slot in use gets the port of  *)
(* the CoAP server and a request; one gcoap has no room for is not sent.   *)
Button ==
    /\ port' = [i \in Slots |-> IF boards[i].init THEN "GCOAP_PORT" ELSE port[i]]
    /\ \E sent \in SUBSET {i \in Slots : boards[i].init} :
         requested' = {boards[i].board_ep : i \in sent}
    /\ UNCHANGED <<boards, conn_buf, thread, history>>

Store == SetInit \/ Memcpy

Next ==
    \/ \E remote \in Hosts, payload \in Payloads : Recv(remote, payload)
    \/ \E payload \in Payloads : RecvFails(payload)
    \/ Store
    \/ Button

Spec == Init /\ [][Next]_vars

-----------------------------------------------------------------------------
(* connect_thread_handler: a board that pings again and again, between the   *)
(* pings of others and stale buffers, takes one slot; and slots fill up    *)
(* from the first one on, on which the search for a known board relies.    *)
OneSlotPerBoard ==
    \A i, j \in Slots :
        /\ boards[i].board_ep = boards[j].board_ep /\ boards[i].board_ep # Unset => i = j
        /\ i < j /\ boards[j].init => boards[i].init

(* The slot that is in use, although its endpoint is still to be written *)
HalfStored == IF thread.pc = "memcpy" THEN {Unset} ELSE {}

(* button_handler: a request goes to a host that sent the application id; or *)
(* to one that sent a shorter datagram without a wrong byte, when datagrams*)
(* before had brought the missing bytes (the length of a datagram is not   *)
(* looked at and conn_buf is not cleared); or, when the interrupt falls    *)
(* between init = true and the end of the memcpy, to an endpoint that is   *)
(* not there yet.  No other datagram gets its sender a request.            *)
RequestsReachBoards ==
    [][requested' \ requested \subseteq announced \cup prefixed \cup HalfStored]_vars

(* connect_thread_handler and button_handler: an entered board keeps its     *)
(* slot; of its endpoint only the port is written again, by the button.    *)
SlotsAreKept ==
    [][\A i \in Slots : boards[i].board_ep # Unset =>
          boards'[i] = boards[i] /\ port'[i] \in {port[i], "GCOAP_PORT"}]_vars

-----------------------------------------------------------------------------
(* What makes the properties above inductive (EmulatorProofs). *)

Entering == thread.pc \in {"init", "memcpy"}

(* An endpoint is only in a slot in use, and a slot in use without one is    *)
(* the one that is being written.                                          *)
SlotsInv ==
    /\ OneSlotPerBoard
    /\ \A i \in Slots : boards[i].board_ep # Unset => boards[i].init
    /\ \A i \in Slots : boards[i].init /\ boards[i].board_ep = Unset =>
                          thread.pc = "memcpy" /\ i = thread.board_index

(* The board that is being entered has no slot, and its slot comes next. *)
EnteringInv ==
    Entering =>
        /\ thread.remote \in Hosts
        /\ thread.board_index \in Slots
        /\ boards[thread.board_index].board_ep = Unset
        /\ boards[thread.board_index].init <=> (thread.pc = "memcpy")
        /\ \A i \in Slots : i < thread.board_index => boards[i].init
        /\ \A i \in Slots : boards[i].board_ep # thread.remote

(* Who has a slot, or is about to get one, sent the id or completed it.      *)
HeardInv ==
    /\ \A i \in Slots : boards[i].board_ep \in announced \cup prefixed \cup {Unset}
    /\ Entering => thread.remote \in announced \cup prefixed
    /\ \A k \in Positions : conn_buf[k] => k \in heard

=============================================================================
