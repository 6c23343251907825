------------------------------ MODULE Discovery ------------------------------
(***************************************************************************)
(* How a board gets registered: the ping thread of every SenPhy board      *)
(* (SenPhy/coap.c: ping_handler) announces it by multicast, over a link    *)
(* that may lose the datagram, to the listener of the SenPi server.        *)
(***************************************************************************)
EXTENDS Listener

CONSTANTS
    Boards,      \* the hosts that run SenPhy
    SendFaults,  \* TRUE: sock_udp_send may return an error
    MaxRestarts  \* how often the server process dies during a run

ASSUME DiscoveryAssumption ==
    /\ Boards \subseteq Addresses
    /\ SendFaults \in BOOLEAN
    /\ MaxRestarts \in Nat

VARIABLES
    ping,    \* the ping thread of each board
    inbox,   \* boards whose announcement waits in the server's socket
    restarts \* deaths of the server so far

airVars == <<ping, inbox, restarts>>
vars == <<tableVars, listenVars, airVars>>

AppId == [k \in Positions |-> TRUE]

Init ==
    /\ TableInit
    /\ ListenerInit
    /\ ping = [b \in Boards |-> "send"]
    /\ inbox = {}
    /\ restarts = 0

(* sock_udp_send succeeds and the datagram arrives *)
SendReaches(b) ==
    /\ ping[b] = "send"
    /\ ping' = [ping EXCEPT ![b] = "sleep"]
    /\ inbox' = inbox \cup {b}

(* sock_udp_send succeeds and the datagram is lost *)
SendLost(b) ==
    /\ ping[b] = "send"
    /\ ping' = [ping EXCEPT ![b] = "sleep"]
    /\ UNCHANGED inbox

(* sock_udp_send returns an error: break, the thread terminates *)
SendFails(b) ==
    /\ ping[b] = "send"
    /\ SendFaults
    /\ ping' = [ping EXCEPT ![b] = "terminated"]
    /\ UNCHANGED inbox

(* xtimer_sleep(PING_TIMEOUT) returns *)
Wake(b) ==
    /\ ping[b] = "sleep"
    /\ ping' = [ping EXCEPT ![b] = "send"]
    /\ UNCHANGED inbox

(* Power cycle: main creates the ping thread anew *)
Reset(b) ==
    /\ ping' = [ping EXCEPT ![b] = "send"]
    /\ UNCHANGED inbox

Send(b) == SendReaches(b) \/ SendLost(b) \/ SendFails(b)
serverVars == <<tableVars, listenVars, restarts>>

Ping(b) == (Send(b) \/ Wake(b)) /\ UNCHANGED serverVars

Deliver(b) ==
    /\ b \in inbox
    /\ Receive(b, AppId)
    /\ inbox' = inbox \ {b}
    /\ UNCHANGED <<ping, restarts>>

(* Some host sends something else to the port. *)
Noise ==
    /\ \E h \in Addresses, m \in Payloads : Receive(h, m)
    /\ UNCHANGED airVars

Registering(b) == listener.address = b /\ UNCHANGED airVars

(* The server process ends and is started again: its socket is a new one. *)
ServerRestart ==
    /\ restarts < MaxRestarts
    /\ restarts' = restarts + 1
    /\ buffer' = [k \in Positions |-> FALSE]
    /\ listener' = Idle
    /\ inbox' = {}
    /\ UNCHANGED <<tableVars, announced, ping>>

Next ==
    \/ \E b \in Boards : Ping(b) \/ Deliver(b)
    \/ \E b \in Boards : Reset(b) /\ UNCHANGED serverVars
    \/ Register /\ UNCHANGED airVars
    \/ Noise
    \/ ServerRestart

(* Threads and goroutines run.  The link does not lose, the listener does   *)
(* not starve and the database does not refuse the same board forever.     *)
Fairness ==
    /\ WF_vars(Register /\ UNCHANGED airVars)
    /\ \A b \in Boards :
         /\ WF_vars(Ping(b))
         /\ SF_vars(SendReaches(b) /\ UNCHANGED serverVars)
         /\ SF_vars(Deliver(b))
         /\ SF_vars(SelectFindsNothing /\ Registering(b))
         /\ SF_vars(Insert /\ Registering(b))

Spec == Init /\ [][Next]_vars /\ Fairness

-----------------------------------------------------------------------------
(* A board that keeps announcing itself is in the device table some day     *)
(* and stays there, whatever pings are lost and statements fail and        *)
(* whenever the server dies and is started again.                          *)
AnnouncersGetRegistered ==
    \A b \in Boards :
        []<>(ping[b] = "send") => <>[]IsRegistered(b)

=============================================================================
