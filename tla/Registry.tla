------------------------------ MODULE Registry ------------------------------
(***************************************************************************)
(* What the device table promises the rest of the server: a register of    *)
(* boards.  An entry is made once per address, under an id never used      *)
(* before, only for a host that announced itself, and it stays as it is.   *)
(***************************************************************************)
EXTENDS Integers

CONSTANTS Hosts, EntryIds

VARIABLES
    entries,     \* set of [id, address]
    candidates   \* the hosts that announced themselves so far

vars == <<entries, candidates>>

Init ==
    /\ entries = {}
    /\ candidates = {}

Announce(host) ==
    /\ candidates' = candidates \cup {host}
    /\ UNCHANGED entries

Enter(host) ==
    /\ host \in candidates
    /\ \A e \in entries : e.address # host
    /\ \E id \in EntryIds :
         /\ \A e \in entries : e.id < id
         /\ entries' = entries \cup {[id |-> id, address |-> host]}
    /\ UNCHANGED candidates

Next == \E host \in Hosts : Announce(host) \/ Enter(host)

Spec == Init /\ [][Next]_vars

=============================================================================
