---------------------------- MODULE EmulatorProofs ----------------------------
(***************************************************************************)
(* Proofs about Emulator for any hosts, any datagrams and any length of    *)
(* the array of boards.                                                    *)
(***************************************************************************)
EXTENDS Emulator, TLAPS, WellFoundedInduction

USE EmulatorAssumption

-----------------------------------------------------------------------------
(* The search of connect_thread_handler.                                   *)

(* Every nonempty set of naturals has a least element. *)
LEMMA NatMin ==
    ASSUME NEW T \in SUBSET Nat, T # {}
    PROVE  \E x \in T : \A y \in T : x <= y
<1>. DEFINE R == {ss \in Nat \X Nat : ss[1] < ss[2]}
<1>1. IsWellFoundedOn(R, Nat)
  BY NatLessThanWellFounded DEF OpToRel
<1>. HIDE DEF R
<1>2. PICK x \in T : \A y \in T : ~(<<y, x>> \in R)
  BY <1>1, WFMin
<1>3. \A y \in T : ~(y < x)
  BY <1>2 DEF R
<1>. QED
  BY <1>3

(* The loop stops at the first slot that is not in use. *)
LEMMA FirstFreeIsFirst ==
    ASSUME TypeOK, FreeSlots # {}
    PROVE  /\ FirstFree \in Slots /\ ~boards[FirstFree].init
           /\ \A i \in Slots : i < FirstFree => boards[i].init
<1>1. FreeSlots \in SUBSET Nat
  BY DEF FreeSlots, Slots
<1>2. \E i \in FreeSlots : \A j \in FreeSlots : i <= j
  BY <1>1, NatMin
<1>3. FirstFree \in FreeSlots /\ \A j \in FreeSlots : FirstFree <= j
  BY <1>2 DEF FirstFree
<1>. HIDE DEF FirstFree
<1>4. \A i \in Slots : i < FirstFree => i \notin FreeSlots
  BY <1>1, <1>3 DEF Slots, FreeSlots
<1>. QED
  BY <1>3, <1>4 DEF FreeSlots

(* What the thread does after a ping: it ends, waits on or enters the board. *)
LEMMA SearchEffect ==
    ASSUME TypeOK, NEW remote \in Hosts
    PROVE  \/ Search(remote).pc \in {"receive", "terminated"}
              /\ Search(remote).remote = Unset /\ Search(remote).board_index = 0
              /\ Search(remote) \in Thread
           \/ /\ ~InUse(remote) /\ FreeSlots # {}
              /\ Search(remote) = EnterAt(remote, FirstFree)
  BY DEF Search, Receiving, Thread

(* boards[board_index].init = true writes one field of one slot. *)
LEMMA SetInitEffect ==
    ASSUME TypeOK, SetInit
    PROVE  /\ thread' \in Thread /\ thread'.pc = "memcpy"
           /\ thread'.remote = thread.remote /\ thread'.board_index = thread.board_index
           /\ thread.board_index \in Slots =>
                /\ boards' \in [Slots -> Board]
                /\ \A i \in Slots : boards'[i].board_ep = boards[i].board_ep
                /\ \A i \in Slots : boards'[i].init <=> (boards[i].init \/ i = thread.board_index)
                /\ \A i \in Slots \ {thread.board_index} : boards'[i] = boards[i]
<1>1. ASSUME NEW b \in Board
      PROVE  LET c == [b EXCEPT !.init = TRUE]
             IN  c \in Board /\ c.init /\ c.board_ep = b.board_ep
  BY DEF Board
<1>2. thread' = [thread EXCEPT !.pc = "memcpy"]
  BY DEF SetInit
<1>3. thread' \in Thread /\ thread'.pc = "memcpy" /\ thread'.remote = thread.remote
      /\ thread'.board_index = thread.board_index
  BY <1>2 DEF TypeOK, Thread
<1>4. ASSUME thread.board_index \in Slots
      PROVE  /\ boards' \in [Slots -> Board]
             /\ \A i \in Slots : boards'[i].board_ep = boards[i].board_ep
             /\ \A i \in Slots : boards'[i].init <=> (boards[i].init \/ i = thread.board_index)
             /\ \A i \in Slots \ {thread.board_index} : boards'[i] = boards[i]
  <2>. DEFINE k == thread.board_index
              c == [boards[k] EXCEPT !.init = TRUE]
  <2>1. boards[k] \in Board /\ boards' = [boards EXCEPT ![k] = c]
    BY <1>4 DEF TypeOK, SetInit
  <2>2. c \in Board /\ c.init /\ c.board_ep = boards[k].board_ep
    BY <2>1, <1>1
  <2>. HIDE DEF c
  <2>3. /\ boards' \in [Slots -> Board]
        /\ boards'[k] = c /\ \A i \in Slots \ {k} : boards'[i] = boards[i]
    BY <2>1, <2>2, <1>4 DEF TypeOK
  <2>. QED
    BY <2>2, <2>3, <1>4
<1>. QED
  BY <1>3, <1>4

(* The memcpy writes the other field of the same slot. *)
LEMMA MemcpyEffect ==
    ASSUME TypeOK, Memcpy
    PROVE  /\ thread' \in Thread /\ thread'.pc = "receive"
           /\ thread.board_index \in Slots =>
                /\ boards' \in [Slots -> Board]
                /\ \A i \in Slots : boards'[i].init <=> boards[i].init
                /\ boards'[thread.board_index].board_ep = thread.remote
                /\ \A i \in Slots \ {thread.board_index} : boards'[i] = boards[i]
<1>1. ASSUME NEW b \in Board, NEW h \in Hosts \cup {Unset}
      PROVE  LET c == [b EXCEPT !.board_ep = h]
             IN  c \in Board /\ (c.init <=> b.init) /\ c.board_ep = h
  BY DEF Board
<1>2. thread' \in Thread /\ thread'.pc = "receive"
  BY DEF Memcpy, Receiving, Thread
<1>3. ASSUME thread.board_index \in Slots
      PROVE  /\ boards' \in [Slots -> Board]
             /\ \A i \in Slots : boards'[i].init <=> boards[i].init
             /\ boards'[thread.board_index].board_ep = thread.remote
             /\ \A i \in Slots \ {thread.board_index} : boards'[i] = boards[i]
  <2>. DEFINE k == thread.board_index
              c == [boards[k] EXCEPT !.board_ep = thread.remote]
  <2>1. /\ boards[k] \in Board /\ boards' = [boards EXCEPT ![k] = c]
        /\ thread.remote \in Hosts \cup {Unset}
    BY <1>3 DEF TypeOK, Memcpy, Thread
  <2>2. c \in Board /\ (c.init <=> boards[k].init) /\ c.board_ep = thread.remote
    BY <2>1, <1>1
  <2>. HIDE DEF c
  <2>3. /\ boards' \in [Slots -> Board]
        /\ boards'[k] = c /\ \A i \in Slots \ {k} : boards'[i] = boards[i]
    BY <2>1, <2>2, <1>3 DEF TypeOK
  <2>. QED
    BY <2>2, <2>3, <1>3
<1>. QED
  BY <1>2, <1>3

-----------------------------------------------------------------------------
(* Type correctness.                                                       *)

(* The array keeps its length, and the thread's index stays inside of it. *)
THEOREM TypeCorrect == Spec => []TypeOK
<1>1. Init => TypeOK
  BY DEF Init, TypeOK, Receiving, Board, Thread, Ports
<1>2. TypeOK /\ [Next]_vars => TypeOK'
  <2>. SUFFICES ASSUME TypeOK, [Next]_vars PROVE TypeOK'
    OBVIOUS
  <2>1. ASSUME NEW remote \in Hosts, NEW payload \in Payloads, Recv(remote, payload)
        PROVE  TypeOK'
    <3>1. Overwritten(payload) \in [Positions -> BOOLEAN]
      BY DEF Overwritten, Positions, TypeOK
    <3>2. Search(remote) \in Thread
      <4>1. CASE Search(remote) = EnterAt(remote, FirstFree) /\ FreeSlots # {}
        <5>1. FirstFree \in 0..MAX_BOARD_NUM
          BY <4>1, FirstFreeIsFirst DEF Slots
        <5>. QED
          BY <4>1, <5>1 DEF EnterAt, Thread
      <4>. QED
        BY <4>1, SearchEffect
    <3>3. Receiving \in Thread
      BY DEF Receiving, Thread
    <3>. QED
      BY <2>1, <3>1, <3>2, <3>3 DEF Recv, TypeOK
  <2>2. CASE \E payload \in Payloads : RecvFails(payload)
    BY <2>2 DEF RecvFails, TypeOK, Thread, history
  <2>3. CASE SetInit \/ Memcpy
    <3>1. boards' \in [Slots -> Board]
      <4>1. CASE thread.board_index \in Slots
        BY <2>3, <4>1, SetInitEffect, MemcpyEffect
      <4>2. CASE thread.board_index \notin Slots
        BY <2>3, <4>2 DEF SetInit, Memcpy, TypeOK
      <4>. QED
        BY <4>1, <4>2
    <3>2. port' \in [Slots -> Ports]
      BY <2>3 DEF SetInit, Memcpy, TypeOK, Ports
    <3>3. thread' \in Thread
      BY <2>3, SetInitEffect, MemcpyEffect
    <3>. QED
      BY <2>3, <3>1, <3>2, <3>3 DEF SetInit, Memcpy, TypeOK, history
  <2>4. CASE Button
    BY <2>4 DEF Button, TypeOK, Board, Ports, history
  <2>5. CASE UNCHANGED vars
    BY <2>5 DEF vars, TypeOK, history
  <2>. QED
    BY <2>1, <2>2, <2>3, <2>4, <2>5 DEF Next, Store
<1>. QED
  BY <1>1, <1>2, PTL DEF Spec

-----------------------------------------------------------------------------
(* The array of boards.                                                    *)

ArrayInv == SlotsInv /\ EnteringInv

(* A ping makes the thread enter a board that has no slot, or none at all. *)
LEMMA RecvArray ==
    ASSUME TypeOK, ArrayInv, NEW remote \in Hosts, NEW payload \in Payloads,
           Recv(remote, payload)
    PROVE  ArrayInv'
<1>1. boards' = boards /\ thread.pc = "receive"
  BY DEF Recv
<1>2. SlotsInv'
  BY <1>1 DEF ArrayInv, SlotsInv, OneSlotPerBoard
<1>3. CASE ~Entering'
  BY <1>2, <1>3 DEF ArrayInv, EnteringInv
<1>4. CASE Entering'
  <2>1. /\ ~InUse(remote) /\ FreeSlots # {}
        /\ thread' = EnterAt(remote, FirstFree)
    BY <1>4, SearchEffect DEF Recv, Entering, Receiving
  <2>2. /\ FirstFree \in Slots /\ ~boards[FirstFree].init
        /\ \A i \in Slots : i < FirstFree => boards[i].init
    BY <2>1, FirstFreeIsFirst
  <2>3. thread'.pc = "init" /\ thread'.remote = remote /\ thread'.board_index = FirstFree
    BY <2>1 DEF EnterAt
  <2>4. \A i \in Slots : boards[i].board_ep # remote
    BY <1>1, <2>1 DEF InUse, ArrayInv, SlotsInv
  <2>5. boards[FirstFree].board_ep = Unset
    BY <2>2 DEF ArrayInv, SlotsInv
  <2>. QED
    BY <1>1, <1>2, <2>2, <2>3, <2>4, <2>5 DEF ArrayInv, EnteringInv
<1>. QED
  BY <1>3, <1>4

(* Every step keeps the invariant of the array. *)
LEMMA ArrayStep == TypeOK /\ TypeOK' /\ ArrayInv /\ [Next]_vars => ArrayInv'
<1>. SUFFICES ASSUME TypeOK, TypeOK', ArrayInv, [Next]_vars PROVE ArrayInv'
  OBVIOUS
<1>. DEFINE k == thread.board_index
<1>1. CASE SetInit
  <2>1. Entering /\ Entering' /\ thread.pc = "init"
    BY <1>1, SetInitEffect DEF SetInit, Entering
  <2>2. /\ k \in Slots /\ boards[k].board_ep = Unset /\ ~boards[k].init
        /\ \A i \in Slots : i < k => boards[i].init
        /\ thread.remote \in Hosts /\ \A i \in Slots : boards[i].board_ep # thread.remote
    BY <2>1 DEF ArrayInv, EnteringInv
  <2>3. /\ thread'.pc = "memcpy" /\ thread'.remote = thread.remote /\ thread'.board_index = k
        /\ \A i \in Slots : boards'[i].board_ep = boards[i].board_ep
        /\ \A i \in Slots : boards'[i].init <=> (boards[i].init \/ i = k)
    BY <1>1, <2>2, SetInitEffect
  <2>. HIDE DEF k
  <2>4. SlotsInv'
    BY <2>1, <2>2, <2>3 DEF ArrayInv, SlotsInv, OneSlotPerBoard
  <2>5. EnteringInv'
    BY <2>1, <2>2, <2>3 DEF EnteringInv
  <2>. QED
    BY <2>4, <2>5 DEF ArrayInv
<1>2. CASE Memcpy
  <2>1. Entering /\ ~Entering' /\ thread.pc = "memcpy"
    BY <1>2, MemcpyEffect DEF Memcpy, Entering
  <2>2. /\ k \in Slots /\ boards[k].init /\ thread.remote \in Hosts
        /\ \A i \in Slots : boards[i].board_ep # thread.remote
    BY <2>1 DEF ArrayInv, EnteringInv
  <2>3. /\ boards'[k].board_ep = thread.remote
        /\ \A i \in Slots : boards'[i].init <=> boards[i].init
        /\ \A i \in Slots \ {k} : boards'[i] = boards[i]
    BY <1>2, <2>2, MemcpyEffect
  <2>4. \A i \in Slots : boards[i].init /\ boards[i].board_ep = Unset => i = k
    BY DEF ArrayInv, SlotsInv
  <2>. HIDE DEF k
  <2>5. SlotsInv'
    BY <2>2, <2>3, <2>4 DEF ArrayInv, SlotsInv, OneSlotPerBoard
  <2>. QED
    BY <2>1, <2>5 DEF ArrayInv, EnteringInv
<1>3. CASE \E payload \in Payloads : RecvFails(payload)
  <2>1. boards' = boards /\ ~Entering' /\ thread.pc = "receive"
    BY <1>3 DEF RecvFails, Entering, TypeOK, Thread
  <2>. QED
    BY <2>1 DEF ArrayInv, SlotsInv, OneSlotPerBoard, EnteringInv
<1>4. CASE Button \/ UNCHANGED vars
  <2>1. boards' = boards /\ thread' = thread
    BY <1>4 DEF Button, vars
  <2>. QED
    BY <2>1 DEF ArrayInv, SlotsInv, OneSlotPerBoard, EnteringInv, Entering
<1>. QED
  BY <1>1, <1>2, <1>3, <1>4, RecvArray DEF Next, Store

(* The array is in order in every state. *)
LEMMA ArrayInOrder == Spec => []ArrayInv
<1>1. Init => ArrayInv
  BY DEF Init, Receiving, ArrayInv, SlotsInv, OneSlotPerBoard, EnteringInv, Entering
<1>. QED
  BY <1>1, ArrayStep, TypeCorrect, PTL DEF Spec

(* connect_thread_handler: whatever boards ping in whatever order, between  *)
(* datagrams of others, stale bytes and button presses, a board has one    *)
(* slot at most and the slots in use are the first ones, for any length of *)
(* the array.                                                              *)
THEOREM OneSlotPerBoardHolds == Spec => []OneSlotPerBoard
<1>1. ArrayInv => OneSlotPerBoard
  BY DEF ArrayInv, SlotsInv
<1>. QED
  BY <1>1, ArrayInOrder, PTL

(* connect_thread_handler, button_handler: the slot of a board is never      *)
(* written again, but for the port, which only the button sets.            *)
THEOREM SlotsAreKeptHolds == Spec => SlotsAreKept
<1>1. TypeOK /\ ArrayInv /\ [Next]_vars
        => [\A i \in Slots : boards[i].board_ep # Unset =>
               boards'[i] = boards[i] /\ port'[i] \in {port[i], "GCOAP_PORT"}]_vars
  <2>. SUFFICES ASSUME TypeOK, ArrayInv, [Next]_vars,
                       NEW i \in Slots, boards[i].board_ep # Unset
       PROVE  boards'[i] = boards[i] /\ port'[i] \in {port[i], "GCOAP_PORT"}
    OBVIOUS
  <2>1. CASE SetInit \/ Memcpy
    <3>1. Entering
      BY <2>1 DEF SetInit, Memcpy, Entering
    <3>2. thread.board_index \in Slots /\ i # thread.board_index
      BY <3>1 DEF ArrayInv, EnteringInv
    <3>3. boards'[i] = boards[i]
      BY <2>1, <3>2, SetInitEffect, MemcpyEffect
    <3>4. port'[i] = port[i]
      BY <2>1, <3>2 DEF SetInit, Memcpy, TypeOK
    <3>. QED
      BY <3>3, <3>4
  <2>2. CASE Button
    BY <2>2 DEF Button, TypeOK
  <2>3. CASE UNCHANGED <<boards, port>>
    BY <2>3
  <2>. QED
    BY <2>1, <2>2, <2>3 DEF Next, Recv, RecvFails, Store, vars
<1>. QED
  BY <1>1, ArrayInOrder, TypeCorrect, PTL DEF Spec, SlotsAreKept

-----------------------------------------------------------------------------
(* Where the requests go.                                                  *)

(* The buffer holds bytes that datagrams brought: who matches it sent the    *)
(* whole id or, behind datagrams with the rest of it, a prefix.            *)
LEMMA WhoMatches ==
    ASSUME TypeOK, HeardInv, NEW payload \in Payloads, StartsWith(Overwritten(payload))
    PROVE  IsAnnouncement(payload) \/ Completes(payload)
<1>1. Len(payload) \in Nat
  OBVIOUS
<1>2. \A k \in Positions : k <= Len(payload) => payload[k]
  BY DEF StartsWith, Overwritten
<1>3. \A k \in Positions : k > Len(payload) => conn_buf[k]
  BY <1>1 DEF StartsWith, Overwritten, Positions
<1>4. CASE Len(payload) >= AppIdLen
  BY <1>1, <1>2, <1>4 DEF IsAnnouncement, Positions
<1>5. CASE Len(payload) < AppIdLen
  <2>1. IsPrefix(payload)
    BY <1>1, <1>2, <1>5 DEF IsPrefix, Positions
  <2>. QED
    BY <2>1, <1>3 DEF Completes, HeardInv
<1>. QED
  BY <1>1, <1>4, <1>5

(* Every step keeps HeardInv. *)
LEMMA HeardStep ==
    ASSUME TypeOK, ArrayInv, HeardInv, [Next]_vars
    PROVE  HeardInv'
<1>1. ASSUME NEW remote \in Hosts, NEW payload \in Payloads, Recv(remote, payload)
      PROVE  HeardInv'
  <2>1. boards' = boards /\ announced \subseteq announced' /\ prefixed \subseteq prefixed'
    BY <1>1 DEF Recv
  <2>2. ASSUME Entering' PROVE thread'.remote = remote /\ remote \in announced' \cup prefixed'
    <3>1. StartsWith(Overwritten(payload)) /\ thread' = Search(remote)
      BY <1>1, <2>2 DEF Recv, Entering, Receiving
    <3>2. thread'.remote = remote
      BY <2>2, <3>1, SearchEffect DEF Entering, EnterAt
    <3>3. IsAnnouncement(payload) \/ Completes(payload)
      BY <3>1, WhoMatches
    <3>. QED
      BY <1>1, <3>2, <3>3 DEF Recv
  <2>3. \A k \in Positions : conn_buf'[k] => k \in heard'
    BY <1>1 DEF Recv, Overwritten, HeardInv
  <2>. QED
    BY <2>1, <2>2, <2>3 DEF HeardInv
<1>2. CASE SetInit
  <2>1. Entering /\ UNCHANGED <<history, conn_buf>>
    BY <1>2 DEF SetInit, Entering
  <2>2. thread.board_index \in Slots
    BY <2>1 DEF ArrayInv, EnteringInv
  <2>. QED
    BY <1>2, <2>1, <2>2, SetInitEffect DEF HeardInv, history
<1>3. CASE Memcpy
  <2>1. Entering /\ ~Entering' /\ UNCHANGED <<history, conn_buf>>
    BY <1>3, MemcpyEffect DEF Memcpy, Entering
  <2>2. thread.board_index \in Slots /\ thread.remote \in announced \cup prefixed
    BY <2>1 DEF ArrayInv, EnteringInv, HeardInv
  <2>3. \A i \in Slots : boards'[i].board_ep \in {boards[i].board_ep, thread.remote}
    BY <1>3, <2>2, MemcpyEffect
  <2>. QED
    BY <2>1, <2>2, <2>3 DEF HeardInv, history
<1>4. CASE \E payload \in Payloads : RecvFails(payload)
  <2>1. boards' = boards /\ UNCHANGED <<history, conn_buf>> /\ ~Entering'
    BY <1>4 DEF RecvFails, Entering, TypeOK, Thread
  <2>. QED
    BY <2>1 DEF HeardInv, history
<1>5. CASE Button \/ UNCHANGED vars
  BY <1>5 DEF Button, vars, history, HeardInv, Entering
<1>. QED
  BY <1>1, <1>2, <1>3, <1>4, <1>5 DEF Next, Store

(* button_handler may interrupt the thread anywhere, and any datagram may    *)
(* arrive: requests go to hosts that sent the application id, or completed *)
(* it over bytes of datagrams before, and between init = true and the end  *)
(* of the memcpy perhaps one to the endpoint that is not there yet.        *)
THEOREM RequestsReachBoardsHolds == Spec => RequestsReachBoards
<1>1. Init => HeardInv
  BY DEF Init, Receiving, HeardInv, Entering
<1>2. TypeOK /\ ArrayInv /\ HeardInv /\ [Next]_vars => HeardInv'
  BY HeardStep
<1>3. TypeOK /\ ArrayInv /\ HeardInv /\ [Next]_vars
        => [requested' \ requested \subseteq announced \cup prefixed \cup HalfStored]_vars
  <2>. SUFFICES ASSUME TypeOK, ArrayInv, HeardInv, [Next]_vars
       PROVE  requested' \ requested \subseteq announced \cup prefixed \cup HalfStored
    OBVIOUS
  <2>1. CASE Button
    <3>1. PICK sent \in SUBSET {i \in Slots : boards[i].init} :
            requested' = {boards[i].board_ep : i \in sent}
      BY <2>1 DEF Button
    <3>2. ASSUME NEW i \in sent PROVE boards[i].board_ep \in announced \cup prefixed \cup HalfStored
      BY DEF HeardInv, ArrayInv, SlotsInv, HalfStored
    <3>. QED
      BY <3>1, <3>2
  <2>2. CASE UNCHANGED requested
    BY <2>2
  <2>. QED
    BY <2>1, <2>2 DEF Next, Recv, RecvFails, Store, SetInit, Memcpy, vars
<1>. QED
  BY <1>1, <1>2, <1>3, ArrayInOrder, TypeCorrect, PTL DEF Spec, RequestsReachBoards

=============================================================================
