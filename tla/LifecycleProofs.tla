--------------------------- MODULE LifecycleProofs ---------------------------
(***************************************************************************)
(* Proofs about Lifecycle for any command lines, any number of processes   *)
(* and restarts and any number of polls.                                   *)
(***************************************************************************)
EXTENDS Lifecycle, TLAPS

USE StartupAssumption

-----------------------------------------------------------------------------
(* The start of a process.                                                 *)

(* A starting process keeps StartupInv. *)
LEMMA StartingStartup == StartupInv /\ Starting => StartupInv'
<1>. SUFFICES ASSUME StartupInv, Starting PROVE StartupInv'
  OBVIOUS
<1>. USE DEF StartupInv, EndIsExplained, Wants, Serving
<1>1. CASE ParseFlags \/ Stat \/ Create \/ Write
  BY <1>1 DEF ParseFlags, Stat, Create, Write, Critical, Goto, running, database
<1>2. CASE ReadConfig
  BY <1>2 DEF ReadConfig, Critical, Goto, AfterRead, running, database
<1>3. CASE Drop \/ CreateDatabase
  BY <1>3 DEF Drop, CreateDatabase, Executed, Goto, AfterClear
<1>4. CASE UseDatabase \/ CreateDevices
  BY <1>4 DEF UseDatabase, CreateDevices, Executed, Goto
<1>5. CASE CreateData
  BY <1>5 DEF CreateData, Executed, Goto, Schema
<1>6. CASE Reconnect \/ StatementFails
  BY <1>6 DEF Reconnect, StatementFails, Critical, running, database
<1>. QED
  BY <1>1, <1>2, <1>3, <1>4, <1>5, <1>6 DEF Starting, StartupNext

(* Every step keeps StartupInv. *)
LEMMA StepStartup == StartupInv /\ [Next]_vars => StartupInv'
<1>. SUFFICES ASSUME StartupInv, [Next]_vars PROVE StartupInv'
  OBVIOUS
<1>1. CASE Starting
  BY <1>1, StartingStartup
<1>. USE DEF StartupInv, EndIsExplained, Wants, Serving
<1>2. CASE Start \/ Edit \/ Kill \/ Exit
  BY <1>2 DEF Start, StartProcess, Edit, EditConfig, Kill, KillProcess, Exit, EndProcess,
     Up, running, database
<1>3. CASE StartListener \/ StartTicker \/ StartScheduler
  BY <1>3 DEF StartListener, StartTicker, StartScheduler, running, database
<1>4. CASE Complete \/ SelectCancel
  BY <1>4 DEF Complete, SelectCancel, running, database
<1>5. CASE UNCHANGED startup \/ StoreRow
  BY <1>5 DEF startup, StoreRow, Store
<1>6. CASE UNCHANGED vars
  BY <1>6 DEF vars
<1>. QED
  BY <1>1, <1>2, <1>3, <1>4, <1>5, <1>6
  DEF Next, Listen, TickerFires, SelectTick, StopTicker, PollEnds

(* What a process has found and made is known at every point of its start. *)
LEMMA StartupInOrder == Spec => []StartupInv
<1>1. Init => StartupInv
  BY DEF Init, StartupInit, StartupInv, EndIsExplained, Serving
<1>. QED
  BY <1>1, StepStartup, PTL DEF Spec

-----------------------------------------------------------------------------
(* Type correctness.                                                       *)

(* The two parts of the type invariant that the provers take one by one. *)
Bits == selected \in BOOLEAN /\ rows \in BOOLEAN /\ ticking \in BOOLEAN /\ tick \in BOOLEAN

Kinds ==
    /\ args \in Commands
    /\ configuration \in {"unread", "zero", "good"}
    /\ said \in {"nothing", "reason", "killed"}
    /\ conf \in Conf
    /\ found \in Found
    /\ schema \subseteq Schema /\ (schema # {} => "database" \in schema)
    /\ main \in Launching \cup Serving \cup {"exit", "gone"}
    /\ listening \in {"unborn", "open", "serve", "complete", "done"}
    /\ scheduler \in {"unborn", "select", "stop", "done"}
    /\ polls \subseteq Polls

LEMMA TypeParts == TypeOK <=> Bits /\ Kinds
  BY DEF TypeOK, StartupTypeOK, Bits, Kinds

(* A bit is kept, set or cleared. *)
LEMMA StepBits == Bits /\ [Next]_vars => Bits'
<1>. SUFFICES ASSUME Bits, [Next]_vars PROVE Bits'
  OBVIOUS
<1>1. CASE Starting
  BY <1>1, Zenon DEF Bits, Starting, goroutines, StartupNext, ParseFlags, Stat, Create, Write,
     ReadConfig, Drop, CreateDatabase, UseDatabase, CreateDevices, CreateData, Reconnect,
     StatementFails, Critical, running, database
<1>2. CASE Start \/ Edit \/ Kill \/ Exit \/ StoreRow
  BY <1>2, Zenon DEF Bits, Start, StartProcess, Edit, EditConfig, Kill, KillProcess, Exit,
     EndProcess, StoreRow, Store, goroutines, running, database
<1>3. CASE StartListener \/ StartTicker \/ StartScheduler \/ Listen \/ Complete
  BY <1>3, Zenon DEF Bits, StartListener, StartTicker, StartScheduler, Listen, Complete,
     running, database, startup
<1>4. CASE TickerFires \/ SelectTick \/ SelectCancel \/ StopTicker \/ PollEnds
  BY <1>4, Zenon DEF Bits, TickerFires, SelectTick, SelectCancel, StopTicker, PollEnds,
     running, database, startup
<1>5. CASE UNCHANGED vars
  BY <1>5, Zenon DEF Bits, vars
<1>. QED
  BY <1>1, <1>2, <1>3, <1>4, <1>5 DEF Next

(* The steps of a starting process. *)
LEMMA StartingKinds == Kinds /\ StartupInv /\ Starting => Kinds'
<1>. SUFFICES ASSUME Kinds, StartupInv, Starting PROVE Kinds'
  OBVIOUS
<1>. USE DEF Kinds, Starting, goroutines, Launching, Serving, Conf, Found
<1>1. CASE ParseFlags \/ Stat \/ ReadConfig
  BY <1>1 DEF ParseFlags, Stat, ReadConfig, Critical, Goto, AfterRead, running, database
<1>2. CASE Create \/ Write \/ Reconnect \/ StatementFails
  BY <1>2 DEF Create, Write, Reconnect, StatementFails, Critical, Goto, running, database
<1>3. CASE Drop \/ CreateDatabase \/ UseDatabase
  <2>1. /\ UNCHANGED <<args, configuration, said, conf, found, listening, scheduler, polls>>
        /\ main' \in {"database", "listen", "use", "devices"}
    BY <1>3 DEF Drop, CreateDatabase, UseDatabase, Executed, Goto, AfterClear
  <2>2. schema' = {} \/ schema' = {"database"} \/ schema' = schema
    BY <1>3 DEF Drop, CreateDatabase, UseDatabase, Executed
  <2>3. schema' \subseteq Schema /\ (schema' # {} => "database" \in schema')
    BY <2>2 DEF Schema
  <2>. QED
    BY <2>1, <2>3
<1>4. CASE CreateDevices \/ CreateData
  <2>1. /\ UNCHANGED <<args, configuration, said, conf, found, listening, scheduler, polls>>
        /\ main' \in {"data", "listen"}
    BY <1>4 DEF CreateDevices, CreateData, Executed, Goto
  <2>2. "database" \in schema' /\ schema' \subseteq Schema
    <3>1. "database" \in schema
      BY <1>4 DEF CreateDevices, CreateData, StartupInv
    <3>2. schema' = schema \cup {"devices"} \/ schema' = schema \cup {"data"}
      BY <1>4 DEF CreateDevices, CreateData, Executed
    <3>. QED
      BY <3>1, <3>2 DEF Schema
  <2>. QED
    BY <2>1, <2>2
<1>. QED
  BY <1>1, <1>2, <1>3, <1>4 DEF StartupNext

(* Every step keeps the other types. *)
LEMMA StepKinds == Kinds /\ StartupInv /\ [Next]_vars => Kinds'
<1>. SUFFICES ASSUME Kinds, StartupInv, [Next]_vars PROVE Kinds'
  OBVIOUS
<1>1. CASE Starting
  BY <1>1, StartingKinds
<1>. USE DEF Kinds, Launching, Serving, Found
<1>2. CASE Start
  BY <1>2 DEF Start, StartProcess, database
<1>3. CASE Edit
  BY <1>3 DEF Edit, EditConfig, goroutines, database
<1>4. CASE Kill \/ Exit \/ StoreRow
  BY <1>4 DEF Kill, KillProcess, Exit, EndProcess, StoreRow, Store, goroutines, running, database
<1>5. CASE StartListener \/ StartTicker \/ StartScheduler
  BY <1>5 DEF StartListener, StartTicker, StartScheduler, running, database
<1>6. CASE Listen \/ Complete \/ SelectCancel
  BY <1>6 DEF Listen, Complete, SelectCancel, running, database, startup
<1>7. CASE TickerFires \/ SelectTick \/ StopTicker \/ PollEnds
  BY <1>7 DEF TickerFires, SelectTick, StopTicker, PollEnds, startup
<1>8. CASE UNCHANGED vars
  BY <1>8 DEF vars
<1>. QED
  BY <1>1, <1>2, <1>3, <1>4, <1>5, <1>6, <1>7, <1>8 DEF Next

(* Every reachable state is well typed: a process that goes on from its     *)
(* configuration file has read JSON there, whatever the file is by now, and*)
(* a table exists only inside of the database.                             *)
THEOREM TypeCorrect == Spec => []TypeOK
<1>1. Init => TypeOK
  <2>1. Init => Bits
    BY DEF Init, StartupInit, NoGoroutines, Bits
  <2>2. Init => Kinds
    BY DEF Init, StartupInit, NoGoroutines, Kinds, Found
  <2>. QED
    BY <2>1, <2>2, TypeParts
<1>2. TypeOK /\ StartupInv /\ [Next]_vars => TypeOK'
  <2>1. TypeOK' <=> Bits' /\ Kinds'
    BY DEF TypeOK, StartupTypeOK, Bits, Kinds
  <2>. QED
    BY <2>1, TypeParts, StepBits, StepKinds
<1>. QED
  BY <1>1, <1>2, StartupInOrder, PTL DEF Spec

-----------------------------------------------------------------------------
(* What a process promises when it starts or ends.                         *)

(* InitDatabase: for any sequence of processes, failures, kills and lost    *)
(* connections, a process told to initialise the database serves only on a *)
(* complete one.                                                           *)
THEOREM InitMakesDatabaseHolds == Spec => []InitMakesDatabase
<1>1. TypeOK /\ StartupInv => InitMakesDatabase
  BY DEF TypeOK, StartupInv, InitMakesDatabase, Up
<1>. QED
  BY <1>1, StartupInOrder, TypeCorrect, PTL

(* main: a process that ends by itself has said why, or the file it read    *)
(* named no PollingInterval above 0, whoever edits the file meanwhile.     *)
THEOREM EndIsExplainedHolds == Spec => []EndIsExplained
<1>1. StartupInv => EndIsExplained
  BY DEF StartupInv
<1>. QED
  BY <1>1, StartupInOrder, PTL

(* WriteSampleConfig, with the file written by others at any time: what it  *)
(* overwrites was written after its os.Stat, or hidden from it; and no     *)
(* process loses rows without having been told to clear the database.      *)
THEOREM NothingElseLostHolds == Spec => NothingElseLost
<1>1. TypeOK /\ StartupInv /\ [Next]_vars
        => [/\ ChangesFile /\ conf \in {"zero", "good"} => found \in {"hidden", "edited"}
            /\ rows /\ ~rows' => args \cap {"cleardb", "reinitdb"} # {}]_startup
  <2>. SUFFICES ASSUME StartupInv, [Next]_vars
       PROVE  /\ ChangesFile /\ conf \in {"zero", "good"} => found \in {"hidden", "edited"}
              /\ rows /\ ~rows' => args \cap {"cleardb", "reinitdb"} # {}
    OBVIOUS
  <2>1. Create \/ Write \/ Edit \/ conf' = conf
    BY DEF Next, Starting, StartupNext, ParseFlags, Stat, ReadConfig, Drop, CreateDatabase,
       UseDatabase, CreateDevices, CreateData, Reconnect, StatementFails, Executed, Critical,
       Start, StartProcess, Kill, KillProcess, StoreRow, Store, StartListener, StartTicker,
       StartScheduler, Listen, Complete, TickerFires, SelectTick, SelectCancel, StopTicker,
       PollEnds, Exit, EndProcess, running, database, startup, vars
  <2>2. ChangesFile => main \in {"create", "write"}
    BY <2>1 DEF ChangesFile, Create, Write, Edit, EditConfig
  <2>3. ChangesFile /\ conf \in {"zero", "good"} => found \in {"hidden", "edited"}
    BY <2>2 DEF StartupInv
  <2>4. Drop \/ rows' = rows \/ rows' = TRUE
    BY DEF Next, Starting, StartupNext, ParseFlags, Stat, Create, Write, ReadConfig,
       CreateDatabase, UseDatabase, CreateDevices, CreateData, Reconnect, StatementFails,
       Critical, Edit, EditConfig,
       Start, StartProcess, Kill, KillProcess, StoreRow, Store, StartListener, StartTicker,
       StartScheduler, Listen, Complete, TickerFires, SelectTick, SelectCancel, StopTicker,
       PollEnds, Exit, EndProcess, running, database, startup, vars
  <2>5. rows /\ ~rows' => args \cap {"cleardb", "reinitdb"} # {}
    BY <2>4 DEF Drop, StartupInv, Wants
  <2>. QED
    BY <2>3, <2>5
<1>. QED
  BY <1>1, StartupInOrder, TypeCorrect, PTL DEF Spec, NothingElseLost

-----------------------------------------------------------------------------
(* The end of the polls.                                                   *)

(* Every step keeps SchedulerInv. *)
LEMMA StepScheduler == TypeOK /\ SchedulerInv /\ [Next]_vars => SchedulerInv'
<1>. SUFFICES ASSUME TypeOK, SchedulerInv, [Next]_vars PROVE SchedulerInv'
  OBVIOUS
<1>. USE DEF SchedulerInv, Launching
<1>1. CASE Starting
  <2>1. main \in Launching /\ scheduler' = scheduler
    BY <1>1 DEF Starting, goroutines, StartupNext, ParseFlags, Stat, Create, Write,
       ReadConfig, Drop, CreateDatabase, UseDatabase, CreateDevices, CreateData, Reconnect,
       StatementFails
  <2>. QED
    BY <2>1
<1>2. CASE Start \/ Edit \/ Kill \/ Exit
  BY <1>2 DEF Start, StartProcess, Edit, EditConfig, Kill, KillProcess, Exit, EndProcess,
     goroutines
<1>3. CASE StartListener \/ StartTicker \/ StartScheduler
  BY <1>3 DEF StartListener, StartTicker, StartScheduler
<1>4. CASE Complete \/ SelectCancel \/ StopTicker
  BY <1>4 DEF Complete, SelectCancel, StopTicker, startup, TypeOK
<1>5. CASE UNCHANGED <<main, scheduler>>
  BY <1>5
<1>. QED
  BY <1>1, <1>2, <1>3, <1>4, <1>5
  DEF Next, StoreRow, Store, Listen, TickerFires, SelectTick, PollEnds, goroutines, startup, vars

(* StartScheduledPolling: behind its rendezvous with main, and when main    *)
(* ends without one, no poll is started any more.                          *)
THEOREM NoPollAfterCancelHolds == Spec => NoPollAfterCancel
<1>1. Init => SchedulerInv
  BY DEF Init, StartupInit, NoGoroutines, SchedulerInv, Launching
<1>2. TypeOK /\ SchedulerInv /\ [Next]_vars
        => [(main \in {"exit", "gone"}) => polls' \subseteq polls]_vars
  <2>. SUFFICES ASSUME TypeOK, SchedulerInv, [Next]_vars, main \in {"exit", "gone"}
       PROVE  polls' \subseteq polls
    OBVIOUS
  <2>1. ~SelectTick
    BY DEF SelectTick, SchedulerInv, Up
  <2>2. polls' = polls \/ polls' = {} \/ \E p \in polls : polls' = polls \ {p}
    BY <2>1 DEF Next, Edit, Start, Starting, Kill, StoreRow, StartListener, StartTicker,
       StartScheduler, Listen, Complete, TickerFires, SelectCancel, StopTicker, PollEnds,
       Exit, goroutines, vars
  <2>. QED
    BY <2>2
<1>. QED
  BY <1>1, <1>2, StepScheduler, TypeCorrect, PTL DEF Spec, NoPollAfterCancel

=============================================================================
