------------------------------ MODULE Lifecycle ------------------------------
(***************************************************************************)
(* SenPi processes, one after the other: how each starts (Startup), its     *)
(* goroutines and the two unbuffered channels between them (SenPi/main.go; *)
(* StartListeningForAnnouncements and StartScheduledPolling in             *)
(* SenPi/riot/riot_server.go): main waits for the listener to end, then    *)
(* makes the scheduler stop, then ends the process.  What a poll does is   *)
(* the business of Poller; here it is a goroutine that runs and returns.   *)
(***************************************************************************)
EXTENDS Startup

CONSTANTS
    Polls        \* bound: names for the polls in flight (the code has no bound)

VARIABLES
    listening,   \* the goroutine StartListeningForAnnouncements
    scheduler,   \* the goroutine StartScheduledPolling
    ticking,     \* the ticker runs
    tick,        \* ticker.C holds a tick (it has room for one)
    polls        \* the goroutines pollRegisteredDevices in flight

goroutines == <<listening, scheduler, ticking, tick, polls>>
vars == <<main, args, configuration, said, conf, found, schema, selected, rows,
          listening, scheduler, ticking, tick, polls>>

Serving == {"listen", "ticker", "schedule", "wait", "cancel"}

TypeOK ==
    /\ StartupTypeOK
    /\ main \in Launching \cup Serving \cup {"exit", "gone"}
    /\ listening \in {"unborn", "open", "serve", "complete", "done"}
    /\ scheduler \in {"unborn", "select", "stop", "done"}
    /\ ticking \in BOOLEAN /\ tick \in BOOLEAN
    /\ polls \subseteq Polls

NoGoroutines ==
    /\ listening = "unborn"
    /\ scheduler = "unborn"
    /\ ticking = FALSE
    /\ tick = FALSE
    /\ polls = {}

Init == StartupInit /\ NoGoroutines

(* No goroutine moves. *)
Starting == StartupNext /\ UNCHANGED goroutines

(* The administrator starts the program; killing it leaves the goroutines    *)
(* where they stand, a new process has none.                               *)
Start ==
    /\ \E command \in Commands : StartProcess(command)
    /\ listening' = "unborn" /\ scheduler' = "unborn"
    /\ ticking' = FALSE /\ tick' = FALSE /\ polls' = {}

Kill == KillProcess /\ polls' = {} /\ UNCHANGED <<listening, scheduler, ticking, tick>>

Edit == EditConfig /\ UNCHANGED goroutines

(* go riot.StartListeningForAnnouncements(configuration, completion) *)
StartListener ==
    /\ main = "listen"
    /\ listening' = "open"
    /\ main' = "ticker"
    /\ UNCHANGED <<running, said, scheduler, ticking, tick, polls>>

(* time.NewTicker; it panics when PollingInterval is not above 0, and the deferred     *)
(* os.Exit(0) ends the process before the panic is printed.                *)
StartTicker ==
    /\ main = "ticker"
    /\ \/ configuration = "good" /\ main' = "schedule" /\ ticking' = TRUE
       \/ configuration # "good" /\ main' = "exit" /\ UNCHANGED ticking
    /\ UNCHANGED <<running, said, listening, scheduler, tick, polls>>

(* Mutant: the go in front of riot.StartScheduledPolling is missing, main    *)
(* runs the scheduler itself.                                              *)
StartScheduler_NoGo ==
    /\ main = "schedule"
    /\ scheduler' = "select"
    /\ UNCHANGED <<startup, listening, ticking, tick, polls>>

(* go riot.StartScheduledPolling(ticker, configuration, cancelPolling) *)
StartScheduler ==
    /\ main = "schedule"
    /\ scheduler' = "select"
    /\ main' = "wait"
    /\ UNCHANGED <<running, said, listening, ticking, tick, polls>>

(* listenToLinkLocalMulticast: resolving and listening, or an error; once it *)
(* serves it never returns, since every later error is followed by continue. *)
Listen ==
    /\ Up
    /\ listening = "open"
    /\ listening' \in {"serve", "complete"}
    /\ UNCHANGED <<startup, scheduler, ticking, tick, polls>>

(* completion <- struct{}{} meets <-completion; "Server stopping" *)
Complete ==
    /\ listening = "complete"
    /\ main = "wait"
    /\ listening' = "done"
    /\ main' = "cancel"
    /\ said' = "reason"
    /\ UNCHANGED <<running, scheduler, ticking, tick, polls>>

(* The ticker sends without blocking: a tick that finds the channel full is  *)
(* dropped.                                                                *)
TickerFires ==
    /\ Up
    /\ ticking
    /\ tick' = TRUE
    /\ UNCHANGED <<startup, listening, scheduler, ticking, polls>>

(* Mutant: the select is not inside of a loop. *)
SelectTick_Once ==
    /\ Up
    /\ scheduler = "select"
    /\ tick
    /\ tick' = FALSE
    /\ \E p \in Polls \ polls : polls' = polls \cup {p}
    /\ scheduler' = "done"
    /\ UNCHANGED <<startup, listening, ticking>>

(* case <-ticker.C: go pollRegisteredDevices(configuration) *)
SelectTick ==
    /\ Up
    /\ scheduler = "select"
    /\ tick
    /\ tick' = FALSE
    /\ \E p \in Polls \ polls : polls' = polls \cup {p}
    /\ UNCHANGED <<startup, listening, scheduler, ticking>>

(* Mutant: the cancel case does not return. *)
SelectCancel_NoReturn ==
    /\ scheduler = "select"
    /\ main = "cancel"
    /\ main' = "exit"
    /\ UNCHANGED <<running, said, listening, scheduler, ticking, tick, polls>>

(* case <-cancel meets cancelPolling <- struct{}{} *)
SelectCancel ==
    /\ scheduler = "select"
    /\ main = "cancel"
    /\ scheduler' = "stop"
    /\ main' = "exit"
    /\ UNCHANGED <<running, said, listening, ticking, tick, polls>>

(* ticker.Stop(); return, which main does not wait for *)
StopTicker ==
    /\ Up
    /\ scheduler = "stop"
    /\ ticking' = FALSE
    /\ scheduler' = "done"
    /\ UNCHANGED <<startup, listening, tick, polls>>

(* pollRegisteredDevices returns: its goroutine is gone. *)
PollEnds ==
    /\ Up
    /\ \E p \in polls : polls' = polls \ {p}
    /\ UNCHANGED <<startup, listening, scheduler, ticking, tick>>

(* The process ends with every goroutine in it. *)
Exit == EndProcess /\ polls' = {} /\ UNCHANGED <<listening, scheduler, ticking, tick>>

(* The listener registers a board, or a poll stores an answer. *)
StoreRow ==
    /\ Up
    /\ listening = "serve" \/ polls # {}
    /\ Store
    /\ UNCHANGED goroutines

Next ==
    \/ Edit \/ Start \/ Starting \/ Kill \/ StoreRow
    \/ StartListener \/ StartTicker \/ StartScheduler
    \/ Listen \/ Complete
    \/ TickerFires \/ SelectTick \/ SelectCancel \/ StopTicker
    \/ PollEnds \/ Exit

(* Goroutines that can run do run, polls end (Poller), and select picks      *)
(* among its ready cases at random, so it picks cancel some day.  A SQL    *)
(* statement that can succeed and is tried again and again succeeds some   *)
(* day.  Nobody has to start a process, or to kill one.                    *)
Fairness ==
    /\ SF_vars(Drop /\ Starting) /\ SF_vars(CreateDatabase /\ Starting)
    /\ SF_vars(UseDatabase /\ Starting)
    /\ SF_vars(CreateDevices /\ Starting) /\ SF_vars(CreateData /\ Starting)
    /\ WF_vars(StartListener) /\ WF_vars(StartTicker)
    /\ WF_vars(StartScheduler) /\ WF_vars(Listen) /\ WF_vars(Complete)
    /\ WF_vars(TickerFires) /\ SF_vars(SelectTick) /\ SF_vars(SelectCancel)
    /\ WF_vars(StopTicker) /\ WF_vars(PollEnds) /\ WF_vars(Exit)

Spec == Init /\ [][Next]_vars /\ Fairness

-----------------------------------------------------------------------------
(* main: a listener that cannot listen takes the whole server down, through  *)
(* completion, cancelPolling and os.Exit, whatever the scheduler is doing.  *)
FailureEndsServer == (listening = "complete") ~> (main = "gone")

(* StartScheduledPolling: while the listener serves, polls are started again *)
(* and again.                                                              *)
ServerKeepsPolling ==
    []<>(main # "wait" \/ listening # "serve") \/ []<><<SelectTick>>_vars

(* --initdb and --reinitdb: whatever a failure or a kill left of the         *)
(* database, an administrator who gives the two commands in turn gets to a *)
(* complete one (--initdb alone fails on half of a database, --reinitdb    *)
(* alone fails on none).                                                   *)
RecoverableDatabase ==
    /\ []<>(main = "database" /\ args = {"initdb"})
    /\ []<>(main \in {"clear", "database"} /\ args = {"reinitdb"})
    => []<>(schema = Schema)

(* StartScheduledPolling returns on cancel: main is past its rendezvous with *)
(* a scheduler only when no poll can be started any more.                  *)
NoPollAfterCancel ==
    [][(main \in {"exit", "gone"}) => polls' \subseteq polls]_vars

-----------------------------------------------------------------------------
(* What makes the safety properties inductive (LifecycleProofs). *)

(* How far a process has come says what it has found and made. *)
StartupInv ==
    /\ main = "create" => found \in {"absent", "hidden", "edited"}
    /\ main = "create" /\ found = "absent" => conf = "none"
    /\ main = "write" => found \in {"created", "edited"}
    /\ main = "write" /\ found = "created" => conf = "broken"
    /\ main = "clear" => Wants("cleardb")
    /\ main \in {"use", "devices"} => schema = {"database"}
    /\ main = "data" => schema = {"database", "devices"}
    /\ main \in Serving /\ Wants("initdb") => schema = Schema
    /\ main \in Serving \cup {"clear", "database", "use", "devices", "data"}
         => configuration \in {"zero", "good"}
    /\ main = "cancel" => said = "reason"
    /\ EndIsExplained

(* The scheduler is born last, and main ends behind it. *)
SchedulerInv ==
    /\ main \in Launching \cup {"listen", "ticker", "schedule"} => scheduler = "unborn"
    /\ main = "exit" => scheduler # "select"

=============================================================================
