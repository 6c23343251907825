------------------------------- MODULE Startup -------------------------------
(***************************************************************************)
(* How a SenPi process starts: readCommandLineArgs in SenPi/main.go, the   *)
(* configuration file of SenPi/config/config.go and the database that      *)
(* SenPi/db/db.go creates and drops.  The file and the database outlive    *)
(* the process; any step of one can fail, and the process can be killed    *)
(* between two of them.  Lifecycle goes on from here.                      *)
(***************************************************************************)
EXTENDS Integers

CONSTANTS
    Commands     \* the command lines the administrator uses: sets of Flags

Flags == {"config", "sampleconfig", "cleardb", "initdb", "reinitdb"}

ASSUME StartupAssumption == Commands \subseteq SUBSET Flags

VARIABLES
    main,        \* where main() stands
    args,        \* the flags of this process
    configuration, \* what this process has read of the configuration file
    said,        \* the log names the reason why this process ends
    conf,        \* what the configuration file holds
    found,       \* what the file was when this process looked, or since:
                 \* history, but for the file that is open in Write
    schema,      \* the database and its tables, as far as they exist
    selected,    \* the pooled connection of InitDatabase is in the database
    rows         \* the tables hold boards and readings

startup == <<main, args, configuration, said, conf, found, schema, selected, rows>>
database == <<schema, selected, rows>>
running == <<args, configuration, conf, found, database>>

Schema == {"database", "devices", "data"}

\* "zero": JSON with no PollingInterval above 0; "broken": no JSON
Conf == {"none", "broken", "zero", "good"}

\* "hidden": os.Stat failed on a file that is there; "edited": somebody
\* else has written or removed it since
Found == {"nothing", "absent", "hidden", "edited", "created"}

Launching == {"flags", "stat", "create", "write", "read", "clear",
              "database", "use", "devices", "data"}

StartupTypeOK ==
    /\ args \in Commands
    /\ configuration \in {"unread", "zero", "good"}
    /\ said \in {"nothing", "reason", "killed"}
    /\ conf \in Conf
    /\ found \in Found
    /\ schema \subseteq Schema /\ (schema # {} => "database" \in schema)
    /\ selected \in BOOLEAN
    /\ rows \in BOOLEAN

StartupInit ==
    /\ main = "gone"
    /\ args \in Commands
    /\ configuration = "unread"
    /\ said = "killed"
    /\ conf \in Conf
    /\ found = "nothing"
    /\ schema = {}
    /\ selected = FALSE
    /\ rows = FALSE

Up == main # "gone"

-----------------------------------------------------------------------------
(* The administrator, or another program, writes, edits or removes the file,  *)
(* at any time: also between os.Stat, os.Create and Write of a process.    *)
EditConfig ==
    /\ conf' \in Conf
    /\ found' = IF main \in {"create", "write"} THEN "edited" ELSE found
    /\ UNCHANGED <<main, args, configuration, said, database>>

(* The variables of a new process *)
StartProcess(command) ==
    /\ ~Up
    /\ main' = "flags"
    /\ args' = command
    /\ configuration' = "unread"
    /\ said' = "nothing"
    /\ found' = "nothing"
    /\ UNCHANGED <<conf, database>>

(* log.Critical(err.Error()); runtime.Goexit() *)
Critical ==
    /\ main' = "exit"
    /\ said' = "reason"
    /\ UNCHANGED running

(* main goes to step, the log stays *)
Goto(step) ==
    /\ main' = step
    /\ UNCHANGED said

(* Mutant: --reinitdb sets initDBPtr only. *)
Wants_InitOnly(flag) == flag \in args \/ (flag = "initdb" /\ "reinitdb" \in args)

(* The flags as --reinitdb leaves them *)
Wants(flag) == flag \in args \/ "reinitdb" \in args

AfterRead == IF Wants("cleardb") THEN "clear"
             ELSE IF Wants("initdb") THEN "database" ELSE "listen"

AfterClear == IF Wants("initdb") THEN "database" ELSE "listen"

(* flag.Parse, and the choice between the two uses of the program *)
ParseFlags ==
    /\ main = "flags"
    /\ Goto(IF "sampleconfig" \in args THEN "stat" ELSE "read")
    /\ UNCHANGED running

(* Mutant: WriteSampleConfig does not look whether the file is there. *)
Stat_Overwrites ==
    /\ main = "stat"
    /\ \/ Critical
       \/ /\ "config" \in args
          /\ found' = "absent"
          /\ Goto("create")
          /\ UNCHANGED <<args, configuration, conf, database>>

(* WriteSampleConfig: the path and os.Stat.  Any error of os.Stat leads on,  *)
(* not only that there is no file.  Without -config the path is a          *)
(* directory: it exists, or os.Create fails on it (or GOPATH is not set).  *)
Stat ==
    /\ main = "stat"
    /\ \/ Critical
       \/ /\ "config" \in args
          /\ found' = IF conf = "none" THEN "absent" ELSE "hidden"
          /\ Goto("create")
          /\ UNCHANGED <<args, configuration, conf, database>>

(* os.Create: an empty file, also where there is one by now *)
Create ==
    /\ main = "create"
    /\ \/ Critical
       \/ /\ conf' = "broken"
          /\ found' = "created"
          /\ Goto("write")
          /\ UNCHANGED <<args, configuration, database>>

(* file.Write, which may fail half way, and the log of its outcome.  A file   *)
(* that was edited since may hold a mixture; one that was removed or       *)
(* replaced stays what it is.                                              *)
Write ==
    /\ main = "write"
    /\ main' = "exit"
    /\ said' = "reason"
    /\ conf' \in {conf, "broken", "good"}
    /\ UNCHANGED <<args, configuration, found, database>>

(* Mutant: the error of decoder.Decode is lost. *)
ReadConfig_Decodes ==
    /\ main = "read"
    /\ \/ Critical
       \/ /\ conf # "none"
          /\ configuration' = conf
          /\ Goto(AfterRead)
          /\ UNCHANGED <<args, conf, found, database>>

(* ReadConfig, db.Init: no path, no file or no JSON end the process; what    *)
(* the JSON does not name is zero.                                         *)
ReadConfig ==
    /\ main = "read"
    /\ \/ Critical
       \/ /\ conf \in {"zero", "good"}
          /\ configuration' = conf
          /\ Goto(AfterRead)
          /\ UNCHANGED <<args, conf, found, database>>

-----------------------------------------------------------------------------
(* A step of InitDatabase or ClearDatabase that succeeds *)
Executed(next, newSchema) ==
    /\ schema' = newSchema
    /\ Goto(next)
    /\ UNCHANGED <<args, configuration, conf, found>>

(* ClearDatabase: DROP DATABASE fails when there is none. *)
Drop ==
    /\ main = "clear"
    /\ "database" \in schema
    /\ Executed(AfterClear, {})
    /\ rows' = FALSE
    /\ UNCHANGED selected

(* InitDatabase: CREATE DATABASE fails when there is one. *)
CreateDatabase ==
    /\ main = "database"
    /\ "database" \notin schema
    /\ Executed("use", {"database"})
    /\ selected' = FALSE
    /\ UNCHANGED rows

(* USE holds for the connection it was sent on. *)
UseDatabase ==
    /\ main = "use"
    /\ selected' = TRUE
    /\ Executed("devices", schema)
    /\ UNCHANGED rows

CreateDevices ==
    /\ main = "devices"
    /\ selected
    /\ Executed("data", schema \cup {"devices"})
    /\ UNCHANGED <<selected, rows>>

CreateData ==
    /\ main = "data"
    /\ selected
    /\ Executed("listen", schema \cup {"data"})
    /\ UNCHANGED <<selected, rows>>

(* The pool lost its connection and the next statement takes a new one. *)
Reconnect ==
    /\ main \in {"devices", "data"}
    /\ selected
    /\ selected' = FALSE
    /\ UNCHANGED <<main, args, configuration, said, conf, found, schema, rows>>

(* Mutant: the errors of the CREATE TABLE statements are not looked at. *)
StatementFails_Ignored ==
    \/ main \in {"clear", "database", "use"} /\ Critical
    \/ main = "devices" /\ Goto("data") /\ UNCHANGED running
    \/ main = "data" /\ Goto("listen") /\ UNCHANGED running

(* Every Exec may return an error. *)
StatementFails ==
    /\ main \in {"clear", "database", "use", "devices", "data"}
    /\ Critical

-----------------------------------------------------------------------------
(* defer os.Exit(0) *)
EndProcess ==
    /\ main = "exit"
    /\ main' = "gone"
    /\ UNCHANGED <<said, running>>

(* The process is killed. *)
KillProcess ==
    /\ Up
    /\ main' = "gone"
    /\ said' = "killed"
    /\ UNCHANGED running

(* addDevice or addDatapoint succeeds: there are rows that can be lost. *)
Store ==
    /\ "devices" \in schema
    /\ rows' = TRUE
    /\ UNCHANGED <<main, args, configuration, said, conf, found, schema, selected>>

StartupNext ==
    \/ ParseFlags
    \/ Stat \/ Create \/ Write
    \/ ReadConfig
    \/ Drop \/ CreateDatabase \/ UseDatabase \/ CreateDevices \/ CreateData
    \/ Reconnect \/ StatementFails

-----------------------------------------------------------------------------
(* InitDatabase: a process that was told to initialise the database goes on  *)
(* to serve only when the database and both tables are there; a connection *)
(* that broke, or a half-made database, ends it instead.                   *)
InitMakesDatabase ==
    Up /\ main \notin Launching \cup {"exit"} /\ Wants("initdb") => schema = Schema

(* main: a process that ends by itself has logged why, unless the file it    *)
(* read was JSON without a PollingInterval above 0: time.NewTicker then    *)
(* panics, and the deferred os.Exit(0) keeps the panic from being printed. *)
(* What the file holds by now does not matter.                             *)
EndIsExplained ==
    main = "exit" => said # "nothing" \/ configuration = "zero"

(* A step of the process on the configuration file: main goes on. *)
ChangesFile == main' # main /\ conf' # conf

(* WriteSampleConfig and the database commands: --sampleconfig changes a     *)
(* file that somebody else wrote only if it was written after os.Stat      *)
(* looked (nothing holds the path between os.Stat, os.Create and Write), or*)
(* if os.Stat failed on it; and no process loses rows unless --cleardb or  *)
(* --reinitdb was given to it.                                             *)
NothingElseLost ==
    [][/\ ChangesFile /\ conf \in {"zero", "good"} => found \in {"hidden", "edited"}
       /\ rows /\ ~rows' => args \cap {"cleardb", "reinitdb"} # {}]_startup

=============================================================================
