----------------------------- MODULE Dispatcher -----------------------------
(***************************************************************************)
(* The agent's dispatcher task (packages/agent/src/dispatcher.rs) and the  *)
(* persisted mode it works under (packages/agent/src/mode.rs), with the    *)
(* process dying and starting again around it.                             *)
(*                                                                         *)
(* The dispatcher takes one message at a time and reads the mode once, on  *)
(* taking it; the handler then runs to its reply, through awaits at which  *)
(* the process may die.  The channels around the task are AgentTasks.      *)
(*                                                                         *)
(* Left out: the text of errors and results, the version of a config push  *)
(* (echoed, never compared) and the arguments of a command.  Applying a    *)
(* config is the hand-over to the adapter layer, which the code stubs.     *)
(***************************************************************************)
EXTENDS AgentMode

CONSTANTS Requests,        \* message ids
          Commands,        \* base commands the server may ask for
          Offered,         \* mode configs the server may ask for
          NoConfig, NoCommand, Missing, Corrupt, Idle

ASSUME OfferedAssumption == Offered \subseteq ModeConfig
ASSUME FileAssumption == Missing \notin ModeConfig /\ Corrupt \notin ModeConfig
ASSUME NoConfigAssumption == NoConfig \notin ModeConfig
ASSUME NoCommandAssumption == NoCommand \notin AllowedCommands

\* NoConfig, NoCommand and parses = FALSE stand for a payload serde rejects.
Messages ==
    [type : {"CONFIG"}, parses : {TRUE}, section : Sections,
     shape : {"object", "other", "null"}]
    \cup [type : {"CONFIG"}, parses : {FALSE}]
    \cup [type : {"EXEC"}, command : Commands \cup {NoCommand}]
    \cup [type : {"UPGRADE"}, parses : BOOLEAN]
    \cup [type : {"MODE_UPDATE"}, config : Offered \cup {NoConfig}]
    \cup [type : {"REBOOT", "STATUS_REQUEST", "PING", "other"}]

\* Where a handler can be: at its start, or past an await.
Steps == {"start", "running", "upgrading", "installed", "writing", "persisted"}

ASSUME IdleAssumption ==
    Idle \notin [req : Requests, msg : Messages, mode : ModeConfig, at : Steps]

VARIABLES
    running,   \* the process is up
    mode,      \* ModeConfig in the watch channel
    file,      \* /jffs/ngfw/mode.json
    task,      \* Idle, or the message in hand, the mode read for it, and where
    reply,     \* what became of each request
    effect,    \* what each request has done to the router
    reboots,   \* accepted reboots whose two seconds are not over
    restarts,  \* installed upgrades whose restart is still to come
    settled,   \* history: the mode last acknowledged, or loaded at start
    begun,     \* history: a write of the mode file began after that
    asked      \* history: the config of that write

vars == <<running, mode, file, task, reply, effect, reboots, restarts,
          settled, begun, asked>>

-----------------------------------------------------------------------------
NoEffect == [kind |-> "none"]

Effects == [kind : {"config"}, section : Sections]
           \cup [kind : {"exec"}, command : AllowedCommands]
           \cup [kind : {"none", "install", "stale_binary", "reboot_granted", "rebooted"}]

Replies == {"CONFIG_ACK", "CONFIG_FAIL", "EXEC_RESULT", "STATUS", "PONG",
            "STATUS_OK", "ERROR", "MODE_ACK", "MODE_NACK"}

TypeOK ==
    /\ running \in BOOLEAN
    /\ mode \in ModeConfig
    /\ file \in ModeConfig \cup {Missing, Corrupt}
    /\ task \in [req : Requests, msg : Messages, mode : ModeConfig, at : Steps]
                  \cup {Idle}
    /\ reply \in [Requests -> Replies \cup {"new", "taken", "ignored", "lost"}]
    /\ effect \in [Requests -> Effects]
    /\ reboots \subseteq Requests
    /\ restarts \subseteq Requests
    /\ settled \in ModeConfig
    /\ begun \in BOOLEAN
    /\ asked \in ModeConfig

\* Mutant: no fallback for a file that cannot be read.
PersistedAsIs(contents) == contents

\* load_persisted_mode: a file that is missing or does not parse means Observe.
Persisted(contents) == IF contents \in ModeConfig THEN contents ELSE DefaultMode

Init ==
    /\ running = TRUE
    /\ file \in Offered \cup {Missing, Corrupt}
    /\ mode = Persisted(file)
    /\ task = Idle
    /\ reply = [r \in Requests |-> "new"]
    /\ effect = [r \in Requests |-> NoEffect]
    /\ reboots = {}
    /\ restarts = {}
    /\ settled = mode
    /\ begun = FALSE
    /\ asked = mode

-----------------------------------------------------------------------------
(* dispatcher_loop *)

Take(r, m) ==
    /\ running /\ task = Idle
    /\ reply[r] = "new"
    /\ task' = [req |-> r, msg |-> m, mode |-> mode, at |-> "start"]
    /\ reply' = [reply EXCEPT ![r] = "taken"]
    /\ UNCHANGED <<running, mode, file, effect, reboots, restarts, settled, begun, asked>>

Handling(type) ==
    /\ running /\ task # Idle
    /\ task.at = "start" /\ task.msg.type = type

InHand(step) == running /\ task # Idle /\ task.at = step

\* The handler returns and the response goes to the outbound channel.
Answer(response) ==
    /\ reply' = [reply EXCEPT ![task.req] = response]
    /\ task' = Idle

GoOn(step) ==
    /\ task' = [task EXCEPT !.at = step]
    /\ UNCHANGED reply

Touch(e) == effect' = [effect EXCEPT ![task.req] = e]

ProcessUnchanged == UNCHANGED <<running, reboots, restarts>>
ModeUnchanged == UNCHANGED <<mode, file, settled, begun, asked>>

-----------------------------------------------------------------------------
(* Handlers *)

\* validate_config
ValidConfig(m) ==
    /\ m.shape # "null"
    /\ m.section \in ObjectSections => m.shape = "object"

\* Mutant: the override of the section is not looked at.
HandleConfigBaseMode ==
    /\ Handling("CONFIG") /\ task.msg.parses
    /\ IF task.mode.mode = "takeover" /\ ValidConfig(task.msg)
       THEN /\ Touch([kind |-> "config", section |-> task.msg.section])
            /\ Answer("CONFIG_ACK")
       ELSE /\ Answer("CONFIG_FAIL")
            /\ UNCHANGED effect
    /\ ProcessUnchanged /\ ModeUnchanged

\* Mutant: applied first and validated after.
HandleConfigUnvalidated ==
    /\ Handling("CONFIG") /\ task.msg.parses
    /\ IF EffectiveMode(task.mode, task.msg.section) = "takeover"
       THEN /\ Touch([kind |-> "config", section |-> task.msg.section])
            /\ Answer(IF ValidConfig(task.msg) THEN "CONFIG_ACK" ELSE "CONFIG_FAIL")
       ELSE /\ Answer("CONFIG_ACK")
            /\ UNCHANGED effect
    /\ ProcessUnchanged /\ ModeUnchanged

HandleConfig ==
    /\ Handling("CONFIG")
    /\ \/ /\ ~task.msg.parses
          /\ Answer("CONFIG_FAIL")
          /\ UNCHANGED effect
       \/ /\ task.msg.parses
          /\ LET effective == EffectiveMode(task.mode, task.msg.section) IN
             \/ /\ effective = "observe"
                /\ Answer("CONFIG_ACK")
                /\ UNCHANGED effect
             \/ /\ effective = "shadow"
                /\ Answer(IF ValidConfig(task.msg) THEN "CONFIG_ACK" ELSE "CONFIG_FAIL")
                /\ UNCHANGED effect
             \/ /\ effective = "takeover" /\ ValidConfig(task.msg)
                /\ Touch([kind |-> "config", section |-> task.msg.section])
                /\ Answer("CONFIG_ACK")
             \/ /\ effective = "takeover" /\ ~ValidConfig(task.msg)
                /\ Answer("CONFIG_FAIL")
                /\ UNCHANGED effect
    /\ ProcessUnchanged /\ ModeUnchanged

\* The checks of handle_exec that end in an error result.
ExecDenied(command, cfg) ==
    \/ command \notin AllowedCommands
    \/ command \notin DiagnosticCommands /\ ~CanExec(cfg)
    \/ command \in DiagnosticCommands /\ ~CanExecDiagnostics(cfg)

\* handle_exec up to the spawn.  What is denied, and a spawn that fails, is
\* reported as a result.
HandleExec ==
    /\ Handling("EXEC")
    /\ \/ /\ Answer("EXEC_RESULT")
          /\ UNCHANGED effect
       \/ /\ ~ExecDenied(task.msg.command, task.mode)
          /\ Touch([kind |-> "exec", command |-> task.msg.command])
          /\ GoOn("running")
    /\ ProcessUnchanged /\ ModeUnchanged

\* The process ends or its timeout does (which leaves it running).
ExecDone ==
    /\ InHand("running")
    /\ Answer("EXEC_RESULT")
    /\ UNCHANGED effect
    /\ ProcessUnchanged /\ ModeUnchanged

HandleReboot ==
    /\ Handling("REBOOT")
    /\ IF task.mode.mode = "takeover"
       THEN /\ Touch([kind |-> "reboot_granted"])
            /\ reboots' = reboots \cup {task.req}
            /\ Answer("STATUS_OK")
       ELSE /\ Answer("ERROR")
            /\ UNCHANGED <<effect, reboots>>
    /\ UNCHANGED <<running, restarts>>
    /\ ModeUnchanged

\* handle_upgrade up to the download.
HandleUpgrade ==
    /\ Handling("UPGRADE")
    /\ IF task.mode.mode = "takeover" /\ task.msg.parses
       THEN GoOn("upgrading")
       ELSE Answer("ERROR")
    /\ UNCHANGED effect
    /\ ProcessUnchanged /\ ModeUnchanged

\* Download, checksum or lookup fails, or the rename does and the backup made
\* just before it is put back: the binary is what it was.
UpgradeFails ==
    /\ InHand("upgrading")
    /\ Answer("ERROR")
    /\ UNCHANGED effect
    /\ ProcessUnchanged /\ ModeUnchanged

\* The backup fails, which is only logged, and so does the rename: what is put
\* back is an older backup, or part of one.
UpgradeRestoresStale ==
    /\ InHand("upgrading")
    /\ Touch([kind |-> "stale_binary"])
    /\ Answer("ERROR")
    /\ ProcessUnchanged /\ ModeUnchanged

UpgradeInstalls ==
    /\ InHand("upgrading")
    /\ Touch([kind |-> "install"])
    /\ GoOn("installed")
    /\ ProcessUnchanged /\ ModeUnchanged

UpgradeDone ==
    /\ InHand("installed")
    /\ restarts' = restarts \cup {task.req}
    /\ Answer("STATUS_OK")
    /\ UNCHANGED <<running, effect, reboots>>
    /\ ModeUnchanged

\* STATUS_REQUEST, PING, and the types the dispatcher ignores.
HandlePlain ==
    /\ \/ Handling("STATUS_REQUEST") /\ Answer("STATUS")
       \/ Handling("PING") /\ Answer("PONG")
       \/ Handling("other") /\ Answer("ignored")
    /\ UNCHANGED effect
    /\ ProcessUnchanged /\ ModeUnchanged

-----------------------------------------------------------------------------
(* handle_mode_update *)

\* Mutant: an error of the directory is logged and the mode broadcast all the same.
ModeUpdateUnpersisted ==
    /\ Handling("MODE_UPDATE") /\ task.msg.config # NoConfig
    /\ mode' = task.msg.config
    /\ settled' = task.msg.config
    /\ begun' = FALSE
    /\ Answer("MODE_ACK")
    /\ UNCHANGED <<file, effect, asked>>
    /\ ProcessUnchanged

\* The payload does not parse, the directory cannot be made, or the file cannot
\* be opened.
ModeUpdateRefused ==
    /\ Handling("MODE_UPDATE")
    /\ Answer("MODE_NACK")
    /\ UNCHANGED effect
    /\ ProcessUnchanged /\ ModeUnchanged

\* tokio::fs::write opens the file truncating it.
ModeWriteBegins ==
    /\ Handling("MODE_UPDATE") /\ task.msg.config # NoConfig
    /\ file' = Corrupt
    /\ begun' = TRUE
    /\ asked' = task.msg.config
    /\ GoOn("writing")
    /\ UNCHANGED <<mode, effect, settled>>
    /\ ProcessUnchanged

\* Mutant: the mode in force is written instead of the new one.
ModeWrittenOld ==
    /\ InHand("writing")
    /\ file' = mode
    /\ GoOn("persisted")
    /\ UNCHANGED <<mode, effect, settled, begun, asked>>
    /\ ProcessUnchanged

ModeWritten ==
    /\ InHand("writing")
    /\ file' = task.msg.config
    /\ GoOn("persisted")
    /\ UNCHANGED <<mode, effect, settled, begun, asked>>
    /\ ProcessUnchanged

\* The write fails and leaves what it had written.
ModeWriteFails ==
    /\ InHand("writing")
    /\ Answer("MODE_NACK")
    /\ UNCHANGED effect
    /\ ProcessUnchanged /\ ModeUnchanged

ModeBroadcast ==
    /\ InHand("persisted")
    /\ mode' = task.msg.config
    /\ settled' = task.msg.config
    /\ begun' = FALSE
    /\ Answer("MODE_ACK")
    /\ UNCHANGED <<file, effect, asked>>
    /\ ProcessUnchanged

-----------------------------------------------------------------------------
(* The process *)

\* The task in hand and the spawned timers die with the process.
Dies ==
    /\ running' = FALSE
    /\ task' = Idle
    /\ reply' = [r \in Requests |-> IF reply[r] = "taken" THEN "lost" ELSE reply[r]]
    /\ reboots' = {}
    /\ restarts' = {}

\* A crash or a kill, or a shutdown between two messages.  The system stays up:
\* the file is never synced, so what a power cut leaves of it is out of scope.
Stop ==
    /\ running
    /\ Dies
    /\ UNCHANGED effect
    /\ ModeUnchanged

\* The reboot command runs, whatever the mode is by now; it may fail.
RebootFires(r) ==
    /\ running /\ r \in reboots
    /\ \/ /\ effect' = [effect EXCEPT ![r] = [kind |-> "rebooted"]]
          /\ Dies
       \/ /\ reboots' = reboots \ {r}
          /\ UNCHANGED <<running, task, reply, effect, restarts>>
    /\ ModeUnchanged

\* `service ngfw-agent restart`, or exit(0) when that cannot be run.
RestartFires(r) ==
    /\ running /\ r \in restarts
    /\ Dies
    /\ UNCHANGED effect
    /\ ModeUnchanged

Boot ==
    /\ ~running
    /\ running' = TRUE
    /\ mode' = Persisted(file)
    /\ settled' = mode'
    /\ begun' = FALSE
    /\ UNCHANGED <<file, task, reply, effect, reboots, restarts, asked>>

-----------------------------------------------------------------------------
Handle ==
    \/ HandleConfig
    \/ HandleExec \/ ExecDone
    \/ HandleReboot
    \/ HandleUpgrade \/ UpgradeFails \/ UpgradeRestoresStale \/ UpgradeInstalls
    \/ UpgradeDone
    \/ HandlePlain
    \/ ModeUpdateRefused \/ ModeWriteBegins \/ ModeWritten
    \/ ModeWriteFails \/ ModeBroadcast

Next ==
    \/ \E r \in Requests, m \in Messages : Take(r, m)
    \/ Handle
    \/ Stop
    \/ \E r \in Requests : RebootFires(r) \/ RestartFires(r)
    \/ Boot

Spec == Init /\ [][Next]_vars

-----------------------------------------------------------------------------
(* Properties *)

\* Between two messages the mode file never holds a valid config other than the
\* one in force: persisting and broadcasting are never seen half done.
DiskFollowsMode ==
    (running /\ task = Idle) => file \in {mode, Missing, Corrupt}

\* A start brings back exactly the mode last acknowledged, unless a write of
\* the file began since: then it is the config of that write, or Observe.  No
\* crash, failed write or lost reply brings back any third mode.
BootKeepsMode ==
    [][~running /\ running' =>
          IF begun THEN mode' \in {asked, DefaultMode} ELSE mode' = settled]_vars

\* A request answered with a failure has not touched the router, save for an
\* upgrade whose backup and rename both failed.
FailureMeansUntouched ==
    \A r \in Requests :
        reply[r] \in {"CONFIG_FAIL", "ERROR", "STATUS", "PONG", "ignored",
                      "MODE_ACK", "MODE_NACK"} =>
            effect[r].kind \in {"none", "stale_binary"}

\* README.md:49 of packages/agent: "Mode state persists across restarts".  A
\* start after an update was refused brings back the mode in force before it.
RefusedUpdateKeepsMode ==
    [][~running /\ running' /\ (\A r \in Requests : reply[r] # "lost")
          => mode' = settled]_vars

Guard == INSTANCE ModeGuard

\* Every effect on the router is one the mode in force permits at that moment.
GuardSpec == Guard!GuardSpec
=============================================================================
