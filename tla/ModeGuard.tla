----------------------------- MODULE ModeGuard -----------------------------
(***************************************************************************)
(* What the agent promises about the router, without its tasks, files,     *)
(* messages or crashes: a request touches the router at most once, and     *)
(* only while the mode in force permits it; a reboot happens only after it *)
(* was granted.  Dispatcher is shown to implement this specification.      *)
(***************************************************************************)
EXTENDS AgentMode

CONSTANT Requests

VARIABLES mode,    \* the ModeConfig in force
          effect   \* what each request has done to the router

guardVars == <<mode, effect>>

NoEffect == [kind |-> "none"]

Permits(cfg, e) ==
    \/ e.kind = "config" /\ EffectiveMode(cfg, e.section) = "takeover"
    \/ e.kind = "exec" /\ e.command \in DiagnosticCommands /\ cfg.mode # "observe"
    \/ e.kind = "exec" /\ e.command \in AllowedCommands /\ cfg.mode = "takeover"
    \/ e.kind \in {"install", "stale_binary", "reboot_granted"} /\ cfg.mode = "takeover"

Effects == [kind : {"config"}, section : Sections]
           \cup [kind : {"exec"}, command : AllowedCommands]
           \cup [kind : {"install", "stale_binary", "reboot_granted"}]

GuardInit ==
    /\ mode \in ModeConfig
    /\ effect = [r \in Requests |-> NoEffect]

ChangeMode ==
    /\ mode' \in ModeConfig
    /\ UNCHANGED effect

Touch(r) ==
    /\ effect[r] = NoEffect
    /\ \E e \in Effects : Permits(mode, e) /\ effect' = [effect EXCEPT ![r] = e]
    /\ UNCHANGED mode

Reboot(r) ==
    /\ effect[r].kind = "reboot_granted"
    /\ effect' = [effect EXCEPT ![r] = [kind |-> "rebooted"]]
    /\ UNCHANGED mode

GuardNext == ChangeMode \/ \E r \in Requests : Touch(r) \/ Reboot(r)

GuardSpec == GuardInit /\ [][GuardNext]_guardVars
=============================================================================
