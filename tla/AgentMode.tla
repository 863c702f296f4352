----------------------------- MODULE AgentMode -----------------------------
(***************************************************************************)
(* Operating modes of the router agent and what each one permits:          *)
(* packages/protocol/src/agent.rs, packages/agent/src/mode.rs, and the     *)
(* command lists of packages/agent/src/dispatcher.rs.                      *)
(***************************************************************************)

CONSTANTS Sections,        \* ConfigSection
          ObjectSections,  \* those validate_config wants an object for
          NoOverride

ASSUME SectionsAssumption == ObjectSections \subseteq Sections

Modes == {"observe", "shadow", "takeover"}

ASSUME NoOverrideAssumption == NoOverride \notin Modes

ModeConfig == [mode : Modes, section_overrides : [Sections -> Modes \cup {NoOverride}]]

\* ModeConfig::default()
DefaultMode == [mode |-> "observe",
                section_overrides |-> [s \in Sections |-> NoOverride]]

EffectiveMode(cfg, section) ==
    IF cfg.section_overrides[section] # NoOverride
    THEN cfg.section_overrides[section]
    ELSE cfg.mode

CanExec(cfg) == cfg.mode = "takeover"

CanExecDiagnostics(cfg) == cfg.mode \in {"shadow", "takeover"}

AllowedCommands ==
    {"iptables", "iptables-save", "iptables-restore", "ip", "ifconfig", "brctl",
     "nvram", "wl", "service", "dnsmasq", "cat", "ls", "df", "free", "uptime",
     "uname", "ping", "traceroute", "nslookup"}

DiagnosticCommands ==
    {"cat", "ls", "df", "free", "uptime", "uname", "ping", "traceroute",
     "nslookup", "iptables-save", "ip", "ifconfig", "nvram", "wl"}
=============================================================================
