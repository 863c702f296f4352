---------------------------- MODULE MCDispatcher ----------------------------
(***************************************************************************)
(* Three requests, two sections (one that needs an object, one that does   *)
(* not), a command of each class, and four mode configs: each base mode,   *)
(* and an override in each direction.                                      *)
(***************************************************************************)
EXTENDS Dispatcher

CONSTANTS firewall, vpn, r1, r2, r3

Plain(m) == [mode |-> m, section_overrides |-> [s \in Sections |-> NoOverride]]

Override(m, section, over) ==
    [Plain(m) EXCEPT !.section_overrides[section] = over]

MCCommands == {"iptables", "uptime", "rm"}

MCOffered == {Plain("observe"), Plain("shadow"),
              Override("observe", firewall, "takeover"),
              Override("takeover", firewall, "observe")}
=============================================================================
