----------------------------- MODULE SchemaMock -----------------------------
(***************************************************************************)
(* The endpoints of the schema API that keep nothing: /wan, /lan, /dhcp,   *)
(* /wifi, /nat, /routing, /vpn/server, /onboarding and /dashboards answer  *)
(* from their own text ("Mock response" in the code), /billing from a      *)
(* table that only a migration writes.  Each is a function from the body   *)
(* of a request to its answer, and each router a record of its endpoints.  *)
(*                                                                         *)
(* A body is abstracted to the fields it sends and those it sends as null; *)
(* an answer to its code and to which of the fields sent it gives back as  *)
(* they were sent.  The other fields of an answer are fixed text.          *)
(***************************************************************************)
EXTENDS Naturals

Body(sent, nulls) == [sent |-> sent, nulls |-> nulls]
NoBody == Body({}, {})

\* The bodies a run sends: nothing, everything, and what is required with one
\* field more, a value or a null.
Bodies(base, required) ==
    {NoBody, Body(base.fields, {})}
    \cup {Body(required \cup {f}, {}) : f \in base.fields}
    \cup {Body(required \cup {f}, {f}) : f \in base.nullable}

Answer(code, kept) == [code |-> code, kept |-> kept]
Fixed == Answer(200, {})
Refused == Answer(400, {})

\* x: updates.x ?? fallback, for every field x: a null is replaced by the
\* fallback, and survives only where the fallback is null (nullBacked).
Coalesced(b, nullBacked) == Answer(200, b.sent \ (b.nulls \ nullBacked))

\* ...body: everything is given back.  A body the schema refuses is 400.
Created(b, required) ==
    IF required \subseteq b.sent THEN Answer(201, b.sent) ELSE Refused

\* "No fields to update" and its likes.
NonEmpty(b, answer) == IF b.sent = {} THEN Refused ELSE answer

-----------------------------------------------------------------------------
(* /wan, /lan, /dhcp: the fields an update may send, and which may be null. *)

WanBase ==
    [fields |-> {"interface", "connection_type", "enabled", "ipv4_address",
                 "ipv4_netmask", "ipv4_gateway", "ipv6_enabled",
                 "ipv6_address", "ipv6_prefix_length", "ipv6_gateway",
                 "dns_primary", "dns_secondary", "mtu", "pppoe_username",
                 "pppoe_password"},
     nullable |-> {"ipv4_address", "ipv4_netmask", "ipv4_gateway",
                   "ipv6_address", "ipv6_prefix_length", "ipv6_gateway",
                   "dns_primary", "dns_secondary", "pppoe_username",
                   "pppoe_password"}]

WanConfigRead == [b \in {NoBody} |-> Fixed]
WanConfigUpdate ==
    [b \in Bodies(WanBase, {}) |->
        NonEmpty(b, Coalesced(b, {"ipv6_address", "ipv6_prefix_length",
                        "ipv6_gateway", "pppoe_username", "pppoe_password"}))]

LanBase ==
    [fields |-> {"interface", "enabled", "ipv4_address", "ipv4_netmask",
                 "ipv6_enabled", "ipv6_address", "ipv6_prefix_length",
                 "dhcp_enabled", "vlan_id", "bridge_interfaces"},
     nullable |-> {"ipv6_address", "ipv6_prefix_length", "vlan_id",
                   "bridge_interfaces"}]

LanConfigRead == [b \in {NoBody} |-> Fixed]

LanConfigUpdate ==
    [b \in Bodies(LanBase, {}) |->
        NonEmpty(b, Coalesced(b, {"ipv6_address", "ipv6_prefix_length",
                        "vlan_id"}))]

DhcpBase ==
    [fields |-> {"interface", "enabled", "start_ip", "end_ip", "subnet_mask",
                 "gateway", "dns_primary", "dns_secondary", "lease_time",
                 "domain_name"},
     nullable |-> {"dns_secondary", "domain_name"}]

DhcpConfigRead == [b \in {NoBody} |-> Fixed]
DhcpConfigUpdate ==
    [b \in Bodies(DhcpBase, {}) |-> NonEmpty(b, Coalesced(b, {}))]
DhcpLeasesList == [b \in {NoBody} |-> Fixed]

-----------------------------------------------------------------------------
(* /wifi: a list of networks or radios; the fields are those of an element, *)
(* and a body without fields is the empty list.                             *)

WifiNetworkBase ==
    [fields |-> {"id", "radio_id", "ssid", "enabled", "hidden",
                 "security_mode", "password", "vlan_id", "guest_network",
                 "max_clients"},
     nullable |-> {"password", "vlan_id"}]

WifiRadioBase ==
    [fields |-> {"id", "interface", "band", "enabled", "channel",
                 "channel_width", "tx_power", "country_code"},
     nullable |-> {}]

Element(b, answer) == IF "id" \in b.sent THEN answer ELSE Refused

WifiNetworksRead == [b \in {NoBody} |-> Fixed]
WifiNetworksUpdate ==
    [b \in Bodies(WifiNetworkBase, {"id"}) |->
        Element(b, Coalesced(b, {"password", "vlan_id"}))]
WifiRadiosRead == [b \in {NoBody} |-> Fixed]
WifiRadiosUpdate ==
    [b \in Bodies(WifiRadioBase, {"id"}) |-> Element(b, Coalesced(b, {}))]

-----------------------------------------------------------------------------
(* /nat and /routing: an update may be empty and is not checked against any *)
(* existing rule or route; a delete is answered without a look.             *)

NatBase ==
    [fields |-> {"name", "type", "enabled", "protocol", "source_zone",
                 "source_address", "destination_zone", "destination_address",
                 "external_port", "internal_ip", "internal_port",
                 "description", "device_id"},
     nullable |-> {"external_port", "internal_ip", "internal_port",
                   "description"}]
NatRequired == {"name", "type", "protocol", "source_zone", "source_address",
                "destination_zone", "destination_address", "device_id"}
NatUpdateBase == [NatBase EXCEPT !.fields = @ \ {"device_id"}]

NatRuleList == [b \in {NoBody} |-> Fixed]
\* ?? null only: what is sent comes back.
NatRuleCreate ==
    [b \in Bodies(NatBase, NatRequired) |-> Created(b, NatRequired)]
NatRuleUpdate ==
    [b \in Bodies(NatUpdateBase, {}) |-> Coalesced(b, {"description"})]
NatRuleDelete == [b \in {NoBody} |-> Fixed]
UpnpList == [b \in {NoBody} |-> Fixed]

RouteBase ==
    [fields |-> {"destination", "gateway", "interface", "metric",
                 "description", "enabled"},
     nullable |-> {}]
RouteRequired == {"destination", "gateway", "interface"}

RouteList == [b \in {NoBody} |-> Fixed]
RouteCreate ==
    [b \in Bodies(RouteBase, RouteRequired) |-> Created(b, RouteRequired)]
RouteUpdate == [b \in Bodies(RouteBase, {}) |-> Coalesced(b, {})]
RouteDelete == [b \in {NoBody} |-> Fixed]

-----------------------------------------------------------------------------
(* /vpn/server *)

VpnConfigBase ==
    [fields |-> {"enabled", "listen_port", "network", "public_key",
                 "private_key", "dns", "mtu", "persistent_keepalive"},
     nullable |-> {}]

VpnPeerBase ==
    [fields |-> {"name", "public_key", "preshared_key", "allowed_ips",
                 "endpoint", "persistent_keepalive", "enabled"},
     nullable |-> {}]
PeerRequired == {"name", "public_key", "allowed_ips"}

VpnServerConfigRead == [b \in {NoBody} |-> Fixed]
\* The private key is left out of the answer on purpose.
VpnServerConfigUpdate ==
    [b \in Bodies(VpnConfigBase, {}) |->
        Answer(200, b.sent \ {"private_key"})]
VpnServerPeerList == [b \in {NoBody} |-> Fixed]
VpnServerPeerCreate ==
    [b \in Bodies(VpnPeerBase, PeerRequired) |-> Created(b, PeerRequired)]
\* One fixed id is unknown (404); any other is answered as removed.
VpnServerPeerDelete ==
    [b \in {Body({"peer-1"}, {}), Body({"peer-not-found"}, {})} |->
        IF "peer-not-found" \in b.sent THEN Answer(404, {}) ELSE Fixed]

-----------------------------------------------------------------------------
(* /onboarding, /billing (neither asks for a session) and /dashboards.  The *)
(* one field of a body is the id that is asked for.                         *)

Ask(ids) == {Body({id}, {}) : id \in ids \cup {"unknown"}}
Lookup(b, ids) == IF b.sent \subseteq ids THEN Answer(200, b.sent)
                                          ELSE Answer(404, {})

OnboardingRouterList == [b \in {NoBody} |-> Fixed]
\* The order is validated and answered with fresh ids; it is kept nowhere and
\* its routerId is not looked up.
OrderRequired == {"routerId", "config"}
OnboardingOrderCreate ==
    [b \in {NoBody, Body(OrderRequired, {})} |->
        IF OrderRequired \subseteq b.sent THEN Answer(201, {}) ELSE Refused]
OnboardingStatusRead == [b \in {NoBody} |-> Fixed]

Plan == {"starter", "pro", "business", "business_plus"}
PlanList == [b \in {NoBody} |-> Fixed]
PlanRead == [b \in Ask(Plan) |-> Lookup(b, Plan)]

DashboardCategory ==
    {"network-overview", "security-events", "dns-analytics",
     "wifi-performance", "wan-health", "vpn-metrics", "system-resources",
     "traffic-analysis", "firewall-rules", "qos-metrics"}
DashboardList == [b \in {NoBody} |-> Fixed]
DashboardRead == [b \in Ask(DashboardCategory) |-> Lookup(b, DashboardCategory)]

-----------------------------------------------------------------------------
(* The routers. *)

WanRoutes == [WanConfigRead |-> WanConfigRead,
              WanConfigUpdate |-> WanConfigUpdate]
LanRoutes == [LanConfigRead |-> LanConfigRead,
              LanConfigUpdate |-> LanConfigUpdate]
DhcpRoutes == [DhcpConfigRead |-> DhcpConfigRead,
               DhcpConfigUpdate |-> DhcpConfigUpdate,
               DhcpLeasesList |-> DhcpLeasesList]
WifiRoutes == [WifiNetworksRead |-> WifiNetworksRead,
               WifiNetworksUpdate |-> WifiNetworksUpdate,
               WifiRadiosRead |-> WifiRadiosRead,
               WifiRadiosUpdate |-> WifiRadiosUpdate]
NatRoutes == [NatRuleList |-> NatRuleList, NatRuleCreate |-> NatRuleCreate,
              NatRuleUpdate |-> NatRuleUpdate, NatRuleDelete |-> NatRuleDelete,
              UpnpList |-> UpnpList]
RoutingRoutes == [RouteList |-> RouteList, RouteCreate |-> RouteCreate,
                  RouteUpdate |-> RouteUpdate, RouteDelete |-> RouteDelete]
VpnServerRoutes == [VpnServerConfigRead |-> VpnServerConfigRead,
                    VpnServerConfigUpdate |-> VpnServerConfigUpdate,
                    VpnServerPeerList |-> VpnServerPeerList,
                    VpnServerPeerCreate |-> VpnServerPeerCreate,
                    VpnServerPeerDelete |-> VpnServerPeerDelete]
OnboardingRoutes == [OnboardingRouterList |-> OnboardingRouterList,
                     OnboardingOrderCreate |-> OnboardingOrderCreate,
                     OnboardingStatusRead |-> OnboardingStatusRead]
BillingRoutes == [PlanList |-> PlanList, PlanRead |-> PlanRead]
DashboardsRoutes == [DashboardList |-> DashboardList,
                     DashboardRead |-> DashboardRead]

\* The app answers with the router that has the route.
Mounted(routers) ==
    [op \in UNION {DOMAIN t : t \in routers} |->
        (CHOOSE t \in routers : op \in DOMAIN t)[op]]

\* Routers without clerkAuth.
PublicRouters == {OnboardingRoutes, BillingRoutes}
Routers == {WanRoutes, LanRoutes, DhcpRoutes, WifiRoutes, NatRoutes,
            RoutingRoutes, VpnServerRoutes, DashboardsRoutes} \cup PublicRouters
PublicRoutes == Mounted(PublicRouters)
MockRoutes == Mounted(Routers)

\* The endpoints that answer with what they were sent.
EchoRoutes == {"WanConfigUpdate", "LanConfigUpdate", "DhcpConfigUpdate",
               "WifiNetworksUpdate", "WifiRadiosUpdate", "NatRuleCreate",
               "NatRuleUpdate", "RouteCreate", "RouteUpdate",
               "VpnServerConfigUpdate", "VpnServerPeerCreate"}
=============================================================================
