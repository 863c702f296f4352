--------------------------- MODULE SchemaSettings ---------------------------
(***************************************************************************)
(* The rest of the schema API: clerkAuth with its token cache in the KV    *)
(* namespace SESSIONS, and the handlers of /ips, /qos, /vpn/client and of  *)
(* the endpoints that keep nothing (SchemaMock), with two KV documents per *)
(* user (ips_config, ips_categories) and the tables ips_rules, qos_config, *)
(* qos_rules and vpn_client_profiles.                                      *)
(*                                                                         *)
(* No migration of the package creates those four tables: either they were *)
(* made by hand (deployed) or every statement on them throws.              *)
(*                                                                         *)
(* Abstracted: a KV document to two of its keys with two values each, the  *)
(* qos_config row to one column, an IPS rule to its owner, a QoS rule to   *)
(* its presence, a profile to its owner and status.  ips_alerts is written *)
(* by nothing in the repository and always empty.                          *)
(***************************************************************************)
EXTENDS SchemaMock

CONSTANTS
    User, Token,
    Sub,       \* Sub[t]: the user a Clerk session token was issued to
    Request,   \* slots for requests served at the same time
    Rule, QosRule, Profile,
    Nobody, NoToken, NoRow

ASSUME SubAssumption == Sub \in [Token -> User]
ASSUME NobodyAssumption == Nobody \notin User
ASSUME NoTokenAssumption == NoToken \notin Token

VARIABLES
    valid,     \* tokens Clerk would verify now
    cached,    \* tokens with a live jwt:<hash> entry in SESSIONS
    filling,   \* tokens verified whose cache put is still under way
    deployed,  \* the tables no migration creates exist
    doc,       \* CONFIGS: doc[n][u], the document n of user u
    rules,     \* ips_rules: the owner of each row, Nobody when there is none
    usedRules, \* ips_rules: ids ever given
    qos,       \* qos_config: the row with id 1, or NoRow
    qosRules,  \* qos_rules: ids present
    profile,   \* vpn_client_profiles: [owner, status] of each row, or NoRow
    req        \* the requests being served

authVars == <<valid, cached, filling>>
stores == <<deployed, doc, rules, usedRules, qos, qosRules, profile>>
vars == <<authVars, stores, req>>

Doc == {"ips_config", "ips_categories"}
Key == {"first", "second"}
Patch == UNION {[ks -> BOOLEAN] : ks \in SUBSET Key}
DocValue == [Key -> BOOLEAN]
Default == [k \in Key |-> FALSE]

Status == {"connected", "disconnected", "connecting", "error"}
ProfileRow == [owner : User \cup {Nobody}, status : Status]

Pc == {"idle", "auth", "start", "docPut", "ruleSelect", "ruleDelete",
       "qosSelect", "vpnUpdate"}
Idle == [pc |-> "idle", tok |-> NoToken, name |-> "ips_config",
         snap |-> Default, patch |-> <<>>, behind |-> {},
         rule |-> NoRow, prof |-> NoRow, to |-> "disconnected"]

ReqType == [pc : Pc, tok : Token \cup {NoToken}, name : Doc,
            snap : DocValue, patch : Patch, behind : SUBSET Key,
            rule : Rule \cup {NoRow}, prof : Profile \cup {NoRow},
            to : Status]

Init ==
    /\ valid = Token
    /\ cached = {}
    /\ filling = {}
    /\ deployed \in BOOLEAN
    /\ doc = [n \in Doc |-> [u \in User |-> Default]]
    /\ rules = [k \in Rule |-> Nobody]
    /\ usedRules = {}
    /\ qos \in IF deployed THEN {NoRow, "fq_codel"} ELSE {NoRow}
    /\ qosRules = {}
    /\ profile \in [Profile -> IF deployed
           THEN {NoRow} \cup [owner : User, status : Status] ELSE {NoRow}]
    /\ req = [r \in Request |-> Idle]

-----------------------------------------------------------------------------
(* Control of a request. *)

UserOf(r) == Sub[req[r].tok]
At(r, pc) == req[r].pc = pc
Goto(r, pc) == req' = [req EXCEPT ![r].pc = pc]
Done(r) == req' = [req EXCEPT ![r] = Idle]
Keep == UNCHANGED <<authVars, stores>>

Arrive(r, t) ==
    /\ At(r, "idle")
    /\ req' = [req EXCEPT ![r] = [Idle EXCEPT !.pc = "auth", !.tok = t]]
    /\ Keep

\* A statement or a KV call throws, or the Worker stops: app.onError answers
\* 500 and what was written stays.
Abort(r) ==
    /\ ~At(r, "idle") /\ ~At(r, "auth")
    /\ Done(r)
    /\ Keep

\* A statement on a table that does not exist.
Throws(r) ==
    /\ ~deployed
    /\ At(r, "start")
    /\ Done(r)
    /\ Keep

-----------------------------------------------------------------------------
(* clerkAuth *)

\* SESSIONS.get finds the token: Clerk is not asked.
AuthCached(r) ==
    /\ At(r, "auth")
    /\ req[r].tok \in cached
    /\ Goto(r, "start")
    /\ Keep

\* Mutant: the result of the verification is not looked at.
AuthVerifiedUnchecked(r) ==
    /\ At(r, "auth")
    /\ filling' = filling \cup {req[r].tok}
    /\ Goto(r, "start")
    /\ UNCHANGED <<valid, cached, stores>>

\* No cached entry, or a KV failure (swallowed): Clerk verifies the token and
\* the result is put into the cache without waiting for the put.
AuthVerified(r) ==
    /\ At(r, "auth")
    /\ req[r].tok \in valid
    /\ filling' = filling \cup {req[r].tok}
    /\ Goto(r, "start")
    /\ UNCHANGED <<valid, cached, stores>>

\* 401.
AuthRefused(r) ==
    /\ At(r, "auth")
    /\ req[r].tok \notin valid
    /\ Done(r)
    /\ Keep

\* The fire-and-forget put lands, or is lost.
FillLands(t) ==
    /\ t \in filling
    /\ filling' = filling \ {t}
    /\ cached' \in {cached, cached \cup {t}}
    /\ UNCHANGED <<valid, stores, req>>

\* JWT_CACHE_TTL runs out.
CacheExpires(t) ==
    /\ t \in cached
    /\ cached' = cached \ {t}
    /\ UNCHANGED <<valid, filling, stores, req>>

\* The session ends or the token expires: Clerk verifies it no more.
TokenEnds(t) ==
    /\ t \in valid
    /\ valid' = valid \ {t}
    /\ UNCHANGED <<cached, filling, stores, req>>

-----------------------------------------------------------------------------
(* /ips: the two KV documents.  An update reads the document, merges what   *)
(* was sent over it and writes the whole back.                              *)

\* behind is ghost: the keys another update has changed since the read.
Reads(r, name, patch) ==
    /\ At(r, "start")
    /\ req' = [req EXCEPT ![r] =
           [@ EXCEPT !.pc = "docPut", !.name = name, !.patch = patch,
                     !.snap = doc[name][UserOf(r)]]]
    /\ Keep

IpsConfigRead(r) == At(r, "start") /\ Done(r) /\ Keep
IpsConfigUpdate(r) == \E p \in Patch : Reads(r, "ips_config", p)
IpsCategoryList(r) == At(r, "start") /\ Done(r) /\ Keep

\* One category, or 404 for an id that is none.
IpsCategoryUpdate(r) ==
    \/ \E k \in Key, v \in BOOLEAN :
          Reads(r, "ips_categories", [x \in {k} |-> v])
    \/ At(r, "start") /\ Done(r) /\ Keep

\* {...document, ...body}: what was sent, and the rest as it was.
Merged(patch, document) ==
    [k \in Key |-> IF k \in DOMAIN patch THEN patch[k] ELSE document[k]]

\* The document is written and the request over; the updates that have read
\* it and not yet written fall behind.
Writes(r, document) ==
    LET n == req[r].name
        u == UserOf(r)
        changed == {k \in Key : document[k] # doc[n][u][k]} IN
    /\ doc' = [doc EXCEPT ![n][u] = document]
    /\ req' = [q \in Request |->
           IF q = r THEN Idle
           ELSE IF At(q, "docPut") /\ req[q].name = n /\ UserOf(q) = u
           THEN [req[q] EXCEPT !.behind = @ \cup changed]
           ELSE req[q]]
    /\ UNCHANGED <<authVars, deployed, rules, usedRules, qos, qosRules, profile>>

\* Mutant: what was sent is merged over the defaults.
DocPutOverDefault(r) ==
    At(r, "docPut") /\ Writes(r, Merged(req[r].patch, Default))

DocPut(r) ==
    At(r, "docPut") /\ Writes(r, Merged(req[r].patch, req[r].snap))

IpsRuleList(r) == deployed /\ At(r, "start") /\ Done(r) /\ Keep
\* A total and a page, counted and read from the same empty table.
IpsAlertList(r) == deployed /\ At(r, "start") /\ Done(r) /\ Keep

\* INSERT, then a SELECT of the row by last_row_id for the answer.
IpsRuleCreate(r) ==
    /\ deployed
    /\ At(r, "start")
    /\ \E k \in Rule \ usedRules :
        /\ rules' = [rules EXCEPT ![k] = UserOf(r)]
        /\ usedRules' = usedRules \cup {k}
        /\ req' = [req EXCEPT ![r].pc = "ruleSelect", ![r].rule = k]
    /\ UNCHANGED <<authVars, deployed, doc, qos, qosRules, profile>>

\* 201 with the row, or with an empty one when it is gone again.
IpsRuleSelected(r) == At(r, "ruleSelect") /\ Done(r) /\ Keep

\* 404 unless the rule is this user's.
IpsRuleDelete(r) ==
    /\ deployed
    /\ At(r, "start")
    /\ \E k \in usedRules :
        IF rules[k] = UserOf(r)
        THEN req' = [req EXCEPT ![r].pc = "ruleDelete", ![r].rule = k]
        ELSE Done(r)
    /\ Keep

IpsRuleDeleted(r) ==
    /\ At(r, "ruleDelete")
    /\ LET k == req[r].rule IN
       rules' = IF rules[k] = UserOf(r) THEN [rules EXCEPT ![k] = Nobody]
                                        ELSE rules
    /\ Done(r)
    /\ UNCHANGED <<authVars, deployed, doc, usedRules, qos, qosRules, profile>>

-----------------------------------------------------------------------------
(* /qos: one configuration and one rule table for the whole deployment.     *)

\* 404 without a row.
QosConfigRead(r) == deployed /\ At(r, "start") /\ Done(r) /\ Keep

\* UPDATE ... WHERE id = 1 changes the row if there is one (an empty body is
\* 400 and changes nothing), and a SELECT follows: 500 without a row.
QosConfigUpdate(r) ==
    /\ deployed
    /\ At(r, "start")
    /\ \/ Done(r) /\ UNCHANGED qos
       \/ /\ qos' \in IF qos = NoRow THEN {NoRow} ELSE {"fq_codel", "cake"}
          /\ Goto(r, "qosSelect")
    /\ UNCHANGED <<authVars, deployed, doc, rules, usedRules, qosRules,
                   profile>>

QosConfigSelected(r) == At(r, "qosSelect") /\ Done(r) /\ Keep

QosRuleList(r) == deployed /\ At(r, "start") /\ Done(r) /\ Keep

QosTable(r, rows) ==
    /\ deployed
    /\ At(r, "start")
    /\ qosRules' = rows
    /\ Done(r)
    /\ UNCHANGED <<authVars, deployed, doc, rules, usedRules, qos, profile>>

QosRuleCreate(r) == \E k \in QosRule \ qosRules : QosTable(r, qosRules \cup {k})
QosRuleUpdate(r) == QosTable(r, qosRules)
QosRuleDelete(r) == \E k \in QosRule : QosTable(r, qosRules \ {k})

-----------------------------------------------------------------------------
(* /vpn/client *)

ProfileTable(r, rows) ==
    /\ profile' = rows
    /\ Done(r)
    /\ UNCHANGED <<authVars, deployed, doc, rules, usedRules, qos, qosRules>>

ProfileList(r) == deployed /\ At(r, "start") /\ Done(r) /\ Keep

\* Name, type, config and auto_connect are inserted; owner_id is not, and the
\* status is whatever the table makes it.
ProfileCreate(r) ==
    /\ deployed
    /\ At(r, "start")
    /\ \E p \in Profile, s \in Status :
        /\ profile[p] = NoRow
        /\ ProfileTable(r, [profile EXCEPT ![p] =
                                [owner |-> Nobody, status |-> s]])

\* Neither owner nor status can be sent.
ProfileUpdate(r) ==
    deployed /\ At(r, "start") /\ ProfileTable(r, profile)

ProfileDelete(r) ==
    /\ deployed
    /\ At(r, "start")
    /\ \E p \in Profile : ProfileTable(r, [profile EXCEPT ![p] = NoRow])

\* 404 unless the profile is this user's, 409 when it is there already;
\* otherwise on to an UPDATE that looks at neither again.
VpnFound(r, there, to) ==
    /\ deployed
    /\ At(r, "start")
    /\ \E p \in Profile :
        IF profile[p] # NoRow /\ profile[p].owner = UserOf(r)
           /\ profile[p].status # there
        THEN req' = [req EXCEPT ![r].pc = "vpnUpdate", ![r].prof = p,
                                ![r].to = to]
        ELSE Done(r)
    /\ Keep

Connect(r) == VpnFound(r, "connected", "connecting")
Disconnect(r) == VpnFound(r, "disconnected", "disconnected")

VpnUpdated(r) ==
    /\ At(r, "vpnUpdate")
    /\ LET p == req[r].prof IN
       ProfileTable(r, IF profile[p] = NoRow THEN profile
                       ELSE [profile EXCEPT ![p].status = req[r].to])

-----------------------------------------------------------------------------
(* The endpoints that keep nothing.  /billing and /onboarding do not run    *)
(* clerkAuth: they answer a request that has not been authenticated.        *)

Mocked(r) ==
    /\ \E op \in DOMAIN MockRoutes :
        IF op \in DOMAIN PublicRoutes THEN At(r, "auth") ELSE At(r, "start")
    /\ Done(r)
    /\ Keep

-----------------------------------------------------------------------------
Ips(r) ==
    \/ IpsConfigRead(r) \/ IpsConfigUpdate(r) \/ DocPut(r)
    \/ IpsCategoryList(r) \/ IpsCategoryUpdate(r) \/ IpsRuleList(r)
    \/ IpsAlertList(r) \/ IpsRuleCreate(r) \/ IpsRuleSelected(r)
    \/ IpsRuleDelete(r) \/ IpsRuleDeleted(r)

Qos(r) ==
    \/ QosConfigRead(r) \/ QosConfigUpdate(r) \/ QosConfigSelected(r)
    \/ QosRuleList(r) \/ QosRuleCreate(r) \/ QosRuleUpdate(r)
    \/ QosRuleDelete(r)

VpnClient(r) ==
    \/ ProfileList(r) \/ ProfileCreate(r) \/ ProfileUpdate(r)
    \/ ProfileDelete(r) \/ Connect(r) \/ Disconnect(r) \/ VpnUpdated(r)

Next ==
    \/ \E r \in Request :
        \/ \E t \in Token : Arrive(r, t)
        \/ AuthCached(r) \/ AuthVerified(r) \/ AuthRefused(r)
        \/ Ips(r) \/ Qos(r) \/ VpnClient(r) \/ Mocked(r)
        \/ Throws(r) \/ Abort(r)
    \/ \E t \in Token : FillLands(t) \/ CacheExpires(t) \/ TokenEnds(t)

Spec == Init /\ [][Next]_vars

-----------------------------------------------------------------------------
(* Properties. *)

\* Types of the token sets, the documents, the tables and the requests.
TypeOK ==
    /\ valid \subseteq Token /\ cached \subseteq Token /\ filling \subseteq Token
    /\ deployed \in BOOLEAN
    /\ doc \in [Doc -> [User -> DocValue]]
    /\ rules \in [Rule -> User \cup {Nobody}]
    /\ usedRules \subseteq Rule
    /\ qos \in {NoRow, "fq_codel", "cake"}
    /\ qosRules \subseteq QosRule
    /\ profile \in [Profile -> ProfileRow \cup {NoRow}]
    /\ req \in [Request -> ReqType]

\* A token Clerk refuses and the cache has forgotten is never taken again: no
\* handler runs for it and no late put brings it back.
RefusedForGood ==
    [][\A t \in Token : t \notin valid \cup cached \cup filling =>
          /\ t \notin (valid \cup cached \cup filling)'
          /\ \A r \in Request : req[r].pc = "auth" /\ req[r].tok = t =>
                req'[r].pc \in {"auth", "idle"}]_vars

\* An update writes the whole document back as it read it, and yet changes
\* what it was sent and nothing else, unless another update has changed a key
\* since the read: only such a key can be put back to what it was.
OnlyOvertakenLost ==
    [][\A r \in Request :
          LET n == req[r].name
              u == UserOf(r) IN
          req[r].pc = "docPut" /\ req'[r].pc = "idle" /\ doc' # doc =>
              \A k \in Key \ req[r].behind :
                  doc'[n][u][k] = IF k \in DOMAIN req[r].patch
                                  THEN req[r].patch[k] ELSE doc[n][u][k]]_vars
=============================================================================
