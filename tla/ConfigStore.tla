----------------------------- MODULE ConfigStore -----------------------------
(***************************************************************************)
(* The store of the Rust API for one device: the configuration sections    *)
(* under config:<device>:<section> in KV, the pushes that follow a write,  *)
(* backups, the removal of the device and the WebSocket entry of its agent.*)
(*                                                                         *)
(* Every request is cut at its awaits, and a KV operation may fail.  The   *)
(* device has been registered: until register_device has answered, nobody  *)
(* knows its id or key.  Requests of users without access end at           *)
(* check_device_access and are left out, as are reads, which change        *)
(* nothing, and the requests that only send a command to the device.       *)
(*                                                                         *)
(* Sections differ in how they are written.  NumberedSections (routes,     *)
(* firewall_rules) are lists whose ids are given by length; KeyedSections  *)
(* (vlans, wifi_networks, dhcp_reservations, and the update-only           *)
(* wifi_radios and firewall_zones) are lists whose ids come with the body; *)
(* ReplacedSections (wan, dns, qos, zone_policies, but also nat_rules,     *)
(* dns_blocklists, vpn_peers, traffic_classes and the rest) are put whole, *)
(* and of these the lists, too, are replaced by the one entry sent.        *)
(***************************************************************************)
EXTENDS Naturals, Sequences, FiniteSets

CONSTANTS
    Request,          \* slots for requests served at the same time
    NumberedSections, KeyedSections, ReplacedSections,
    MaxId,            \* ids a request names are in 1..MaxId
    MaxCalls          \* bound on the requests ever made

ASSUME MaxIdAssumption == MaxId \in Nat \ {0}
ASSUME MaxCallsAssumption == MaxCalls \in Nat
ASSUME SectionsAssumption ==
    /\ NumberedSections \cap KeyedSections = {}
    /\ (NumberedSections \cup KeyedSections) \cap ReplacedSections = {}

VARIABLES
    record,   \* DEVICES: the entry device:<id> is there
    stored,   \* CONFIGS: the value of each section
    whole,    \* CONFIGS: the value of config:<id>, which no section shares
    backups,  \* BACKUPS: objects of the device, by the call that made them
    pushed,   \* what the Durable Object was last handed for each section
    admitted, \* calls of agents whose upgrade was passed on to the object
    request,  \* the requests being served
    calls,    \* how many there have been
    putBy,    \* ghost: the call whose value each section holds, 0 at first
    shrunk,   \* ghost: numbered sections something was taken out of
    apart,    \* ghost: sections whose last push was lost, cut or overtaken
    changed,  \* ghost: for a request that has read a list and not yet put it,
              \* the entries others have put in or taken out of it since
    removedAt \* ghost: calls made when a removal was answered, 0 before

ghosts == <<putBy, shrunk, apart, changed, removedAt>>
vars == <<record, stored, whole, backups, pushed, admitted, request, calls,
          ghosts>>

Section == NumberedSections \cup KeyedSections \cup ReplacedSections
ListSection == NumberedSections \cup KeyedSections

\* An entry: its id, and the call that sent its body.
Entry == [id : 0..(MaxId + MaxCalls), by : 1..MaxCalls]
Absent == [kind |-> "absent", items |-> <<>>]
List(items) == [kind |-> "list", items |-> items]
Object(call) == [kind |-> "object", items |-> <<[id |-> 0, by |-> call]>>]
Empty == "{}"
NoValue == "none"

ListOp == {"create", "update", "delete", "reorder"}
DeviceOp == {"backup", "restore", "forget", "remove", "connect"}
Idle == [at |-> "idle"]
At(r, step) == request[r].at = step
Busy(s) == {r \in Request : request[r].at = "push" /\ request[r].section = s}

Entries(value) == {value.items[i] : i \in DOMAIN value.items}
Ids(items) == {items[i].id : i \in DOMAIN items}
\* iter().find: the first entry with that id.
FirstWith(items, id) ==
    CHOOSE i \in DOMAIN items :
        /\ items[i].id = id
        /\ \A j \in 1..(i - 1) : items[j].id # id

\* What a filter leaves of a list: its items at the places K, in their order.
Only(items, K) ==
    [n \in 1..Cardinality(K) |->
        items[CHOOSE i \in K : Cardinality({j \in K : j <= i}) = n]]

Init ==
    /\ record = TRUE
    /\ stored = [s \in Section |-> Absent]
    /\ whole = NoValue
    /\ backups = <<>>
    /\ pushed = stored
    /\ admitted = {}
    /\ request = [r \in Request |-> Idle]
    /\ calls = 0
    /\ putBy = [s \in Section |-> 0]
    /\ shrunk = {}
    /\ apart = {}
    /\ changed = [r \in Request |-> {}]
    /\ removedAt = 0

-----------------------------------------------------------------------------
(* A request arrives; check_device_access reads the device's entry. *)

Arrive(r, q) ==
    /\ At(r, "idle")
    /\ calls < MaxCalls
    /\ calls' = calls + 1
    /\ request' = [request EXCEPT ![r] = q]
    /\ UNCHANGED <<record, stored, whole, backups, pushed, admitted, ghosts>>

Orders == UNION {[1..n -> 1..MaxId] : n \in 0..2}

\* The path of an update names an id, and its body may carry another (but
\* update_wifi_radio looks for the id of the body, so that there is but one).
SectionRequest(r) ==
    \E s \in Section, op \in ListOp, id \in 1..MaxId, body \in 1..MaxId,
       order \in Orders :
        /\ op \in {"create", "update"} \/ s \in ListSection
        /\ op = "reorder" => s \in NumberedSections /\ id = 1
        /\ op # "reorder" => order = <<>>
        /\ op = "create" /\ s \notin KeyedSections => id = 1
        /\ op = "update" => s \in ListSection
        /\ body # id => op = "update" /\ s \in KeyedSections
        /\ Arrive(r, [at |-> "access", op |-> op, section |-> s, id |-> id,
                      body |-> body, order |-> order, call |-> calls + 1,
                      base |-> <<>>, seen |-> 0, failed |-> FALSE])

DeviceRequest(r) ==
    \E op \in DeviceOp :
    \E b \in IF op \in {"restore", "forget"} THEN 1..calls ELSE {0} :
        Arrive(r, [at |-> IF op = "connect" THEN "key" ELSE "access",
                   op |-> op, section |-> "none", backup |-> b,
                   call |-> calls + 1, value |-> NoValue])

\* The step that follows the check, for each operation.
AfterAccess(q) ==
    CASE q.op = "backup" -> "readWhole"
      [] q.op = "restore" -> "readBackup"
      [] q.op = "forget" -> "deleteBackup"
      [] q.op = "remove" -> "deleteRecord"
      [] q.op \in ListOp /\ q.section \in ReplacedSections -> "put"
      [] OTHER -> "read"

End(r) == request' = [request EXCEPT ![r] = Idle]

Access(r) ==
    /\ At(r, "access")
    /\ IF record
       THEN request' = [request EXCEPT ![r].at = AfterAccess(request[r])]
       ELSE End(r)
    /\ UNCHANGED <<record, stored, whole, backups, pushed, admitted, calls,
                   ghosts>>

-----------------------------------------------------------------------------
(* The sections. *)

\* get_config: a list that is absent is an error to all but the creates,
\* which take any error of the read for an empty list.
ReadList(r, ok) ==
    LET q == request[r]
        value == stored[q.section]
    IN  /\ At(r, "read")
        /\ IF ok /\ value.kind = "list"
           THEN request' = [request EXCEPT
                    ![r].at = "put", ![r].base = value.items,
                    ![r].seen = putBy[q.section]]
           ELSE IF q.op = "create"
           THEN request' = [request EXCEPT
                    ![r].at = "put", ![r].seen = putBy[q.section],
                    ![r].failed = ~ok]
           ELSE End(r)
        /\ UNCHANGED <<record, stored, whole, backups, pushed, admitted,
                       calls, ghosts>>

\* Mutant: numbers from zero.
NextIdFromZero(items) == Len(items)

\* The number a create gives its entry: as many as there are, plus one.
NextId(items) == Len(items) + 1

Created(q) ==
    Append(q.base, [id |-> IF q.section \in NumberedSections
                           THEN NextId(q.base) ELSE q.id,
                    by |-> q.call])

\* A route or a firewall rule is given the id of the path; the others keep the
\* id they were sent with.
UpdatedEntry(q) ==
    [id |-> IF q.section \in NumberedSections THEN q.id ELSE q.body,
     by |-> q.call]

\* The first entry with the id of the path is replaced by the body.  Without a
\* match the list is put back as it was read.
Updated(q) ==
    IF q.id \in Ids(q.base)
    THEN [q.base EXCEPT ![FirstWith(q.base, q.id)] = UpdatedEntry(q)]
    ELSE q.base

\* Mutant: removes the entry at that place.
DeletedAt(q) ==
    IF q.id \in DOMAIN q.base
    THEN SubSeq(q.base, 1, q.id - 1) \o SubSeq(q.base, q.id + 1, Len(q.base))
    ELSE q.base

Deleted(q) == Only(q.base, {i \in DOMAIN q.base : q.base[i].id # q.id})

\* One entry for each id of the order that is in the list, in that order.
Reordered(q) ==
    LET inList == {k \in DOMAIN q.order : q.order[k] \in Ids(q.base)}
        known == Only(q.order, inList)
    IN  [k \in DOMAIN known |-> q.base[FirstWith(q.base, known[k])]]

NewValue(q) ==
    IF q.section \in ReplacedSections THEN Object(q.call)
    ELSE CASE q.op = "create" -> List(Created(q))
           [] q.op = "update" -> List(Updated(q))
           [] q.op = "delete" -> List(Deleted(q))
           [] q.op = "reorder" -> List(Reordered(q))

\* A delete that removes something, and an order that is not one of all the
\* ids, each once.
Shrinks(q) ==
    \/ q.op = "delete" /\ q.id \in Ids(q.base)
    \/ /\ q.op = "reorder"
       /\ ~ /\ Len(q.order) = Len(q.base)
            /\ {q.order[k] : k \in DOMAIN q.order} = Ids(q.base)

\* Mutant: the list as it was read.
HandedAsRead(q) == List(q.base)

\* What update_config hands to the push after storing: the value stored.
Handed(q) == NewValue(q)

\* The entries that are in one of two values only.
Between(v, w) == (Entries(v) \ Entries(w)) \cup (Entries(w) \ Entries(v))

\* The requests that have read the section and not yet written it.
Overtaken(r, s) ==
    {x \in Request \ {r} : At(x, "put") /\ request[x].section = s}

\* update_config stores the section, then pushes it.
Put(r) ==
    LET q == request[r]
        s == q.section
    IN  /\ At(r, "put")
        /\ stored' = [stored EXCEPT ![s] = NewValue(q)]
        /\ request' = [request EXCEPT ![r] =
               [at |-> "push", section |-> s, value |-> Handed(q)]]
        /\ putBy' = [putBy EXCEPT ![s] = q.call]
        /\ shrunk' = IF s \in ListSection /\ Shrinks(q)
                     THEN shrunk \cup {s} ELSE shrunk
        /\ apart' = IF Busy(s) = {} THEN apart \ {s} ELSE apart \cup {s}
        /\ changed' = [x \in Request |->
               IF x = r THEN {}
               ELSE IF x \in Overtaken(r, s)
               THEN changed[x] \cup Between(stored[s], NewValue(q))
               ELSE changed[x]]
        /\ UNCHANGED <<record, whole, backups, pushed, admitted, calls,
                       removedAt>>

\* Whatever the object answers, or fails to, the request has succeeded.
Push(r, ok) ==
    LET q == request[r]
    IN  /\ At(r, "push")
        /\ pushed' = IF ok THEN [pushed EXCEPT ![q.section] = q.value]
                     ELSE pushed
        /\ apart' = IF ok THEN apart ELSE apart \cup {q.section}
        /\ End(r)
        /\ UNCHANGED <<record, stored, whole, backups, admitted, calls,
                       putBy, shrunk, changed, removedAt>>

-----------------------------------------------------------------------------
(* Backups, removal and the entry of the agent. *)

Backups == DOMAIN backups

\* create_backup copies config:<id>, or {}, to an object of a new id.
ReadWhole(r) ==
    /\ At(r, "readWhole")
    /\ request' = [request EXCEPT ![r].at = "putBackup",
           ![r].value = IF whole = NoValue THEN Empty ELSE whole]
    /\ UNCHANGED <<record, stored, whole, backups, pushed, admitted, calls,
                   ghosts>>

PutBackup(r) ==
    LET q == request[r]
    IN  /\ At(r, "putBackup")
        /\ backups' = [c \in Backups \cup {q.call} |->
               IF c = q.call THEN q.value ELSE backups[c]]
        /\ End(r)
        /\ UNCHANGED <<record, stored, whole, pushed, admitted, calls, ghosts>>

ReadBackup(r) ==
    LET q == request[r]
    IN  /\ At(r, "readBackup")
        /\ IF q.backup \in Backups
           THEN request' = [request EXCEPT ![r].at = "putWhole",
                                           ![r].value = backups[q.backup]]
           ELSE End(r)
        /\ UNCHANGED <<record, stored, whole, backups, pushed, admitted,
                       calls, ghosts>>

PutWhole(r) ==
    /\ At(r, "putWhole")
    /\ whole' = request[r].value
    /\ request' = [request EXCEPT ![r].at = "pushFull"]
    /\ UNCHANGED <<record, stored, backups, pushed, admitted, calls, ghosts>>

\* send_command hands the object a CONFIG_FULL with the value restored: for
\* every section what that value holds, which is nothing.
PushFull(r, ok) ==
    /\ At(r, "pushFull")
    /\ pushed' = IF ok THEN [s \in Section |-> Absent] ELSE pushed
    /\ apart' = IF ok THEN Section ELSE apart
    /\ End(r)
    /\ UNCHANGED <<record, stored, whole, backups, admitted, calls, putBy,
                   shrunk, changed, removedAt>>

DeleteBackup(r) ==
    /\ At(r, "deleteBackup")
    /\ backups' = [c \in Backups \ {request[r].backup} |-> backups[c]]
    /\ End(r)
    /\ UNCHANGED <<record, stored, whole, pushed, admitted, calls, ghosts>>

\* remove_device deletes the device's entry and nothing else: its key stays
\* mapped to it, and so do its sections and backups.
DeleteRecord(r) ==
    /\ At(r, "deleteRecord")
    /\ record' = FALSE
    /\ removedAt' = IF removedAt = 0 THEN calls ELSE removedAt
    /\ End(r)
    /\ UNCHANGED <<stored, whole, backups, pushed, admitted, calls, putBy,
                   shrunk, apart, changed>>

\* authenticate_device: the key leads to an id, the id to an entry.
LookUpKey(r) ==
    /\ At(r, "key")
    /\ request' = [request EXCEPT ![r].at = "entry"]
    /\ UNCHANGED <<record, stored, whole, backups, pushed, admitted, calls,
                   ghosts>>

\* Mutant: the mapping of the key is trusted.
KeyIsEnough == TRUE

EntryFound == record

LookUpEntry(r) ==
    /\ At(r, "entry")
    /\ IF EntryFound THEN request' = [request EXCEPT ![r].at = "upgrade"]
       ELSE End(r)
    /\ UNCHANGED <<record, stored, whole, backups, pushed, admitted, calls,
                   ghosts>>

Upgrade(r) ==
    /\ At(r, "upgrade")
    /\ admitted' = admitted \cup {request[r].call}
    /\ End(r)
    /\ UNCHANGED <<record, stored, whole, backups, pushed, calls, ghosts>>

\* A KV or R2 call fails, or the worker is gone, with or without its effect:
\* the rest of the request does not happen.
Cut(r) ==
    /\ ~At(r, "idle")
    /\ apart' = IF At(r, "push") THEN apart \cup {request[r].section}
                ELSE apart
    /\ changed' = [changed EXCEPT ![r] = {}]
    /\ End(r)
    /\ UNCHANGED <<record, stored, whole, backups, pushed, admitted, calls,
                   putBy, shrunk, removedAt>>

Next ==
    \E r \in Request :
        \/ SectionRequest(r) \/ DeviceRequest(r)
        \/ Access(r) \/ Put(r)
        \/ \E ok \in BOOLEAN : ReadList(r, ok) \/ Push(r, ok) \/ PushFull(r, ok)
        \/ ReadWhole(r) \/ PutBackup(r) \/ ReadBackup(r) \/ PutWhole(r)
        \/ DeleteBackup(r) \/ DeleteRecord(r)
        \/ LookUpKey(r) \/ LookUpEntry(r) \/ Upgrade(r) \/ Cut(r)

Spec == Init /\ [][Next]_vars

-----------------------------------------------------------------------------
(* Properties. *)

\* Type correctness.
TypeOK ==
    /\ record \in BOOLEAN
    /\ \A s \in Section :
        \A v \in {stored[s], pushed[s]} :
            /\ v.kind \in {"absent", "list", "object"}
            /\ v.items \in Seq(Entry)
    /\ whole \in {NoValue, Empty}
    /\ Backups \subseteq 1..MaxCalls
    /\ admitted \subseteq 1..MaxCalls
    /\ calls \in 0..MaxCalls
    /\ shrunk \subseteq ListSection /\ apart \subseteq Section
    /\ removedAt \in 0..MaxCalls

\* create_route and create_firewall_rule number an entry by the length of the
\* list they read.  However creates, updates and whole reorderings overlap or
\* fail, the ids of a list nothing was taken out of are 1..n, each once; only a
\* delete or a partial order lets a later create repeat an id in use.
IdsDense ==
    \A s \in NumberedSections \ shrunk :
        Ids(stored[s].items) = 1..Len(stored[s].items)

\* What a list holds besides the entries a request names or brings.
Others(q, items) ==
    Only(items, {i \in DOMAIN items :
                    /\ q.op # "delete" => items[i].by # q.call
                    /\ q.op # "create" => items[i].id # q.id})

\* What a request is asked to take out of the list it has read: the entries it
\* names; a reorder, those its order leaves out and the second of one id.
MayGo(q, e) ==
    \/ q.op \in {"update", "delete"} /\ e.id = q.id
    \/ /\ q.op = "reorder"
       /\ \/ \A k \in DOMAIN q.order : q.order[k] # e.id
          \/ \E i \in DOMAIN q.base : \E j \in 1..(i - 1) :
                q.base[i] = e /\ q.base[j].id = e.id

\* A list is read, changed and put back whole.  Still a request takes out only
\* what it was asked to and brings in only what it was sent; any other entry it
\* loses or brings back is one that another request changed since the read.  If
\* nobody has written since, the rest keeps its order, too.  Only a create goes
\* on after a read that failed, and may then lose the list.
AskedOnly ==
    [][\A r \in Request :
        LET q == request[r]
            old == stored[q.section]
            new == stored'[q.section]
        IN  At(r, "put") /\ request'[r].at = "push" /\ q.section \in ListSection
            => IF q.failed THEN q.op = "create"
               ELSE /\ \A e \in Entries(old) \ Entries(new) :
                        e \in changed[r] \/ MayGo(q, e)
                    /\ \A e \in Entries(new) \ Entries(old) :
                        e \in changed[r] \/ e.by = q.call
                    /\ q.seen = putBy[q.section] /\ q.op # "reorder"
                        => Others(q, new.items) = Others(q, old.items)
      ]_vars

\* While no write of a section waits for its push, the Durable Object was handed
\* last what is stored, unless that push was lost or cut, two writes were between
\* put and push at once, or a restore has pushed the empty configuration since.
DeviceFollows ==
    \A s \in Section \ apart : Busy(s) = {} => pushed[s] = stored[s]

\* remove_device leaves the key's mapping; still no agent whose upgrade request
\* came after a removal was answered reaches the Durable Object.
RemovedStaysOut ==
    removedAt > 0 => \A c \in admitted : c <= removedAt

=============================================================================
