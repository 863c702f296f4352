----------------------------- MODULE SchemaStore -----------------------------
(***************************************************************************)
(* The schema API's stateful fleet: the handlers of /fleet, /ddns and      *)
(* /reports over D1 (tables devices, ddns_configs, reports) and the KV     *)
(* namespace DEVICES (packages/schema/src).  Every request here has passed *)
(* clerkAuth, which SchemaSettings models.                                 *)
(*                                                                         *)
(* A request is a record that runs its handler one await at a time; two    *)
(* requests interleave at every await, and a handler may be cut at any of  *)
(* them (a statement that throws, a KV call that rejects, a Worker that is *)
(* evicted): the client then gets 500 and nothing already written is taken *)
(* back.                                                                   *)
(*                                                                         *)
(* Abstracted: of a device row the owner, of its three KV entries their    *)
(* presence (each is keyed by the device's own id, key or owner), of a     *)
(* DDNS row the enabled flag (which every update here sends), of a report  *)
(* its device and owner (status and r2_key never leave 'pending' and NULL: *)
(* nothing in the repository writes them after the INSERT, so the R2       *)
(* branch of ReportDelete and the download_url of ReportRead never run).   *)
(* The key ddns_update:<id> that DdnsForceUpdate puts is read by nothing   *)
(* and is left out.                                                        *)
(***************************************************************************)
EXTENDS Naturals, Sequences

CONSTANTS
    User, Device, Report,
    Request,      \* slots for requests served at the same time
    Nobody, NoDevice, NoReport,
    MaxDdnsRows   \* bound: rows a device may have in ddns_configs

ASSUME NobodyAssumption == Nobody \notin User
ASSUME NoDeviceAssumption == NoDevice \notin Device
ASSUME NoReportAssumption ==
    NoReport \notin Report \cup [dev : Device, owner : User]
ASSUME ReportAssumption == "ddns" \notin Report

VARIABLES
    row,       \* devices: the owner of each row, Nobody when there is none
    used,      \* devices: ids ever inserted (crypto.randomUUID never repeats)
    kv,        \* DEVICES: the entries present of each device
    ddns,      \* ddns_configs: the enabled flags of a device's rows, in order
    reports,   \* reports: [dev, owner] of each row, NoReport when none
    spent,     \* reports: ids ever inserted
    req,       \* the requests being served
    acked,     \* ghost: registration answered 201 before any delete found it
    doomed,    \* ghost: devices a delete request found and will remove
    removed,   \* ghost: devices whose deletion was answered 200
    last,      \* ghost: the flag last written to a device's DDNS rows
    exposed    \* ghost: answers with data of a device not (or no more) the
               \* caller's: the operation, and whose the device is

tables == <<row, used, ddns, reports, spent>>
ghosts == <<acked, doomed, removed, last, exposed>>
vars == <<tables, kv, req, ghosts>>

KvEntry == {"device", "apikey", "owner"}
DeviceOp == {"DeviceDelete", "DeviceStatus", "DdnsConfigRead",
             "DdnsConfigUpdate", "DdnsForceUpdate", "ReportGenerate"}
ReportOp == {"ReportRead", "ReportDelete"}
FreeOp == {"DeviceList", "DeviceRegister", "DdnsProviderList", "ReportList"}
Op == DeviceOp \cup ReportOp \cup FreeOp

Pc == {"idle", "start", "puts", "delRow", "delKv", "kvGet", "ddnsLook",
       "ddnsSet", "ddnsInsert", "ddnsFetch", "forceLook", "forcePut",
       "repInsert", "repRow", "repTotal"}

Idle == [pc |-> "idle", op |-> "DeviceList", user |-> Nobody,
         dev |-> NoDevice, rep |-> NoReport, flag |-> FALSE, todo |-> {},
         page |-> {}]

ReqType == [pc : Pc, op : Op, user : User \cup {Nobody},
            dev : Device \cup {NoDevice}, rep : Report \cup {NoReport},
            flag : BOOLEAN, todo : SUBSET KvEntry, page : SUBSET Device]

Answer == [op : Op, owner : User \cup {Nobody}]

ReportRow == [dev : Device, owner : User]

Init ==
    /\ row = [d \in Device |-> Nobody]
    /\ used = {}
    /\ kv = [d \in Device |-> {}]
    /\ ddns = [d \in Device |-> << >>]
    /\ reports = [x \in Report |-> NoReport]
    /\ spent = {}
    /\ req = [r \in Request |-> Idle]
    /\ acked = {}
    /\ doomed = {}
    /\ removed = {}
    /\ last = [d \in Device |-> FALSE]
    /\ exposed = {}

-----------------------------------------------------------------------------
(* Control of a request. *)

UserOf(r) == req[r].user
At(r, op, pc) == req[r].op = op /\ req[r].pc = pc
Goto(r, pc) == req' = [req EXCEPT ![r].pc = pc]

\* The request is answered: the slot is free again.
Done(r) == req' = [req EXCEPT ![r] = Idle]

\* A 200 that carries data of the devices ds.
Show(r, ds) ==
    /\ Done(r)
    /\ exposed' = exposed \cup
           {[op |-> req[r].op, owner |-> row[d]] :
               d \in {e \in ds : row[e] # UserOf(r)}}
    /\ UNCHANGED <<tables, kv, acked, doomed, removed, last>>

\* Mutant: no AND owner_id = ?.
OwnedByAnybody(r) == row[req[r].dev] # Nobody

\* SELECT ... FROM devices WHERE id = ? AND owner_id = ?
Owned(r) == row[req[r].dev] = UserOf(r)

\* The device check every device route starts with: 404, or on to pc.
CheckOwner(r, pc) ==
    /\ IF Owned(r) THEN Goto(r, pc) ELSE Done(r)
    /\ UNCHANGED <<tables, kv, ghosts>>

\* A client calls an operation of /fleet, /ddns or /reports; ids it names
\* are ids it may have seen.
Arrive(r, u, op) ==
    /\ req[r].pc = "idle"
    /\ \E d \in Device \cup {NoDevice}, x \in Report \cup {NoReport},
          f \in BOOLEAN :
        /\ IF op \in DeviceOp THEN d \in used ELSE d = NoDevice
        /\ IF op \in ReportOp THEN x \in spent ELSE x = NoReport
        /\ op # "DdnsConfigUpdate" => ~f
        /\ req' = [req EXCEPT ![r] =
             [Idle EXCEPT !.pc = "start", !.op = op, !.user = u,
                          !.dev = d, !.rep = x, !.flag = f]]
    /\ UNCHANGED <<tables, kv, ghosts>>

\* The handler throws at an await (or the Worker stops): app.onError answers
\* 500 and what was written stays.
Abort(r) ==
    /\ req[r].pc # "idle"
    /\ Done(r)
    /\ UNCHANGED <<tables, kv, ghosts>>

-----------------------------------------------------------------------------
(* /fleet *)

DeviceListed(r) ==
    /\ At(r, "DeviceList", "start")
    /\ Show(r, {d \in Device : row[d] = UserOf(r)})

\* Mutant: the failure of the INSERT is ignored.
DeviceInsertedQuietly(r) ==
    /\ At(r, "DeviceRegister", "start")
    /\ \E d \in Device \ used :
        /\ row' \in {row, [row EXCEPT ![d] = UserOf(r)]}
        /\ used' = used \cup {d}
        /\ req' = [req EXCEPT ![r].pc = "puts", ![r].dev = d,
                              ![r].todo = KvEntry]
    /\ UNCHANGED <<ddns, reports, spent, kv, ghosts>>

\* INSERT INTO devices under a fresh id and key.
DeviceInserted(r) ==
    /\ At(r, "DeviceRegister", "start")
    /\ \E d \in Device \ used :
        /\ row' = [row EXCEPT ![d] = UserOf(r)]
        /\ used' = used \cup {d}
        /\ req' = [req EXCEPT ![r].pc = "puts", ![r].dev = d,
                              ![r].todo = KvEntry]
    /\ UNCHANGED <<ddns, reports, spent, kv, ghosts>>

\* Mutant: Promise.race.
DevicePutRace(r) ==
    /\ At(r, "DeviceRegister", "puts")
    /\ \E e \in req[r].todo :
        LET d == req[r].dev IN
        /\ kv' = [kv EXCEPT ![d] = @ \cup {e}]
        /\ Done(r)
        /\ acked' = IF d \notin doomed THEN acked \cup {d} ELSE acked
    /\ UNCHANGED <<tables, doomed, removed, last, exposed>>

\* The three puts of Promise.all run side by side: any order, and those not
\* done when one rejects (Abort) may never be done.  After the last: 201.
DevicePut(r) ==
    /\ At(r, "DeviceRegister", "puts")
    /\ \E e \in req[r].todo :
        LET d == req[r].dev
            whole == req[r].todo = {e} IN
        /\ kv' = [kv EXCEPT ![d] = @ \cup {e}]
        /\ IF whole THEN Done(r)
                    ELSE req' = [req EXCEPT ![r].todo = @ \ {e}]
        /\ acked' = IF whole /\ d \notin doomed THEN acked \cup {d} ELSE acked
    /\ UNCHANGED <<tables, doomed, removed, last, exposed>>

DeviceDeleteFound(r) ==
    /\ At(r, "DeviceDelete", "start")
    /\ IF Owned(r)
       THEN Goto(r, "delRow") /\ doomed' = doomed \cup {req[r].dev}
       ELSE Done(r) /\ UNCHANGED doomed
    /\ UNCHANGED <<tables, kv, acked, removed, last, exposed>>

\* Mutant: the foreign keys do not cascade.
DeviceRowDeletedAlone(r) ==
    /\ At(r, "DeviceDelete", "delRow")
    /\ row' = IF Owned(r) THEN [row EXCEPT ![req[r].dev] = Nobody] ELSE row
    /\ req' = [req EXCEPT ![r].pc = "delKv", ![r].todo = KvEntry]
    /\ UNCHANGED <<used, ddns, reports, spent, kv, ghosts>>

\* DELETE FROM devices; the foreign keys of ddns_configs and reports are
\* ON DELETE CASCADE.
DeviceRowDeleted(r) ==
    /\ At(r, "DeviceDelete", "delRow")
    /\ LET d == req[r].dev IN
        /\ row' = IF Owned(r) THEN [row EXCEPT ![d] = Nobody] ELSE row
        /\ ddns' = IF Owned(r) THEN [ddns EXCEPT ![d] = << >>] ELSE ddns
        /\ reports' = IF Owned(r) THEN [x \in Report |->
               IF reports[x] # NoReport /\ reports[x].dev = d
               THEN NoReport ELSE reports[x]] ELSE reports
        /\ last' = [last EXCEPT ![d] = FALSE]
    /\ req' = [req EXCEPT ![r].pc = "delKv", ![r].todo = KvEntry]
    /\ UNCHANGED <<used, spent, kv, acked, doomed, removed, exposed>>

\* Mutant: the owner entry is forgotten.
DeviceKvDeletedButOwner(r) ==
    /\ At(r, "DeviceDelete", "delKv")
    /\ LET d == req[r].dev IN
        /\ kv' = [kv EXCEPT ![d] = @ \ {"device", "apikey"}]
        /\ removed' = removed \cup {d}
    /\ Done(r)
    /\ UNCHANGED <<tables, acked, doomed, last, exposed>>

DeviceKvDeleted(r) ==
    /\ At(r, "DeviceDelete", "delKv")
    /\ \E e \in req[r].todo :
        LET d == req[r].dev
            whole == req[r].todo = {e} IN
        /\ kv' = [kv EXCEPT ![d] = @ \ {e}]
        /\ IF whole THEN Done(r)
                    ELSE req' = [req EXCEPT ![r].todo = @ \ {e}]
        /\ removed' = IF whole THEN removed \cup {d} ELSE removed
    /\ UNCHANGED <<tables, acked, doomed, last, exposed>>

DeviceStatusFound(r) ==
    /\ At(r, "DeviceStatus", "start")
    /\ CheckOwner(r, "kvGet")

\* The row read before the two KV reads is answered with what they find, and
\* nothing asks whether it is still there.
DeviceStatusRead(r) ==
    /\ At(r, "DeviceStatus", "kvGet")
    /\ Show(r, {req[r].dev})

-----------------------------------------------------------------------------
(* /ddns *)

ProvidersListed(r) ==
    /\ At(r, "DdnsProviderList", "start")
    /\ Done(r)
    /\ UNCHANGED <<tables, kv, ghosts>>

DdnsReadFound(r) ==
    /\ At(r, "DdnsConfigRead", "start")
    /\ CheckOwner(r, "ddnsFetch")

DdnsUpdateFound(r) ==
    /\ At(r, "DdnsConfigUpdate", "start")
    /\ CheckOwner(r, "ddnsLook")

\* Is there a row already?  Nothing holds until the write that follows.
DdnsLooked(r) ==
    /\ At(r, "DdnsConfigUpdate", "ddnsLook")
    /\ Goto(r, IF ddns[req[r].dev] = << >> THEN "ddnsInsert" ELSE "ddnsSet")
    /\ UNCHANGED <<tables, kv, ghosts>>

\* Mutant: the SET list leaves out enabled.
DdnsSetForgets(r) ==
    /\ At(r, "DdnsConfigUpdate", "ddnsSet")
    /\ last' = [last EXCEPT ![req[r].dev] =
                  IF ddns[req[r].dev] = << >> THEN @ ELSE req[r].flag]
    /\ Goto(r, "ddnsFetch")
    /\ UNCHANGED <<tables, kv, acked, doomed, removed, exposed>>

\* UPDATE ... WHERE device_id = ?: every row of the device, or none.
DdnsSet(r) ==
    /\ At(r, "DdnsConfigUpdate", "ddnsSet")
    /\ LET d == req[r].dev IN
        /\ ddns' = [ddns EXCEPT ![d] =
                       [i \in DOMAIN ddns[d] |-> req[r].flag]]
        /\ last' = [last EXCEPT ![d] = IF ddns[d] = << >> THEN @
                                         ELSE req[r].flag]
    /\ Goto(r, "ddnsFetch")
    /\ UNCHANGED <<row, used, reports, spent, kv, acked, doomed, removed,
                   exposed>>

\* INSERT: the foreign key refuses it (500) when the device is gone; nothing
\* refuses a second row for the same device.
DdnsInserted(r) ==
    /\ At(r, "DdnsConfigUpdate", "ddnsInsert")
    /\ LET d == req[r].dev IN
        IF row[d] = Nobody
        THEN Done(r) /\ UNCHANGED <<ddns, last>>
        ELSE /\ Len(ddns[d]) < MaxDdnsRows
             /\ ddns' = [ddns EXCEPT ![d] = Append(@, req[r].flag)]
             /\ last' = [last EXCEPT ![d] = req[r].flag]
             /\ Goto(r, "ddnsFetch")
    /\ UNCHANGED <<row, used, reports, spent, kv, acked, doomed, removed,
                   exposed>>

\* SELECT ... first(): the first row of the device, or null.
DdnsFetched(r) ==
    /\ req[r].op \in {"DdnsConfigRead", "DdnsConfigUpdate"}
    /\ req[r].pc = "ddnsFetch"
    /\ Show(r, IF ddns[req[r].dev] = << >> THEN {} ELSE {req[r].dev})

ForceFound(r) ==
    /\ At(r, "DdnsForceUpdate", "start")
    /\ CheckOwner(r, "forceLook")

\* 404 without a configuration, 400 when it is disabled.
ForceLooked(r) ==
    /\ At(r, "DdnsForceUpdate", "forceLook")
    /\ LET rows == ddns[req[r].dev] IN
        IF rows = << >> \/ ~rows[1] THEN Done(r) ELSE Goto(r, "forcePut")
    /\ UNCHANGED <<tables, kv, ghosts>>

ForcePut(r) ==
    /\ At(r, "DdnsForceUpdate", "forcePut")
    /\ Done(r)
    /\ UNCHANGED <<tables, kv, ghosts>>

-----------------------------------------------------------------------------
(* /reports *)

GenerateFound(r) ==
    /\ At(r, "ReportGenerate", "start")
    /\ CheckOwner(r, "repInsert")

\* Mutant: no foreign key.
ReportInsertedUnchecked(r) ==
    /\ At(r, "ReportGenerate", "repInsert")
    /\ \E x \in Report \ spent :
        /\ reports' = [reports EXCEPT ![x] =
               [dev |-> req[r].dev, owner |-> UserOf(r)]]
        /\ spent' = spent \cup {x}
        /\ Done(r)
    /\ UNCHANGED <<row, used, ddns, kv, ghosts>>

ReportInserted(r) ==
    /\ At(r, "ReportGenerate", "repInsert")
    /\ IF row[req[r].dev] = Nobody
       THEN Done(r) /\ UNCHANGED <<reports, spent>>
       ELSE \E x \in Report \ spent :
             /\ reports' = [reports EXCEPT ![x] =
                    [dev |-> req[r].dev, owner |-> UserOf(r)]]
             /\ spent' = spent \cup {x}
             /\ Done(r)
    /\ UNCHANGED <<row, used, ddns, kv, ghosts>>

OwnReport(r) ==
    LET x == req[r].rep IN
    reports[x] # NoReport /\ reports[x].owner = UserOf(r)

\* 404 shows nothing.
ReportShown(r) ==
    /\ At(r, "ReportRead", "start")
    /\ Show(r, IF OwnReport(r) THEN {reports[req[r].rep].dev} ELSE {})

\* The page: of this owner's rows those the filters and the limit leave.
ReportsPaged(r) ==
    /\ At(r, "ReportList", "start")
    /\ \E xs \in SUBSET {y \in Report : reports[y] # NoReport
                                       /\ reports[y].owner = UserOf(r)} :
        req' = [req EXCEPT ![r].pc = "repTotal",
                           ![r].page = {reports[x].dev : x \in xs}]
    /\ UNCHANGED <<tables, kv, ghosts>>

\* The total is counted in a second statement; the page is answered as read.
ReportsListed(r) ==
    /\ At(r, "ReportList", "repTotal")
    /\ Show(r, req[r].page)

ReportFound(r) ==
    /\ At(r, "ReportDelete", "start")
    /\ IF OwnReport(r) THEN Goto(r, "repRow") ELSE Done(r)
    /\ UNCHANGED <<tables, kv, ghosts>>

ReportRowDeleted(r) ==
    /\ At(r, "ReportDelete", "repRow")
    /\ reports' = IF OwnReport(r)
                  THEN [reports EXCEPT ![req[r].rep] = NoReport] ELSE reports
    /\ Done(r)
    /\ UNCHANGED <<row, used, ddns, spent, kv, ghosts>>

-----------------------------------------------------------------------------
Handle(r) ==
    \/ DeviceListed(r) \/ DeviceInserted(r) \/ DevicePut(r)
    \/ DeviceDeleteFound(r) \/ DeviceRowDeleted(r) \/ DeviceKvDeleted(r)
    \/ DeviceStatusFound(r) \/ DeviceStatusRead(r)
    \/ ProvidersListed(r) \/ DdnsReadFound(r) \/ DdnsUpdateFound(r)
    \/ DdnsLooked(r) \/ DdnsSet(r) \/ DdnsInserted(r) \/ DdnsFetched(r)
    \/ ForceFound(r) \/ ForceLooked(r) \/ ForcePut(r)
    \/ GenerateFound(r) \/ ReportInserted(r) \/ ReportShown(r)
    \/ ReportsPaged(r) \/ ReportsListed(r) \/ ReportFound(r) \/ ReportRowDeleted(r)

Next ==
    \E r \in Request :
        \/ \E u \in User, op \in Op : Arrive(r, u, op)
        \/ Handle(r)
        \/ Abort(r)

Spec == Init /\ [][Next]_vars

-----------------------------------------------------------------------------
(* Properties. *)

\* Types of the tables, the KV entries and the requests.
TypeOK ==
    /\ row \in [Device -> User \cup {Nobody}]
    /\ used \subseteq Device
    /\ kv \in [Device -> SUBSET KvEntry]
    /\ ddns \in [Device -> Seq(BOOLEAN)]
    /\ reports \in [Report -> ReportRow \cup {NoReport}]
    /\ spent \subseteq Report
    /\ req \in [Request -> ReqType]
    /\ acked \subseteq Device /\ doomed \subseteq Device
    /\ removed \subseteq Device
    /\ last \in [Device -> BOOLEAN]
    /\ exposed \subseteq Answer

\* A registration answered 201 is whole, whatever other requests do, until a
\* delete request has found the device: its row is there and so are all its
\* KV entries, so the agent that was given the key can authenticate.
AckedComplete ==
    \A d \in acked \ doomed : row[d] # Nobody /\ kv[d] = KvEntry

\* KV knows no device the database does not: entries without a row are left
\* only by a deletion that was begun, never by a registration cut half way.
EntriesNeedRow ==
    \A d \in Device : kv[d] # {} /\ row[d] = Nobody => d \in doomed

\* What is attached to a device goes with it and is its owner's: no report
\* and no DDNS row outlives its device, although both handlers write after
\* the ownership check has become stale.
Attached ==
    /\ \A x \in Report : reports[x] # NoReport =>
          row[reports[x].dev] = reports[x].owner
    /\ \A d \in Device : ddns[d] # << >> => row[d] # Nobody

\* A deletion answered 200 of a device whose registration had been answered
\* leaves nothing of it, whatever other deletions and updates ran beside it.
DeletedLeavesNothing ==
    \A d \in acked \cap removed : row[d] = Nobody /\ kv[d] = {}

\* No answer carries data of another user's device, although ownership is
\* checked in one statement and the data are read by device id in later ones.
\* Data of a device that is gone are answered only where more is read after
\* them: a status (row, then KV) and a list of reports (page, then total).
Isolation ==
    \A a \in exposed : a.owner = Nobody /\ a.op \in {"DeviceStatus", "ReportList"}

\* The DDNS row that is served (the first) is the last one written, unless
\* two first updates both inserted a row.
ServedIsLast ==
    \A d \in Device :
        ddns[d] # << >> /\ Head(ddns[d]) # last[d] => Len(ddns[d]) > 1

\* The handlers implement the registry: whatever they interleave, the tables
\* only ever register, remove with everything attached, attach and detach.
Item == {"ddns"} \cup Report
ItemsOf(d) == (IF ddns[d] = << >> THEN {} ELSE {"ddns"}) \cup
              {x \in Report : reports[x] # NoReport /\ reports[x].dev = d}

Registry == INSTANCE DeviceRegistry WITH
    owner <- row, used <- used, items <- [d \in Device |-> ItemsOf(d)],
    User <- User, Device <- Device, Item <- Item, Nobody <- Nobody
RegistrySpec == Registry!Spec
=============================================================================
