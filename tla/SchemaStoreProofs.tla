-------------------------- MODULE SchemaStoreProofs --------------------------
(***************************************************************************)
(* What holds of the fleet's tables and KV entries for any set of users,   *)
(* devices, reports and requests served at the same time.  The inductive   *)
(* invariant says what a handler may still rely on after the await that    *)
(* follows a check: the device it found is gone or still its user's, a     *)
(* deletion under way is known, and a registration under way is the only   *)
(* one of its device.                                                      *)
(***************************************************************************)
EXTENDS SchemaStore, TLAPS

\* The points of a handler past the ownership check.
Held == {"delRow", "delKv", "kvGet", "ddnsLook", "ddnsSet", "ddnsInsert",
         "ddnsFetch", "forceLook", "forcePut", "repInsert"}

\* A device once found is its user's or gone, and so are the devices of a
\* page of reports once read; ids name what was there.
OwnerKept ==
    \A r \in Request :
        /\ req[r].pc # "idle" => req[r].user \in User
        /\ req[r].pc = "start" /\ req[r].op \in DeviceOp => req[r].dev \in used
        /\ req[r].pc \in Held \cup {"puts"} => req[r].dev \in used
        /\ req[r].pc \in Held => row[req[r].dev] \in {req[r].user, Nobody}
        /\ req[r].pc = "start" /\ req[r].op \in ReportOp => req[r].rep \in Report
        /\ req[r].pc = "repRow" => req[r].rep \in Report
        /\ req[r].pc = "repTotal" =>
              \A d \in req[r].page : d \in used /\ row[d] \in {req[r].user, Nobody}

\* A deletion under way is known; after its DELETE the row is gone, and of a
\* device whose registration is over only the entries still to do are left.
Deleting ==
    \A r \in Request :
        /\ req[r].pc \in {"delRow", "delKv"} => req[r].dev \in doomed
        /\ req[r].pc = "delKv" =>
              /\ row[req[r].dev] = Nobody
              /\ req[r].dev \in acked => kv[req[r].dev] \subseteq req[r].todo

\* A registration under way is not answered and is the only one of its
\* device; unless the device is being deleted, what it has put is there.
Registering ==
    \A r \in Request :
        req[r].pc = "puts" =>
            /\ req[r].dev \notin acked
            /\ req[r].dev \in doomed
               \/ /\ row[req[r].dev] # Nobody
                  /\ KvEntry \ req[r].todo \subseteq kv[req[r].dev]
            /\ \A q \in Request :
                  req[q].pc = "puts" /\ req[q].dev = req[r].dev => q = r

\* Nothing is known of an id before its INSERT, and no row after a removal.
Fresh ==
    \A d \in Device \ used :
        row[d] = Nobody /\ kv[d] = {} /\ d \notin acked \cup doomed \cup removed
Gone == \A d \in removed : d \in doomed /\ row[d] = Nobody

Promises ==
    /\ AckedComplete /\ EntriesNeedRow /\ DeletedLeavesNothing
    /\ Attached /\ Isolation /\ ServedIsLast

IInv ==
    /\ TypeOK /\ OwnerKept /\ Deleting /\ Registering /\ Fresh /\ Gone
    /\ Promises

-----------------------------------------------------------------------------
LEMMA IdleType == Idle \in ReqType
BY DEF Idle, ReqType, Pc, Op, DeviceOp, ReportOp, FreeOp, KvEntry

LEMMA ReqFacts ==
    ASSUME TypeOK, NEW r \in Request
    PROVE  /\ req[r] \in ReqType
           /\ req[r].pc \in Pc /\ req[r].op \in Op
           /\ req[r].dev \in Device \cup {NoDevice}
           /\ req[r].rep \in Report \cup {NoReport}
           /\ req[r].todo \in SUBSET KvEntry
           /\ req[r].flag \in BOOLEAN
BY DEF TypeOK, ReqType

LEMMA InitIInv == Init => IInv
<1> SUFFICES ASSUME Init PROVE IInv
    OBVIOUS
<1>1. TypeOK
    BY IdleType DEF Init, TypeOK
<1>2. OwnerKept /\ Deleting /\ Registering
    BY DEF Init, OwnerKept, Deleting, Registering, Idle, Held
<1>3. Fresh /\ Gone
    BY DEF Init, Fresh, Gone
<1>4. Promises
    BY DEF Init, Promises, AckedComplete, EntriesNeedRow,
           DeletedLeavesNothing, Attached, Isolation, ServedIsLast
<1> QED
    BY <1>1, <1>2, <1>3, <1>4 DEF IInv

\* What the two ways of going on do to the requests.
LEMMA DoneFacts ==
    ASSUME TypeOK, NEW r \in Request, Done(r)
    PROVE  /\ req' \in [Request -> ReqType]
           /\ \A q \in Request : q # r => req'[q] = req[q]
           /\ req'[r].pc = "idle"
<1>1. req' \in [Request -> ReqType] /\ req'[r] = Idle
      /\ \A q \in Request : q # r => req'[q] = req[q]
    BY IdleType DEF TypeOK, Done
<1>2. Idle.pc = "idle"
    BY DEF Idle
<1> QED
    BY <1>1, <1>2

LEMMA GotoFacts ==
    ASSUME TypeOK, NEW r \in Request, NEW pc \in Pc, Goto(r, pc)
    PROVE  /\ req' \in [Request -> ReqType]
           /\ \A q \in Request : q # r => req'[q] = req[q]
           /\ req'[r].pc = pc /\ req'[r].op = req[r].op
           /\ req'[r].user = req[r].user /\ req'[r].dev = req[r].dev
           /\ req'[r].rep = req[r].rep /\ req'[r].todo = req[r].todo
<1> DEFINE new == [req[r] EXCEPT !.pc = pc]
<1>1. req[r] \in ReqType
    BY ReqFacts
<1>2. /\ new \in ReqType
      /\ new.pc = pc /\ new.op = req[r].op /\ new.user = req[r].user
      /\ new.dev = req[r].dev /\ new.rep = req[r].rep /\ new.todo = req[r].todo
    BY <1>1 DEF ReqType
<1>3. req' = [req EXCEPT ![r] = new]
    BY DEF Goto
<1> HIDE DEF new
<1> QED
    BY <1>2, <1>3 DEF TypeOK

-----------------------------------------------------------------------------
(* Steps that write nothing: a request arrives, moves on or ends. *)

LEMMA QuietPromises ==
    ASSUME IInv, UNCHANGED <<tables, kv, ghosts>>
    PROVE  Fresh' /\ Gone' /\ Promises'
BY DEF IInv, tables, ghosts, Fresh, Gone, Promises, AckedComplete,
       EntriesNeedRow, DeletedLeavesNothing, Attached, Isolation, ServedIsLast

LEMMA QuietType ==
    ASSUME TypeOK, UNCHANGED <<tables, kv, ghosts>>, req' \in [Request -> ReqType]
    PROVE  TypeOK'
BY DEF TypeOK, tables, ghosts

\* The request is over, whatever it was doing.
LEMMA DonePreserves ==
    ASSUME IInv, NEW r \in Request, Done(r), UNCHANGED <<tables, kv, ghosts>>
    PROVE  IInv'
<1> USE DEF Done
<1>1. TypeOK'
    BY QuietType, IdleType DEF IInv, TypeOK
<1>2. \A q \in Request : req'[q] = IF q = r THEN Idle ELSE req[q]
    BY DEF IInv, TypeOK
<1>3. OwnerKept'
    BY <1>2 DEF IInv, OwnerKept, tables, Idle, Held
<1>4. Deleting'
    BY <1>2 DEF IInv, Deleting, tables, ghosts, Idle
<1>5. Registering'
    BY <1>2 DEF IInv, Registering, tables, ghosts, Idle
<1> QED
    BY <1>1, <1>3, <1>4, <1>5, QuietPromises DEF IInv

\* An answer that carries nobody else's data, and data of a device that is
\* gone only from the two handlers that read on, is an end like any other.
LEMMA ShowPreserves ==
    ASSUME IInv, NEW r \in Request, NEW ds \in SUBSET Device, Show(r, ds),
           \A d \in ds :
               \/ row[d] = UserOf(r)
               \/ row[d] = Nobody /\ req[r].op \in {"DeviceStatus", "ReportList"}
    PROVE  IInv'
<1>1. /\ UNCHANGED <<tables, kv, acked, doomed, removed, last>>
      /\ Done(r)
      /\ exposed' = exposed \cup
             {[op |-> req[r].op, owner |-> row[d]] :
                 d \in {e \in ds : row[e] # UserOf(r)}}
    BY DEF Show
<1>2. /\ req' \in [Request -> ReqType]
      /\ \A q \in Request : q # r => req'[q] = req[q]
      /\ req'[r].pc = "idle"
    BY <1>1, DoneFacts DEF IInv
<1>3. \A a \in exposed' : a \in exposed \/ a \in [op : {"DeviceStatus", "ReportList"}, owner : {Nobody}]
    BY <1>1
<1>4. {"DeviceStatus", "ReportList"} \subseteq Op
    BY DEF Op, DeviceOp, FreeOp
<1>5. TypeOK' /\ Isolation'
    BY <1>1, <1>2, <1>3, <1>4
    DEF IInv, TypeOK, Promises, Isolation, Answer, tables
<1>6. OwnerKept'
    BY <1>1, <1>2 DEF IInv, OwnerKept, tables, Held
<1>7. Deleting' /\ Registering'
    BY <1>1, <1>2 DEF IInv, Deleting, Registering, tables
<1>8. /\ Fresh' /\ Gone' /\ AckedComplete' /\ EntriesNeedRow'
      /\ DeletedLeavesNothing' /\ Attached' /\ ServedIsLast'
    BY <1>1 DEF IInv, Fresh, Gone, Promises, AckedComplete, EntriesNeedRow,
        DeletedLeavesNothing, Attached, ServedIsLast, tables
<1> QED
    BY <1>5, <1>6, <1>7, <1>8 DEF IInv, Promises

\* The request goes on past a check of its device that holds now.
LEMMA MovePreserves ==
    ASSUME IInv, NEW r \in Request, NEW pc \in Held \ {"delRow", "delKv"},
           req[r].pc # "idle", req[r].dev \in used,
           row[req[r].dev] \in {req[r].user, Nobody},
           Goto(r, pc), UNCHANGED <<tables, kv, ghosts>>
    PROVE  IInv'
<1>1. pc \in Pc
    BY DEF Held, Pc
<1>2. /\ req' \in [Request -> ReqType]
      /\ \A q \in Request : q # r => req'[q] = req[q]
      /\ req'[r].pc = pc /\ req'[r].op = req[r].op
      /\ req'[r].user = req[r].user /\ req'[r].dev = req[r].dev
    BY <1>1, GotoFacts DEF IInv
<1>3. TypeOK'
    BY <1>2, QuietType DEF IInv
<1>4. OwnerKept'
    BY <1>2 DEF IInv, OwnerKept, tables, Held
<1>5. Deleting'
    BY <1>2 DEF IInv, Deleting, tables, ghosts, Held
<1>6. Registering'
    BY <1>2 DEF IInv, Registering, tables, ghosts, Held
<1> QED
    BY <1>3, <1>4, <1>5, <1>6, QuietPromises DEF IInv

LEMMA ArrivePreserves ==
    ASSUME IInv, NEW r \in Request, NEW u \in User, NEW op \in Op, Arrive(r, u, op)
    PROVE  IInv'
<1>1. PICK d \in Device \cup {NoDevice}, x \in Report \cup {NoReport}, f \in BOOLEAN :
        /\ IF op \in DeviceOp THEN d \in used ELSE d = NoDevice
        /\ IF op \in ReportOp THEN x \in spent ELSE x = NoReport
        /\ req' = [req EXCEPT ![r] =
             [Idle EXCEPT !.pc = "start", !.op = op, !.user = u,
                          !.dev = d, !.rep = x, !.flag = f]]
    BY DEF Arrive
<1> DEFINE new == [Idle EXCEPT !.pc = "start", !.op = op, !.user = u,
                               !.dev = d, !.rep = x, !.flag = f]
<1>3. new \in ReqType
    BY IdleType DEF ReqType, Pc
<1>2. /\ new.pc = "start" /\ new.op = op /\ new.user = u
      /\ new.dev = d /\ new.rep = x
    BY IdleType DEF ReqType
<1> HIDE DEF new
<1>4. UNCHANGED <<tables, kv, ghosts>>
    BY DEF Arrive
<1>5. TypeOK'
    BY <1>1, <1>3, <1>4, QuietType DEF IInv, TypeOK, new
<1>6. \A q \in Request : req'[q] = IF q = r THEN new ELSE req[q]
    BY <1>1 DEF IInv, TypeOK, new
<1>7. OwnerKept'
    BY <1>1, <1>2, <1>4, <1>6 DEF IInv, TypeOK, OwnerKept, tables, Held
<1>8. Deleting'
    BY <1>2, <1>4, <1>6 DEF IInv, Deleting, tables, ghosts
<1>9. Registering'
    BY <1>2, <1>4, <1>6 DEF IInv, Registering, tables, ghosts
<1> QED
    BY <1>4, <1>5, <1>7, <1>8, <1>9, QuietPromises DEF IInv

-----------------------------------------------------------------------------
(* /fleet: the steps that write. *)

LEMMA DeviceInsertedPreserves ==
    ASSUME IInv, NEW r \in Request, DeviceInserted(r)
    PROVE  IInv'
<1>1. PICK d \in Device \ used :
        /\ row' = [row EXCEPT ![d] = UserOf(r)]
        /\ used' = used \cup {d}
        /\ req' = [req EXCEPT ![r].pc = "puts", ![r].dev = d,
                              ![r].todo = KvEntry]
    BY DEF DeviceInserted
<1>2. /\ UNCHANGED <<ddns, reports, spent, kv, ghosts>>
      /\ req[r].pc = "start" /\ req[r].op = "DeviceRegister"
    BY DEF DeviceInserted, At
<1>3. req[r] \in ReqType /\ UserOf(r) \in User
    BY <1>2, ReqFacts DEF IInv, OwnerKept, UserOf
<1> DEFINE new == [req[r] EXCEPT !.pc = "puts", !.dev = d, !.todo = KvEntry]
<1>4. new \in ReqType
    BY <1>3 DEF ReqType, Pc
<1>5. new.pc = "puts" /\ new.dev = d /\ new.todo = KvEntry /\ new.user = UserOf(r)
    BY <1>3 DEF ReqType, UserOf
<1>6. req' = [req EXCEPT ![r] = new]
    BY <1>1, <1>3 DEF ReqType
<1> HIDE DEF new
<1>7. \A q \in Request : req'[q] = IF q = r THEN new ELSE req[q]
    BY <1>6 DEF IInv, TypeOK
<1>8. \A e \in Device : row'[e] = IF e = d THEN UserOf(r) ELSE row[e]
    BY <1>1 DEF IInv, TypeOK
<1>9. /\ d \notin used /\ row[d] = Nobody /\ kv[d] = {}
      /\ d \notin acked \cup doomed \cup removed
    BY DEF IInv, Fresh
<1>10. TypeOK'
    BY <1>1, <1>2, <1>3, <1>4, <1>6 DEF IInv, TypeOK, ghosts
<1>17. d \in used' /\ \A e \in used : e \in used' /\ row'[e] = row[e]
    BY <1>1, <1>8, <1>9 DEF IInv, TypeOK
<1>11. OwnerKept'
    BY <1>3, <1>5, <1>7, <1>17 DEF IInv, OwnerKept, Held
<1>12. Deleting'
    <2>1. \A q \in Request : req[q].pc \in {"delRow", "delKv"} =>
              row'[req[q].dev] = row[req[q].dev]
        BY <1>17 DEF IInv, OwnerKept, Held
    <2> QED
        BY <1>2, <1>5, <1>7, <2>1 DEF IInv, Deleting, ghosts
<1>13. Registering'
    <2>1. \A q \in Request : q # r /\ req[q].pc = "puts" =>
              req[q].dev # d /\ row'[req[q].dev] = row[req[q].dev]
        BY <1>9, <1>17 DEF IInv, OwnerKept
    <2>2. row'[d] # Nobody
        BY <1>3, <1>8, NobodyAssumption
    <2> QED
        BY <1>2, <1>5, <1>7, <1>9, <2>1, <2>2 DEF IInv, Registering, ghosts
<1>14. Fresh' /\ Gone'
    BY <1>1, <1>2, <1>8, <1>9 DEF IInv, TypeOK, Fresh, Gone, ghosts
<1>15. (AckedComplete /\ EntriesNeedRow /\ DeletedLeavesNothing)'
    BY <1>2, <1>3, <1>8, <1>9, NobodyAssumption
    DEF IInv, TypeOK, Promises, AckedComplete, EntriesNeedRow,
        DeletedLeavesNothing, ghosts
<1>16. (Attached /\ Isolation /\ ServedIsLast)'
    BY <1>2, <1>3, <1>8, <1>9, NobodyAssumption
    DEF IInv, TypeOK, Promises, Attached, Isolation, ServedIsLast, ghosts,
        ReportRow
<1> QED
    BY <1>10, <1>11, <1>12, <1>13, <1>14, <1>15, <1>16 DEF IInv, Promises

LEMMA DevicePutPreserves ==
    ASSUME IInv, NEW r \in Request, DevicePut(r)
    PROVE  IInv'
<1> DEFINE d == req[r].dev
<1>1. PICK e \in req[r].todo :
        /\ kv' = [kv EXCEPT ![d] = @ \cup {e}]
        /\ IF req[r].todo = {e} THEN Done(r)
           ELSE req' = [req EXCEPT ![r].todo = @ \ {e}]
        /\ acked' = IF req[r].todo = {e} /\ d \notin doomed
                    THEN acked \cup {d} ELSE acked
    BY DEF DevicePut
<1>2. /\ UNCHANGED <<tables, doomed, removed, last, exposed>>
      /\ req[r].pc = "puts" /\ req[r].op = "DeviceRegister"
    BY DEF DevicePut, At
<1>3. req[r] \in ReqType /\ req[r].todo \subseteq KvEntry
    BY ReqFacts DEF IInv
<1>4. d \in Device /\ d \in used /\ d \notin acked
    BY <1>2 DEF IInv, TypeOK, OwnerKept, Registering
<1>5. d \in doomed \/ (row[d] # Nobody /\ KvEntry \ req[r].todo \subseteq kv[d])
    BY <1>2 DEF IInv, Registering
<1>6. PICK new \in ReqType :
        /\ req' = [req EXCEPT ![r] = new]
        /\ new.pc = "idle" \/ new.pc = "puts"
        /\ new.pc = "puts" => /\ req[r].todo # {e} /\ new.dev = d
                              /\ new.user = req[r].user
                              /\ new.todo = req[r].todo \ {e}
    <2>1. CASE req[r].todo = {e}
        BY <1>1, <2>1, IdleType DEF Done, Idle
    <2>2. CASE req[r].todo # {e}
        <3> DEFINE new == [req[r] EXCEPT !.todo = @ \ {e}]
        <3>1. new \in ReqType
            BY <1>3 DEF ReqType
        <3>2. /\ new.pc = "puts" /\ new.dev = d /\ new.user = req[r].user
              /\ new.todo = req[r].todo \ {e}
            BY <1>2, <1>3 DEF ReqType
        <3>3. req' = [req EXCEPT ![r] = new]
            BY <1>1, <1>3, <2>2 DEF ReqType
        <3> QED
            BY <2>2, <3>1, <3>2, <3>3
    <2> QED
        BY <2>1, <2>2
<1>7. \A q \in Request : req'[q] = IF q = r THEN new ELSE req[q]
    BY <1>6 DEF IInv, TypeOK
<1>8. \A x \in Device : kv'[x] = IF x = d THEN kv[d] \cup {e} ELSE kv[x]
    BY <1>1 DEF IInv, TypeOK
<1>9. req[r].pc = "puts" /\ (\A q \in Request : req[q].pc = "puts" /\ req[q].dev = d => q = r)
    BY <1>2 DEF IInv, Registering
<1> HIDE DEF d
<1>10. acked \subseteq acked' /\ acked' \subseteq acked \cup {d}
       /\ (d \in acked' => req[r].todo = {e} /\ d \notin doomed)
    BY <1>1, <1>4
<1>11. TypeOK'
    BY <1>1, <1>2, <1>3, <1>4, <1>6 DEF IInv, TypeOK, tables
<1>12. OwnerKept'
    BY <1>2, <1>4, <1>6, <1>7, d = req[r].dev DEF IInv, OwnerKept, Held, tables, d
<1>13. Deleting'
    BY <1>2, <1>4, <1>6, <1>7, <1>8, <1>10 DEF IInv, TypeOK, Deleting, OwnerKept, Held, tables
<1>14. Registering'
    BY <1>2, <1>4, <1>5, <1>6, <1>7, <1>8, <1>9, <1>10
    DEF IInv, TypeOK, Registering, OwnerKept, tables
<1>15. Fresh' /\ Gone'
    BY <1>2, <1>4, <1>8, <1>10 DEF IInv, TypeOK, Fresh, Gone, tables
<1>16. AckedComplete'
    <2>1. d \in acked' \ doomed => row[d] # Nobody /\ kv'[d] = KvEntry
        BY <1>3, <1>4, <1>5, <1>8, <1>10 DEF IInv, TypeOK
    <2> QED
        BY <1>2, <1>8, <1>10, <2>1 DEF IInv, TypeOK, Promises, AckedComplete, tables
<1>17. EntriesNeedRow'
    BY <1>2, <1>4, <1>5, <1>8 DEF IInv, TypeOK, Promises, EntriesNeedRow, tables
<1>18. DeletedLeavesNothing'
    BY <1>2, <1>4, <1>8, <1>10 DEF IInv, TypeOK, Promises, DeletedLeavesNothing, Gone, tables
<1>19. (Attached /\ Isolation /\ ServedIsLast)'
    BY <1>2 DEF IInv, Promises, Attached, Isolation, ServedIsLast, tables
<1> QED
    BY <1>11, <1>12, <1>13, <1>14, <1>15, <1>16, <1>17, <1>18, <1>19 DEF IInv, Promises

LEMMA DeviceDeleteFoundPreserves ==
    ASSUME IInv, NEW r \in Request, DeviceDeleteFound(r)
    PROVE  IInv'
<1>1. /\ UNCHANGED <<tables, kv, acked, removed, last, exposed>>
      /\ req[r].pc = "start" /\ req[r].op = "DeviceDelete"
    BY DEF DeviceDeleteFound, At
<1>2. CASE ~Owned(r)
    BY <1>1, <1>2, DonePreserves DEF DeviceDeleteFound, ghosts
<1>3. CASE Owned(r)
    <2> DEFINE d == req[r].dev
    <2>1. Goto(r, "delRow") /\ doomed' = doomed \cup {d}
        BY <1>3 DEF DeviceDeleteFound
    <2>2. /\ req' \in [Request -> ReqType]
          /\ \A q \in Request : q # r => req'[q] = req[q]
          /\ req'[r].pc = "delRow" /\ req'[r].op = req[r].op
          /\ req'[r].user = req[r].user /\ req'[r].dev = d
        BY <2>1, GotoFacts DEF IInv, Pc
    <2>3. d \in used /\ d \in Device /\ row[d] = req[r].user
        BY <1>1, <1>3 DEF IInv, TypeOK, OwnerKept, DeviceOp, Owned, UserOf
    <2> HIDE DEF d
    <2>4. TypeOK'
        BY <1>1, <2>1, <2>2, <2>3 DEF IInv, TypeOK, tables
    <2>5. OwnerKept'
        BY <1>1, <2>2, <2>3 DEF IInv, OwnerKept, tables, Held
    <2>6. Deleting'
        BY <1>1, <2>1, <2>2 DEF IInv, Deleting, tables
    <2>7. Registering'
        BY <1>1, <2>1, <2>2 DEF IInv, Registering, tables
    <2>8. Fresh' /\ Gone'
        BY <1>1, <2>1, <2>3 DEF IInv, Fresh, Gone, tables
    <2>9. Promises'
        BY <1>1, <2>1 DEF IInv, Promises, AckedComplete, EntriesNeedRow,
            DeletedLeavesNothing, Attached, Isolation, ServedIsLast, tables
    <2> QED
        BY <2>4, <2>5, <2>6, <2>7, <2>8, <2>9 DEF IInv
<1> QED
    BY <1>2, <1>3

LEMMA DeviceRowDeletedPreserves ==
    ASSUME IInv, NEW r \in Request, DeviceRowDeleted(r)
    PROVE  IInv'
<1> DEFINE d == req[r].dev
           new == [req[r] EXCEPT !.pc = "delKv", !.todo = KvEntry]
<1>1. /\ UNCHANGED <<used, spent, kv, acked, doomed, removed, exposed>>
      /\ req[r].pc = "delRow" /\ req[r].op = "DeviceDelete"
      /\ row' = IF Owned(r) THEN [row EXCEPT ![d] = Nobody] ELSE row
      /\ ddns' = IF Owned(r) THEN [ddns EXCEPT ![d] = << >>] ELSE ddns
      /\ reports' = IF Owned(r) THEN [x \in Report |->
             IF reports[x] # NoReport /\ reports[x].dev = d
             THEN NoReport ELSE reports[x]] ELSE reports
      /\ last' = [last EXCEPT ![d] = FALSE]
    BY DEF DeviceRowDeleted, At
<1>2. req[r] \in ReqType
    BY ReqFacts DEF IInv
<1>3. /\ new \in ReqType
      /\ new.pc = "delKv" /\ new.dev = d /\ new.user = req[r].user
      /\ new.todo = KvEntry
    BY <1>2 DEF ReqType, Pc
<1>4. req' = [req EXCEPT ![r] = new]
    BY <1>2 DEF DeviceRowDeleted, ReqType
<1>5. /\ d \in used /\ d \in Device /\ d \in doomed
      /\ row[d] \in {req[r].user, Nobody} /\ req[r].user \in User
    BY <1>1 DEF IInv, TypeOK, OwnerKept, Deleting, Held
<1> HIDE DEF new
<1>6. req' \in [Request -> ReqType] /\ \A q \in Request : req'[q] = IF q = r THEN new ELSE req[q]
    BY <1>3, <1>4 DEF IInv, TypeOK
<1>7. \A e \in Device : row'[e] = IF e = d THEN Nobody ELSE row[e]
    BY <1>1, <1>5 DEF IInv, TypeOK, Owned, UserOf
<1>8. \A e \in Device : /\ e # d => ddns'[e] = ddns[e] /\ last'[e] = last[e]
                        /\ ddns'[d] = << >>
    BY <1>1, <1>5 DEF IInv, TypeOK, Promises, Attached, Owned, UserOf
<1>9. \A x \in Report : /\ reports'[x] \in {reports[x], NoReport}
                        /\ reports'[x] # NoReport => reports'[x].dev # d
    <2>1. CASE Owned(r)
        BY <1>1, <2>1
    <2>2. CASE ~Owned(r)
        <3>1. reports' = reports /\ row[d] = Nobody
            BY <1>1, <1>5, <2>2 DEF Owned, UserOf
        <3>2. \A x \in Report : reports[x] # NoReport =>
                  row[reports[x].dev] = reports[x].owner /\ reports[x].owner \in User
            BY DEF IInv, TypeOK, ReportRow, Promises, Attached
        <3> QED
            BY <3>1, <3>2, NobodyAssumption
    <2> QED
        BY <2>1, <2>2
<1> HIDE DEF d
<1>10. TypeOK'
    <2>1. reports' \in [Report -> ReportRow \cup {NoReport}]
        BY <1>1 DEF IInv, TypeOK
    <2> QED
        BY <1>1, <1>5, <1>6, <2>1 DEF IInv, TypeOK
<1>11. OwnerKept'
    BY <1>1, <1>3, <1>5, <1>6, <1>7 DEF IInv, TypeOK, OwnerKept, Held
<1>12. Deleting'
    BY <1>1, <1>3, <1>5, <1>6, <1>7 DEF IInv, TypeOK, Deleting, OwnerKept, Held
<1>13. Registering'
    <2>1. \A q \in Request : req'[q].pc = "puts" => req'[q] = req[q] /\ req[q].dev \in Device
        BY <1>3, <1>6 DEF IInv, TypeOK, OwnerKept
    <2> QED
        BY <1>1, <1>5, <1>7, <2>1 DEF IInv, Registering
<1>14. Fresh' /\ Gone'
    BY <1>1, <1>7 DEF IInv, TypeOK, Fresh, Gone
<1>15. (AckedComplete /\ EntriesNeedRow /\ DeletedLeavesNothing)'
    BY <1>1, <1>5, <1>7 DEF IInv, TypeOK, Promises, AckedComplete,
        EntriesNeedRow, DeletedLeavesNothing
<1>16. Attached'
    BY <1>7, <1>8, <1>9 DEF IInv, TypeOK, Promises, Attached, ReportRow
<1>17. (Isolation /\ ServedIsLast)'
    BY <1>1, <1>8 DEF IInv, Promises, Isolation, ServedIsLast
<1> QED
    BY <1>10, <1>11, <1>12, <1>13, <1>14, <1>15, <1>16, <1>17 DEF IInv, Promises

LEMMA DeviceKvDeletedPreserves ==
    ASSUME IInv, NEW r \in Request, DeviceKvDeleted(r)
    PROVE  IInv'
<1> DEFINE d == req[r].dev
<1>1. PICK e \in req[r].todo :
        /\ kv' = [kv EXCEPT ![d] = @ \ {e}]
        /\ IF req[r].todo = {e} THEN Done(r)
           ELSE req' = [req EXCEPT ![r].todo = @ \ {e}]
        /\ removed' = IF req[r].todo = {e} THEN removed \cup {d} ELSE removed
    BY DEF DeviceKvDeleted
<1>2. /\ UNCHANGED <<tables, acked, doomed, last, exposed>>
      /\ req[r].pc = "delKv"
    BY DEF DeviceKvDeleted, At
<1>3. req[r] \in ReqType
    BY ReqFacts DEF IInv
<1>4. /\ d \in Device /\ d \in used /\ d \in doomed /\ row[d] = Nobody
      /\ d \in acked => kv[d] \subseteq req[r].todo
    BY <1>2 DEF IInv, TypeOK, OwnerKept, Deleting, Held
<1>5. PICK new \in ReqType :
        /\ req' = [req EXCEPT ![r] = new]
        /\ new.pc = "idle" \/ new.pc = "delKv"
        /\ new.pc = "delKv" => /\ new.dev = d /\ new.user = req[r].user
                               /\ new.todo = req[r].todo \ {e}
    <2>1. CASE req[r].todo = {e}
        BY <1>1, <2>1, IdleType DEF Done, Idle
    <2>2. CASE req[r].todo # {e}
        <3> DEFINE new == [req[r] EXCEPT !.todo = @ \ {e}]
        <3>1. new \in ReqType
            BY <1>3 DEF ReqType
        <3>2. /\ new.pc = "delKv" /\ new.dev = d /\ new.user = req[r].user
              /\ new.todo = req[r].todo \ {e}
            BY <1>2, <1>3 DEF ReqType
        <3>3. req' = [req EXCEPT ![r] = new]
            BY <1>1, <1>3, <2>2 DEF ReqType
        <3> QED
            BY <3>1, <3>2, <3>3
    <2> QED
        BY <2>1, <2>2
<1> HIDE DEF d
<1>6. \A q \in Request : req'[q] = IF q = r THEN new ELSE req[q]
    BY <1>5 DEF IInv, TypeOK
<1>7. \A x \in Device : kv'[x] = IF x = d THEN kv[d] \ {e} ELSE kv[x]
    BY <1>1 DEF IInv, TypeOK
<1>8. /\ removed' \subseteq removed \cup {d}
      /\ d \in removed' \ removed => req[r].todo = {e}
    BY <1>1
<1>9. TypeOK'
    BY <1>1, <1>2, <1>4, <1>5 DEF IInv, TypeOK, tables
<1>10. OwnerKept'
    BY <1>2, <1>4, <1>5, <1>6 DEF IInv, OwnerKept, Held, tables, d
<1>11. Deleting'
    BY <1>2, <1>4, <1>5, <1>6, <1>7 DEF IInv, TypeOK, Deleting, OwnerKept, Held, tables
<1>12. Registering'
    BY <1>2, <1>4, <1>5, <1>6, <1>7 DEF IInv, TypeOK, Registering, OwnerKept, tables
<1>13. Fresh' /\ Gone'
    BY <1>2, <1>4, <1>7, <1>8 DEF IInv, TypeOK, Fresh, Gone, tables
<1>14. (AckedComplete /\ EntriesNeedRow)'
    BY <1>2, <1>4, <1>7 DEF IInv, TypeOK, Promises, AckedComplete,
        EntriesNeedRow, tables
<1>15. DeletedLeavesNothing'
    BY <1>2, <1>4, <1>7, <1>8 DEF IInv, TypeOK, Promises, DeletedLeavesNothing, tables
<1>16. (Attached /\ Isolation /\ ServedIsLast)'
    BY <1>2 DEF IInv, Promises, Attached, Isolation, ServedIsLast, tables
<1> QED
    BY <1>9, <1>10, <1>11, <1>12, <1>13, <1>14, <1>15, <1>16 DEF IInv, Promises

-----------------------------------------------------------------------------
(* /ddns and /reports: the steps that write. *)

\* What an UPDATE leaves: as many rows, each with the new flag.
LEMMA SetRows ==
    ASSUME NEW rows \in Seq(BOOLEAN), NEW flag \in BOOLEAN
    PROVE  LET set == [i \in DOMAIN rows |-> flag] IN
           /\ set \in Seq(BOOLEAN)
           /\ Len(set) = Len(rows)
           /\ set = << >> <=> rows = << >>
           /\ rows # << >> => Head(set) = flag
<1> DEFINE set == [i \in DOMAIN rows |-> flag]
<1>1. DOMAIN rows = 1..Len(rows) /\ Len(rows) \in Nat
    OBVIOUS
<1>2. set \in Seq(BOOLEAN) /\ Len(set) = Len(rows)
    BY <1>1
<1>3. rows # << >> => 1 \in DOMAIN rows
    BY <1>1
<1>4. set = << >> <=> rows = << >>
    BY <1>2
<1>5. rows # << >> => Head(set) = flag
    BY <1>2, <1>3, <1>4
<1> QED
    BY <1>2, <1>4, <1>5

\* Steps of a request past its check that leave rows and KV entries alone.
LEMMA WriteRequests ==
    ASSUME IInv, NEW r \in Request, NEW pc \in {"ddnsFetch", "idle"},
           req[r].pc \in Held \cup {"start", "repRow"},
           pc = "idle" => Done(r), pc # "idle" => Goto(r, pc) /\ req[r].pc \in Held,
           UNCHANGED <<row, used, kv, acked, doomed, removed, exposed>>
    PROVE  /\ req' \in [Request -> ReqType]
           /\ OwnerKept' /\ Deleting' /\ Registering' /\ Fresh' /\ Gone'
           /\ AckedComplete' /\ EntriesNeedRow' /\ DeletedLeavesNothing'
           /\ Isolation'
<1>1. /\ req' \in [Request -> ReqType]
      /\ \A q \in Request : q # r => req'[q] = req[q]
      /\ \/ req'[r].pc = "idle"
         \/ /\ req'[r].pc = "ddnsFetch" /\ req'[r].op = req[r].op
            /\ req'[r].user = req[r].user /\ req'[r].dev = req[r].dev
            /\ req[r].pc \in Held
    BY DoneFacts, GotoFacts DEF IInv, Pc
<1>2. OwnerKept'
    BY <1>1 DEF IInv, OwnerKept, Held
<1>3. Deleting' /\ Registering'
    BY <1>1 DEF IInv, Deleting, Registering
<1>4. /\ Fresh' /\ Gone' /\ AckedComplete' /\ EntriesNeedRow'
      /\ DeletedLeavesNothing' /\ Isolation'
    BY DEF IInv, Fresh, Gone, Promises, AckedComplete, EntriesNeedRow,
           DeletedLeavesNothing, Isolation
<1> QED
    BY <1>1, <1>2, <1>3, <1>4

LEMMA DdnsSetPreserves ==
    ASSUME IInv, NEW r \in Request, DdnsSet(r)
    PROVE  IInv'
<1> DEFINE d == req[r].dev
           f == req[r].flag
<1>1. /\ UNCHANGED <<row, used, reports, spent, kv, acked, doomed, removed, exposed>>
      /\ req[r].pc = "ddnsSet" /\ Goto(r, "ddnsFetch")
      /\ ddns' = [ddns EXCEPT ![d] = [i \in DOMAIN ddns[d] |-> f]]
      /\ last' = [last EXCEPT ![d] = IF ddns[d] = << >> THEN @ ELSE f]
    BY DEF DdnsSet, At
<1>2. d \in Device /\ f \in BOOLEAN /\ ddns[d] \in Seq(BOOLEAN)
    BY <1>1, ReqFacts DEF IInv, TypeOK, OwnerKept, Held
<1>3. /\ req' \in [Request -> ReqType]
      /\ OwnerKept' /\ Deleting' /\ Registering' /\ Fresh' /\ Gone'
      /\ AckedComplete' /\ EntriesNeedRow' /\ DeletedLeavesNothing'
      /\ Isolation'
    BY <1>1, WriteRequests DEF Held
<1> HIDE DEF d, f
<1>4. /\ ddns'[d] \in Seq(BOOLEAN) /\ Len(ddns'[d]) = Len(ddns[d])
      /\ ddns'[d] = << >> <=> ddns[d] = << >>
      /\ ddns[d] # << >> => Head(ddns'[d]) = last'[d]
      /\ \A e \in Device : e # d => ddns'[e] = ddns[e] /\ last'[e] = last[e]
    BY <1>1, <1>2, SetRows DEF IInv, TypeOK
<1>5. TypeOK'
    BY <1>1, <1>2, <1>3, <1>4 DEF IInv, TypeOK
<1>6. Attached' /\ ServedIsLast'
    BY <1>1, <1>2, <1>4 DEF IInv, Promises, Attached, ServedIsLast
<1> QED
    BY <1>3, <1>5, <1>6 DEF IInv, Promises

LEMMA DdnsInsertedPreserves ==
    ASSUME IInv, NEW r \in Request, DdnsInserted(r)
    PROVE  IInv'
<1> DEFINE d == req[r].dev
           f == req[r].flag
<1>1. /\ UNCHANGED <<row, used, reports, spent, kv, acked, doomed, removed, exposed>>
      /\ req[r].pc = "ddnsInsert"
    BY DEF DdnsInserted, At
<1>2. CASE row[d] = Nobody
    BY <1>1, <1>2, DonePreserves DEF DdnsInserted, tables, ghosts
<1>3. CASE row[d] # Nobody
    <2>1. /\ ddns' = [ddns EXCEPT ![d] = Append(@, f)]
          /\ last' = [last EXCEPT ![d] = f]
          /\ Goto(r, "ddnsFetch")
        BY <1>3 DEF DdnsInserted
    <2>2. d \in Device /\ f \in BOOLEAN /\ ddns[d] \in Seq(BOOLEAN)
        BY <1>1, ReqFacts DEF IInv, TypeOK, OwnerKept, Held
    <2>3. /\ req' \in [Request -> ReqType]
          /\ OwnerKept' /\ Deleting' /\ Registering' /\ Fresh' /\ Gone'
          /\ AckedComplete' /\ EntriesNeedRow' /\ DeletedLeavesNothing'
          /\ Isolation'
        BY <1>1, <2>1, WriteRequests DEF Held
    <2> HIDE DEF d, f
    <2>4. /\ ddns'[d] = Append(ddns[d], f) /\ last'[d] = f
          /\ \A e \in Device : e # d => ddns'[e] = ddns[e] /\ last'[e] = last[e]
        BY <2>1, <2>2 DEF IInv, TypeOK
    <2>5. TypeOK'
        BY <1>1, <2>1, <2>2, <2>3 DEF IInv, TypeOK
    <2>6. Attached'
        BY <1>1, <1>3, <2>4 DEF IInv, Promises, Attached
    <2>7. Head(ddns'[d]) # last'[d] => Len(ddns'[d]) > 1
        BY <2>2, <2>4
    <2>8. ServedIsLast'
        BY <2>4, <2>7 DEF IInv, Promises, ServedIsLast
    <2> QED
        BY <2>3, <2>5, <2>6, <2>8 DEF IInv, Promises
<1> QED
    BY <1>2, <1>3

LEMMA ReportInsertedPreserves ==
    ASSUME IInv, NEW r \in Request, ReportInserted(r)
    PROVE  IInv'
<1> DEFINE d == req[r].dev
<1>1. /\ UNCHANGED <<row, used, ddns, kv, ghosts>>
      /\ req[r].pc = "repInsert" /\ Done(r)
    BY DEF ReportInserted, At
<1>2. CASE row[d] = Nobody
    BY <1>1, <1>2, DonePreserves DEF ReportInserted, tables, ghosts
<1>3. CASE row[d] # Nobody
    <2> DEFINE new == [dev |-> d, owner |-> UserOf(r)]
    <2>1. PICK x \in Report \ spent :
            /\ reports' = [reports EXCEPT ![x] = new]
            /\ spent' = spent \cup {x}
        BY <1>3 DEF ReportInserted
    <2>2. d \in Device /\ row[d] = UserOf(r) /\ UserOf(r) \in User
        BY <1>1, <1>3 DEF IInv, TypeOK, OwnerKept, Held, UserOf
    <2>3. new \in ReportRow /\ new.dev = d /\ new.owner = UserOf(r)
        BY <2>2 DEF ReportRow
    <2>4. /\ req' \in [Request -> ReqType]
          /\ OwnerKept' /\ Deleting' /\ Registering' /\ Fresh' /\ Gone'
          /\ AckedComplete' /\ EntriesNeedRow' /\ DeletedLeavesNothing'
          /\ Isolation'
        BY <1>1, WriteRequests DEF Held, ghosts
    <2> HIDE DEF d, new
    <2>5. TypeOK'
        BY <1>1, <2>1, <2>3, <2>4 DEF IInv, TypeOK, ghosts
    <2>6. Attached' /\ ServedIsLast'
        BY <1>1, <2>1, <2>2, <2>3 DEF IInv, TypeOK, Promises, Attached, ServedIsLast, ghosts
    <2> QED
        BY <2>4, <2>5, <2>6 DEF IInv, Promises
<1> QED
    BY <1>2, <1>3

LEMMA ReportRowDeletedPreserves ==
    ASSUME IInv, NEW r \in Request, ReportRowDeleted(r)
    PROVE  IInv'
<1>1. /\ UNCHANGED <<row, used, ddns, spent, kv, ghosts>>
      /\ req[r].pc = "repRow" /\ Done(r)
      /\ \/ reports' = reports
         \/ reports' = [reports EXCEPT ![req[r].rep] = NoReport]
    BY DEF ReportRowDeleted, At
<1>2. /\ req' \in [Request -> ReqType]
      /\ OwnerKept' /\ Deleting' /\ Registering' /\ Fresh' /\ Gone'
      /\ AckedComplete' /\ EntriesNeedRow' /\ DeletedLeavesNothing'
      /\ Isolation'
    BY <1>1, WriteRequests DEF ghosts
<1>3. TypeOK'
    BY <1>1, <1>2 DEF IInv, TypeOK, ghosts
<1>4. \A x \in Report : reports'[x] \in {reports[x], NoReport}
    BY <1>1 DEF IInv, TypeOK
<1>5. Attached' /\ ServedIsLast'
    BY <1>1, <1>4 DEF IInv, Promises, Attached, ServedIsLast, ghosts
<1> QED
    BY <1>2, <1>3, <1>5 DEF IInv, Promises

LEMMA ReportFoundPreserves ==
    ASSUME IInv, NEW r \in Request, ReportFound(r)
    PROVE  IInv'
<1>1. /\ UNCHANGED <<tables, kv, ghosts>>
      /\ req[r].pc = "start" /\ req[r].op = "ReportDelete"
      /\ Done(r) \/ Goto(r, "repRow")
    BY DEF ReportFound, At
<1>2. CASE Done(r)
    BY <1>1, <1>2, DonePreserves
<1>3. CASE Goto(r, "repRow")
    <2>1. /\ req' \in [Request -> ReqType]
          /\ \A q \in Request : q # r => req'[q] = req[q]
          /\ req'[r].pc = "repRow"
          /\ req'[r].user = req[r].user /\ req'[r].rep = req[r].rep
        BY <1>3, GotoFacts DEF IInv, Pc
    <2>2. req[r].rep \in Report /\ req[r].user \in User
        BY <1>1 DEF IInv, OwnerKept, ReportOp
    <2>3. TypeOK'
        BY <1>1, <2>1, QuietType DEF IInv
    <2>4. OwnerKept'
        BY <1>1, <2>1, <2>2 DEF IInv, OwnerKept, tables, Held
    <2>5. Deleting' /\ Registering'
        BY <1>1, <2>1 DEF IInv, Deleting, Registering, tables, ghosts
    <2> QED
        BY <1>1, <2>3, <2>4, <2>5, QuietPromises DEF IInv
<1> QED
    BY <1>1, <1>2, <1>3

-----------------------------------------------------------------------------
(* The steps that only check or answer. *)

LEMMA CheckPreserves ==
    ASSUME IInv, NEW r \in Request, NEW pc \in Held \ {"delRow", "delKv"},
           req[r].pc = "start", req[r].op \in DeviceOp, CheckOwner(r, pc)
    PROVE  IInv'
<1>1. UNCHANGED <<tables, kv, ghosts>>
    BY DEF CheckOwner
<1>2. CASE Owned(r)
    <2>1. Goto(r, pc) /\ row[req[r].dev] = req[r].user
        BY <1>2 DEF CheckOwner, Owned, UserOf
    <2>2. req[r].dev \in used
        BY DEF IInv, OwnerKept
    <2> QED
        BY <1>1, <2>1, <2>2, MovePreserves
<1>3. CASE ~Owned(r)
    BY <1>1, <1>3, DonePreserves DEF CheckOwner
<1> QED
    BY <1>2, <1>3

LEMMA CheckingPreserves ==
    ASSUME IInv, NEW r \in Request,
           \/ DeviceStatusFound(r) \/ DdnsReadFound(r) \/ DdnsUpdateFound(r)
           \/ ForceFound(r) \/ GenerateFound(r)
    PROVE  IInv'
BY CheckPreserves
DEF DeviceStatusFound, DdnsReadFound, DdnsUpdateFound, ForceFound,
    GenerateFound, At, Held, DeviceOp

LEMMA LookingPreserves ==
    ASSUME IInv, NEW r \in Request, DdnsLooked(r) \/ ForceLooked(r)
    PROVE  IInv'
<1>1. /\ UNCHANGED <<tables, kv, ghosts>>
      /\ req[r].pc \in {"ddnsLook", "forceLook"}
      /\ Done(r) \/ \E pc \in {"ddnsInsert", "ddnsSet", "forcePut"} : Goto(r, pc)
    BY DEF DdnsLooked, ForceLooked, At
<1>2. req[r].dev \in used /\ row[req[r].dev] \in {req[r].user, Nobody}
    BY <1>1 DEF IInv, OwnerKept, Held
<1>3. \A pc \in {"ddnsInsert", "ddnsSet", "forcePut"} : pc \in Held \ {"delRow", "delKv"}
    BY DEF Held
<1> QED
    BY <1>1, <1>2, <1>3, DonePreserves, MovePreserves

\* Reports are their device's owner's, and a device with a row was inserted.
LEMMA OwnReports ==
    ASSUME IInv, NEW u \in User, NEW x \in Report,
           reports[x] # NoReport, reports[x].owner = u
    PROVE  /\ reports[x].dev \in Device /\ reports[x].dev \in used
           /\ row[reports[x].dev] = u
<1>1. reports[x].dev \in Device /\ row[reports[x].dev] = u
    BY DEF IInv, TypeOK, ReportRow, Promises, Attached
<1> QED
    BY <1>1, NobodyAssumption DEF IInv, Fresh

\* The page is of its user's devices when it is read.
LEMMA PagingPreserves ==
    ASSUME IInv, NEW r \in Request, ReportsPaged(r)
    PROVE  IInv'
<1>1. /\ UNCHANGED <<tables, kv, ghosts>>
      /\ req[r].pc = "start" /\ UserOf(r) \in User /\ UserOf(r) = req[r].user
    BY DEF ReportsPaged, At, IInv, OwnerKept, UserOf
<1>2. PICK xs \in SUBSET {y \in Report : reports[y] # NoReport
                                        /\ reports[y].owner = UserOf(r)} :
        req' = [req EXCEPT ![r].pc = "repTotal",
                           ![r].page = {reports[x].dev : x \in xs}]
    BY DEF ReportsPaged
<1> DEFINE ds == {reports[x].dev : x \in xs}
           new == [req[r] EXCEPT !.pc = "repTotal", !.page = ds]
<1>3. \A d \in ds : d \in Device /\ d \in used /\ row[d] = UserOf(r)
    BY <1>1, OwnReports
<1> HIDE DEF ds
<1>4. req[r] \in ReqType
    BY ReqFacts DEF IInv
<1>5. /\ new \in ReqType
      /\ new.pc = "repTotal" /\ new.page = ds /\ new.user = req[r].user
    BY <1>3, <1>4 DEF ReqType, Pc
<1>6. req' = [req EXCEPT ![r] = new]
    BY <1>2, <1>4 DEF ReqType, ds
<1> HIDE DEF new
<1>7. /\ req' \in [Request -> ReqType]
      /\ \A q \in Request : req'[q] = IF q = r THEN new ELSE req[q]
    BY <1>5, <1>6 DEF IInv, TypeOK
<1>8. TypeOK'
    BY <1>1, <1>7, QuietType DEF IInv
<1>9. OwnerKept'
    BY <1>1, <1>3, <1>5, <1>7 DEF IInv, OwnerKept, tables, Held
<1>10. Deleting' /\ Registering'
    BY <1>1, <1>5, <1>7 DEF IInv, Deleting, Registering, tables, ghosts
<1> QED
    BY <1>1, <1>8, <1>9, <1>10, QuietPromises DEF IInv

\* The answers: what was read last is its user's at the answer; the row of a
\* status and the page of a list were read before, and may be gone.
LEMMA AnsweringPreserves ==
    ASSUME IInv, NEW r \in Request,
           \/ DeviceListed(r) \/ DeviceStatusRead(r) \/ DdnsFetched(r)
           \/ ReportShown(r) \/ ReportsListed(r)
    PROVE  IInv'
<1>1. CASE DeviceListed(r)
    BY <1>1, ShowPreserves DEF DeviceListed
<1>2. CASE DeviceStatusRead(r)
    <2>1. req[r].pc = "kvGet" /\ req[r].op = "DeviceStatus"
        BY <1>2 DEF DeviceStatusRead, At
    <2>2. req[r].dev \in Device /\ row[req[r].dev] \in {UserOf(r), Nobody}
        BY <2>1 DEF IInv, TypeOK, OwnerKept, Held, UserOf
    <2> QED
        BY <1>2, <2>1, <2>2, ShowPreserves DEF DeviceStatusRead
<1>3. CASE DdnsFetched(r)
    <2>1. req[r].pc = "ddnsFetch"
        BY <1>3 DEF DdnsFetched
    <2>2. req[r].dev \in Device /\ row[req[r].dev] \in {UserOf(r), Nobody}
        BY <2>1 DEF IInv, TypeOK, OwnerKept, Held, UserOf
    <2>3. ddns[req[r].dev] # << >> => row[req[r].dev] = UserOf(r)
        BY <2>2 DEF IInv, Promises, Attached
    <2> QED
        BY <1>3, <2>2, <2>3, ShowPreserves DEF DdnsFetched
<1>4. CASE ReportShown(r)
    <2>1. req[r].rep \in Report /\ UserOf(r) \in User
        BY <1>4 DEF ReportShown, At, IInv, OwnerKept, ReportOp, UserOf
    <2>2. OwnReport(r) => /\ reports[req[r].rep].dev \in Device
                          /\ row[reports[req[r].rep].dev] = UserOf(r)
        BY <2>1, OwnReports DEF OwnReport
    <2> QED
        BY <1>4, <2>2, ShowPreserves DEF ReportShown
<1>5. CASE ReportsListed(r)
    <2>1. req[r].pc = "repTotal" /\ req[r].op = "ReportList"
        BY <1>5 DEF ReportsListed, At
    <2>2. \A d \in req[r].page : d \in Device /\ row[d] \in {UserOf(r), Nobody}
        BY <2>1 DEF IInv, TypeOK, OwnerKept, UserOf
    <2>3. req[r].page \in SUBSET Device
        BY <2>2
    <2> QED
        BY <1>5, <2>1, <2>2, <2>3, ShowPreserves DEF ReportsListed
<1> QED
    BY <1>1, <1>2, <1>3, <1>4, <1>5

LEMMA EndingPreserves ==
    ASSUME IInv, NEW r \in Request, Abort(r) \/ ProvidersListed(r) \/ ForcePut(r)
    PROVE  IInv'
BY DonePreserves DEF Abort, ProvidersListed, ForcePut

LEMMA NextIInv == IInv /\ [Next]_vars => IInv'
<1> SUFFICES ASSUME IInv, [Next]_vars PROVE IInv'
    OBVIOUS
<1>1. CASE UNCHANGED vars
    BY <1>1 DEF vars, tables, ghosts, IInv, TypeOK, OwnerKept, Deleting,
        Registering, Fresh, Gone, Promises, AckedComplete, EntriesNeedRow,
        DeletedLeavesNothing, Attached, Isolation, ServedIsLast
<1>2. ASSUME NEW r \in Request, NEW u \in User, NEW op \in Op, Arrive(r, u, op)
      PROVE  IInv'
    BY <1>2, ArrivePreserves
<1>3. ASSUME NEW r \in Request, Abort(r)
      PROVE  IInv'
    BY <1>3, EndingPreserves
<1>4. ASSUME NEW r \in Request, Handle(r)
      PROVE  IInv'
    <2>1. CASE DeviceInserted(r) \/ DevicePut(r)
        BY <2>1, DeviceInsertedPreserves, DevicePutPreserves
    <2>2. CASE DeviceDeleteFound(r) \/ DeviceRowDeleted(r) \/ DeviceKvDeleted(r)
        BY <2>2, DeviceDeleteFoundPreserves, DeviceRowDeletedPreserves,
           DeviceKvDeletedPreserves
    <2>3. CASE \/ DeviceStatusFound(r) \/ DdnsReadFound(r) \/ DdnsUpdateFound(r)
               \/ ForceFound(r) \/ GenerateFound(r)
        BY <2>3, CheckingPreserves
    <2>4. CASE DdnsLooked(r) \/ ForceLooked(r)
        BY <2>4, LookingPreserves
    <2>5. CASE ProvidersListed(r) \/ ForcePut(r)
        BY <2>5, EndingPreserves
    <2>6. CASE \/ DeviceListed(r) \/ DeviceStatusRead(r) \/ DdnsFetched(r)
               \/ ReportShown(r) \/ ReportsListed(r)
        BY <2>6, AnsweringPreserves
    <2>7. CASE DdnsSet(r) \/ DdnsInserted(r)
        BY <2>7, DdnsSetPreserves, DdnsInsertedPreserves
    <2>8. CASE ReportInserted(r) \/ ReportFound(r) \/ ReportRowDeleted(r)
        BY <2>8, ReportInsertedPreserves, ReportFoundPreserves,
           ReportRowDeletedPreserves
    <2>9. CASE ReportsPaged(r)
        BY <2>9, PagingPreserves
    <2> QED
        BY <1>4, <2>1, <2>2, <2>3, <2>4, <2>5, <2>6, <2>7, <2>8, <2>9 DEF Handle
<1> QED
    BY <1>1, <1>2, <1>3, <1>4 DEF Next

\* The inductive invariant holds of every behaviour.
THEOREM Invariance == Spec => []IInv
BY InitIInv, NextIInv, PTL DEF Spec

\* Tables, KV entries and requests keep their types.
THEOREM StoreTypes == Spec => []TypeOK
<1>1. IInv => TypeOK
    BY DEF IInv
<1> QED
    BY <1>1, Invariance, PTL

\* A registration answered 201 is whole until a delete request finds it.
THEOREM RegistrationsWhole == Spec => []AckedComplete
<1>1. IInv => AckedComplete
    BY DEF IInv, Promises
<1> QED
    BY <1>1, Invariance, PTL

\* KV entries without a row are left only by a deletion that was begun.
THEOREM EntriesHaveRows == Spec => []EntriesNeedRow
<1>1. IInv => EntriesNeedRow
    BY DEF IInv, Promises
<1> QED
    BY <1>1, Invariance, PTL

\* A deletion answered 200 of a registered device leaves nothing of it.
THEOREM DeletionsWhole == Spec => []DeletedLeavesNothing
<1>1. IInv => DeletedLeavesNothing
    BY DEF IInv, Promises
<1> QED
    BY <1>1, Invariance, PTL

\* Reports and DDNS rows go with their device and are its owner's.
THEOREM AttachmentsHaveDevices == Spec => []Attached
<1>1. IInv => Attached
    BY DEF IInv, Promises
<1> QED
    BY <1>1, Invariance, PTL

\* No answer carries data of a device of somebody else, and data of a device
\* that is gone only where the handler reads on after them.
THEOREM UsersIsolated == Spec => []Isolation
<1>1. IInv => Isolation
    BY DEF IInv, Promises
<1> QED
    BY <1>1, Invariance, PTL

\* The DDNS row served is the last written unless two inserts raced.
THEOREM ServedRowIsLast == Spec => []ServedIsLast
<1>1. IInv => ServedIsLast
    BY DEF IInv, Promises
<1> QED
    BY <1>1, Invariance, PTL

-----------------------------------------------------------------------------
(* The handlers implement the registry.  Every step that leaves the tables  *)
(* alone is a stutter of it; the others are one of its steps each.          *)

LEMMA SameTables ==
    ASSUME UNCHANGED <<row, used, ddns, reports>>
    PROVE  UNCHANGED Registry!rvars
BY DEF Registry!rvars, ItemsOf

LEMMA OthersWriteNothing ==
    ASSUME NEW r \in Request,
           \/ DeviceListed(r) \/ DevicePut(r) \/ DeviceDeleteFound(r)
           \/ DeviceKvDeleted(r) \/ DeviceStatusFound(r) \/ DeviceStatusRead(r)
           \/ ProvidersListed(r) \/ DdnsReadFound(r) \/ DdnsUpdateFound(r)
           \/ DdnsLooked(r) \/ DdnsFetched(r) \/ ForceFound(r)
           \/ ForceLooked(r) \/ ForcePut(r) \/ GenerateFound(r)
           \/ ReportShown(r) \/ ReportsPaged(r) \/ ReportsListed(r)
           \/ ReportFound(r) \/ Abort(r)
    PROVE  UNCHANGED tables
BY DEF DeviceListed, DevicePut, DeviceDeleteFound, DeviceKvDeleted,
       DeviceStatusFound, DeviceStatusRead, ProvidersListed, DdnsReadFound,
       DdnsUpdateFound, DdnsLooked, DdnsFetched, ForceFound, ForceLooked,
       ForcePut, GenerateFound, ReportShown, ReportsPaged, ReportsListed,
       ReportFound, Abort, CheckOwner, Show

\* A report id is in no row before its INSERT.
Spent == \A x \in Report \ spent : reports[x] = NoReport

LEMMA SpentKept ==
    ASSUME IInv, Spent, [Next]_vars
    PROVE  Spent'
<1>1. CASE UNCHANGED tables
    BY <1>1 DEF Spent, tables
<1>2. ASSUME NEW r \in Request,
             DeviceInserted(r) \/ DdnsSet(r) \/ DdnsInserted(r)
      PROVE  Spent'
    BY <1>2 DEF Spent, DeviceInserted, DdnsSet, DdnsInserted
<1>3. ASSUME NEW r \in Request, DeviceRowDeleted(r)
      PROVE  Spent'
    BY <1>3 DEF Spent, DeviceRowDeleted
<1>4. ASSUME NEW r \in Request, ReportInserted(r)
      PROVE  Spent'
    BY <1>4 DEF Spent, ReportInserted, IInv, TypeOK
<1>5. ASSUME NEW r \in Request, ReportRowDeleted(r)
      PROVE  Spent'
    BY <1>5 DEF Spent, ReportRowDeleted, IInv, TypeOK
<1>6. CASE UNCHANGED vars
    BY <1>1, <1>6 DEF vars
<1>7. ASSUME NEW r \in Request, NEW u \in User, NEW op \in Op, Arrive(r, u, op)
      PROVE  Spent'
    BY <1>1, <1>7 DEF Arrive
<1>8. ASSUME NEW r \in Request, Handle(r) \/ Abort(r)
      PROVE  Spent'
    BY <1>1, <1>2, <1>3, <1>4, <1>5, <1>8, OthersWriteNothing DEF Handle
<1> QED
    BY <1>6, <1>7, <1>8 DEF Next

LEMMA InsertRegisters ==
    ASSUME IInv, NEW r \in Request, DeviceInserted(r)
    PROVE  Registry!Next
<1>1. PICK d \in Device \ used :
        row' = [row EXCEPT ![d] = UserOf(r)] /\ used' = used \cup {d}
    BY DEF DeviceInserted
<1>2. UserOf(r) \in User
    BY DEF DeviceInserted, At, IInv, OwnerKept, UserOf
<1>3. Registry!Register(UserOf(r), d)
    BY <1>1 DEF DeviceInserted, Registry!Register, ItemsOf
<1> QED
    BY <1>2, <1>3 DEF Registry!Next

LEMMA DeleteRemoves ==
    ASSUME IInv, NEW r \in Request, DeviceRowDeleted(r)
    PROVE  Registry!Next \/ UNCHANGED Registry!rvars
<1> DEFINE d == req[r].dev
<1>1. CASE ~Owned(r)
    BY <1>1, SameTables DEF DeviceRowDeleted
<1>2. CASE Owned(r)
    <2>1. /\ row' = [row EXCEPT ![d] = Nobody] /\ used' = used
          /\ ddns' = [ddns EXCEPT ![d] = << >>]
          /\ reports' = [x \in Report |->
                 IF reports[x] # NoReport /\ reports[x].dev = d
                 THEN NoReport ELSE reports[x]]
        BY <1>2 DEF DeviceRowDeleted
    <2>2. d \in Device /\ row[d] # Nobody
        BY <1>2, NobodyAssumption
        DEF DeviceRowDeleted, At, IInv, TypeOK, OwnerKept, Held, Owned, UserOf
    <2> HIDE DEF d
    <2>3. \A e \in Device : ItemsOf(e)' = IF e = d THEN {} ELSE ItemsOf(e)
        BY <2>1, <2>2 DEF ItemsOf, IInv, TypeOK
    <2>4. [e \in Device |-> ItemsOf(e)]' =
              [[e \in Device |-> ItemsOf(e)] EXCEPT ![d] = {}]
        BY <2>2, <2>3
    <2>5. Registry!Remove(d)
        BY <2>1, <2>2, <2>4 DEF Registry!Remove
    <2> QED
        BY <2>2, <2>5 DEF Registry!Next
<1> QED
    BY <1>1, <1>2

\* Writing the flag of the rows there are attaches nothing new.
LEMMA SetKeepsItems ==
    ASSUME IInv, NEW r \in Request, DdnsSet(r)
    PROVE  UNCHANGED Registry!rvars
<1> DEFINE d == req[r].dev
<1>1. /\ UNCHANGED <<row, used, reports>>
      /\ ddns' = [ddns EXCEPT ![d] = [i \in DOMAIN ddns[d] |-> req[r].flag]]
    BY DEF DdnsSet
<1>2. d \in Device /\ req[r].flag \in BOOLEAN /\ ddns[d] \in Seq(BOOLEAN)
    BY ReqFacts DEF DdnsSet, At, IInv, TypeOK, OwnerKept, Held
<1> DEFINE set == [i \in DOMAIN ddns[d] |-> req[r].flag]
<1>3. \A e \in Device : ddns'[e] = << >> <=> ddns[e] = << >>
    <2>1. set = << >> <=> ddns[d] = << >>
        BY <1>2, SetRows
    <2> HIDE DEF set, d
    <2>2. \A e \in Device : ddns'[e] = IF e = d THEN set ELSE ddns[e]
        BY <1>1, <1>2 DEF IInv, TypeOK, set, d
    <2> QED
        BY <2>1, <2>2
<1>4. \A e \in Device : ItemsOf(e)' = ItemsOf(e)
    BY <1>1, <1>3 DEF ItemsOf
<1> QED
    BY <1>1, <1>4 DEF Registry!rvars

LEMMA InsertAttaches ==
    ASSUME IInv, NEW r \in Request, DdnsInserted(r)
    PROVE  Registry!Next \/ UNCHANGED Registry!rvars
<1> DEFINE d == req[r].dev
<1>1. CASE row[d] = Nobody
    BY <1>1, SameTables DEF DdnsInserted
<1>2. CASE row[d] # Nobody
    <2>1. /\ UNCHANGED <<row, used, reports>>
          /\ ddns' = [ddns EXCEPT ![d] = Append(@, req[r].flag)]
        BY <1>2 DEF DdnsInserted
    <2>2. d \in Device /\ req[r].flag \in BOOLEAN /\ ddns[d] \in Seq(BOOLEAN)
        BY ReqFacts DEF DdnsInserted, At, IInv, TypeOK, OwnerKept, Held
    <2> HIDE DEF d
    <2>7. Append(ddns[d], req[r].flag) # << >>
        BY <2>2
    <2>3. /\ ddns'[d] # << >>
          /\ \A e \in Device : e # d => ddns'[e] = ddns[e]
        BY <2>1, <2>2, <2>7 DEF IInv, TypeOK
    <2>4. \A e \in Device :
              ItemsOf(e)' = IF e = d THEN ItemsOf(e) \cup {"ddns"} ELSE ItemsOf(e)
        BY <2>1, <2>3 DEF ItemsOf
    <2>5. [e \in Device |-> ItemsOf(e)]' =
              [[e \in Device |-> ItemsOf(e)] EXCEPT ![d] = @ \cup {"ddns"}]
        BY <2>2, <2>4
    <2>6. Registry!Attach(d, "ddns")
        BY <1>2, <2>1, <2>5 DEF Registry!Attach
    <2> QED
        BY <2>2, <2>6 DEF Registry!Next, Item
<1> QED
    BY <1>1, <1>2

LEMMA GenerateAttaches ==
    ASSUME IInv, Spent, NEW r \in Request, ReportInserted(r)
    PROVE  Registry!Next \/ UNCHANGED Registry!rvars
<1> DEFINE d == req[r].dev
<1>1. CASE row[d] = Nobody
    BY <1>1, SameTables DEF ReportInserted
<1>2. CASE row[d] # Nobody
    <2> DEFINE new == [dev |-> d, owner |-> UserOf(r)]
    <2>1. PICK x \in Report \ spent : reports' = [reports EXCEPT ![x] = new]
        BY <1>2 DEF ReportInserted
    <2>2. UNCHANGED <<row, used, ddns>>
        BY DEF ReportInserted
    <2>3. d \in Device /\ UserOf(r) \in User
        BY DEF ReportInserted, At, IInv, TypeOK, OwnerKept, Held, UserOf
    <2>4. new.dev = d /\ new # NoReport
        BY <2>3, NoReportAssumption
    <2>5. reports[x] = NoReport
        BY DEF Spent
    <2> HIDE DEF d, new
    <2>6. \A e \in Device :
              ItemsOf(e)' = IF e = d THEN ItemsOf(e) \cup {x} ELSE ItemsOf(e)
        BY <2>1, <2>2, <2>4, <2>5 DEF ItemsOf, IInv, TypeOK
    <2>7. [e \in Device |-> ItemsOf(e)]' =
              [[e \in Device |-> ItemsOf(e)] EXCEPT ![d] = @ \cup {x}]
        BY <2>3, <2>6
    <2>8. Registry!Attach(d, x)
        BY <1>2, <2>2, <2>7 DEF Registry!Attach, d
    <2> QED
        BY <2>3, <2>8 DEF Registry!Next, Item
<1> QED
    BY <1>1, <1>2

LEMMA DeleteDetaches ==
    ASSUME IInv, NEW r \in Request, ReportRowDeleted(r)
    PROVE  Registry!Next \/ UNCHANGED Registry!rvars
<1> DEFINE x == req[r].rep
<1>1. UNCHANGED <<row, used, ddns>>
    BY DEF ReportRowDeleted
<1>2. CASE ~OwnReport(r)
    BY <1>1, <1>2, SameTables DEF ReportRowDeleted
<1>3. CASE OwnReport(r)
    <2> DEFINE d == reports[x].dev
    <2>1. reports' = [reports EXCEPT ![x] = NoReport]
        BY <1>3 DEF ReportRowDeleted
    <2>2. x \in Report /\ reports[x] # NoReport /\ d \in Device
        BY <1>3 DEF ReportRowDeleted, At, IInv, TypeOK, OwnerKept, OwnReport, ReportRow
    <2> HIDE DEF x, d
    <2>3. x # "ddns"
        BY <2>2, ReportAssumption
    <2>4. \A e \in Device :
              ItemsOf(e)' = IF e = d THEN ItemsOf(e) \ {x} ELSE ItemsOf(e)
        BY <1>1, <2>1, <2>2, <2>3 DEF ItemsOf, IInv, TypeOK, d
    <2>5. [e \in Device |-> ItemsOf(e)]' =
              [[e \in Device |-> ItemsOf(e)] EXCEPT ![d] = @ \ {x}]
        BY <2>2, <2>4
    <2>6. Registry!Detach(d, x)
        BY <1>1, <2>5 DEF Registry!Detach
    <2> QED
        BY <2>2, <2>6 DEF Registry!Next, Item
<1> QED
    BY <1>2, <1>3

LEMMA StepRefines ==
    ASSUME IInv, Spent, [Next]_vars
    PROVE  [Registry!Next]_(Registry!rvars)
<1>1. CASE UNCHANGED tables
    BY <1>1, SameTables DEF tables
<1>2. CASE UNCHANGED vars
    BY <1>1, <1>2 DEF vars
<1>3. ASSUME NEW r \in Request, NEW u \in User, NEW op \in Op, Arrive(r, u, op)
      PROVE  UNCHANGED tables
    BY <1>3 DEF Arrive
<1>4. ASSUME NEW r \in Request, Handle(r) \/ Abort(r)
      PROVE  Registry!Next \/ UNCHANGED Registry!rvars
    BY <1>1, <1>4, OthersWriteNothing, InsertRegisters, DeleteRemoves,
       SetKeepsItems, InsertAttaches, GenerateAttaches, DeleteDetaches
    DEF Handle
<1> QED
    BY <1>1, <1>2, <1>3, <1>4 DEF Next

\* The handlers over the three tables implement the registry.
THEOREM StoreImplementsRegistry == Spec => RegistrySpec
<1>1. Init => Registry!Init
    BY DEF Init, Registry!Init, ItemsOf
<1>2. Init => Spent
    BY DEF Init, Spent
<1>3. IInv /\ Spent /\ [Next]_vars => Spent'
    BY SpentKept
<1>4. IInv /\ Spent /\ [Next]_vars => [Registry!Next]_(Registry!rvars)
    BY StepRefines
<1> QED
    BY <1>1, <1>2, <1>3, <1>4, Invariance, PTL DEF Spec, RegistrySpec, Registry!Spec
=============================================================================
