------------------------ MODULE SchemaSettingsProofs ------------------------
(***************************************************************************)
(* For any users, tokens and requests: a token refused and forgotten stays *)
(* refused (RefusedForGood), and an update of a document changes what it   *)
(* was sent and nothing no other update has changed (OnlyOvertakenLost).   *)
(*                                                                         *)
(* The second rests on InStep: between its read and its write, an update   *)
(* has in its copy what the document holds, except in the keys another     *)
(* update has changed since.                                               *)
(***************************************************************************)
EXTENDS SchemaSettings, TLAPS

\* A request served has a token, so clerkAuth has a user for it.
Sessions == \A r \in Request : ~At(r, "idle") => req[r].tok \in Token

\* A copy differs from its document only where another update overtook it.
InStep ==
    \A r \in Request : At(r, "docPut") =>
        \A k \in Key \ req[r].behind :
            req[r].snap[k] = doc[req[r].name][UserOf(r)][k]

IInv == TypeOK /\ Sessions /\ InStep

LEMMA IdleType == Idle \in ReqType /\ Idle.pc = "idle"
<1>1. << >> \in Patch
    <2>1. << >> \in [{} -> BOOLEAN]
        OBVIOUS
    <2> QED
        BY <2>1 DEF Patch, Key
<1>2. Default \in DocValue
    BY DEF Default, DocValue
<1> QED
    BY <1>1, <1>2 DEF Idle, ReqType, Pc, Doc, Status

LEMMA InitIInv == Init => IInv
<1> SUFFICES ASSUME Init PROVE IInv
    OBVIOUS
<1>1. \A r \in Request : req[r] = Idle
    BY DEF Init
<1>2. TypeOK
    <2>1. doc \in [Doc -> [User -> DocValue]]
        BY DEF Init, Default, DocValue
    <2>2. profile \in [Profile -> ProfileRow \cup {NoRow}]
        BY DEF Init, ProfileRow
    <2>3. req \in [Request -> ReqType]
        BY IdleType DEF Init
    <2> QED
        BY <2>1, <2>2, <2>3 DEF Init, TypeOK
<1>3. Sessions /\ InStep
    BY <1>1, IdleType DEF Sessions, InStep, At
<1> QED
    BY <1>2, <1>3 DEF IInv

-----------------------------------------------------------------------------
(* Requests that keep off the documents. *)

\* The request r goes on to a step that is not a write of a document.
Onward(r) ==
    \E x \in ReqType :
        /\ req' = [req EXCEPT ![r] = x]
        /\ x.pc # "docPut"
        /\ x.pc # "idle" => x.tok \in Token

LEMMA OnwardKeeps ==
    ASSUME IInv, NEW r \in Request, Onward(r), UNCHANGED doc
    PROVE  req' \in [Request -> ReqType] /\ Sessions' /\ InStep'
<1>1. PICK x \in ReqType : /\ req' = [req EXCEPT ![r] = x]
                           /\ x.pc # "docPut"
                           /\ x.pc # "idle" => x.tok \in Token
    BY DEF Onward
<1>2. req \in [Request -> ReqType]
    BY DEF IInv, TypeOK
<1>3. /\ req' \in [Request -> ReqType] /\ req'[r] = x
      /\ \A q \in Request \ {r} : req'[q] = req[q]
    BY <1>1, <1>2
<1>4. Sessions'
    BY <1>1, <1>3 DEF IInv, Sessions, At
<1>5. InStep'
    BY <1>1, <1>3 DEF IInv, InStep, At, UserOf
<1> QED
    BY <1>3, <1>4, <1>5

LEMMA DoneGoes ==
    ASSUME IInv, NEW r \in Request, Done(r)
    PROVE  Onward(r)
    BY IdleType DEF Done, Onward

LEMMA GotoGoes ==
    ASSUME IInv, NEW r \in Request, NEW pc \in Pc \ {"idle", "docPut"},
           ~At(r, "idle"), Goto(r, pc)
    PROVE  Onward(r)
<1> DEFINE x == [req[r] EXCEPT !.pc = pc]
<1>1. req[r] \in ReqType
    BY DEF IInv, TypeOK
<1>2. x \in ReqType /\ x.pc = pc /\ x.tok = req[r].tok
    BY <1>1 DEF ReqType
<1>3. req' = [req EXCEPT ![r] = x]
    BY DEF Goto
<1> HIDE DEF x
<1> QED
    BY <1>2, <1>3 DEF Onward, IInv, Sessions

-----------------------------------------------------------------------------
(* The actions. *)

LEMMA QuietStep ==
    ASSUME IInv, NEW r \in Request, Onward(r), UNCHANGED <<authVars, stores>>
    PROVE  IInv'
<1>1. UNCHANGED <<valid, cached, filling, deployed, doc, rules, usedRules, qos,
                  qosRules, profile>>
    BY DEF authVars, stores
<1>2. req' \in [Request -> ReqType] /\ Sessions' /\ InStep'
    BY <1>1, OnwardKeeps
<1> QED
    BY <1>1, <1>2 DEF IInv, TypeOK

\* Arrivals, authentication from the cache or refused, and the ends.
LEMMA ControlStep ==
    ASSUME IInv, NEW r \in Request, NEW t \in Token,
           \/ Arrive(r, t) \/ AuthCached(r) \/ AuthRefused(r)
           \/ Throws(r) \/ Abort(r)
    PROVE  IInv'
<1>1. UNCHANGED <<authVars, stores>>
    BY DEF Arrive, AuthCached, AuthRefused, Throws, Abort, Keep
<1>2. CASE Done(r)
    BY <1>1, <1>2, DoneGoes, QuietStep
<1>3. CASE AuthCached(r)
    <2>1. Onward(r)
        BY <1>3, GotoGoes DEF AuthCached, At, Pc
    <2> QED
        BY <1>1, <2>1, QuietStep
<1>4. CASE Arrive(r, t)
    <2> DEFINE x == [Idle EXCEPT !.pc = "auth", !.tok = t]
    <2>1. x \in ReqType /\ x.pc = "auth" /\ x.tok = t
        BY IdleType DEF ReqType, Pc
    <2>2. req' = [req EXCEPT ![r] = x]
        BY <1>4 DEF Arrive
    <2> HIDE DEF x
    <2>3. Onward(r)
        BY <2>1, <2>2 DEF Onward
    <2> QED
        BY <1>1, <2>3, QuietStep
<1> QED
    BY <1>2, <1>3, <1>4 DEF AuthRefused, Throws, Abort

LEMMA AuthVerifiedStep ==
    ASSUME IInv, NEW r \in Request, AuthVerified(r)
    PROVE  IInv'
<1>1. /\ req[r].tok \in Token /\ filling' = filling \cup {req[r].tok}
      /\ UNCHANGED <<valid, cached, deployed, doc, rules, usedRules, qos,
                     qosRules, profile>>
    BY DEF AuthVerified, IInv, TypeOK, stores
<1>2. Onward(r)
    BY GotoGoes DEF AuthVerified, At, Pc
<1>3. req' \in [Request -> ReqType] /\ Sessions' /\ InStep'
    BY <1>1, <1>2, OnwardKeeps
<1> QED
    BY <1>1, <1>3 DEF IInv, TypeOK

LEMMA CacheStep ==
    ASSUME IInv, NEW t \in Token, FillLands(t) \/ CacheExpires(t) \/ TokenEnds(t)
    PROVE  IInv'
<1>1. UNCHANGED <<deployed, doc, rules, usedRules, qos, qosRules, profile, req>>
    BY DEF FillLands, CacheExpires, TokenEnds, stores
<1>2. /\ valid' \subseteq Token /\ cached' \subseteq Token
      /\ filling' \subseteq Token
    BY DEF FillLands, CacheExpires, TokenEnds, IInv, TypeOK
<1>3. Sessions' /\ InStep'
    BY <1>1 DEF IInv, Sessions, InStep, At, UserOf
<1> QED
    BY <1>1, <1>2, <1>3 DEF IInv, TypeOK

\* An update of a document begins with a copy of it.
LEMMA ReadsStep ==
    ASSUME IInv, NEW r \in Request, NEW n \in Doc, NEW p \in Patch,
           Reads(r, n, p)
    PROVE  IInv'
<1> DEFINE x == [req[r] EXCEPT !.pc = "docPut", !.name = n, !.patch = p,
                     !.snap = doc[n][UserOf(r)]]
<1>1. /\ req \in [Request -> ReqType] /\ At(r, "start")
      /\ req[r].tok \in Token /\ UserOf(r) \in User
      /\ doc \in [Doc -> [User -> DocValue]]
    BY SubAssumption DEF Reads, IInv, TypeOK, Sessions, At, UserOf
<1>2. UNCHANGED <<valid, cached, filling, deployed, doc, rules, usedRules, qos,
                  qosRules, profile>>
    BY DEF Reads, Keep, authVars, stores
<1>3. req' = [req EXCEPT ![r] = x]
    BY <1>1 DEF Reads
<1>4. /\ x \in ReqType /\ x.pc = "docPut" /\ x.name = n
      /\ x.tok = req[r].tok /\ x.snap = doc[n][UserOf(r)]
    BY <1>1 DEF ReqType, Pc
<1> HIDE DEF x
<1>5. req' \in [Request -> ReqType]
      /\ \A q \in Request : req'[q] = IF q = r THEN x ELSE req[q]
    BY <1>1, <1>3, <1>4
<1>6. Sessions'
    BY <1>1, <1>4, <1>5 DEF IInv, Sessions, At
<1>7. InStep'
    BY <1>2, <1>4, <1>5 DEF IInv, InStep, At, UserOf
<1> QED
    BY <1>2, <1>5, <1>6, <1>7 DEF IInv, TypeOK

LEMMA MergedType ==
    ASSUME NEW p \in Patch, NEW d \in DocValue
    PROVE  /\ Merged(p, d) \in DocValue
           /\ \A k \in Key : Merged(p, d)[k] =
                  IF k \in DOMAIN p THEN p[k] ELSE d[k]
    BY DEF Merged, Patch, DocValue

\* What the write of a document does to the requests: its own is over, and
\* the others go on, at most further behind.
LEMMA WritesFacts ==
    ASSUME req \in [Request -> ReqType], doc \in [Doc -> [User -> DocValue]],
           NEW r \in Request, req[r].name \in Doc, UserOf(r) \in User,
           NEW document \in DocValue, Writes(r, document)
    PROVE  LET n == req[r].name
               u == UserOf(r)
               changed == {k \in Key : document[k] # doc[n][u][k]} IN
           /\ doc' \in [Doc -> [User -> DocValue]]
           /\ \A m \in Doc, w \in User :
                 doc'[m][w] = IF m = n /\ w = u THEN document ELSE doc[m][w]
           /\ req' \in [Request -> ReqType] /\ req'[r] = Idle
           /\ \A q \in Request \ {r} :
                 /\ req'[q].pc = req[q].pc /\ req'[q].tok = req[q].tok
                 /\ req'[q].name = req[q].name /\ req'[q].snap = req[q].snap
                 /\ req[q].behind \subseteq req'[q].behind
                 /\ At(q, "docPut") /\ req[q].name = n /\ UserOf(q) = u =>
                       changed \subseteq req'[q].behind
<1> DEFINE n == req[r].name
           u == UserOf(r)
           changed == {k \in Key : document[k] # doc[n][u][k]}
           overtaken(q) == At(q, "docPut") /\ req[q].name = n /\ UserOf(q) = u
<1>1. /\ doc' = [doc EXCEPT ![n][u] = document]
      /\ req' = [q \in Request |->
             IF q = r THEN Idle
             ELSE IF overtaken(q)
             THEN [req[q] EXCEPT !.behind = @ \cup changed] ELSE req[q]]
    BY DEF Writes
<1>2. changed \in SUBSET Key
    OBVIOUS
<1> HIDE DEF n, u, changed, overtaken
<1>3. /\ doc' \in [Doc -> [User -> DocValue]]
      /\ \A m \in Doc, w \in User :
            doc'[m][w] = IF m = n /\ w = u THEN document ELSE doc[m][w]
    BY <1>1 DEF n, u
<1>4. ASSUME NEW q \in Request \ {r}
      PROVE  /\ req'[q] \in ReqType
             /\ req'[q].pc = req[q].pc /\ req'[q].tok = req[q].tok
             /\ req'[q].name = req[q].name /\ req'[q].snap = req[q].snap
             /\ req[q].behind \subseteq req'[q].behind
             /\ overtaken(q) => changed \subseteq req'[q].behind
    <2>1. req[q] \in ReqType
        OBVIOUS
    <2>2. CASE overtaken(q)
        <3>1. req'[q] = [req[q] EXCEPT !.behind = @ \cup changed]
            BY <1>1, <2>2
        <3> QED
            BY <1>2, <2>1, <3>1 DEF ReqType
    <2>3. CASE ~overtaken(q)
        <3>1. req'[q] = req[q]
            BY <1>1, <2>3
        <3> QED
            BY <2>1, <2>3, <3>1
    <2> QED
        BY <2>2, <2>3
<1>5. req'[r] = Idle
    BY <1>1
<1>6. req' \in [Request -> ReqType]
    <2>1. req' = [q \in Request |-> req'[q]]
        BY <1>1
    <2> QED
        BY <1>4, <1>5, <2>1, IdleType
<1> QED
    BY <1>3, <1>4, <1>5, <1>6 DEF n, u, changed, overtaken

LEMMA DocPutStep ==
    ASSUME IInv, NEW r \in Request, DocPut(r)
    PROVE  IInv'
<1> DEFINE n == req[r].name
           u == UserOf(r)
           v == Merged(req[r].patch, req[r].snap)
<1>1. /\ req \in [Request -> ReqType] /\ req[r] \in ReqType
      /\ doc \in [Doc -> [User -> DocValue]]
    BY DEF IInv, TypeOK
<1>2. n \in Doc /\ u \in User /\ v \in DocValue
    BY <1>1, SubAssumption, MergedType
    DEF ReqType, DocPut, IInv, Sessions, At, UserOf
<1>3. UNCHANGED <<valid, cached, filling, deployed, rules, usedRules, qos,
                  qosRules, profile>>
    BY DEF DocPut, Writes, authVars
<1>4. Writes(r, v)
    BY DEF DocPut
<1> DEFINE changed == {k \in Key : v[k] # doc[n][u][k]}
<1>5. /\ doc' \in [Doc -> [User -> DocValue]]
      /\ \A m \in Doc, w \in User :
            doc'[m][w] = IF m = n /\ w = u THEN v ELSE doc[m][w]
      /\ req' \in [Request -> ReqType] /\ req'[r] = Idle
      /\ \A q \in Request \ {r} :
            /\ req'[q].pc = req[q].pc /\ req'[q].tok = req[q].tok
            /\ req'[q].name = req[q].name /\ req'[q].snap = req[q].snap
            /\ req[q].behind \subseteq req'[q].behind
            /\ At(q, "docPut") /\ req[q].name = n /\ UserOf(q) = u =>
                  changed \subseteq req'[q].behind
    <2> HIDE DEF v
    <2> QED
        BY <1>1, <1>2, <1>4, WritesFacts
<1> HIDE DEF n, u, v
<1>6. Sessions'
    BY <1>5, IdleType DEF IInv, Sessions, At
<1>7. InStep'
    <2> SUFFICES ASSUME NEW a \in Request, At(a, "docPut")',
                        NEW k \in Key \ req'[a].behind
                 PROVE  req'[a].snap[k] = doc'[req'[a].name][UserOf(a)'][k]
        BY DEF InStep
    <2>1. a # r
        BY <1>5, IdleType DEF At
    <2>2. /\ At(a, "docPut") /\ UserOf(a)' = UserOf(a)
          /\ k \notin req[a].behind
          /\ req'[a].snap = req[a].snap /\ req'[a].name = req[a].name
        BY <1>5, <2>1 DEF At, UserOf
    <2>3. req[a].snap[k] = doc[req[a].name][UserOf(a)][k]
        BY <2>2 DEF IInv, InStep
    <2>4. req[a].name \in Doc /\ UserOf(a) \in User
        BY <1>1, <2>2, SubAssumption DEF ReqType, IInv, Sessions, At, UserOf
    <2>5. CASE req[a].name = n /\ UserOf(a) = u
        <3>1. k \notin changed
            BY <1>5, <2>1, <2>2, <2>5
        <3> QED
            BY <1>5, <2>2, <2>3, <2>4, <2>5, <3>1
    <2>6. CASE ~(req[a].name = n /\ UserOf(a) = u)
        BY <1>5, <2>2, <2>3, <2>4, <2>6
    <2> QED
        BY <2>5, <2>6
<1> QED
    BY <1>3, <1>5, <1>6, <1>7 DEF IInv, TypeOK

\* The reads, and the endpoints that answer without a write.
LEMMA ReadStep ==
    ASSUME IInv, NEW r \in Request,
           \/ IpsConfigRead(r) \/ IpsCategoryList(r) \/ IpsRuleList(r)
           \/ IpsAlertList(r) \/ IpsRuleSelected(r) \/ QosConfigSelected(r)
           \/ QosConfigRead(r) \/ QosRuleList(r) \/ ProfileList(r) \/ Mocked(r)
    PROVE  IInv'
<1>1. Done(r) /\ UNCHANGED <<authVars, stores>>
    BY DEF IpsConfigRead, IpsCategoryList, IpsRuleList, IpsAlertList,
           IpsRuleSelected, QosConfigSelected, QosConfigRead, QosRuleList,
           ProfileList, Mocked, Keep
<1> QED
    BY <1>1, DoneGoes, QuietStep

\* A request that found a row and goes on to change it.
LEMMA FoundStep ==
    ASSUME IInv, NEW r \in Request, IpsRuleDelete(r) \/ Connect(r) \/ Disconnect(r)
    PROVE  IInv'
<1>1. UNCHANGED <<authVars, stores>>
    BY DEF IpsRuleDelete, Connect, Disconnect, VpnFound, Keep
<1>2. req[r] \in ReqType /\ req[r].tok \in Token /\ usedRules \subseteq Rule
    BY DEF IInv, TypeOK, Sessions, IpsRuleDelete, Connect, Disconnect,
           VpnFound, At
<1>3. CASE Done(r)
    BY <1>1, <1>3, DoneGoes, QuietStep
<1>4. CASE \E k \in Rule :
               req' = [req EXCEPT ![r].pc = "ruleDelete", ![r].rule = k]
    <2>1. PICK k \in Rule :
              req' = [req EXCEPT ![r] =
                         [req[r] EXCEPT !.pc = "ruleDelete", !.rule = k]]
        BY <1>4
    <2>2. /\ [req[r] EXCEPT !.pc = "ruleDelete", !.rule = k] \in ReqType
          /\ [req[r] EXCEPT !.pc = "ruleDelete", !.rule = k].pc = "ruleDelete"
          /\ [req[r] EXCEPT !.pc = "ruleDelete", !.rule = k].tok = req[r].tok
        BY <1>2 DEF ReqType, Pc
    <2>3. Onward(r)
        BY <1>2, <2>1, <2>2 DEF Onward
    <2> QED
        BY <1>1, <2>3, QuietStep
<1>5. CASE \E p \in Profile, to \in Status :
               req' = [req EXCEPT ![r].pc = "vpnUpdate", ![r].prof = p,
                                  ![r].to = to]
    <2>1. PICK p \in Profile, to \in Status :
              req' = [req EXCEPT ![r].pc = "vpnUpdate", ![r].prof = p,
                                 ![r].to = to]
        BY <1>5
    <2> DEFINE x == [req[r] EXCEPT !.pc = "vpnUpdate", !.prof = p, !.to = to]
    <2>2. x \in ReqType /\ x.pc = "vpnUpdate" /\ x.tok = req[r].tok
        BY <1>2 DEF ReqType, Pc
    <2> HIDE DEF x
    <2>3. req' = [req EXCEPT ![r] = x]
        BY <2>1 DEF IInv, TypeOK, x
    <2>4. Onward(r)
        BY <1>2, <2>2, <2>3 DEF Onward
    <2> QED
        BY <1>1, <2>4, QuietStep
<1>6. "connecting" \in Status /\ "disconnected" \in Status
    BY DEF Status
<1> QED
    BY <1>2, <1>3, <1>4, <1>5, <1>6
    DEF IpsRuleDelete, Connect, Disconnect, VpnFound

LEMMA RuleStep ==
    ASSUME IInv, NEW r \in Request, IpsRuleCreate(r) \/ IpsRuleDeleted(r)
    PROVE  IInv'
<1>1. /\ req[r] \in ReqType /\ req[r].tok \in Token /\ UserOf(r) \in User
      /\ rules \in [Rule -> User \cup {Nobody}] /\ usedRules \subseteq Rule
    BY SubAssumption DEF IInv, TypeOK, Sessions, UserOf, IpsRuleCreate,
       IpsRuleDeleted, At
<1>2. UNCHANGED <<valid, cached, filling, deployed, doc, qos, qosRules, profile>>
    BY DEF IpsRuleCreate, IpsRuleDeleted, authVars
<1>3. CASE IpsRuleCreate(r)
    <2>1. PICK k \in Rule :
              /\ rules' = [rules EXCEPT ![k] = UserOf(r)]
              /\ usedRules' = usedRules \cup {k}
              /\ req' = [req EXCEPT ![r] =
                            [req[r] EXCEPT !.pc = "ruleSelect", !.rule = k]]
        BY <1>3 DEF IpsRuleCreate
    <2> DEFINE x == [req[r] EXCEPT !.pc = "ruleSelect", !.rule = k]
    <2>2. x \in ReqType /\ x.pc = "ruleSelect" /\ x.tok = req[r].tok
        BY <1>1 DEF ReqType, Pc
    <2> HIDE DEF x
    <2>3. req' = [req EXCEPT ![r] = x]
        BY <2>1 DEF x
    <2>4. Onward(r)
        BY <1>1, <2>2, <2>3 DEF Onward
    <2>5. rules' \in [Rule -> User \cup {Nobody}] /\ usedRules' \subseteq Rule
        BY <1>1, <2>1
    <2>6. req' \in [Request -> ReqType] /\ Sessions' /\ InStep'
        BY <1>2, <2>4, OnwardKeeps
    <2> QED
        BY <1>2, <2>5, <2>6 DEF IInv, TypeOK
<1>4. CASE IpsRuleDeleted(r)
    <2>1. rules' \in [Rule -> User \cup {Nobody}] /\ usedRules' = usedRules
        BY <1>1, <1>4 DEF IpsRuleDeleted
    <2>2. req' \in [Request -> ReqType] /\ Sessions' /\ InStep'
        BY <1>2, <1>4, DoneGoes, OnwardKeeps DEF IpsRuleDeleted
    <2> QED
        BY <1>1, <1>2, <2>1, <2>2 DEF IInv, TypeOK
<1> QED
    BY <1>3, <1>4

LEMMA QosStep ==
    ASSUME IInv, NEW r \in Request,
           \/ QosConfigUpdate(r) \/ QosRuleCreate(r) \/ QosRuleUpdate(r)
           \/ QosRuleDelete(r)
    PROVE  IInv'
<1>1. UNCHANGED <<valid, cached, filling, deployed, doc, rules, usedRules,
                  profile>>
    BY DEF QosConfigUpdate, QosRuleCreate, QosRuleUpdate, QosRuleDelete,
           QosTable, authVars
<1>2. qos' \in {NoRow, "fq_codel", "cake"}
    BY DEF QosConfigUpdate, QosRuleCreate, QosRuleUpdate, QosRuleDelete,
           QosTable, IInv, TypeOK
<1>3. qosRules' \subseteq QosRule
    BY DEF QosConfigUpdate, QosRuleCreate, QosRuleUpdate, QosRuleDelete,
           QosTable, IInv, TypeOK
<1>4. Onward(r)
    <2>1. CASE Done(r)
        BY <2>1, DoneGoes
    <2>2. CASE ~Done(r)
        <3>1. Goto(r, "qosSelect") /\ ~At(r, "idle")
            BY <2>2 DEF QosConfigUpdate, QosRuleCreate, QosRuleUpdate,
               QosRuleDelete, QosTable, At
        <3> QED
            BY <3>1, GotoGoes DEF Pc
    <2> QED
        BY <2>1, <2>2
<1>5. req' \in [Request -> ReqType] /\ Sessions' /\ InStep'
    BY <1>1, <1>4, OnwardKeeps
<1> QED
    BY <1>1, <1>2, <1>3, <1>5 DEF IInv, TypeOK

LEMMA ProfileStep ==
    ASSUME IInv, NEW r \in Request,
           \/ ProfileCreate(r) \/ ProfileUpdate(r) \/ ProfileDelete(r)
           \/ VpnUpdated(r)
    PROVE  IInv'
<1>1. /\ profile \in [Profile -> ProfileRow \cup {NoRow}]
      /\ req[r] \in ReqType
    BY DEF IInv, TypeOK
<1>2. UNCHANGED <<valid, cached, filling, deployed, doc, rules, usedRules, qos,
                  qosRules>> /\ Done(r)
    BY DEF ProfileCreate, ProfileUpdate, ProfileDelete, VpnUpdated,
           ProfileTable, authVars
<1>3. profile' \in [Profile -> ProfileRow \cup {NoRow}]
    <2>1. CASE ProfileCreate(r)
        <3>1. PICK p \in Profile, s \in Status :
                  profile' = [profile EXCEPT ![p] =
                                  [owner |-> Nobody, status |-> s]]
            BY <2>1 DEF ProfileCreate, ProfileTable
        <3>2. [owner |-> Nobody, status |-> s] \in ProfileRow
            BY DEF ProfileRow
        <3> QED
            BY <1>1, <3>1, <3>2
    <2>2. CASE ProfileUpdate(r) \/ ProfileDelete(r)
        BY <1>1, <2>2 DEF ProfileUpdate, ProfileDelete, ProfileTable
    <2>3. CASE VpnUpdated(r)
        <3> DEFINE p == req[r].prof
        <3>1. \/ profile' = profile
              \/ /\ profile[p] # NoRow
                 /\ profile' = [profile EXCEPT ![p] =
                                    [profile[p] EXCEPT !.status = req[r].to]]
            BY <2>3 DEF VpnUpdated, ProfileTable
        <3>2. req[r].to \in Status
            BY <1>1 DEF ReqType
        <3> HIDE DEF p
        <3>3. p \in Profile /\ profile[p] # NoRow =>
                  [profile[p] EXCEPT !.status = req[r].to] \in ProfileRow
            BY <1>1, <3>2 DEF ProfileRow
        <3> QED
            BY <1>1, <3>1, <3>3
    <2> QED
        BY <2>1, <2>2, <2>3
<1>4. req' \in [Request -> ReqType] /\ Sessions' /\ InStep'
    BY <1>2, DoneGoes, OnwardKeeps
<1> QED
    BY <1>2, <1>3, <1>4 DEF IInv, TypeOK

LEMMA UpdateStep ==
    ASSUME IInv, NEW r \in Request, IpsConfigUpdate(r) \/ IpsCategoryUpdate(r)
    PROVE  IInv'
<1>1. CASE \E n \in Doc, p \in Patch : Reads(r, n, p)
    BY <1>1, ReadsStep
<1>2. CASE Done(r) /\ Keep
    BY <1>2, DoneGoes, QuietStep DEF Keep
<1>3. ASSUME NEW k \in Key, NEW v \in BOOLEAN
      PROVE  [x \in {k} |-> v] \in Patch
    <2>1. {k} \in SUBSET Key /\ [x \in {k} |-> v] \in [{k} -> BOOLEAN]
        OBVIOUS
    <2> QED
        BY <2>1 DEF Patch
<1>4. "ips_config" \in Doc /\ "ips_categories" \in Doc
    BY DEF Doc
<1> QED
    BY <1>1, <1>2, <1>3, <1>4 DEF IpsConfigUpdate, IpsCategoryUpdate

LEMMA NextIInv == IInv /\ [Next]_vars => IInv'
<1> SUFFICES ASSUME IInv, [Next]_vars PROVE IInv'
    OBVIOUS
<1>1. CASE UNCHANGED vars
    <2>1. UNCHANGED <<valid, cached, filling, deployed, doc, rules, usedRules,
                      qos, qosRules, profile, req>>
        BY <1>1 DEF vars, authVars, stores
    <2> QED
        BY <2>1 DEF IInv, TypeOK, Sessions, InStep, At, UserOf
<1>2. ASSUME NEW t \in Token, FillLands(t) \/ CacheExpires(t) \/ TokenEnds(t)
      PROVE  IInv'
    BY <1>2, CacheStep
<1>3. ASSUME NEW r \in Request, NEW t \in Token,
             \/ Arrive(r, t) \/ AuthCached(r) \/ AuthRefused(r)
             \/ Throws(r) \/ Abort(r)
      PROVE  IInv'
    BY <1>3, ControlStep
<1>4. ASSUME NEW r \in Request, AuthRefused(r) \/ AuthCached(r) \/ Throws(r)
                                \/ Abort(r)
      PROVE  IInv'
    <2>1. CASE Token # {}
        <3>1. PICK t \in Token : TRUE
            BY <2>1
        <3> QED
            BY <1>4, <3>1, ControlStep
    <2>2. CASE Token = {}
        BY <1>4, <2>2 DEF IInv, Sessions, AuthRefused, AuthCached, Throws,
           Abort, At
    <2> QED
        BY <2>1, <2>2
<1>5. ASSUME NEW r \in Request, Ips(r) PROVE IInv'
    BY <1>5, ReadStep, UpdateStep, DocPutStep, RuleStep, FoundStep DEF Ips
<1>6. ASSUME NEW r \in Request, Qos(r) PROVE IInv'
    BY <1>6, ReadStep, QosStep DEF Qos
<1>7. ASSUME NEW r \in Request, VpnClient(r) PROVE IInv'
    BY <1>7, ReadStep, FoundStep, ProfileStep DEF VpnClient
<1>8. ASSUME NEW r \in Request, AuthVerified(r) \/ Mocked(r) PROVE IInv'
    BY <1>8, AuthVerifiedStep, ReadStep
<1> QED
    BY <1>1, <1>2, <1>3, <1>4, <1>5, <1>6, <1>7, <1>8 DEF Next

THEOREM Invariance == Spec => []IInv
    BY InitIInv, NextIInv, PTL DEF Spec

\* Type correctness of the stores, the tables, the cache and the requests.
THEOREM TypeCorrect == Spec => []TypeOK
<1>1. IInv => TypeOK
    BY DEF IInv
<1> QED
    BY <1>1, Invariance, PTL

-----------------------------------------------------------------------------
(* What a handler leaves alone. *)

\* A handler past authentication: the tokens stay, no other request moves, and
\* only the second half of an update changes a document.
Handles(r) ==
    /\ req[r].pc \notin {"idle", "auth"}
    /\ \A q \in Request \ {r} : req'[q].pc = req[q].pc
    /\ UNCHANGED authVars
    /\ DocPut(r) \/ UNCHANGED doc

LEMMA DoneStands ==
    ASSUME req \in [Request -> ReqType], NEW r \in Request, Done(r)
    PROVE  /\ \A q \in Request \ {r} : req'[q] = req[q]
           /\ req'[r].pc = "idle"
    BY IdleType DEF Done

LEMMA ReadsHandles ==
    ASSUME req \in [Request -> ReqType], NEW r \in Request,
           IpsConfigUpdate(r) \/ IpsCategoryUpdate(r)
    PROVE  Handles(r)
<1>1. CASE Done(r)
    BY <1>1, DoneStands
    DEF Handles, IpsConfigUpdate, IpsCategoryUpdate, Reads, Keep, At, stores
<1>2. ASSUME NEW n, NEW p, Reads(r, n, p) PROVE Handles(r)
    <2>1. \A q \in Request \ {r} : req'[q] = req[q]
        BY <1>2 DEF Reads
    <2> QED
        BY <1>2, <2>1 DEF Handles, Reads, Keep, At, stores
<1> QED
    BY <1>1, <1>2 DEF IpsConfigUpdate, IpsCategoryUpdate

LEMMA DocPutHandles ==
    ASSUME req \in [Request -> ReqType], NEW r \in Request, DocPut(r)
    PROVE  Handles(r)
<1>1. ASSUME NEW q \in Request \ {r} PROVE req'[q].pc = req[q].pc
    <2>1. \/ req'[q] = req[q]
          \/ \E c : req'[q] = [req[q] EXCEPT !.behind = @ \cup c]
        BY DEF DocPut, Writes
    <2>2. req[q] \in ReqType
        OBVIOUS
    <2> QED
        BY <2>1, <2>2 DEF ReqType
<1>2. req[r].pc = "docPut" /\ UNCHANGED authVars
    BY DEF DocPut, Writes, At
<1> QED
    BY <1>1, <1>2 DEF Handles

LEMMA IpsHandles ==
    ASSUME req \in [Request -> ReqType], NEW r \in Request, Ips(r)
    PROVE  Handles(r)
<1>1. CASE \/ IpsConfigRead(r) \/ IpsCategoryList(r)
           \/ IpsRuleList(r) \/ IpsAlertList(r) \/ IpsRuleSelected(r)
           \/ IpsRuleDeleted(r)
    <2>1. Done(r)
        BY <1>1 DEF IpsConfigRead, IpsCategoryList, IpsRuleList,
           IpsAlertList, IpsRuleSelected, IpsRuleDeleted
    <2>2. UNCHANGED <<authVars, doc>>
        BY <1>1 DEF IpsConfigRead, IpsCategoryList, IpsRuleList,
           IpsAlertList, IpsRuleSelected, IpsRuleDeleted, Keep, stores
    <2>3. req[r].pc \notin {"idle", "auth"}
        BY <1>1 DEF IpsConfigRead, IpsCategoryList, IpsRuleList,
           IpsAlertList, IpsRuleSelected, IpsRuleDeleted, At
    <2> QED
        BY <2>1, <2>2, <2>3, DoneStands DEF Handles
<1>2. CASE IpsRuleCreate(r)
    <2>1. \A q \in Request \ {r} : req'[q] = req[q]
        BY <1>2 DEF IpsRuleCreate
    <2> QED
        BY <1>2, <2>1 DEF IpsRuleCreate, Handles, At
<1>3. CASE IpsRuleDelete(r)
    <2>1. \A q \in Request \ {r} : req'[q] = req[q]
        BY <1>3, DoneStands DEF IpsRuleDelete
    <2> QED
        BY <1>3, <2>1 DEF IpsRuleDelete, Handles, Keep, stores, At
<1> QED
    BY <1>1, <1>2, <1>3, ReadsHandles, DocPutHandles DEF Ips

LEMMA QosHandles ==
    ASSUME req \in [Request -> ReqType], NEW r \in Request, Qos(r)
    PROVE  Handles(r)
<1>1. \A q \in Request \ {r} : req'[q] = req[q]
    <2>1. Done(r) \/ Goto(r, "qosSelect")
        BY DEF Qos, QosConfigRead, QosConfigUpdate, QosConfigSelected,
           QosRuleList, QosRuleCreate, QosRuleUpdate, QosRuleDelete, QosTable
    <2> QED
        BY <2>1, DoneStands DEF Goto
<1>2. UNCHANGED <<authVars, doc>> /\ req[r].pc \notin {"idle", "auth"}
    BY DEF Qos, QosConfigRead, QosConfigUpdate, QosConfigSelected, At,
       QosRuleList, QosRuleCreate, QosRuleUpdate, QosRuleDelete, QosTable,
       Keep, stores
<1> QED
    BY <1>1, <1>2 DEF Handles

LEMMA VpnClientHandles ==
    ASSUME req \in [Request -> ReqType], NEW r \in Request, VpnClient(r)
    PROVE  Handles(r)
<1>1. UNCHANGED <<authVars, doc>> /\ req[r].pc \notin {"idle", "auth"}
    BY DEF VpnClient, ProfileList, ProfileCreate, ProfileUpdate, ProfileDelete,
       Connect, Disconnect, VpnFound, VpnUpdated, ProfileTable, Keep, stores,
       At
<1>2. CASE Done(r)
    BY <1>1, <1>2, DoneStands DEF Handles
<1>3. CASE Connect(r) \/ Disconnect(r)
    <2>1. \A q \in Request \ {r} : req'[q] = req[q]
        BY <1>3, DoneStands DEF Connect, Disconnect, VpnFound
    <2> QED
        BY <1>1, <2>1 DEF Handles
<1> QED
    BY <1>2, <1>3 DEF VpnClient, ProfileList, ProfileCreate, ProfileUpdate,
       ProfileDelete, VpnUpdated, ProfileTable

LEMMA EndHandles ==
    ASSUME req \in [Request -> ReqType], NEW r \in Request, Throws(r) \/ Abort(r)
    PROVE  Handles(r)
    BY DoneStands DEF Handles, Throws, Abort, Keep, stores, At

\* Every step is of a handler, of clerkAuth for one request, of an endpoint
\* that keeps nothing, or of the cache and Clerk.
LEMMA StepKinds ==
    ASSUME IInv, Next
    PROVE  \/ \E r \in Request : Handles(r)
           \/ \E r \in Request :
                 \/ \E t \in Token : Arrive(r, t)
                 \/ AuthCached(r) \/ AuthVerified(r) \/ AuthRefused(r)
                 \/ Mocked(r)
           \/ \E t \in Token : FillLands(t) \/ CacheExpires(t) \/ TokenEnds(t)
<1>1. req \in [Request -> ReqType]
    BY DEF IInv, TypeOK
<1>2. ASSUME NEW r \in Request,
             Ips(r) \/ Qos(r) \/ VpnClient(r) \/ Throws(r) \/ Abort(r)
      PROVE  Handles(r)
    BY <1>1, <1>2, IpsHandles, QosHandles, VpnClientHandles, EndHandles
<1> QED
    BY <1>2 DEF Next

-----------------------------------------------------------------------------
(* Refused for good. *)

ShutOut(t) == t \notin valid \cup cached \cup filling

\* What RefusedForGood asks of a step.
StaysRefused(t) ==
    /\ ShutOut(t)'
    /\ \A r \in Request : req[r].pc = "auth" /\ req[r].tok = t =>
          req'[r].pc \in {"auth", "idle"}

LEMMA AuthStep ==
    ASSUME IInv, NEW r \in Request, NEW t \in Token, ShutOut(t),
           \/ \E x \in Token : Arrive(r, x)
           \/ AuthCached(r) \/ AuthVerified(r) \/ AuthRefused(r) \/ Mocked(r)
    PROVE  StaysRefused(t)
<1>1. req \in [Request -> ReqType]
    BY DEF IInv, TypeOK
<1>2. CASE Done(r) /\ UNCHANGED authVars
    BY <1>1, <1>2, DoneStands DEF StaysRefused, ShutOut, authVars
<1>3. CASE AuthCached(r)
    <2>1. req[r].tok # t /\ UNCHANGED authVars
        BY <1>3 DEF AuthCached, ShutOut, Keep
    <2>2. \A q \in Request \ {r} : req'[q] = req[q]
        BY <1>1, <1>3 DEF AuthCached, Goto
    <2> QED
        BY <2>1, <2>2 DEF StaysRefused, ShutOut, authVars
<1>4. CASE AuthVerified(r)
    <2>1. /\ req[r].tok # t
          /\ filling' = filling \cup {req[r].tok} /\ UNCHANGED <<valid, cached>>
        BY <1>4 DEF AuthVerified, ShutOut
    <2>2. \A q \in Request \ {r} : req'[q] = req[q]
        BY <1>1, <1>4 DEF AuthVerified, Goto
    <2> QED
        BY <2>1, <2>2 DEF StaysRefused, ShutOut
<1>5. ASSUME NEW x \in Token, Arrive(r, x) PROVE StaysRefused(t)
    <2>1. /\ \A q \in Request \ {r} : req'[q] = req[q]
          /\ req[r].pc = "idle" /\ UNCHANGED authVars
        BY <1>1, <1>5 DEF Arrive, At, Keep
    <2> QED
        BY <2>1 DEF StaysRefused, ShutOut, authVars
<1> QED
    BY <1>2, <1>3, <1>4, <1>5 DEF AuthRefused, Mocked, Keep

LEMMA RefusedStep ==
    ASSUME IInv, Next, NEW t \in Token, ShutOut(t)
    PROVE  StaysRefused(t)
<1>1. CASE \E r \in Request : Handles(r)
    BY <1>1 DEF Handles, StaysRefused, ShutOut, authVars
<1>2. CASE \E x \in Token : FillLands(x) \/ CacheExpires(x) \/ TokenEnds(x)
    <2>1. PICK x \in Token : FillLands(x) \/ CacheExpires(x) \/ TokenEnds(x)
        BY <1>2
    <2>2. ShutOut(t)'
        BY <2>1 DEF FillLands, CacheExpires, TokenEnds, ShutOut
    <2>3. UNCHANGED req
        BY <2>1 DEF FillLands, CacheExpires, TokenEnds
    <2> QED
        BY <2>2, <2>3 DEF StaysRefused
<1> QED
    BY <1>1, <1>2, AuthStep, StepKinds

\* A token Clerk refuses, that the cache has forgotten and no put of the cache
\* is under way for, is refused for good: clerkAuth lets no request with it
\* through, and nothing puts it back.
THEOREM RefusedStaysRefused == Spec => RefusedForGood
<1>1. IInv /\ [Next]_vars =>
          [\A t \in Token : ShutOut(t) => StaysRefused(t)]_vars
    BY RefusedStep
<1>2. [\A t \in Token : ShutOut(t) => StaysRefused(t)]_vars =>
          [\A t \in Token : t \notin valid \cup cached \cup filling =>
              /\ t \notin (valid \cup cached \cup filling)'
              /\ \A r \in Request : req[r].pc = "auth" /\ req[r].tok = t =>
                    req'[r].pc \in {"auth", "idle"}]_vars
    BY DEF ShutOut, StaysRefused
<1> QED
    BY <1>1, <1>2, Invariance, PTL DEF Spec, RefusedForGood

-----------------------------------------------------------------------------
(* Lost are only keys that another update has changed since the read.        *)

\* What OnlyOvertakenLost asks of the end of an update.
LosesOvertaken(r) ==
    LET n == req[r].name
        u == UserOf(r) IN
    req[r].pc = "docPut" /\ req'[r].pc = "idle" /\ doc' # doc =>
        \A k \in Key \ req[r].behind :
            doc'[n][u][k] = IF k \in DOMAIN req[r].patch
                            THEN req[r].patch[k] ELSE doc[n][u][k]

LEMMA UpdateStepExact ==
    ASSUME IInv, Next, NEW r \in Request
    PROVE  LosesOvertaken(r)
<1> SUFFICES ASSUME req[r].pc = "docPut", req'[r].pc = "idle", doc' # doc,
                    NEW k \in Key \ req[r].behind
             PROVE  doc'[req[r].name][UserOf(r)][k] =
                        IF k \in DOMAIN req[r].patch THEN req[r].patch[k]
                        ELSE doc[req[r].name][UserOf(r)][k]
    BY DEF LosesOvertaken
<1> DEFINE n == req[r].name
           u == UserOf(r)
           p == req[r].patch
<1>1. ASSUME NEW q \in Request,
             \/ \E t \in Token : Arrive(q, t)
             \/ AuthCached(q) \/ AuthVerified(q) \/ AuthRefused(q) \/ Mocked(q)
      PROVE  UNCHANGED doc
    BY <1>1 DEF Arrive, AuthCached, AuthVerified, AuthRefused, Mocked, Keep,
       stores
<1>2. ASSUME NEW t \in Token, FillLands(t) \/ CacheExpires(t) \/ TokenEnds(t)
      PROVE  UNCHANGED doc
    BY <1>2 DEF FillLands, CacheExpires, TokenEnds, stores
<1>3. PICK q \in Request : Handles(q)
    BY <1>1, <1>2, StepKinds
<1>4. q = r
    BY <1>3 DEF Handles
<1>5. DocPut(r)
    BY <1>3, <1>4 DEF Handles
<1>6. /\ n \in Doc /\ u \in User /\ p \in Patch /\ req[r].snap \in DocValue
      /\ req \in [Request -> ReqType] /\ doc \in [Doc -> [User -> DocValue]]
    BY SubAssumption DEF IInv, TypeOK, Sessions, At, UserOf, ReqType
<1>7. Writes(r, Merged(p, req[r].snap)) /\ Merged(p, req[r].snap) \in DocValue
    BY <1>5, <1>6, MergedType DEF DocPut
<1>8. doc'[n][u] = Merged(p, req[r].snap)
    BY <1>6, <1>7, WritesFacts
<1>9. req[r].snap[k] = doc[n][u][k]
    BY DEF IInv, InStep, At
<1> HIDE DEF n, u, p
<1>10. doc'[n][u][k] = IF k \in DOMAIN p THEN p[k] ELSE doc[n][u][k]
    BY <1>6, <1>8, <1>9, MergedType
<1> QED
    BY <1>10 DEF n, u, p

\* An update of an IPS document (read, merge, write the whole back) leaves
\* each key with what it was sent, or as the document held it, unless another
\* update of that document changed that key between its read and its write.
THEOREM UpdatesLoseOnlyOvertaken == Spec => OnlyOvertakenLost
<1>1. IInv /\ [Next]_vars => [\A r \in Request : LosesOvertaken(r)]_vars
    BY UpdateStepExact
<1>2. [\A r \in Request : LosesOvertaken(r)]_vars =>
          [\A r \in Request :
              LET n == req[r].name
                  u == UserOf(r) IN
              req[r].pc = "docPut" /\ req'[r].pc = "idle" /\ doc' # doc =>
                  \A k \in Key \ req[r].behind :
                      doc'[n][u][k] = IF k \in DOMAIN req[r].patch
                                      THEN req[r].patch[k] ELSE doc[n][u][k]]_vars
    BY DEF LosesOvertaken
<1> QED
    BY <1>1, <1>2, Invariance, PTL DEF Spec, OnlyOvertakenLost
=============================================================================
