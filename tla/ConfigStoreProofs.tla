-------------------------- MODULE ConfigStoreProofs --------------------------
(***************************************************************************)
(* For any sections, requests and bounds: what the Durable Object was      *)
(* handed last is what is stored (DeviceFollows), a removed device stays   *)
(* out (RemovedStaysOut), numbered lists are dense (IdsDense), and a write *)
(* changes what its request names, and besides it only what others have    *)
(* changed since its read (AskedOnly).                                     *)
(*                                                                         *)
(* The first two rest on what a request in flight may still do.  Follow    *)
(* says that, in a section that is not apart, at most one write waits for  *)
(* its push, and it is going to push what is stored.  Out says that an     *)
(* agent about to be admitted had come before any removal was answered.    *)
(* The other two rest on Lists, further down: what a request has read is   *)
(* what is stored, or a put of another has come in between and shows.      *)
(* AskedOnly needs InStep as well: where the two differ, they do so in     *)
(* entries that others have put in or taken out since.                     *)
(***************************************************************************)
EXTENDS ConfigStore, FiniteSetTheorems, FunctionTheorems, WellFoundedInduction,
        TLAPS

\* The fields each step of a request reads.
RecordOK(q) ==
    /\ "at" \in DOMAIN q
    /\ q.at = "access" =>
           /\ {"section", "op"} \subseteq DOMAIN q
           /\ \/ q.op \in {"backup", "restore", "forget", "remove"}
              \/ q.section \in Section
    /\ q.at \in {"read", "put", "push"} =>
           "section" \in DOMAIN q /\ q.section \in Section
    /\ q.at \in {"key", "entry", "upgrade"} =>
           "call" \in DOMAIN q /\ q.call \in Nat /\ q.call <= calls

Shape ==
    /\ request = [r \in Request |-> request[r]]
    /\ stored = [s \in Section |-> stored[s]]
    /\ pushed = [s \in Section |-> pushed[s]]
    /\ calls \in Nat
    /\ \A r \in Request : RecordOK(request[r])

Follow ==
    \A s \in Section \ apart :
        /\ Busy(s) = {} => pushed[s] = stored[s]
        /\ \A r \in Busy(s) : Busy(s) = {r} /\ request[r].value = stored[s]

Out ==
    /\ removedAt \in Nat
    /\ record => removedAt = 0
    /\ \A c \in admitted : c \in Nat /\ c <= calls
    /\ \A r \in Request :
           At(r, "upgrade") => removedAt = 0 \/ request[r].call <= removedAt
    /\ RemovedStaysOut

IInv == Shape /\ Follow /\ Out

LEMMA InitIInv == Init => IInv
<1> SUFFICES ASSUME Init PROVE IInv
    OBVIOUS
<1>1. Shape
    BY DEF Init, Shape, RecordOK, Idle
<1>2. Follow
    BY DEF Init, Follow, Busy, Idle
<1>3. Out
    BY DEF Init, Out, At, Idle, RemovedStaysOut
<1> QED
    BY <1>1, <1>2, <1>3 DEF IInv

-----------------------------------------------------------------------------
(* One request moves, to a step of which more is said by each action. *)

Moves(r, step) ==
    /\ \A x \in Request : x # r => request'[x] = request[x]
    /\ request' = [x \in Request |-> request'[x]]
    /\ request'[r].at = step

LEMMA EndMoves ==
    ASSUME Shape, NEW r \in Request, End(r)
    PROVE  Moves(r, "idle") /\ RecordOK(request[r])'
    BY DEF Shape, End, Idle, Moves, RecordOK

\* A request that does not write, and stays clear of the step before a push.
LEMMA FollowKept ==
    ASSUME Shape, Follow, NEW r \in Request, NEW step, Moves(r, step),
           request[r].at # "push", step # "push",
           UNCHANGED <<stored, pushed, apart>>
    PROVE  Follow'
<1>1. \A s : Busy(s)' = Busy(s)
    BY DEF Busy, Moves
<1>2. \A s : \A x \in Busy(s) : request'[x] = request[x]
    BY DEF Busy, Moves
<1> QED
    BY <1>1, <1>2 DEF Follow

\* A request that neither removes the device nor admits an agent.
LEMMA OutKept ==
    ASSUME Shape, Out, NEW r \in Request, NEW step, Moves(r, step),
           step # "upgrade", UNCHANGED <<record, admitted, removedAt>>,
           calls' \in Nat, calls <= calls'
    PROVE  Out'
<1>1. \A x \in Request : At(x, "upgrade")' =>
          At(x, "upgrade") /\ request'[x] = request[x]
    BY DEF At, Moves
<1>2. \A c \in admitted : c <= calls'
    BY DEF Out, Shape
<1> QED
    BY <1>1, <1>2 DEF Out, RemovedStaysOut

\* What the others hold fits as before.
LEMMA ShapeKept ==
    ASSUME Shape, NEW r \in Request, NEW step, Moves(r, step),
           RecordOK(request[r])', UNCHANGED <<stored, pushed, calls>>
    PROVE  Shape'
<1>1. ASSUME NEW x \in Request, x # r PROVE RecordOK(request[x])'
    BY <1>1 DEF Shape, Moves, RecordOK
<1> QED
    BY <1>1 DEF Shape, Moves

-----------------------------------------------------------------------------
(* The actions. *)

LEMMA ArriveStep ==
    ASSUME IInv, NEW r \in Request, NEW q, Arrive(r, q),
           "at" \in DOMAIN q, q.at \in {"access", "key"},
           q.at = "access" =>
               /\ {"section", "op"} \subseteq DOMAIN q
               /\ \/ q.op \in {"backup", "restore", "forget", "remove"}
                  \/ q.section \in Section,
           "call" \in DOMAIN q, q.call = calls + 1
    PROVE  IInv'
<1>1. Moves(r, q.at) /\ request'[r] = q
    BY DEF IInv, Shape, Arrive, Moves
<1>2. calls' = calls + 1 /\ calls \in Nat /\ calls' \in Nat
    BY DEF IInv, Shape, Arrive
<1>3. Shape'
    <2>1. RecordOK(request[r])'
        BY <1>1, <1>2 DEF RecordOK
    <2>2. ASSUME NEW x \in Request, x # r PROVE RecordOK(request[x])'
        BY <1>1, <1>2, <2>2 DEF IInv, Shape, Moves, RecordOK
    <2> QED
        BY <1>1, <1>2, <2>1, <2>2 DEF IInv, Shape, Arrive, Moves
<1>4. Follow'
    <2>1. request[r].at # "push"
        BY DEF Arrive, At
    <2> QED
        BY <1>1, <2>1, FollowKept DEF IInv, Arrive, ghosts
<1>5. Out'
    BY <1>1, <1>2, OutKept DEF IInv, Arrive, ghosts
<1> QED
    BY <1>3, <1>4, <1>5 DEF IInv

\* Every step that only moves its request on, to a step that is neither a push
\* nor an upgrade.
LEMMA QuietStep ==
    ASSUME IInv, NEW r \in Request, NEW step, Moves(r, step),
           RecordOK(request[r])', request[r].at # "push",
           step \notin {"push", "upgrade"},
           UNCHANGED <<record, stored, pushed, admitted, calls, apart,
                       removedAt>>
    PROVE  IInv'
<1>1. Shape'
    BY ShapeKept DEF IInv
<1>2. Follow'
    BY FollowKept DEF IInv
<1>3. Out'
    BY OutKept DEF IInv, Shape
<1> QED
    BY <1>1, <1>2, <1>3 DEF IInv

LEMMA AccessStep ==
    ASSUME IInv, NEW r \in Request, Access(r)
    PROVE  IInv'
<1>1. CASE record
    <2> DEFINE next == AfterAccess(request[r])
    <2>1. /\ request[r].at = "access" /\ RecordOK(request[r])
          /\ request' = [request EXCEPT ![r].at = next]
        BY <1>1 DEF IInv, Shape, Access, At
    <2>2. /\ next \in {"readWhole", "readBackup", "deleteBackup",
                       "deleteRecord", "put", "read"}
          /\ next \in {"put", "read"} => request[r].section \in Section
        BY <2>1 DEF AfterAccess, RecordOK, Section
    <2>3. Moves(r, next) /\ RecordOK(request[r])'
        <3> HIDE DEF next
        <3> QED
            BY <2>1, <2>2 DEF IInv, Shape, Moves, RecordOK
    <2> QED
        BY <1>1, <2>2, <2>3, QuietStep DEF Access, At, ghosts
<1>2. CASE ~record
    BY <1>2, EndMoves, QuietStep DEF IInv, Access, At, ghosts
<1> QED
    BY <1>1, <1>2

LEMMA ReadListStep ==
    ASSUME IInv, NEW r \in Request, NEW ok \in BOOLEAN, ReadList(r, ok)
    PROVE  IInv'
<1>1. CASE End(r)
    BY <1>1, EndMoves, QuietStep DEF IInv, ReadList, At, ghosts
<1>2. CASE ~End(r)
    <2>1. Moves(r, "put") /\ RecordOK(request[r])'
        BY <1>2 DEF IInv, Shape, ReadList, At, Moves, RecordOK, ghosts
    <2> QED
        BY <2>1, QuietStep DEF ReadList, At, ghosts
<1> QED
    BY <1>1, <1>2

LEMMA ReadWholeStep ==
    ASSUME IInv, NEW r \in Request, ReadWhole(r)
    PROVE  IInv'
<1>1. Moves(r, "putBackup") /\ RecordOK(request[r])'
    BY DEF IInv, Shape, ReadWhole, At, Moves, RecordOK, ghosts
<1> QED
    BY <1>1, QuietStep DEF ReadWhole, At, ghosts

LEMMA PutWholeStep ==
    ASSUME IInv, NEW r \in Request, PutWhole(r)
    PROVE  IInv'
<1>1. Moves(r, "pushFull") /\ RecordOK(request[r])'
    BY DEF IInv, Shape, PutWhole, At, Moves, RecordOK, ghosts
<1> QED
    BY <1>1, QuietStep DEF PutWhole, At, ghosts

LEMMA LookUpKeyStep ==
    ASSUME IInv, NEW r \in Request, LookUpKey(r)
    PROVE  IInv'
<1>1. Moves(r, "entry") /\ RecordOK(request[r])'
    BY DEF IInv, Shape, LookUpKey, At, Moves, RecordOK, ghosts
<1> QED
    BY <1>1, QuietStep DEF LookUpKey, At, ghosts

LEMMA PutBackupStep ==
    ASSUME IInv, NEW r \in Request, PutBackup(r)
    PROVE  IInv'
    BY EndMoves, QuietStep DEF IInv, PutBackup, At, ghosts

LEMMA DeleteBackupStep ==
    ASSUME IInv, NEW r \in Request, DeleteBackup(r)
    PROVE  IInv'
    BY EndMoves, QuietStep DEF IInv, DeleteBackup, At, ghosts

LEMMA ReadBackupStep ==
    ASSUME IInv, NEW r \in Request, ReadBackup(r)
    PROVE  IInv'
<1>1. CASE End(r)
    BY <1>1, EndMoves, QuietStep DEF IInv, ReadBackup, At, ghosts
<1>2. CASE ~End(r)
    <2>1. Moves(r, "putWhole") /\ RecordOK(request[r])'
        BY <1>2 DEF IInv, Shape, ReadBackup, At, Moves, RecordOK, ghosts
    <2> QED
        BY <2>1, QuietStep DEF ReadBackup, At, ghosts
<1> QED
    BY <1>1, <1>2

\* A put whose section has no other write before its push brings the section
\* back from apart; any other put sets it apart.
LEMMA PutStep ==
    ASSUME IInv, NEW r \in Request, Put(r)
    PROVE  IInv'
<1> DEFINE q == request[r]
           t == request[r].section
<1>1. /\ request[r].at = "put" /\ t \in Section
      /\ Moves(r, "push") /\ RecordOK(request[r])'
      /\ request'[r].section = t /\ request'[r].value = stored'[t]
    BY DEF IInv, Shape, Put, At, Moves, RecordOK, Handed
<1>2. /\ stored' = [s \in Section |-> stored'[s]]
      /\ \A s \in Section : s # t => stored'[s] = stored[s]
    BY <1>1 DEF IInv, Shape, Put
<1>3. Shape'
    <2>1. ASSUME NEW x \in Request, x # r PROVE RecordOK(request[x])'
        BY <1>1, <2>1 DEF IInv, Shape, Moves, RecordOK, Put
    <2> QED
        BY <1>1, <1>2, <2>1 DEF IInv, Shape, Moves, Put
<1>4. Follow'
    <2> SUFFICES ASSUME NEW s \in Section, s \notin apart'
                 PROVE  /\ Busy(s)' = {} => pushed'[s] = stored'[s]
                        /\ \A x \in Busy(s)' : /\ Busy(s)' = {x}
                                               /\ request'[x].value = stored'[s]
        BY DEF Follow
    <2>1. CASE s = t
        <3>1. Busy(s) = {}
            BY <2>1 DEF Put
        <3>2. Busy(s)' = {r}
            BY <1>1, <2>1, <3>1 DEF Busy, Moves
        <3> QED
            BY <1>1, <2>1, <3>2
    <2>2. CASE s # t
        <3>1. s \notin apart
            BY <2>2 DEF Put
        <3>2. Busy(s)' = Busy(s) /\ \A x \in Busy(s) : request'[x] = request[x]
            BY <1>1, <2>2 DEF Busy, Moves
        <3> QED
            BY <1>2, <2>2, <3>1, <3>2 DEF IInv, Follow, Put
    <2> QED
        BY <2>1, <2>2
<1>5. Out'
    BY <1>1, OutKept DEF IInv, Shape, Put
<1> QED
    BY <1>3, <1>4, <1>5 DEF IInv

LEMMA PushStep ==
    ASSUME IInv, NEW r \in Request, NEW ok \in BOOLEAN, Push(r, ok)
    PROVE  IInv'
<1> DEFINE t == request[r].section
<1>1. /\ request[r].at = "push" /\ t \in Section
      /\ Moves(r, "idle") /\ RecordOK(request[r])'
    BY EndMoves DEF IInv, Shape, Push, At, RecordOK
<1>2. /\ pushed' = [s \in Section |-> pushed'[s]]
      /\ \A s \in Section : s # t => pushed'[s] = pushed[s]
      /\ ok => pushed'[t] = request[r].value
    BY <1>1 DEF IInv, Shape, Push
<1>3. Shape'
    <2>1. ASSUME NEW x \in Request, x # r PROVE RecordOK(request[x])'
        BY <1>1, <2>1 DEF IInv, Shape, Moves, RecordOK, Push
    <2> QED
        BY <1>1, <1>2, <2>1 DEF IInv, Shape, Moves, Push
<1>4. Follow'
    <2> SUFFICES ASSUME NEW s \in Section, s \notin apart'
                 PROVE  /\ Busy(s)' = {} => pushed'[s] = stored[s]
                        /\ \A x \in Busy(s)' : /\ Busy(s)' = {x}
                                               /\ request'[x].value = stored[s]
        BY DEF Follow, Push
    <2>1. s \notin apart
        BY DEF Push
    <2>2. CASE s = t
        <3>1. ok
            BY <2>2 DEF Push
        <3>2. r \in Busy(s)
            BY <1>1, <2>2 DEF Busy
        <3>3. Busy(s) = {r} /\ request[r].value = stored[s]
            BY <2>1, <3>2 DEF IInv, Follow
        <3>4. Busy(s)' = {}
            BY <1>1, <3>3 DEF Busy, Moves
        <3> QED
            BY <1>2, <2>2, <3>1, <3>3, <3>4
    <2>3. CASE s # t
        <3>1. Busy(s)' = Busy(s) /\ \A x \in Busy(s) : request'[x] = request[x]
            BY <1>1, <2>3 DEF Busy, Moves
        <3> QED
            BY <1>2, <2>1, <2>3, <3>1 DEF IInv, Follow
    <2> QED
        BY <2>2, <2>3
<1>5. Out'
    BY <1>1, OutKept DEF IInv, Shape, Push
<1> QED
    BY <1>3, <1>4, <1>5 DEF IInv

\* A restore that reaches the object sets every section apart.
LEMMA PushFullStep ==
    ASSUME IInv, NEW r \in Request, NEW ok \in BOOLEAN, PushFull(r, ok)
    PROVE  IInv'
<1>1. CASE ~ok
    BY <1>1, EndMoves, QuietStep DEF IInv, PushFull, At
<1>2. CASE ok
    <2>1. Moves(r, "idle") /\ RecordOK(request[r])'
        BY EndMoves DEF IInv, PushFull
    <2>2. Shape'
        <3>1. ASSUME NEW x \in Request, x # r PROVE RecordOK(request[x])'
            BY <2>1, <3>1 DEF IInv, Shape, Moves, RecordOK, PushFull
        <3>2. pushed' = [s \in Section |-> pushed'[s]]
            BY <1>2 DEF PushFull
        <3> QED
            BY <2>1, <3>1, <3>2 DEF IInv, Shape, Moves, PushFull
    <2>3. Follow'
        BY <1>2 DEF Follow, PushFull
    <2>4. Out'
        BY <2>1, OutKept DEF IInv, Shape, PushFull
    <2> QED
        BY <2>2, <2>3, <2>4 DEF IInv
<1> QED
    BY <1>1, <1>2

LEMMA CutStep ==
    ASSUME IInv, NEW r \in Request, Cut(r)
    PROVE  IInv'
<1>1. Moves(r, "idle") /\ RecordOK(request[r])'
    BY EndMoves DEF IInv, Cut
<1>2. CASE ~At(r, "push")
    BY <1>1, <1>2, QuietStep DEF Cut, At
<1>3. CASE At(r, "push")
    <2>1. Shape'
        BY <1>1, ShapeKept DEF IInv, Cut
    <2>2. Follow'
        <3> SUFFICES ASSUME NEW s \in Section, s \notin apart'
                     PROVE  /\ Busy(s)' = {} => pushed[s] = stored[s]
                            /\ \A x \in Busy(s)' :
                                   /\ Busy(s)' = {x}
                                   /\ request'[x].value = stored[s]
            BY DEF Follow, Cut
        <3>1. s \notin apart /\ s # request[r].section
            BY <1>3 DEF Cut
        <3>2. Busy(s)' = Busy(s) /\ \A x \in Busy(s) : request'[x] = request[x]
            BY <1>1, <3>1 DEF Busy, Moves
        <3> QED
            BY <3>1, <3>2 DEF IInv, Follow
    <2>3. Out'
        BY <1>1, OutKept DEF IInv, Shape, Cut
    <2> QED
        BY <2>1, <2>2, <2>3 DEF IInv
<1> QED
    BY <1>2, <1>3

\* Every call so far was made before the removal is answered.
LEMMA DeleteRecordStep ==
    ASSUME IInv, NEW r \in Request, DeleteRecord(r)
    PROVE  IInv'
<1>1. Moves(r, "idle") /\ RecordOK(request[r])' /\ request[r].at # "push"
    BY EndMoves DEF IInv, DeleteRecord, At
<1>2. Shape'
    BY <1>1, ShapeKept DEF IInv, DeleteRecord
<1>3. Follow'
    BY <1>1, FollowKept DEF IInv, DeleteRecord
<1>4. Out'
    <2>1. \A x \in Request : At(x, "upgrade")' =>
              /\ At(x, "upgrade") /\ request'[x] = request[x]
              /\ request[x].call <= calls
        BY <1>1 DEF At, Moves, IInv, Shape, RecordOK
    <2> QED
        BY <2>1 DEF IInv, Shape, Out, DeleteRecord, RemovedStaysOut
<1> QED
    BY <1>2, <1>3, <1>4 DEF IInv

LEMMA LookUpEntryStep ==
    ASSUME IInv, NEW r \in Request, LookUpEntry(r)
    PROVE  IInv'
<1>1. CASE ~record
    BY <1>1, EndMoves, QuietStep DEF IInv, LookUpEntry, EntryFound, At, ghosts
<1>2. CASE record
    <2>1. Moves(r, "upgrade") /\ RecordOK(request[r])' /\ request[r].at # "push"
        BY <1>2 DEF IInv, Shape, LookUpEntry, EntryFound, At, Moves, RecordOK,
                    ghosts
    <2>2. Shape'
        BY <2>1, ShapeKept DEF IInv, LookUpEntry, ghosts
    <2>3. Follow'
        BY <2>1, FollowKept DEF IInv, LookUpEntry, ghosts
    <2>4. Out'
        <3>1. removedAt' = 0
            BY <1>2 DEF IInv, Out, LookUpEntry, ghosts
        <3> QED
            BY <3>1 DEF IInv, Out, LookUpEntry, RemovedStaysOut, ghosts
    <2> QED
        BY <2>2, <2>3, <2>4 DEF IInv
<1> QED
    BY <1>1, <1>2

LEMMA UpgradeStep ==
    ASSUME IInv, NEW r \in Request, Upgrade(r)
    PROVE  IInv'
<1>1. Moves(r, "idle") /\ RecordOK(request[r])' /\ request[r].at = "upgrade"
    BY EndMoves DEF IInv, Upgrade, At
<1>2. Shape'
    BY <1>1, ShapeKept DEF IInv, Upgrade, ghosts
<1>3. Follow'
    BY <1>1, FollowKept DEF IInv, Upgrade, ghosts
<1>4. Out'
    <2>1. /\ request[r].call \in Nat /\ request[r].call <= calls
          /\ removedAt = 0 \/ request[r].call <= removedAt
        BY <1>1 DEF IInv, Shape, RecordOK, Out, At
    <2>2. \A x \in Request : At(x, "upgrade")' =>
              At(x, "upgrade") /\ request'[x] = request[x]
        BY <1>1 DEF At, Moves
    <2> QED
        BY <2>1, <2>2 DEF IInv, Out, Upgrade, RemovedStaysOut, ghosts
<1> QED
    BY <1>2, <1>3, <1>4 DEF IInv

\* What a request for a section may be.
LEMMA SectionRequestArrives ==
    ASSUME NEW r \in Request, SectionRequest(r)
    PROVE  \E s \in Section, op \in ListOp, id \in 1..MaxId,
              body \in 1..MaxId, order \in Orders :
             /\ op \in {"create", "update"} \/ s \in ListSection
             /\ op = "reorder" => s \in NumberedSections
             /\ Arrive(r, [at |-> "access", op |-> op, section |-> s, id |-> id,
                           body |-> body, order |-> order, call |-> calls + 1,
                           base |-> << >>, seen |-> 0, failed |-> FALSE])
    BY ZenonT(60) DEF SectionRequest

LEMMA NextIInv == IInv /\ [Next]_vars => IInv'
<1> SUFFICES ASSUME IInv, [Next]_vars PROVE IInv'
    OBVIOUS
<1>1. CASE UNCHANGED vars
    BY <1>1 DEF vars, ghosts, IInv, Shape, RecordOK, Follow, Busy, Out, At,
                RemovedStaysOut
<1>2. ASSUME NEW r \in Request, SectionRequest(r) PROVE IInv'
    <2>1. PICK s \in Section, op \in ListOp, id \in 1..MaxId,
               body \in 1..MaxId, order \in Orders :
              Arrive(r, [at |-> "access", op |-> op, section |-> s, id |-> id,
                         body |-> body, order |-> order, call |-> calls + 1,
                         base |-> <<>>, seen |-> 0, failed |-> FALSE])
        BY <1>2, SectionRequestArrives
    <2> QED
        BY <2>1, ArriveStep
<1>3. ASSUME NEW r \in Request, DeviceRequest(r) PROVE IInv'
    <2>1. PICK op \in DeviceOp :
          \E b \in IF op \in {"restore", "forget"} THEN 1..calls ELSE {0} :
              Arrive(r, [at |-> IF op = "connect" THEN "key" ELSE "access",
                         op |-> op, section |-> "none", backup |-> b,
                         call |-> calls + 1, value |-> NoValue])
        BY <1>3 DEF DeviceRequest
    <2>2. PICK b : Arrive(r, [at |-> IF op = "connect" THEN "key" ELSE "access",
                         op |-> op, section |-> "none", backup |-> b,
                         call |-> calls + 1, value |-> NoValue])
        BY <2>1
    <2> QED
        BY <2>2, ArriveStep DEF DeviceOp
<1>4. ASSUME NEW r \in Request, NEW ok \in BOOLEAN,
             ReadList(r, ok) \/ Push(r, ok) \/ PushFull(r, ok)
      PROVE  IInv'
    BY <1>4, ReadListStep, PushStep, PushFullStep
<1>5. ASSUME NEW r \in Request,
             \/ Access(r) \/ Put(r) \/ ReadWhole(r) \/ PutBackup(r)
             \/ ReadBackup(r) \/ PutWhole(r) \/ DeleteBackup(r)
             \/ DeleteRecord(r) \/ LookUpKey(r) \/ LookUpEntry(r)
             \/ Upgrade(r) \/ Cut(r)
      PROVE  IInv'
    BY <1>5, AccessStep, PutStep, ReadWholeStep, PutBackupStep,
       ReadBackupStep, PutWholeStep, DeleteBackupStep, DeleteRecordStep,
       LookUpKeyStep, LookUpEntryStep, UpgradeStep, CutStep
<1> QED
    BY <1>1, <1>2, <1>3, <1>4, <1>5 DEF Next

-----------------------------------------------------------------------------

LEMMA Invariance == Spec => []IInv
    BY InitIInv, NextIInv, PTL DEF Spec

\* The Durable Object was handed last what a section holds, unless that push was
\* lost, cut or overtaken (update_config's put, then push).
THEOREM ObjectFollowsStore == Spec => []DeviceFollows
<1>1. IInv => DeviceFollows
    BY DEF IInv, Follow, DeviceFollows
<1> QED
    BY <1>1, Invariance, PTL

\* Whatever remove_device leaves behind, an agent that comes after its answer is
\* refused at authenticate_device.
THEOREM RemovedIsRefused == Spec => []RemovedStaysOut
<1>1. IInv => RemovedStaysOut
    BY DEF IInv, Out
<1> QED
    BY <1>1, Invariance, PTL

-----------------------------------------------------------------------------
(* Filtered lists.  The place an item takes in what a filter leaves is its  *)
(* rank among the places left.                                              *)

Rank(i, K) == Cardinality({j \in K : j <= i})

LEMMA RankType ==
    ASSUME NEW n \in Nat, NEW K \in SUBSET (1..n), NEW i \in K
    PROVE  /\ IsFiniteSet(K) /\ Cardinality(K) \in 0..n
           /\ Rank(i, K) \in 1..Cardinality(K)
<1> DEFINE R == {j \in K : j <= i}
<1>1. IsFiniteSet(1..n) /\ Cardinality(1..n) = n
    BY FS_Interval
<1>2. IsFiniteSet(K) /\ Cardinality(K) \in Nat /\ Cardinality(K) <= n
    BY <1>1, FS_Subset, FS_CardinalityType
<1>3. R \in SUBSET K /\ i \in R
    OBVIOUS
<1>4. IsFiniteSet(R) /\ Cardinality(R) \in Nat /\ Cardinality(R) <= Cardinality(K)
    <2> HIDE DEF R
    <2> QED BY <1>2, <1>3, FS_Subset, FS_CardinalityType
<1>5. Cardinality(R) # 0
    <2> HIDE DEF R
    <2> QED BY <1>3, <1>4, FS_EmptySet
<1> QED
    BY <1>2, <1>4, <1>5 DEF Rank

LEMMA RankGrows ==
    ASSUME NEW n \in Nat, NEW K \in SUBSET (1..n),
           NEW i \in K, NEW k \in K, i < k
    PROVE  Rank(i, K) < Rank(k, K)
<1> DEFINE R == {j \in K : j <= i}
           S == {j \in K : j <= k}
<1>1. R \in SUBSET S /\ k \in S /\ k \notin R
    <2>1. \A j \in K : j \in Int
        OBVIOUS
    <2>2. i \in Int /\ k \in Int /\ k <= k /\ ~ (k <= i)
        BY <2>1
    <2>3. \A j \in K : j <= i => j <= k
        BY <2>1, <2>2
    <2> QED
        BY <2>2, <2>3
<1>2. IsFiniteSet(K)
    BY RankType
<1>3. IsFiniteSet(S)
    BY <1>2, FS_Subset
<1>4. Rank(i, K) \in Nat /\ Rank(k, K) \in Nat
    BY RankType
<1>5. Cardinality(R) <= Cardinality(S) /\ Cardinality(R) # Cardinality(S)
    <2> HIDE DEF R, S
    <2> QED BY <1>1, <1>3, FS_Subset
<1> QED
    BY <1>4, <1>5 DEF Rank

LEMMA RankSeparates ==
    ASSUME NEW n \in Nat, NEW K \in SUBSET (1..n),
           NEW i \in K, NEW k \in K, Rank(i, K) = Rank(k, K)
    PROVE  i = k
<1>1. Rank(i, K) \in Nat /\ i \in Nat /\ k \in Nat
    BY RankType
<1>2. ASSUME i < k PROVE FALSE
    <2>1. Rank(i, K) < Rank(k, K)
        BY <1>2, RankGrows
    <2> QED
        BY <1>1, <2>1
<1>3. ASSUME k < i PROVE FALSE
    <2>1. Rank(k, K) < Rank(i, K)
        BY <1>3, RankGrows
    <2> QED
        BY <1>1, <2>1
<1> QED
    BY <1>1, <1>2, <1>3

\* No two places have one rank, so every rank is that of one place.
LEMMA RankIsOnto ==
    ASSUME NEW n \in Nat, NEW K \in SUBSET (1..n), NEW m \in 1..Cardinality(K)
    PROVE  \E i \in K : Rank(i, K) = m
<1> DEFINE f == [i \in K |-> Rank(i, K)]
           C == 1..Cardinality(K)
<1>1. IsFiniteSet(1..n)
    BY FS_Interval
<1>2. IsFiniteSet(K) /\ Cardinality(K) \in Nat
    BY <1>1, FS_Subset, FS_CardinalityType
<1>3. IsFiniteSet(C) /\ Cardinality(C) = Cardinality(K)
    BY <1>2, FS_Interval
<1>4. f \in [K -> C]
    BY RankType
<1>5. ASSUME NEW i \in K, NEW k \in K, f[i] = f[k] PROVE i = k
    BY <1>5, RankSeparates
<1>6. f \in Injection(K, C)
    <2> HIDE DEF f
    <2> QED BY <1>4, <1>5, Fun_IsInj
<1>7. f \in Surjection(K, C)
    <2> HIDE DEF f, C
    <2> QED BY <1>2, <1>3, <1>6, FS_Injection
<1> QED
    BY <1>7 DEF Surjection

\* The place in the list of the m-th item left.
Place(m, K) == CHOOSE i \in K : Rank(i, K) = m

LEMMA PlaceOfRank ==
    ASSUME NEW n \in Nat, NEW K \in SUBSET (1..n), NEW m \in 1..Cardinality(K)
    PROVE  Place(m, K) \in K /\ Rank(Place(m, K), K) = m
    BY RankIsOnto DEF Place

LEMMA RankOfPlace ==
    ASSUME NEW n \in Nat, NEW K \in SUBSET (1..n), NEW i \in K
    PROVE  Rank(i, K) \in 1..Cardinality(K) /\ Place(Rank(i, K), K) = i
<1>1. Rank(i, K) \in 1..Cardinality(K)
    BY RankType
<1>2. Place(Rank(i, K), K) \in K /\ Rank(Place(Rank(i, K), K), K) = Rank(i, K)
    BY <1>1, PlaceOfRank
<1> QED
    BY <1>1, <1>2, RankSeparates

LEMMA OnlyPlaces ==
    ASSUME NEW items, NEW K
    PROVE  Only(items, K) = [m \in 1..Cardinality(K) |-> items[Place(m, K)]]
    BY DEF Only, Place, Rank

\* A filter leaves items of the list, and every item at the places given.
LEMMA OnlyKeeps ==
    ASSUME NEW T, NEW s \in Seq(T), NEW K \in SUBSET DOMAIN s
    PROVE  /\ Only(s, K) \in Seq(T)
           /\ Len(Only(s, K)) = Cardinality(K)
           /\ \A m \in DOMAIN Only(s, K) :
                  Place(m, K) \in K /\ Only(s, K)[m] = s[Place(m, K)]
           /\ \A i \in K : \E m \in DOMAIN Only(s, K) : Only(s, K)[m] = s[i]
<1> DEFINE C == Cardinality(K)
<1>1. Len(s) \in Nat /\ DOMAIN s = 1..Len(s) /\ \A i \in DOMAIN s : s[i] \in T
    OBVIOUS
<1>2. C \in Nat
    <2>1. IsFiniteSet(DOMAIN s)
        BY <1>1, FS_Interval
    <2> QED
        BY <2>1, FS_Subset, FS_CardinalityType
<1>3. \A m \in 1..C : Place(m, K) \in K
    BY <1>1, PlaceOfRank
<1>4. Only(s, K) = [m \in 1..C |-> s[Place(m, K)]]
    BY OnlyPlaces
<1> HIDE DEF C
<1>5. Only(s, K) \in Seq(T) /\ Len(Only(s, K)) = C /\ DOMAIN Only(s, K) = 1..C
    <2>1. Only(s, K) \in [1..C -> T]
        BY <1>1, <1>3, <1>4
    <2> QED
        BY <1>2, <2>1
<1>6. ASSUME NEW i \in K PROVE \E m \in 1..C : s[Place(m, K)] = s[i]
    BY <1>1, RankOfPlace DEF C
<1> QED
    BY <1>3, <1>4, <1>5, <1>6 DEF C

\* A filter that everything passes.
LEMMA OnlyAll ==
    ASSUME NEW T, NEW s \in Seq(T)
    PROVE  Only(s, DOMAIN s) = s
<1> DEFINE n == Len(s)
<1>1. n \in Nat /\ DOMAIN s = 1..n /\ s = [i \in 1..n |-> s[i]]
    OBVIOUS
<1>2. Cardinality(1..n) = n
    BY <1>1, FS_Interval
<1>3. ASSUME NEW m \in 1..n PROVE Rank(m, 1..n) = m
    <2>1. {j \in 1..n : j <= m} = 1..m
        BY <1>1
    <2>2. m \in Nat /\ Cardinality(1..m) = m
        BY <1>1, FS_Interval
    <2> QED
        BY <2>1, <2>2 DEF Rank
<1>4. ASSUME NEW m \in 1..n PROVE Place(m, 1..n) = m
    BY <1>1, <1>2, <1>3, RankOfPlace
<1> QED
    BY <1>1, <1>2, <1>4, OnlyPlaces

\* Lists that agree at the places given.
LEMMA OnlyAgrees ==
    ASSUME NEW n \in Nat, NEW K \in SUBSET (1..n), NEW s, NEW t,
           \A i \in K : s[i] = t[i]
    PROVE  Only(s, K) = Only(t, K)
    BY PlaceOfRank, OnlyPlaces

\* iter().find finds the first of the items that match.
LEMMA FirstIsThere ==
    ASSUME NEW T, NEW s \in Seq(T), NEW i \in DOMAIN s
    PROVE  LET first == FirstWith(s, s[i].id)
           IN  /\ first \in DOMAIN s /\ first <= i
               /\ s[first].id = s[i].id
               /\ \A j \in 1..(first - 1) : s[j].id # s[i].id
<1> DEFINE M == {j \in DOMAIN s : s[j].id = s[i].id}
<1>1. DOMAIN s \subseteq Nat \ {0} /\ DOMAIN s = 1..Len(s)
    OBVIOUS
<1>2. PICK m \in M : \A j \in M : ~ (<<j, m>> \in OpToRel(<, Nat))
    <2>1. M \subseteq Nat /\ M # {}
        BY <1>1
    <2> HIDE DEF M
    <2> QED
        BY <2>1, NatLessThanWellFounded, WFMin
<1>3. \A j \in M : ~ (j < m)
    BY <1>1, <1>2 DEF OpToRel
<1>4. \A j \in 1..(m - 1) : s[j].id # s[i].id
    BY <1>1, <1>3
<1>5. \E k \in DOMAIN s : s[k].id = s[i].id /\ \A j \in 1..(k - 1) : s[j].id # s[i].id
    BY <1>4
<1>6. /\ FirstWith(s, s[i].id) \in DOMAIN s
      /\ s[FirstWith(s, s[i].id)].id = s[i].id
      /\ \A j \in 1..(FirstWith(s, s[i].id) - 1) : s[j].id # s[i].id
    BY <1>5 DEF FirstWith
<1> QED
    BY <1>1, <1>6
-----------------------------------------------------------------------------
(* What the lists are written from.  Written gives the types; Fresh says    *)
(* that the call of a request still to write has left no trace, so that the *)
(* marks of a read (seen) and of the last put agree only if no put came in  *)
(* between, which is AsRead; Numbered adds that what is about to be written *)
(* back is dense, too.                                                      *)

Row == [id : Nat, by : Nat]
ListRequest == [at : {"access", "read", "put"}, op : ListOp,
                section : Section, id : 1..MaxId, body : 1..MaxId,
                order : Seq(1..MaxId),
                call : Nat \ {0}, base : Seq(Row), seen : Nat, failed : BOOLEAN]

\* The requests that are to write a section.
Writing(r) ==
    \/ At(r, "access") /\ request[r].op \notin DeviceOp \ {"connect"}
    \/ At(r, "read")
    \/ At(r, "put")

Written ==
    /\ \A r \in Request : Writing(r) =>
        LET q == request[r]
        IN  /\ q \in ListRequest /\ q.call <= calls /\ q.seen <= calls
            /\ q.at # "put" => q.seen = 0 /\ q.base = << >>
            /\ q.at = "read" => q.section \in ListSection
            /\ q.section \in ListSection \/ q.op \in {"create", "update"}
            /\ q.op = "reorder" => q.section \in NumberedSections
    /\ \A s \in ListSection :
        /\ stored[s].items \in Seq(Row)
        /\ stored[s].kind # "list" => stored[s].items = << >>
    /\ putBy \in [Section -> Nat]
    /\ \A s \in Section : putBy[s] <= calls

Fresh ==
    \A r \in Request : Writing(r) =>
        /\ \A s \in Section : putBy[s] # request[r].call
        /\ \A x \in Request \ {r} :
            Writing(x) => request[x].call # request[r].call
        /\ \A x \in Request : At(x, "put") => request[x].seen # request[r].call

AsRead ==
    \A r \in Request :
        LET q == request[r]
        IN  At(r, "put") /\ q.section \in ListSection /\ ~q.failed
                /\ q.seen = putBy[q.section]
            => q.base = stored[q.section].items

Dense(items) == Ids(items) = 1..Len(items)

Numbered ==
    /\ IdsDense
    /\ \A r \in Request :
        At(r, "put") /\ request[r].section \in NumberedSections \ shrunk
            => Dense(request[r].base)

Lists == Written /\ Fresh /\ AsRead /\ Numbered

LEMMA InitLists == Init => Lists
<1> SUFFICES ASSUME Init PROVE Lists
    OBVIOUS
<1>1. \A r \in Request : ~Writing(r)
    BY DEF Init, Writing, At, Idle
<1>2. /\ \A s \in Section : stored[s] = Absent /\ putBy[s] = 0
      /\ calls = 0
    BY DEF Init
<1>3. \A s \in Section : stored[s].items = << >> /\ Len(stored[s].items) = 0
    BY <1>2 DEF Absent
<1>4. Written
    <2>1. putBy \in [Section -> Nat]
        BY DEF Init
    <2>2. \A s \in ListSection : s \in Section
        BY DEF ListSection, Section
    <2>3. << >> \in Seq(Row)
        OBVIOUS
    <2>4. \A s \in Section : putBy[s] <= calls
        BY <1>2
    <2> QED
        BY <1>1, <1>3, <2>1, <2>2, <2>3, <2>4 DEF Written
<1>5. Numbered
    <2>1. 1..0 = {} /\ \A s \in Section : Ids(stored[s].items) = {}
        BY <1>3 DEF Ids
    <2> QED
        BY <1>1, <1>3, <2>1 DEF Numbered, IdsDense, Section, Writing
<1> QED
    BY <1>1, <1>4, <1>5 DEF Lists, Fresh, AsRead, Writing

\* A request that is not to write a section, or no longer.
LEMMA AsideStep ==
    ASSUME Shape, Lists, NEW r \in Request, NEW step, Moves(r, step),
           ~Writing(r)', UNCHANGED <<stored, putBy, shrunk>>,
           calls' \in Nat, calls <= calls'
    PROVE  Lists'
<1>1. \A x \in Request : Writing(x)' => Writing(x) /\ request'[x] = request[x]
    BY DEF Moves, Writing, At
<1>2. \A x \in Request : At(x, "put")' =>
          At(x, "put") /\ Writing(x) /\ request'[x] = request[x]
    BY DEF Moves, Writing, At
<1>3. Written'
    <2>1. ASSUME NEW x \in Request, Writing(x)'
          PROVE  request'[x].call <= calls' /\ request'[x].seen <= calls'
        BY <1>1, <2>1 DEF Lists, Written, Shape, ListRequest
    <2>2. \A s \in Section : putBy[s] <= calls'
        BY DEF Lists, Written, Shape
    <2> QED
        BY <1>1, <2>1, <2>2 DEF Lists, Written
<1>4. Fresh'
    <2> SUFFICES ASSUME NEW x \in Request, Writing(x)'
                 PROVE  /\ \A s \in Section : putBy[s] # request'[x].call
                        /\ \A y \in Request \ {x} :
                            Writing(y)' => request'[y].call # request'[x].call
                        /\ \A y \in Request : At(y, "put")' =>
                            request'[y].seen # request'[x].call
        BY DEF Fresh
    <2> QED
        BY <1>1, <1>2 DEF Lists, Fresh
<1>5. AsRead'
    <2> SUFFICES ASSUME NEW x \in Request, At(x, "put")',
                        request'[x].section \in ListSection, ~request'[x].failed,
                        request'[x].seen = putBy[request'[x].section]
                 PROVE  request'[x].base = stored[request'[x].section].items
        BY DEF AsRead
    <2> QED
        BY <1>1, <1>2 DEF Lists, AsRead
<1>6. Numbered'
    <2>1. IdsDense'
        BY DEF Lists, Numbered, IdsDense
    <2>2. ASSUME NEW x \in Request, At(x, "put")',
                 request'[x].section \in NumberedSections \ shrunk
          PROVE  Dense(request'[x].base)
        BY <1>1, <1>2, <2>2 DEF Lists, Numbered
    <2> QED
        BY <2>1, <2>2 DEF Numbered, Dense
<1> QED
    BY <1>3, <1>4, <1>5, <1>6 DEF Lists

\* A request arrives with a call number of its own.
LEMMA SectionRequestKeeps ==
    ASSUME IInv, Lists, NEW r \in Request, SectionRequest(r)
    PROVE  Lists'
<1>1. PICK s \in Section, op \in ListOp, id \in 1..MaxId,
           body \in 1..MaxId, order \in Orders :
          /\ op \in {"create", "update"} \/ s \in ListSection
          /\ op = "reorder" => s \in NumberedSections
          /\ Arrive(r, [at |-> "access", op |-> op, section |-> s, id |-> id,
                        body |-> body, order |-> order, call |-> calls + 1,
                        base |-> << >>, seen |-> 0, failed |-> FALSE])
    BY SectionRequestArrives
<1> DEFINE q == [at |-> "access", op |-> op, section |-> s, id |-> id,
                 body |-> body, order |-> order, call |-> calls + 1,
                 base |-> << >>, seen |-> 0, failed |-> FALSE]
<1>2. calls \in Nat /\ calls' = calls + 1
    BY <1>1 DEF Arrive, IInv, Shape
<1>3. order \in Seq(1..MaxId)
    <2>1. PICK n \in 0..2 : order \in [1..n -> 1..MaxId]
        BY DEF Orders
    <2>2. n \in Nat
        OBVIOUS
    <2> DEFINE S == 1..MaxId
    <2>3. order \in [1..n -> S]
        BY <2>1
    <2> HIDE DEF S
    <2>4. order \in Seq(S)
        BY <2>2, <2>3
    <2> QED
        BY <2>4 DEF S
<1>4. q \in ListRequest
    BY <1>2, <1>3 DEF ListRequest
<1>5. Moves(r, "access") /\ request'[r] = q /\ ~At(r, "put")'
    BY <1>1 DEF Arrive, Moves, IInv, Shape, At
<1>6. UNCHANGED <<stored, putBy, shrunk>>
    BY <1>1 DEF Arrive, ghosts
<1> HIDE DEF q
<1>7. \A x \in Request \ {r} :
          /\ Writing(x)' <=> Writing(x)
          /\ At(x, "put")' <=> At(x, "put")
          /\ request'[x] = request[x]
    BY <1>5 DEF Moves, Writing, At
<1>8. Written'
    <2>1. ASSUME NEW x \in Request, x # r, Writing(x)
          PROVE  /\ request[x] \in ListRequest
                 /\ request[x].call <= calls' /\ request[x].seen <= calls'
        BY <1>2, <2>1 DEF Lists, Written, ListRequest
    <2>2. ASSUME NEW t \in Section PROVE putBy[t] <= calls'
        BY <1>2 DEF Lists, Written
    <2>3. /\ q.call <= calls' /\ q.seen = 0 /\ q.base = << >> /\ 0 <= calls'
          /\ q.at = "access"
          /\ (q.section \in ListSection \/ q.op \in {"create", "update"})
          /\ q.op = "reorder" => q.section \in NumberedSections
        BY <1>1, <1>2 DEF q
    <2> QED
        BY <1>4, <1>5, <1>6, <1>7, <2>1, <2>2, <2>3 DEF Lists, Written
<1>9. Fresh'
    <2>1. q.call = calls + 1
        BY DEF q
    <2>2. ASSUME NEW t \in Section PROVE putBy[t] # q.call
        BY <1>2, <2>1 DEF Lists, Written
    <2>3. ASSUME NEW x \in Request, Writing(x) PROVE request[x].call # q.call
        BY <1>2, <2>1, <2>3 DEF Lists, Written, ListRequest
    <2>4. ASSUME NEW x \in Request, At(x, "put") PROVE request[x].seen # q.call
        <3>1. request[x].seen \in Nat /\ request[x].seen <= calls
            BY <2>4 DEF Lists, Written, ListRequest, Writing
        <3> QED
            BY <1>2, <2>1, <3>1
    <2> QED
        BY <1>5, <1>6, <1>7, <2>2, <2>3, <2>4 DEF Lists, Fresh, Writing
<1>10. AsRead' /\ Numbered'
    BY <1>5, <1>6, <1>7 DEF Lists, AsRead, Numbered, IdsDense
<1> QED
    BY <1>8, <1>9, <1>10 DEF Lists

\* A request that goes on with what it was sent, and with what it has read.
LEMMA OnwardStep ==
    ASSUME Shape, Lists, NEW r \in Request, NEW step, Moves(r, step),
           Writing(r), Writing(r)', UNCHANGED <<stored, putBy, shrunk, calls>>,
           request'[r] \in ListRequest,
           request'[r].call = request[r].call,
           request'[r].section = request[r].section,
           request'[r].op = request[r].op,
           request'[r].seen \in {0, putBy[request[r].section]},
           step = "read" => request[r].section \in ListSection,
           step # "put" => request'[r].seen = 0 /\ request'[r].base = << >>,
           step = "put" /\ request[r].section \in ListSection =>
               /\ ~request'[r].failed =>
                      request'[r].base = stored[request[r].section].items
               /\ request[r].section \in NumberedSections \ shrunk =>
                      Dense(request'[r].base)
    PROVE  Lists'
<1> DEFINE s == request[r].section
<1>1. /\ s \in Section /\ request[r] \in ListRequest
      /\ putBy[s] \in Nat /\ putBy[s] <= calls /\ calls \in Nat
    BY DEF Lists, Written, ListRequest, Shape
<1>2. ASSUME NEW x \in Request, x # r
      PROVE  /\ Writing(x)' <=> Writing(x)
             /\ At(x, "put")' <=> At(x, "put")
             /\ request'[x] = request[x]
    BY <1>2 DEF Moves, Writing, At
<1>3. At(r, "put")' <=> step = "put"
    BY DEF Moves, At
<1>4. Written'
    <2>1. ASSUME NEW x \in Request, Writing(x)'
          PROVE  /\ request'[x] \in ListRequest
                 /\ request'[x].call <= calls /\ request'[x].seen <= calls
                 /\ request'[x].at # "put" =>
                        request'[x].seen = 0 /\ request'[x].base = << >>
                 /\ request'[x].at = "read" => request'[x].section \in ListSection
                 /\ \/ request'[x].section \in ListSection
                    \/ request'[x].op \in {"create", "update"}
                 /\ request'[x].op = "reorder" =>
                        request'[x].section \in NumberedSections
        <3>1. CASE x = r
            BY <1>1, <3>1 DEF Lists, Written, Moves
        <3>2. CASE x # r
            BY <1>2, <2>1, <3>2 DEF Lists, Written
        <3> QED
            BY <3>1, <3>2
    <2>2. /\ putBy' \in [Section -> Nat]
          /\ \A t \in Section : putBy'[t] <= calls'
        BY DEF Lists, Written
    <2>3. ASSUME NEW t \in ListSection
          PROVE  /\ stored'[t].items \in Seq(Row)
                 /\ stored'[t].kind # "list" => stored'[t].items = << >>
        BY DEF Lists, Written
    <2> QED
        BY <2>1, <2>2, <2>3 DEF Written
<1>5. Fresh'
    <2> SUFFICES ASSUME NEW x \in Request, Writing(x)'
                 PROVE  /\ \A t \in Section : putBy[t] # request'[x].call
                        /\ \A y \in Request \ {x} :
                            Writing(y)' => request'[y].call # request'[x].call
                        /\ \A y \in Request : At(y, "put")' =>
                            request'[y].seen # request'[x].call
        BY DEF Fresh
    <2>1. Writing(x) /\ request'[x].call = request[x].call
        BY <1>2
    <2>2. request[x].call # 0 /\ \A t \in Section : putBy[t] # request[x].call
        BY <2>1 DEF Lists, Fresh, Written, ListRequest
    <2>3. ASSUME NEW y \in Request \ {x}, Writing(y)'
          PROVE  request'[y].call # request'[x].call
        <3>1. Writing(y) /\ request'[y].call = request[y].call
            BY <1>2, <2>3
        <3> QED
            BY <2>1, <3>1 DEF Lists, Fresh
    <2>4. ASSUME NEW y \in Request, At(y, "put")'
          PROVE  request'[y].seen # request'[x].call
        <3>1. CASE y = r
            BY <1>1, <2>1, <2>2, <3>1
        <3>2. CASE y # r
            BY <1>2, <2>1, <2>4, <3>2 DEF Lists, Fresh
        <3> QED
            BY <3>1, <3>2
    <2> QED
        BY <2>1, <2>2, <2>3, <2>4
<1>6. AsRead'
    <2> SUFFICES ASSUME NEW x \in Request, At(x, "put")',
                        request'[x].section \in ListSection, ~request'[x].failed,
                        request'[x].seen = putBy[request'[x].section]
                 PROVE  request'[x].base = stored[request'[x].section].items
        BY DEF AsRead
    <2>1. CASE x = r
        BY <1>3, <2>1
    <2>2. CASE x # r
        BY <1>2, <2>2 DEF Lists, AsRead
    <2> QED
        BY <2>1, <2>2
<1>7. Numbered'
    <2>1. IdsDense'
        BY DEF Lists, Numbered, IdsDense
    <2>2. ASSUME NEW x \in Request, At(x, "put")',
                 request'[x].section \in NumberedSections \ shrunk
          PROVE  Dense(request'[x].base)
        <3>1. CASE x = r
            BY <1>3, <2>2, <3>1 DEF ListSection
        <3>2. CASE x # r
            BY <1>2, <2>2, <3>2 DEF Lists, Numbered
        <3> QED
            BY <3>1, <3>2
    <2> QED
        BY <2>1, <2>2 DEF Numbered, Dense
<1> QED
    BY <1>4, <1>5, <1>6, <1>7 DEF Lists

LEMMA EmptyIsDense == << >> \in Seq(Row) /\ Dense(<< >>)
<1>1. 1..0 = {} /\ Len(<< >>) = 0 /\ DOMAIN << >> = {}
    OBVIOUS
<1> QED
    BY <1>1 DEF Dense, Ids

LEMMA AccessKeeps ==
    ASSUME IInv, Lists, NEW r \in Request, Access(r)
    PROVE  Lists'
<1> DEFINE next == AfterAccess(request[r])
<1>1. At(r, "access") /\ UNCHANGED <<stored, putBy, shrunk, calls>> /\ calls \in Nat
    BY DEF Access, ghosts, IInv, Shape
<1>2. CASE ~record
    <2>1. Moves(r, "idle") /\ ~Writing(r)'
        BY <1>2, EndMoves DEF IInv, Access, Moves, Writing, At
    <2> QED
        BY <1>1, <2>1, AsideStep DEF IInv
<1>3. CASE record /\ request[r].op \in DeviceOp \ {"connect"}
    <2>1. next \in {"readWhole", "readBackup", "deleteBackup", "deleteRecord"}
        <3>1. request[r].op \in {"backup", "restore", "forget", "remove"}
            BY <1>3 DEF DeviceOp
        <3>2. request[r].op \notin ListOp
            BY <3>1 DEF ListOp
        <3> QED
            BY <3>1, <3>2 DEF AfterAccess
    <2>2. Moves(r, next) /\ ~Writing(r)'
        <3>1. /\ request' = [request EXCEPT ![r].at = next]
              /\ "at" \in DOMAIN request[r]
            BY <1>3 DEF Access, IInv, Shape, RecordOK
        <3> HIDE DEF next
        <3> QED
            BY <2>1, <3>1 DEF IInv, Shape, Moves, Writing, At
    <2> QED
        BY <1>1, <2>2, AsideStep DEF IInv
<1>4. CASE record /\ request[r].op \notin DeviceOp \ {"connect"}
    <2>1. /\ Writing(r) /\ request[r] \in ListRequest
          /\ request[r].seen = 0 /\ request[r].base = << >>
        BY <1>1, <1>4 DEF Writing, Lists, Written, At
    <2>2. next = IF request[r].section \in ReplacedSections THEN "put" ELSE "read"
        <3>1. request[r].op \in ListOp
            BY <2>1 DEF ListRequest
        <3> QED
            BY <1>4, <3>1 DEF AfterAccess, DeviceOp
    <2>3. /\ Moves(r, next) /\ Writing(r)'
          /\ request'[r] = [request[r] EXCEPT !.at = next]
          /\ request'[r] \in ListRequest
        <3>1. request' = [request EXCEPT ![r].at = next]
            BY <1>4 DEF Access
        <3> HIDE DEF next
        <3>2. request'[r] = [request[r] EXCEPT !.at = next]
            BY <3>1 DEF IInv, Shape
        <3>3. next \in {"put", "read"}
            BY <2>2
        <3>4. request'[r] \in ListRequest /\ request'[r].at = next
            BY <2>1, <3>2, <3>3 DEF ListRequest
        <3> QED
            BY <3>1, <3>2, <3>3, <3>4 DEF IInv, Shape, Moves, Writing, At
    <2>4. /\ next = "put" => request[r].section \notin ListSection
          /\ next = "read" => request[r].section \in ListSection
        BY <2>1, <2>2, SectionsAssumption DEF ListSection, Section, ListRequest
    <2>5. /\ request'[r].call = request[r].call
          /\ request'[r].section = request[r].section
          /\ request'[r].op = request[r].op
          /\ request'[r].seen = 0 /\ request'[r].base = << >>
        <3> HIDE DEF next
        <3> QED
            BY <2>1, <2>3 DEF ListRequest
    <2> HIDE DEF next
    <2> QED
        BY <1>1, <2>1, <2>3, <2>4, <2>5, OnwardStep DEF IInv
<1> QED
    BY <1>2, <1>3, <1>4

LEMMA ReadListKeeps ==
    ASSUME IInv, Lists, NEW r \in Request, NEW ok \in BOOLEAN, ReadList(r, ok)
    PROVE  Lists'
<1> DEFINE q == request[r]
           s == request[r].section
<1>1. /\ Writing(r) /\ q.at = "read" /\ calls \in Nat
      /\ q \in ListRequest /\ q.seen = 0 /\ q.base = << >>
      /\ UNCHANGED <<stored, putBy, shrunk, calls>>
    BY DEF ReadList, ghosts, IInv, Shape, Lists, Written, Writing, At
<1>2. CASE End(r)
    <2>1. Moves(r, "idle") /\ ~Writing(r)'
        BY <1>2, EndMoves DEF IInv, Moves, Writing, At
    <2> QED
        BY <1>1, <2>1, AsideStep DEF IInv
<1>3. CASE ok /\ stored[s].kind = "list" /\
           request' = [request EXCEPT ![r].at = "put",
                           ![r].base = stored[s].items, ![r].seen = putBy[s]]
    <2>1. s \in Section /\ putBy[s] \in Nat
        BY <1>1 DEF ListRequest, Lists, Written
    <2>2. request'[r] = [q EXCEPT !.at = "put", !.base = stored[s].items,
                                  !.seen = putBy[s]]
        BY <1>3 DEF IInv, Shape
    <2>3. s \in ListSection /\ stored[s].items \in Seq(Row)
        BY <1>1 DEF Lists, Written
    <2>4. /\ request'[r] \in ListRequest /\ request'[r].at = "put"
          /\ request'[r].call = q.call /\ request'[r].section = s
          /\ request'[r].op = q.op /\ request'[r].base = stored[s].items
          /\ request'[r].seen = putBy[s]
        BY <1>1, <2>1, <2>2, <2>3 DEF ListRequest
    <2>5. Moves(r, "put") /\ Writing(r)'
        BY <1>3, <2>4 DEF IInv, Shape, Moves, Writing, At
    <2>6. s \in NumberedSections \ shrunk => Dense(stored[s].items)
        BY DEF Lists, Numbered, IdsDense, Dense
    <2> QED
        BY <1>1, <2>4, <2>5, <2>6, OnwardStep DEF IInv
<1>4. CASE ~(ok /\ stored[s].kind = "list") /\
           request' = [request EXCEPT ![r].at = "put", ![r].seen = putBy[s],
                                      ![r].failed = ~ok]
    <2>1. s \in Section /\ putBy[s] \in Nat /\ s \in ListSection
        BY <1>1 DEF ListRequest, Lists, Written
    <2>2. request'[r] = [q EXCEPT !.at = "put", !.seen = putBy[s],
                                  !.failed = ~ok]
        BY <1>4 DEF IInv, Shape
    <2>3. (~ok) \in BOOLEAN
        OBVIOUS
    <2>4. /\ request'[r] \in ListRequest /\ request'[r].at = "put"
          /\ request'[r].call = q.call /\ request'[r].section = s
          /\ request'[r].op = q.op /\ request'[r].base = << >>
          /\ request'[r].seen = putBy[s] /\ request'[r].failed = ~ok
        BY <1>1, <2>1, <2>2, <2>3 DEF ListRequest
    <2>5. Moves(r, "put") /\ Writing(r)'
        BY <1>4, <2>4 DEF IInv, Shape, Moves, Writing, At
    <2>6. ok => stored[s].items = << >>
        BY <1>4, <2>1 DEF Lists, Written
    <2> QED
        BY <1>1, <2>4, <2>5, <2>6, EmptyIsDense, OnwardStep DEF IInv
<1> QED
    BY <1>2, <1>3, <1>4 DEF ReadList

-----------------------------------------------------------------------------
(* What a put makes of the list it read. *)

\* An update puts its entry in the place of the first with that id.
LEMMA UpdatedList ==
    ASSUME NEW q \in ListRequest
    PROVE  /\ Updated(q) \in Seq(Row) /\ DOMAIN Updated(q) = DOMAIN q.base
           /\ Len(Updated(q)) = Len(q.base)
           /\ \A i \in DOMAIN q.base :
                /\ q.section \in NumberedSections =>
                       Updated(q)[i].id = q.base[i].id
                /\ \/ Updated(q)[i] = q.base[i]
                   \/ q.base[i].id = q.id /\ Updated(q)[i].by = q.call
<1>1. /\ q.base \in Seq(Row) /\ q.id \in Nat /\ q.body \in Nat
      /\ q.call \in Nat
    BY DEF ListRequest
<1>2. CASE q.id \notin Ids(q.base)
    BY <1>1, <1>2 DEF Updated
<1>3. CASE q.id \in Ids(q.base)
    <2> DEFINE f == FirstWith(q.base, q.id)
               e == UpdatedEntry(q)
    <2>1. f \in DOMAIN q.base /\ q.base[f].id = q.id
        <3>1. PICK i \in DOMAIN q.base : q.base[i].id = q.id
            BY <1>3 DEF Ids
        <3> QED
            BY <1>1, <3>1, FirstIsThere
    <2>2. Updated(q) = [q.base EXCEPT ![f] = e]
        BY <1>3 DEF Updated
    <2>3. /\ e \in Row /\ e.by = q.call
          /\ q.section \in NumberedSections => e.id = q.id
        BY <1>1 DEF Row, UpdatedEntry
    <2> HIDE DEF f, e
    <2>4. /\ Updated(q) \in Seq(Row) /\ DOMAIN Updated(q) = DOMAIN q.base
          /\ Len(Updated(q)) = Len(q.base)
        BY <1>1, <2>1, <2>2, <2>3
    <2>5. \A i \in DOMAIN q.base :
              Updated(q)[i] = IF i = f THEN e ELSE q.base[i]
        BY <1>1, <2>1, <2>2
    <2> QED
        BY <2>1, <2>3, <2>4, <2>5
<1> QED
    BY <1>2, <1>3

\* The ids of an order that are in the list.
Known(q) ==
    Only(q.order, {k \in DOMAIN q.order : q.order[k] \in Ids(q.base)})

LEMMA ReorderedList ==
    ASSUME NEW q \in ListRequest
    PROVE  /\ Reordered(q) \in Seq(Row)
           /\ Len(Reordered(q)) = Len(Known(q))
           /\ DOMAIN Reordered(q) = DOMAIN Known(q)
           /\ \A k \in DOMAIN Known(q) :
                /\ Known(q)[k] \in Ids(q.base)
                /\ Reordered(q)[k] = q.base[FirstWith(q.base, Known(q)[k])]
                /\ FirstWith(q.base, Known(q)[k]) \in DOMAIN q.base
                /\ Reordered(q)[k].id = Known(q)[k]
           /\ \A k \in DOMAIN q.order : q.order[k] \in Ids(q.base) =>
                \E m \in DOMAIN Known(q) : Known(q)[m] = q.order[k]
<1> DEFINE K == {k \in DOMAIN q.order : q.order[k] \in Ids(q.base)}
<1>1. q.base \in Seq(Row) /\ q.order \in Seq(1..MaxId)
    BY DEF ListRequest
<1>2. /\ Known(q) \in Seq(1..MaxId)
      /\ \A m \in DOMAIN Known(q) : \E k \in K : Known(q)[m] = q.order[k]
      /\ \A k \in K : \E m \in DOMAIN Known(q) : Known(q)[m] = q.order[k]
    <2>1. K \in SUBSET DOMAIN q.order
        OBVIOUS
    <2> HIDE DEF K
    <2>2. Only(q.order, K) \in Seq(1..MaxId)
        BY <1>1, <2>1, OnlyKeeps
    <2>3. \A m \in DOMAIN Only(q.order, K) : \E k \in K : Only(q.order, K)[m] = q.order[k]
        BY <1>1, <2>1, OnlyKeeps
    <2>4. \A k \in K : \E m \in DOMAIN Only(q.order, K) : Only(q.order, K)[m] = q.order[k]
        BY <1>1, <2>1, OnlyKeeps
    <2> QED
        BY <2>2, <2>3, <2>4 DEF Known, K
<1>3. Reordered(q) = [k \in DOMAIN Known(q) |->
                          q.base[FirstWith(q.base, Known(q)[k])]]
    BY DEF Reordered, Known
<1>4. ASSUME NEW k \in DOMAIN Known(q)
      PROVE  /\ Known(q)[k] \in Ids(q.base)
             /\ FirstWith(q.base, Known(q)[k]) \in DOMAIN q.base
             /\ q.base[FirstWith(q.base, Known(q)[k])].id = Known(q)[k]
    <2>1. Known(q)[k] \in Ids(q.base)
        BY <1>2
    <2>2. PICK i \in DOMAIN q.base : q.base[i].id = Known(q)[k]
        BY <2>1 DEF Ids
    <2> QED
        BY <1>1, <2>1, <2>2, FirstIsThere
<1>5. /\ Reordered(q) \in Seq(Row) /\ Len(Reordered(q)) = Len(Known(q))
      /\ DOMAIN Reordered(q) = DOMAIN Known(q)
    <2>1. DOMAIN Known(q) = 1..Len(Known(q)) /\ Len(Known(q)) \in Nat
        BY <1>2
    <2>2. Reordered(q) \in [1..Len(Known(q)) -> Row]
        BY <1>1, <1>3, <1>4, <2>1
    <2> QED
        BY <2>1, <2>2
<1> QED
    BY <1>2, <1>3, <1>4, <1>5

\* The places of the entries another id than the request's is at.
OtherIds(q) == {i \in DOMAIN q.base : q.base[i].id # q.id}

LEMMA WrittenList ==
    ASSUME NEW q \in ListRequest, q.section \in ListSection
    PROVE  NewValue(q).kind = "list" /\ NewValue(q).items \in Seq(Row)
<1>1. /\ q.base \in Seq(Row) /\ q.id \in Nat /\ q.call \in Nat
      /\ Len(q.base) \in Nat /\ q.op \in ListOp
    BY DEF ListRequest
<1>2. q.section \notin ReplacedSections
    BY SectionsAssumption DEF ListSection
<1>3. CASE q.op = "create"
    <2> DEFINE n == IF q.section \in NumberedSections
                    THEN NextId(q.base) ELSE q.id
    <2>1. n \in Nat
        BY <1>1 DEF NextId
    <2>2. Created(q) = Append(q.base, [id |-> n, by |-> q.call])
        BY DEF Created
    <2> HIDE DEF n
    <2>3. Created(q) \in Seq(Row)
        BY <1>1, <2>1, <2>2 DEF Row
    <2> QED
        BY <1>2, <1>3, <2>3 DEF NewValue, List
<1>4. CASE q.op = "update"
    BY <1>2, <1>4, UpdatedList DEF NewValue, List
<1>5. CASE q.op = "delete"
    <2>1. OtherIds(q) \in SUBSET DOMAIN q.base
        BY DEF OtherIds
    <2>2. Deleted(q) \in Seq(Row)
        BY <1>1, <2>1, OnlyKeeps DEF Deleted, OtherIds
    <2> QED
        BY <1>2, <1>5, <2>2 DEF NewValue, List
<1>6. CASE q.op = "reorder"
    BY <1>2, <1>6, ReorderedList DEF NewValue, List
<1> QED
    BY <1>1, <1>3, <1>4, <1>5, <1>6 DEF ListOp

LEMMA SameIds ==
    ASSUME NEW s, NEW t, DOMAIN s = DOMAIN t,
           \A i \in DOMAIN s : s[i].id = t[i].id
    PROVE  Ids(s) = Ids(t)
    BY DEF Ids

\* A write that takes nothing out of a dense list leaves it dense.
LEMMA DenseKept ==
    ASSUME NEW q \in ListRequest, q.section \in NumberedSections,
           Dense(q.base), ~Shrinks(q)
    PROVE  Dense(NewValue(q).items)
<1> DEFINE n == Len(q.base)
<1>1. /\ q.base \in Seq(Row) /\ q.op \in ListOp /\ n \in Nat
      /\ DOMAIN q.base = 1..n /\ Ids(q.base) = 1..n
    BY DEF ListRequest, Dense
<1>2. q.section \notin ReplacedSections
    BY SectionsAssumption
<1>3. CASE q.op = "create"
    <2> DEFINE e == [id |-> n + 1, by |-> q.call]
    <2>1. Created(q) = Append(q.base, e) /\ e.id = n + 1
        BY DEF Created, NextId
    <2> HIDE DEF e
    <2>2. /\ DOMAIN Created(q) = 1..(n + 1) /\ Len(Created(q)) = n + 1
          /\ \A i \in 1..n : Created(q)[i] = q.base[i]
          /\ Created(q)[n + 1] = e
        BY <1>1, <2>1
    <2>3. Ids(Created(q)) = 1..(n + 1)
        <3>1. \A i \in 1..n : q.base[i].id \in 1..n
            BY <1>1 DEF Ids
        <3>2. \A k \in 1..n : \E i \in 1..n : q.base[i].id = k
            BY <1>1 DEF Ids
        <3>3. ASSUME NEW k \in 1..(n + 1)
              PROVE  \E i \in 1..(n + 1) : Created(q)[i].id = k
            <4>1. CASE k = n + 1
                BY <1>1, <2>1, <2>2, <4>1
            <4>2. CASE k \in 1..n
                <5>1. PICK i \in 1..n : q.base[i].id = k
                    BY <3>2, <4>2
                <5> QED
                    BY <1>1, <2>2, <5>1
            <4> QED
                BY <1>1, <4>1, <4>2
        <3>4. ASSUME NEW i \in 1..(n + 1) PROVE Created(q)[i].id \in 1..(n + 1)
            BY <1>1, <2>1, <2>2, <3>1
        <3> QED
            BY <2>2, <3>3, <3>4 DEF Ids
    <2> QED
        BY <1>2, <1>3, <2>2, <2>3 DEF NewValue, List, Dense
<1>4. CASE q.op = "update"
    <2>1. /\ DOMAIN Updated(q) = DOMAIN q.base /\ Len(Updated(q)) = n
          /\ \A i \in DOMAIN q.base : Updated(q)[i].id = q.base[i].id
        BY UpdatedList
    <2>2. Ids(Updated(q)) = Ids(q.base)
        BY <2>1, SameIds
    <2> QED
        BY <1>1, <1>2, <1>4, <2>1, <2>2 DEF NewValue, List, Dense
<1>5. CASE q.op = "delete"
    <2>1. OtherIds(q) = DOMAIN q.base
        BY <1>5 DEF Shrinks, OtherIds, Ids
    <2>2. Deleted(q) = q.base
        BY <1>1, <2>1, OnlyAll DEF Deleted, OtherIds
    <2> QED
        BY <1>1, <1>2, <1>5, <2>2 DEF NewValue, List, Dense
<1>6. CASE q.op = "reorder"
    <2>1. /\ q.order \in Seq(1..MaxId) /\ Len(q.order) = n
          /\ {q.order[k] : k \in DOMAIN q.order} = Ids(q.base)
        BY <1>6 DEF ListRequest, Shrinks
    <2>2. {k \in DOMAIN q.order : q.order[k] \in Ids(q.base)} = DOMAIN q.order
        BY <2>1
    <2>3. Known(q) = q.order
        BY <2>1, <2>2, OnlyAll DEF Known
    <2>4. /\ Len(Reordered(q)) = n /\ DOMAIN Reordered(q) = DOMAIN q.order
          /\ \A k \in DOMAIN q.order : Reordered(q)[k].id = q.order[k]
        BY <2>1, <2>3, ReorderedList
    <2>5. Ids(Reordered(q)) = Ids(q.base)
        BY <2>1, <2>4 DEF Ids
    <2> QED
        BY <1>1, <1>2, <1>6, <2>4, <2>5 DEF NewValue, List, Dense
<1> QED
    BY <1>1, <1>3, <1>4, <1>5, <1>6 DEF ListOp

-----------------------------------------------------------------------------
(* The put, and the steps that write no section. *)

LEMMA PutKeeps ==
    ASSUME IInv, Lists, NEW r \in Request, Put(r)
    PROVE  Lists'
<1> DEFINE q == request[r]
           s == request[r].section
<1>1. /\ Writing(r) /\ q \in ListRequest /\ s \in Section
      /\ q.call \in Nat /\ q.call <= calls /\ calls' = calls
      /\ q.op = "reorder" => s \in NumberedSections
    BY DEF Put, At, Writing, Lists, Written, ListRequest
<1>2. /\ Moves(r, "push") /\ ~Writing(r)'
      /\ \A x \in Request : Writing(x)' =>
             Writing(x) /\ request'[x] = request[x] /\ x # r
      /\ \A x \in Request : At(x, "put")' => At(x, "put") /\ Writing(x)'
    BY DEF Put, IInv, Shape, Moves, Writing, At
<1>3. /\ stored'[s] = NewValue(q) /\ putBy'[s] = q.call
      /\ \A t \in Section : t # s =>
             stored'[t] = stored[t] /\ putBy'[t] = putBy[t]
      /\ putBy' \in [Section -> Nat]
    BY <1>1 DEF Put, IInv, Shape, Lists, Written
<1>4. /\ shrunk \subseteq shrunk'
      /\ s \in ListSection /\ Shrinks(q) => s \in shrunk'
    BY DEF Put
<1>5. Written'
    <2>1. ASSUME NEW t \in ListSection
          PROVE  /\ stored'[t].items \in Seq(Row)
                 /\ stored'[t].kind # "list" => stored'[t].items = << >>
        <3>1. CASE t = s
            BY <1>1, <1>3, <3>1, WrittenList
        <3>2. CASE t # s
            BY <1>3, <3>2 DEF Lists, Written, ListSection, Section
        <3> QED
            BY <3>1, <3>2
    <2>2. \A t \in Section : putBy'[t] <= calls'
        BY <1>1, <1>3 DEF Lists, Written
    <2>3. ASSUME NEW x \in Request, Writing(x)'
          PROVE  Writing(x) /\ request'[x] = request[x] /\ calls' = calls
        BY <1>1, <1>2, <2>3
    <2> QED
        BY <1>3, <2>1, <2>2, <2>3 DEF Lists, Written
<1>6. Fresh'
    <2> SUFFICES ASSUME NEW x \in Request, Writing(x)'
                 PROVE  /\ \A t \in Section : putBy'[t] # request'[x].call
                        /\ \A y \in Request \ {x} :
                            Writing(y)' => request'[y].call # request'[x].call
                        /\ \A y \in Request : At(y, "put")' =>
                            request'[y].seen # request'[x].call
        BY DEF Fresh
    <2>1. Writing(x) /\ request'[x] = request[x] /\ x # r
        BY <1>2
    <2>2. request[x].call # q.call
        BY <1>1, <2>1 DEF Lists, Fresh
    <2>3. \A t \in Section : putBy'[t] # request[x].call
        BY <1>3, <2>1, <2>2 DEF Lists, Fresh
    <2>4. ASSUME NEW y \in Request \ {x}, Writing(y)'
          PROVE  request'[y].call # request[x].call
        BY <1>2, <2>1, <2>4 DEF Lists, Fresh
    <2>5. ASSUME NEW y \in Request, At(y, "put")'
          PROVE  request'[y].seen # request[x].call
        <3>1. At(y, "put") /\ request'[y] = request[y]
            BY <1>2, <2>5
        <3> QED
            BY <2>1, <3>1 DEF Lists, Fresh
    <2> QED
        BY <2>1, <2>3, <2>4, <2>5
<1>7. AsRead'
    <2> SUFFICES ASSUME NEW x \in Request, At(x, "put")',
                        request'[x].section \in ListSection, ~request'[x].failed,
                        request'[x].seen = putBy'[request'[x].section]
                 PROVE  request'[x].base = stored'[request'[x].section].items
        BY DEF AsRead
    <2>1. At(x, "put") /\ Writing(x) /\ request'[x] = request[x]
        BY <1>2
    <2>2. request[x].section # s
        BY <1>1, <1>3, <2>1 DEF Lists, Fresh
    <2>3. request[x].section \in Section
        BY <2>1 DEF ListSection, Section
    <2> QED
        BY <1>3, <2>1, <2>2, <2>3 DEF Lists, AsRead
<1>8. Numbered'
    <2>1. ASSUME NEW t \in NumberedSections \ shrunk'
          PROVE  Dense(stored'[t].items)
        <3>1. t \notin shrunk /\ t \in Section /\ t \in ListSection
            BY <1>4 DEF ListSection, Section
        <3>2. CASE t = s
            <4>1. ~Shrinks(q)
                BY <1>4, <3>1, <3>2
            <4>2. Dense(q.base)
                BY <3>1, <3>2 DEF Lists, Numbered, Put
            <4> QED
                BY <1>1, <1>3, <3>2, <4>1, <4>2, DenseKept
        <3>3. CASE t # s
            BY <1>3, <3>1, <3>3 DEF Lists, Numbered, IdsDense, Dense
        <3> QED
            BY <3>2, <3>3
    <2>2. ASSUME NEW x \in Request, At(x, "put")',
                 request'[x].section \in NumberedSections \ shrunk'
          PROVE  Dense(request'[x].base)
        BY <1>2, <1>4, <2>2 DEF Lists, Numbered
    <2> QED
        BY <2>1, <2>2 DEF Numbered, IdsDense, Dense
<1> QED
    BY <1>5, <1>6, <1>7, <1>8 DEF Lists

LEMMA DeviceRequestKeeps ==
    ASSUME IInv, Lists, NEW r \in Request, DeviceRequest(r)
    PROVE  Lists'
<1>1. PICK op \in DeviceOp :
        \E b \in IF op \in {"restore", "forget"} THEN 1..calls ELSE {0} :
          Arrive(r, [at |-> IF op = "connect" THEN "key" ELSE "access",
                     op |-> op, section |-> "none", backup |-> b,
                     call |-> calls + 1, value |-> NoValue])
    BY DEF DeviceRequest
<1>2. PICK b \in IF op \in {"restore", "forget"} THEN 1..calls ELSE {0} :
          Arrive(r, [at |-> IF op = "connect" THEN "key" ELSE "access",
                     op |-> op, section |-> "none", backup |-> b,
                     call |-> calls + 1, value |-> NoValue])
    BY <1>1
<1> DEFINE step == IF op = "connect" THEN "key" ELSE "access"
<1>3. request' = [request EXCEPT ![r] =
          [at |-> step, op |-> op, section |-> "none", backup |-> b,
           call |-> calls + 1, value |-> NoValue]]
    BY <1>2 DEF Arrive
<1>4. Moves(r, step) /\ ~Writing(r)'
    BY <1>3 DEF IInv, Shape, Moves, Writing, At, DeviceOp
<1>5. calls \in Nat /\ calls' \in Nat /\ calls <= calls'
    BY <1>2 DEF Arrive, IInv, Shape
<1>6. UNCHANGED <<stored, putBy, shrunk>>
    BY <1>2 DEF Arrive, ghosts
<1> HIDE DEF step
<1> QED
    BY <1>4, <1>5, <1>6, AsideStep DEF IInv

\* The other steps of a request: it is at none of the steps before a put, nor
\* does it get there.
LEMMA OtherKeeps ==
    ASSUME IInv, Lists, NEW r \in Request, NEW step, Moves(r, step),
           step \notin {"access", "read", "put"},
           UNCHANGED <<stored, putBy, shrunk, calls>>
    PROVE  Lists'
<1>1. ~Writing(r)'
    BY DEF Moves, Writing, At
<1>2. calls' \in Nat /\ calls <= calls'
    BY DEF IInv, Shape
<1> QED
    BY <1>1, <1>2, AsideStep DEF IInv

LEMMA NextKeepsLists ==
    ASSUME IInv, Lists, NEW r \in Request, NEW ok \in BOOLEAN,
           \/ Push(r, ok) \/ PushFull(r, ok)
           \/ ReadWhole(r) \/ PutBackup(r) \/ ReadBackup(r) \/ PutWhole(r)
           \/ DeleteBackup(r) \/ DeleteRecord(r)
           \/ LookUpKey(r) \/ LookUpEntry(r) \/ Upgrade(r) \/ Cut(r)
    PROVE  Lists'
<1>1. UNCHANGED <<stored, putBy, shrunk, calls>>
    BY DEF Push, PushFull, ReadWhole, PutBackup, ReadBackup, PutWhole,
           DeleteBackup, DeleteRecord, LookUpKey, LookUpEntry, Upgrade, Cut,
           ghosts
<1>2. CASE End(r)
    <2>1. Moves(r, "idle")
        BY <1>2, EndMoves DEF IInv
    <2> QED
        BY <1>1, <2>1, OtherKeeps
<1>3. CASE ~End(r)
    <2>1. PICK step \in {"putBackup", "putWhole", "pushFull", "entry", "upgrade"} :
              Moves(r, step)
        BY <1>3 DEF Push, PushFull, ReadWhole, PutBackup, ReadBackup, PutWhole,
           DeleteBackup, DeleteRecord, LookUpKey, LookUpEntry, Upgrade, Cut,
           IInv, Shape, RecordOK, Moves
    <2> QED
        BY <1>1, <2>1, OtherKeeps
<1> QED
    BY <1>2, <1>3

THEOREM ListsInvariance == Spec => []Lists
<1>1. Init => Lists
    BY InitLists
<1>2. IInv /\ Lists /\ [Next]_vars => Lists'
    <2> SUFFICES ASSUME IInv, Lists, [Next]_vars PROVE Lists'
        OBVIOUS
    <2>1. CASE UNCHANGED vars
        <3>1. UNCHANGED <<stored, putBy, shrunk, calls, request>>
            BY <2>1 DEF vars, ghosts
        <3> QED
            BY <3>1 DEF Lists, Written, Fresh, AsRead, Numbered, IdsDense,
                        Writing, At
    <2>2. CASE Next
        BY <2>2, SectionRequestKeeps, DeviceRequestKeeps, AccessKeeps,
           ReadListKeeps, PutKeeps, NextKeepsLists DEF Next
    <2> QED
        BY <2>1, <2>2
<1>3. Spec => []IInv
    BY Invariance
<1> QED
    BY <1>1, <1>2, <1>3, PTL DEF Spec

\* However requests overlap and fail, the ids of a numbered list that nothing
\* was taken out of are 1..n.
THEOREM NumbersAreDense == Spec => []IdsDense
<1>1. Lists => IdsDense
    BY DEF Lists, Numbered
<1> QED
    BY <1>1, ListsInvariance, PTL

-----------------------------------------------------------------------------
(* What a put leaves of the list. *)

\* A create adds behind the list, an update keeps to the places of its id, a
\* delete takes out those alone.
LEMMA OthersStay ==
    ASSUME NEW q \in ListRequest, q.section \in ListSection, q.op # "reorder"
    PROVE  Others(q, NewValue(q).items) = Others(q, q.base)
<1> DEFINE n == Len(q.base)
<1>1. /\ q.base \in Seq(Row) /\ q.op \in ListOp /\ n \in Nat
      /\ DOMAIN q.base = 1..n /\ q.id \in Nat /\ q.call \in Nat
    BY DEF ListRequest
<1>2. q.section \notin ReplacedSections
    BY SectionsAssumption DEF ListSection
<1>3. CASE q.op = "create"
    <2> DEFINE e == [id |-> IF q.section \in NumberedSections
                            THEN NextId(q.base) ELSE q.id,
                     by |-> q.call]
               new == Append(q.base, e)
               K == {i \in DOMAIN q.base : q.base[i].by # q.call}
    <2>1. NewValue(q).items = new
        BY <1>2, <1>3 DEF NewValue, List, Created
    <2>2. e.by = q.call
        OBVIOUS
    <2> HIDE DEF e
    <2>3. /\ DOMAIN new = 1..(n + 1) /\ new[n + 1] = e
          /\ \A i \in 1..n : new[i] = q.base[i]
        BY <1>1
    <2>4. {i \in DOMAIN new : new[i].by # q.call} = K
        <3>1. \A i \in 1..(n + 1) : i \in 1..n \/ i = n + 1
            BY <1>1
        <3>2. \A i \in 1..n : i \in 1..(n + 1)
            BY <1>1
        <3> HIDE DEF new
        <3> QED
            BY <1>1, <2>2, <2>3, <3>1, <3>2
    <2>5. K \in SUBSET (1..n) /\ \A i \in K : new[i] = q.base[i]
        BY <1>1, <2>3
    <2> HIDE DEF new, K
    <2>6. Only(new, K) = Only(q.base, K)
        BY <1>1, <2>5, OnlyAgrees
    <2>7. Others(q, new) = Only(new, K)
        BY <1>3, <2>4 DEF Others
    <2>8. Others(q, q.base) = Only(q.base, K)
        BY <1>3 DEF Others, K
    <2> QED
        BY <2>1, <2>6, <2>7, <2>8
<1>4. CASE q.op = "update"
    <2> DEFINE new == Updated(q)
               K == {i \in DOMAIN q.base : /\ q.base[i].by # q.call
                                           /\ q.base[i].id # q.id}
    <2>1. /\ DOMAIN new = DOMAIN q.base
          /\ \A i \in DOMAIN q.base :
                \/ new[i] = q.base[i]
                \/ q.base[i].id = q.id /\ new[i].by = q.call
        BY UpdatedList
    <2> HIDE DEF new
    <2>2. K \in SUBSET (1..n) /\ \A i \in K : new[i] = q.base[i]
        BY <1>1, <2>1
    <2>3. {i \in DOMAIN new : new[i].by # q.call /\ new[i].id # q.id} = K
        BY <2>1
    <2>4. Others(q, new) = Only(new, K)
        BY <1>4, <2>3 DEF Others
    <2>5. Others(q, q.base) = Only(q.base, K)
        BY <1>4 DEF Others
    <2> HIDE DEF K
    <2>6. Only(new, K) = Only(q.base, K)
        BY <1>1, <2>2, OnlyAgrees
    <2>7. NewValue(q).items = new
        BY <1>2, <1>4 DEF NewValue, List, new
    <2> QED
        BY <2>4, <2>5, <2>6, <2>7
<1>5. CASE q.op = "delete"
    <2> DEFINE K == OtherIds(q)
               left == Only(q.base, K)
    <2>1. K \in SUBSET DOMAIN q.base /\ \A i \in K : q.base[i].id # q.id
        BY DEF OtherIds
    <2>2. Deleted(q) = left /\ Others(q, q.base) = left
        BY <1>5 DEF Deleted, Others, OtherIds
    <2>3. NewValue(q).items = left
        BY <1>2, <1>5, <2>2 DEF NewValue, List
    <2> HIDE DEF K
    <2>4. left \in Seq(Row) /\ \A m \in DOMAIN left : left[m].id # q.id
        BY <1>1, <2>1, OnlyKeeps
    <2> HIDE DEF left
    <2>5. {m \in DOMAIN left : left[m].id # q.id} = DOMAIN left
        BY <2>4
    <2>6. Others(q, left) = Only(left, DOMAIN left)
        BY <1>5, <2>5 DEF Others
    <2> QED
        BY <2>2, <2>3, <2>4, <2>6, OnlyAll
<1> QED
    BY <1>1, <1>3, <1>4, <1>5 DEF ListOp

\* A reorder brings nothing, and loses only what its order leaves out or the
\* second of two of one id.
LEMMA ReorderLoses ==
    ASSUME NEW q \in ListRequest, q.section \in ListSection, q.op = "reorder"
    PROVE  LET new == NewValue(q).items
           IN  /\ \A k \in DOMAIN new :
                      \E i \in DOMAIN q.base : q.base[i] = new[k]
               /\ \A i \in DOMAIN q.base :
                   \/ \E k \in DOMAIN new : new[k] = q.base[i]
                   \/ \A k \in DOMAIN q.order : q.order[k] # q.base[i].id
                   \/ \E j \in 1..(i - 1) : q.base[j].id = q.base[i].id
<1>1. q.section \notin ReplacedSections
    BY SectionsAssumption DEF ListSection
<1>2. NewValue(q).items = Reordered(q)
    BY <1>1 DEF NewValue, List
<1>3. q.base \in Seq(Row) /\ DOMAIN q.base = 1..Len(q.base) /\ Len(q.base) \in Nat
    BY DEF ListRequest
<1>4. \A k \in DOMAIN Reordered(q) :
          \E i \in DOMAIN q.base : q.base[i] = Reordered(q)[k]
    BY ReorderedList
<1>5. ASSUME NEW i \in DOMAIN q.base,
             NEW k \in DOMAIN q.order, q.order[k] = q.base[i].id,
             ~ \E j \in 1..(i - 1) : q.base[j].id = q.base[i].id
      PROVE  \E m \in DOMAIN Reordered(q) : Reordered(q)[m] = q.base[i]
    <2>1. q.order[k] \in Ids(q.base)
        BY <1>5 DEF Ids
    <2>2. PICK m \in DOMAIN Known(q) : Known(q)[m] = q.order[k]
        BY <2>1, ReorderedList
    <2> DEFINE first == FirstWith(q.base, q.base[i].id)
    <2>3. first \in DOMAIN q.base /\ first <= i /\ q.base[first].id = q.base[i].id
        BY <1>3, FirstIsThere
    <2> HIDE DEF first
    <2>4. first = i
        BY <1>3, <1>5, <2>3
    <2>5. /\ Reordered(q)[m] = q.base[FirstWith(q.base, Known(q)[m])]
          /\ m \in DOMAIN Reordered(q)
        BY <2>2, ReorderedList
    <2> QED
        BY <1>5, <2>2, <2>4, <2>5 DEF first
<1> QED
    BY <1>2, <1>4, <1>5

\* Nothing but its own put takes a request from before its put to its push.
LEMMA OnlyPutPushes ==
    ASSUME IInv, Next, NEW r \in Request, At(r, "put"), request'[r].at = "push"
    PROVE  Put(r)
<1>1. PICK x \in Request, ok \in BOOLEAN :
          \/ SectionRequest(x) \/ DeviceRequest(x)
          \/ Access(x) \/ Put(x) \/ ReadList(x, ok) \/ Push(x, ok)
          \/ PushFull(x, ok) \/ ReadWhole(x) \/ PutBackup(x) \/ ReadBackup(x)
          \/ PutWhole(x) \/ DeleteBackup(x) \/ DeleteRecord(x)
          \/ LookUpKey(x) \/ LookUpEntry(x) \/ Upgrade(x) \/ Cut(x)
    BY DEF Next
<1>2. \E q : request' = [request EXCEPT ![x] = q]
    BY <1>1 DEF SectionRequest, DeviceRequest, Arrive, Access, Put, ReadList,
       Push, PushFull, ReadWhole, PutBackup, ReadBackup, PutWhole,
       DeleteBackup, DeleteRecord, LookUpKey, LookUpEntry, Upgrade, Cut, End
<1>3. x = r
    BY <1>2 DEF At
<1>4. ~Cut(r)
    BY DEF Cut, End, Idle, IInv, Shape
<1> QED
    BY <1>1, <1>3, <1>4 DEF SectionRequest, DeviceRequest, Arrive, Access,
       ReadList, Push, PushFull, ReadWhole, PutBackup, ReadBackup, PutWhole,
       DeleteBackup, DeleteRecord, LookUpKey, LookUpEntry, Upgrade, At

\* What a write takes out of the list it has read its request names, and what it
\* brings in its request has sent.
LEMMA WriteIsAsked ==
    ASSUME NEW q \in ListRequest, q.section \in ListSection
    PROVE  /\ \A e \in Entries(List(q.base)) \ Entries(NewValue(q)) : MayGo(q, e)
           /\ \A e \in Entries(NewValue(q)) \ Entries(List(q.base)) :
                  e.by = q.call
<1> DEFINE new == NewValue(q).items
           n == Len(q.base)
<1>1. /\ q.base \in Seq(Row) /\ q.op \in ListOp /\ n \in Nat
      /\ DOMAIN q.base = 1..n
    BY DEF ListRequest
<1>2. q.section \notin ReplacedSections
    BY SectionsAssumption DEF ListSection
<1> SUFFICES /\ \A i \in DOMAIN q.base :
                    \/ \E k \in DOMAIN new : new[k] = q.base[i]
                    \/ MayGo(q, q.base[i])
             /\ \A k \in DOMAIN new :
                    \/ \E i \in DOMAIN q.base : q.base[i] = new[k]
                    \/ new[k].by = q.call
    <2> HIDE DEF new
    <2>1. Entries(List(q.base)) = {q.base[i] : i \in DOMAIN q.base}
        BY DEF Entries, List
    <2>2. Entries(NewValue(q)) = {new[k] : k \in DOMAIN new}
        BY DEF Entries, new
    <2> QED
        BY <2>1, <2>2
<1>3. CASE q.op = "create"
    <2> DEFINE e == [id |-> IF q.section \in NumberedSections
                            THEN NextId(q.base) ELSE q.id,
                     by |-> q.call]
    <2>1. new = Append(q.base, e) /\ e.by = q.call
        BY <1>2, <1>3 DEF NewValue, List, Created
    <2> HIDE DEF e, new
    <2>2. /\ DOMAIN new = 1..(n + 1) /\ new[n + 1] = e
          /\ \A i \in 1..n : new[i] = q.base[i] /\ i \in 1..(n + 1)
        BY <1>1, <2>1
    <2>3. \A k \in 1..(n + 1) : k \in 1..n \/ k = n + 1
        BY <1>1
    <2> QED
        BY <1>1, <2>1, <2>2, <2>3
<1>4. CASE q.op = "update"
    <2>1. new = Updated(q)
        BY <1>2, <1>4 DEF NewValue, List
    <2> HIDE DEF new
    <2>2. /\ DOMAIN new = DOMAIN q.base
          /\ \A i \in DOMAIN q.base :
                \/ new[i] = q.base[i]
                \/ q.base[i].id = q.id /\ new[i].by = q.call
        BY <2>1, UpdatedList
    <2> QED
        BY <1>4, <2>2 DEF MayGo
<1>5. CASE q.op = "delete"
    <2>1. OtherIds(q) \in SUBSET DOMAIN q.base
        BY DEF OtherIds
    <2>2. new = Only(q.base, OtherIds(q))
        BY <1>2, <1>5 DEF NewValue, List, Deleted, OtherIds
    <2> HIDE DEF new
    <2>3. /\ \A m \in DOMAIN new :
                 Place(m, OtherIds(q)) \in OtherIds(q)
                 /\ new[m] = q.base[Place(m, OtherIds(q))]
          /\ \A i \in OtherIds(q) : \E m \in DOMAIN new : new[m] = q.base[i]
        BY <1>1, <2>1, <2>2, OnlyKeeps
    <2>4. \A i \in DOMAIN q.base : i \in OtherIds(q) \/ MayGo(q, q.base[i])
        BY <1>5 DEF OtherIds, MayGo
    <2> QED
        BY <2>1, <2>3, <2>4
<1>6. CASE q.op = "reorder"
    <2>1. /\ \A k \in DOMAIN new : \E i \in DOMAIN q.base : q.base[i] = new[k]
          /\ \A i \in DOMAIN q.base :
                \/ \E k \in DOMAIN new : new[k] = q.base[i]
                \/ \A k \in DOMAIN q.order : q.order[k] # q.base[i].id
                \/ \E j \in 1..(i - 1) : q.base[j].id = q.base[i].id
        BY <1>6, ReorderLoses
    <2> HIDE DEF new
    <2> QED
        BY <1>6, <2>1 DEF MayGo
<1> QED
    BY <1>1, <1>3, <1>4, <1>5, <1>6 DEF ListOp

-----------------------------------------------------------------------------
(* What a request has read and what is stored, until it writes.             *)

\* They differ in what others have changed.  Only a create is about to write
\* after a read that failed.
Current(r) ==
    LET q == request[r]
    IN  /\ At(r, "put") /\ q.section \in ListSection /\ ~q.failed =>
               Between(stored[q.section], List(q.base)) \subseteq changed[r]
        /\ Writing(r) /\ q.failed => At(r, "put") /\ q.op = "create"

InStep ==
    /\ changed = [r \in Request |-> changed[r]]
    /\ \A r \in Request : Current(r)

LEMMA InitInStep == Init => InStep
    BY DEF Init, InStep, Current, Writing, At, Idle

\* Two lists and what a write makes of one of them.
LEMMA BetweenGrows ==
    ASSUME NEW u, NEW v, NEW w
    PROVE  Between(v, w) \subseteq Between(u, v) \cup Between(u, w)
    BY DEF Between

LEMMA SameBetween ==
    ASSUME NEW v, NEW w, v.items = w.items
    PROVE  Between(v, w) = {}
    BY DEF Between, Entries

\* A request that stores nothing disturbs none of the others.
LEMMA CurrentStep ==
    ASSUME InStep, NEW r \in Request, NEW step, Moves(r, step),
           UNCHANGED stored,
           \/ UNCHANGED changed
           \/ changed' = [changed EXCEPT ![r] = {}],
           Current(r)'
    PROVE  InStep'
<1>1. /\ changed' = [x \in Request |-> changed'[x]]
      /\ \A x \in Request : x # r => changed'[x] = changed[x]
    BY DEF InStep
<1>2. ASSUME NEW x \in Request, x # r PROVE Current(x)'
    <2>1. request'[x] = request[x] /\ changed'[x] = changed[x]
        BY <1>1, <1>2 DEF Moves
    <2>2. Current(x)
        BY DEF InStep
    <2> QED
        BY <2>1, <2>2 DEF Current, Writing, At
<1> QED
    BY <1>1, <1>2 DEF InStep

\* A request that is not to write a section, or no longer.
LEMMA AsideInStep ==
    ASSUME InStep, NEW r \in Request, NEW step, Moves(r, step),
           ~Writing(r)', UNCHANGED stored,
           \/ UNCHANGED changed
           \/ changed' = [changed EXCEPT ![r] = {}]
    PROVE  InStep'
<1>1. Current(r)'
    BY DEF Current, Writing
<1> QED
    BY <1>1, CurrentStep

LEMMA AccessInStep ==
    ASSUME IInv, Lists, InStep, NEW r \in Request, Access(r)
    PROVE  InStep'
<1> DEFINE next == AfterAccess(request[r])
<1>1. At(r, "access") /\ UNCHANGED <<stored, changed>>
    BY DEF Access, ghosts
<1>2. CASE ~record
    <2>1. Moves(r, "idle") /\ ~Writing(r)'
        BY <1>2, EndMoves DEF IInv, Access, Moves, Writing, At
    <2> QED
        BY <1>1, <2>1, AsideInStep
<1>3. CASE record
    <2>1. /\ request' = [request EXCEPT ![r].at = next]
          /\ "at" \in DOMAIN request[r]
        BY <1>3 DEF Access, IInv, Shape, RecordOK
    <2> HIDE DEF next
    <2>2. /\ Moves(r, next)
          /\ request'[r] = [request[r] EXCEPT !.at = next]
        BY <2>1 DEF IInv, Shape, Moves
    <2>3. CASE request[r].op \in DeviceOp \ {"connect"}
        <3>1. next \in {"readWhole", "readBackup", "deleteBackup", "deleteRecord"}
            <4>1. /\ request[r].op \in {"backup", "restore", "forget", "remove"}
                  /\ request[r].op \notin ListOp
                BY <2>3 DEF DeviceOp, ListOp
            <4> QED
                BY <4>1 DEF AfterAccess, next
        <3>2. ~Writing(r)'
            BY <2>2, <3>1 DEF Moves, Writing, At
        <3> QED
            BY <1>1, <2>2, <3>2, AsideInStep
    <2>4. CASE request[r].op \notin DeviceOp \ {"connect"}
        <3>1. /\ Writing(r) /\ request[r] \in ListRequest
              /\ request[r].section \in ListSection
                    => request[r].section \notin ReplacedSections
            BY <1>1, <2>4, SectionsAssumption
               DEF Writing, Lists, Written, At, ListSection
        <3>2. ~request[r].failed
            BY <1>1, <3>1 DEF InStep, Current, At
        <3>3. request[r].section \in ListSection => next = "read"
            <4>1. request[r].op \in ListOp
                BY <3>1 DEF ListRequest
            <4> QED
                BY <2>4, <3>1, <4>1 DEF AfterAccess, DeviceOp, next
        <3>4. /\ request'[r].section = request[r].section
              /\ request'[r].failed = request[r].failed
              /\ request'[r].at = next
            BY <2>2, <3>1 DEF ListRequest
        <3>5. Current(r)'
            BY <3>2, <3>3, <3>4 DEF Current, At
        <3> QED
            BY <1>1, <2>2, <3>5, CurrentStep
    <2> QED
        BY <2>3, <2>4
<1> QED
    BY <1>2, <1>3

\* What is read well is what is stored.
LEMMA ReadListInStep ==
    ASSUME IInv, Lists, InStep, NEW r \in Request, NEW ok \in BOOLEAN,
           ReadList(r, ok)
    PROVE  InStep'
<1> DEFINE q == request[r]
           s == request[r].section
<1>1. /\ Writing(r) /\ q.at = "read" /\ q \in ListRequest /\ q.base = << >>
      /\ s \in ListSection /\ UNCHANGED <<stored, changed>>
    BY DEF ReadList, ghosts, Lists, Written, Writing, At
<1>2. ~q.failed
    BY <1>1 DEF InStep, Current, At
<1>3. CASE End(r)
    <2>1. Moves(r, "idle") /\ ~Writing(r)'
        BY <1>3, EndMoves DEF IInv, Moves, Writing, At
    <2> QED
        BY <1>1, <2>1, AsideInStep
<1>4. CASE ok /\ stored[s].kind = "list" /\
           request' = [request EXCEPT ![r].at = "put",
                           ![r].base = stored[s].items, ![r].seen = putBy[s]]
    <2>1. request'[r] = [q EXCEPT !.at = "put", !.base = stored[s].items,
                                  !.seen = putBy[s]]
        BY <1>4 DEF IInv, Shape
    <2>2. /\ request'[r].at = "put" /\ request'[r].section = s
          /\ request'[r].base = stored[s].items /\ ~request'[r].failed
        BY <1>1, <1>2, <2>1 DEF ListRequest
    <2>3. Moves(r, "put")
        BY <1>4, <2>2 DEF IInv, Shape, Moves
    <2>4. Between(stored[s], List(stored[s].items)) = {}
        BY SameBetween DEF List
    <2>5. Current(r)'
        BY <1>1, <2>2, <2>4 DEF Current, At
    <2> QED
        BY <1>1, <2>3, <2>5, CurrentStep
<1>5. CASE /\ ~(ok /\ stored[s].kind = "list") /\ q.op = "create"
           /\ request' = [request EXCEPT ![r].at = "put", ![r].seen = putBy[s],
                                         ![r].failed = ~ok]
    <2>1. request'[r] = [q EXCEPT !.at = "put", !.seen = putBy[s],
                                  !.failed = ~ok]
        BY <1>5 DEF IInv, Shape
    <2>2. /\ request'[r].at = "put" /\ request'[r].section = s
          /\ request'[r].op = "create"
          /\ request'[r].base = << >> /\ request'[r].failed = ~ok
        <3> DEFINE f == ~ok
        <3>1. request'[r] = [q EXCEPT !.at = "put", !.seen = putBy[s],
                                      !.failed = f]
            BY <2>1
        <3>2. q \in ListRequest /\ q.op = "create" /\ q.base = << >>
            BY <1>1, <1>5
        <3> HIDE DEF f, q
        <3>3. /\ request'[r].at = "put" /\ request'[r].section = q.section
              /\ request'[r].op = q.op
              /\ request'[r].base = q.base /\ request'[r].failed = f
            BY <3>1, <3>2 DEF ListRequest
        <3> QED
            BY <3>2, <3>3 DEF f, q
    <2>3. Moves(r, "put")
        BY <1>5, <2>2 DEF IInv, Shape, Moves
    <2>4. ok => stored[s].items = << >>
        BY <1>1, <1>5 DEF Lists, Written
    <2>5. ok => Between(stored[s], List(<< >>)) = {}
        BY <2>4, SameBetween DEF List
    <2>6. Current(r)'
        BY <1>1, <2>2, <2>5 DEF Current, At
    <2> QED
        BY <1>1, <2>3, <2>6, CurrentStep
<1> QED
    BY <1>3, <1>4, <1>5 DEF ReadList

\* What a put changes the others that have read the section are told.
LEMMA PutInStep ==
    ASSUME IInv, Lists, InStep, NEW r \in Request, Put(r)
    PROVE  InStep'
<1> DEFINE q == request[r]
           s == request[r].section
           new == NewValue(q)
<1>1. s \in Section
    BY DEF Put, At, Writing, Lists, Written, ListRequest
<1>2. Moves(r, "push") /\ ~Writing(r)'
    BY DEF Put, IInv, Shape, Moves, Writing, At
<1>3. stored'[s] = new /\ \A t \in Section : t # s => stored'[t] = stored[t]
    BY <1>1 DEF Put, IInv, Shape
<1>4. /\ changed' = [x \in Request |-> changed'[x]]
      /\ \A x \in Request \ {r} :
            changed'[x] = IF x \in Overtaken(r, s)
                          THEN changed[x] \cup Between(stored[s], new)
                          ELSE changed[x]
    BY DEF Put
<1> HIDE DEF new
<1>5. ASSUME NEW x \in Request, x # r PROVE Current(x)'
    <2> DEFINE t == request[x].section
    <2>1. request'[x] = request[x] /\ Current(x)
        BY <1>2, <1>5 DEF Moves, InStep
    <2>2. ASSUME At(x, "put"), t \in ListSection, ~request[x].failed
          PROVE  Between(stored'[t], List(request[x].base)) \subseteq changed'[x]
        <3>1. Between(stored[t], List(request[x].base)) \subseteq changed[x]
            BY <2>1, <2>2 DEF Current
        <3>2. CASE t = s
            <4>1. x \in Overtaken(r, s)
                BY <1>5, <2>2, <3>2 DEF Overtaken
            <4>2. changed'[x] = changed[x] \cup Between(stored[s], new)
                BY <1>4, <1>5, <4>1
            <4>3. Between(new, List(request[x].base)) \subseteq
                      Between(stored[s], new)
                      \cup Between(stored[s], List(request[x].base))
                BY BetweenGrows
            <4> QED
                BY <1>3, <3>1, <3>2, <4>2, <4>3
        <3>3. CASE t # s
            <4>1. changed'[x] = changed[x]
                BY <1>4, <1>5, <3>3 DEF Overtaken
            <4>2. t \in Section
                BY <2>2 DEF ListSection, Section
            <4> QED
                BY <1>3, <3>1, <3>3, <4>1, <4>2
        <3> QED
            BY <3>2, <3>3
    <2> QED
        BY <2>1, <2>2 DEF Current, Writing, At
<1>6. Current(r)'
    BY <1>2 DEF Current, Writing
<1> QED
    BY <1>4, <1>5, <1>6 DEF InStep

LEMMA ArriveInStep ==
    ASSUME IInv, Lists, InStep, NEW r \in Request,
           SectionRequest(r) \/ DeviceRequest(r)
    PROVE  InStep'
<1>1. CASE SectionRequest(r)
    <2>1. PICK s \in Section, op \in ListOp, id \in 1..MaxId,
               body \in 1..MaxId, order \in Orders :
              Arrive(r, [at |-> "access", op |-> op, section |-> s, id |-> id,
                         body |-> body, order |-> order, call |-> calls + 1,
                         base |-> << >>, seen |-> 0, failed |-> FALSE])
        BY <1>1, SectionRequestArrives
    <2>2. /\ Moves(r, "access") /\ ~request'[r].failed /\ ~At(r, "put")'
          /\ UNCHANGED <<stored, changed>>
        BY <2>1 DEF Arrive, Moves, IInv, Shape, At, ghosts
    <2>3. Current(r)'
        BY <2>2 DEF Current
    <2> QED
        BY <2>2, <2>3, CurrentStep
<1>2. CASE DeviceRequest(r)
    <2>1. PICK op \in DeviceOp :
            \E b \in IF op \in {"restore", "forget"} THEN 1..calls ELSE {0} :
              Arrive(r, [at |-> IF op = "connect" THEN "key" ELSE "access",
                         op |-> op, section |-> "none", backup |-> b,
                         call |-> calls + 1, value |-> NoValue])
        BY <1>2 DEF DeviceRequest
    <2>2. PICK b \in IF op \in {"restore", "forget"} THEN 1..calls ELSE {0} :
              Arrive(r, [at |-> IF op = "connect" THEN "key" ELSE "access",
                         op |-> op, section |-> "none", backup |-> b,
                         call |-> calls + 1, value |-> NoValue])
        BY <2>1
    <2> DEFINE step == IF op = "connect" THEN "key" ELSE "access"
    <2>3. request' = [request EXCEPT ![r] =
              [at |-> step, op |-> op, section |-> "none", backup |-> b,
               call |-> calls + 1, value |-> NoValue]]
        BY <2>2 DEF Arrive
    <2>4. Moves(r, step) /\ ~Writing(r)'
        BY <2>3 DEF IInv, Shape, Moves, Writing, At, DeviceOp
    <2>5. UNCHANGED <<stored, changed>>
        BY <2>2 DEF Arrive, ghosts
    <2> HIDE DEF step
    <2> QED
        BY <2>4, <2>5, AsideInStep
<1> QED
    BY <1>1, <1>2

LEMMA OthersInStep ==
    ASSUME IInv, InStep, NEW r \in Request, NEW ok \in BOOLEAN,
           \/ Push(r, ok) \/ PushFull(r, ok)
           \/ ReadWhole(r) \/ PutBackup(r) \/ ReadBackup(r) \/ PutWhole(r)
           \/ DeleteBackup(r) \/ DeleteRecord(r)
           \/ LookUpKey(r) \/ LookUpEntry(r) \/ Upgrade(r) \/ Cut(r)
    PROVE  InStep'
<1>1. /\ UNCHANGED stored
      /\ UNCHANGED changed \/ changed' = [changed EXCEPT ![r] = {}]
    BY DEF Push, PushFull, ReadWhole, PutBackup, ReadBackup, PutWhole,
           DeleteBackup, DeleteRecord, LookUpKey, LookUpEntry, Upgrade, Cut,
           ghosts
<1>2. PICK step \in {"idle", "putBackup", "putWhole", "pushFull", "entry",
                     "upgrade"} : Moves(r, step)
    <2>1. CASE End(r)
        BY <2>1, EndMoves DEF IInv
    <2>2. CASE ~End(r)
        BY <2>2 DEF Push, PushFull, ReadWhole, PutBackup, ReadBackup, PutWhole,
           DeleteBackup, DeleteRecord, LookUpKey, LookUpEntry, Upgrade, Cut,
           IInv, Shape, RecordOK, Moves
    <2> QED
        BY <2>1, <2>2
<1>3. ~Writing(r)'
    BY <1>2 DEF Moves, Writing, At
<1> QED
    BY <1>1, <1>2, <1>3, AsideInStep

LEMMA InStepInvariance == Spec => []InStep
<1>1. IInv /\ Lists /\ InStep /\ [Next]_vars => InStep'
    <2> SUFFICES ASSUME IInv, Lists, InStep, [Next]_vars PROVE InStep'
        OBVIOUS
    <2>1. CASE UNCHANGED vars
        <3>1. UNCHANGED <<stored, changed, request>>
            BY <2>1 DEF vars, ghosts
        <3> QED
            BY <3>1 DEF InStep, Current, Writing, At
    <2>2. CASE Next
        BY <2>2, ArriveInStep, AccessInStep, ReadListInStep, PutInStep,
           OthersInStep DEF Next
    <2> QED
        BY <2>1, <2>2
<1> QED
    BY <1>1, InitInStep, Invariance, ListsInvariance, PTL DEF Spec

\* Whatever overlaps it or fails, a write of a list loses nothing and brings
\* nothing besides what its request asks for and what others have changed since
\* its read (create_route, update_firewall_rule, delete_vlan,
\* reorder_firewall_rules and their like); only a create may lose the list, after
\* a read that failed.
THEOREM WritesAreNarrow == Spec => AskedOnly
<1> DEFINE Narrow(r) ==
        LET q == request[r]
            old == stored[q.section]
            new == stored'[q.section]
        IN  At(r, "put") /\ request'[r].at = "push" /\ q.section \in ListSection
            => IF q.failed THEN q.op = "create"
               ELSE /\ \A e \in Entries(old) \ Entries(new) :
                        e \in changed[r] \/ MayGo(q, e)
                    /\ \A e \in Entries(new) \ Entries(old) :
                        e \in changed[r] \/ e.by = q.call
                    /\ q.seen = putBy[q.section] /\ q.op # "reorder"
                        => Others(q, new.items) = Others(q, old.items)
<1>1. IInv /\ Lists /\ InStep /\ [Next]_vars
          => [\A r \in Request : Narrow(r)]_vars
    <2> SUFFICES ASSUME IInv, Lists, InStep, Next, NEW r \in Request,
                        At(r, "put"), request'[r].at = "push",
                        request[r].section \in ListSection
                 PROVE  Narrow(r)
        BY DEF vars
    <2> DEFINE q == request[r]
               old == stored[q.section]
               new == NewValue(q)
    <2>1. Put(r) /\ q \in ListRequest
        BY OnlyPutPushes DEF Lists, Written, Writing
    <2>2. stored'[q.section] = new
        BY <2>1 DEF Put, IInv, Shape, ListRequest
    <2>3. q.failed => q.op = "create"
        BY DEF InStep, Current, Writing
    <2>4. ASSUME ~q.failed
          PROVE  /\ \A e \in Entries(old) \ Entries(new) :
                        e \in changed[r] \/ MayGo(q, e)
                 /\ \A e \in Entries(new) \ Entries(old) :
                        e \in changed[r] \/ e.by = q.call
        <3>1. Between(old, List(q.base)) \subseteq changed[r]
            BY <2>4 DEF InStep, Current
        <3>2. /\ \A e \in Entries(List(q.base)) \ Entries(new) : MayGo(q, e)
              /\ \A e \in Entries(new) \ Entries(List(q.base)) : e.by = q.call
            BY <2>1, WriteIsAsked
        <3> HIDE DEF q, old, new
        <3> QED
            BY <3>1, <3>2 DEF Between
    <2>5. ASSUME ~q.failed, q.seen = putBy[q.section], q.op # "reorder"
          PROVE  Others(q, new.items) = Others(q, old.items)
        <3>1. q.base = old.items
            BY <2>5 DEF Lists, AsRead
        <3> QED
            BY <2>1, <2>5, <3>1, OthersStay
    <2> HIDE DEF new
    <2> QED
        BY <2>2, <2>3, <2>4, <2>5
<1> QED
    BY <1>1, Invariance, ListsInvariance, InStepInvariance, PTL
       DEF Spec, AskedOnly

-----------------------------------------------------------------------------
(* Types and sizes.  The entries of a list are bounded by the calls there   *)
(* have been: with the requests still to write counted (Pending), a list is *)
(* never longer than that, nor is one that was read (Sized).  An id given   *)
(* by length is then a call's number at most.                               *)

Config == [kind : {"absent", "list", "object"}, items : Seq(Entry)]

Pending == {r \in Request : Writing(r)}

Sized ==
    /\ calls <= MaxCalls
    /\ IsFiniteSet(Pending) /\ Cardinality(Pending) <= calls
    /\ \A s \in ListSection :
           Len(stored[s].items) + Cardinality(Pending) <= calls
    /\ \A r \in Pending :
           /\ Len(request[r].order) <= 2
           /\ Len(request[r].base) + Cardinality(Pending) <= calls

Typed ==
    /\ \A s \in Section : stored[s] \in Config /\ pushed[s] \in Config
    /\ \A r \in Request :
           /\ At(r, "push") => request[r].value \in Config
           /\ At(r, "put") => request[r].base \in Seq(Entry)

DeviceSteps == {"access", "key", "entry", "upgrade", "readWhole", "putBackup",
                "readBackup", "putWhole", "pushFull", "deleteBackup",
                "deleteRecord"}
DeviceCall == [at : DeviceSteps, op : DeviceOp, section : {"none"}, backup : Nat,
               call : Nat \ {0}, value : {NoValue, Empty}]

\* The requests about the device as a whole.
Asks(r) ==
    \/ request[r].at \in DeviceSteps \ {"access"}
    \/ At(r, "access") /\ request[r].op \in DeviceOp \ {"connect"}

\* No section is ever in what is backed up and restored.
Copies ==
    /\ whole \in {NoValue, Empty}
    /\ \A c \in Backups : c \in 1..MaxCalls /\ backups[c] = Empty
    /\ \A r \in Request : Asks(r) =>
           /\ request[r] \in DeviceCall /\ request[r].call <= calls
           /\ request[r].at \in {"putBackup", "putWhole"} =>
                  request[r].value = Empty

Rest ==
    /\ record \in BOOLEAN
    /\ admitted \subseteq 1..MaxCalls
    /\ shrunk \subseteq ListSection /\ apart \subseteq Section
    /\ removedAt \in Nat /\ removedAt <= calls

Sizes == Sized /\ Typed /\ Copies /\ Rest

LEMMA InitSizes == Init => Sizes
<1> SUFFICES ASSUME Init PROVE Sizes
    OBVIOUS
<1>1. Pending = {} /\ \A r \in Request : ~Asks(r) /\ ~At(r, "push") /\ ~At(r, "put")
    BY DEF Init, Pending, Writing, Asks, DeviceSteps, At, Idle
<1>2. Absent \in Config /\ Len(Absent.items) = 0
    <2>1. << >> \in Seq(Entry) /\ Len(<< >>) = 0
        OBVIOUS
    <2> QED
        BY <2>1 DEF Absent, Config
<1>3. /\ \A s \in Section : stored[s] = Absent /\ pushed[s] = Absent
      /\ \A s \in ListSection : s \in Section
    BY DEF Init, ListSection, Section
<1>4. Sized
    BY <1>1, <1>2, <1>3, FS_EmptySet, MaxCallsAssumption DEF Init, Sized
<1>5. Backups = {}
    BY DEF Init, Backups
<1>6. Typed /\ Copies /\ Rest
    BY <1>1, <1>2, <1>3, <1>5 DEF Init, Typed, Copies, Rest
<1> QED
    BY <1>4, <1>6 DEF Sizes

\* A request that is not to write a section, or no longer.
LEMMA SizedAside ==
    ASSUME Shape, Lists, Sized, NEW r \in Request, NEW step, Moves(r, step),
           ~Writing(r)', UNCHANGED stored,
           calls' \in Nat, calls <= calls', calls' <= MaxCalls
    PROVE  Sized'
<1>1. /\ Pending' \subseteq Pending
      /\ \A x \in Pending' : x \in Pending /\ request'[x] = request[x]
    BY DEF Moves, Pending, Writing, At
<1>2. /\ IsFiniteSet(Pending') /\ Cardinality(Pending') <= Cardinality(Pending)
      /\ Cardinality(Pending) \in Nat /\ Cardinality(Pending') \in Nat
    BY <1>1, FS_Subset, FS_CardinalityType DEF Sized
<1>3. /\ \A s \in ListSection : Len(stored[s].items) \in Nat
      /\ \A x \in Pending : Len(request[x].base) \in Nat
      /\ calls \in Nat
    BY DEF Shape, Lists, Written, ListRequest, Pending
<1>4. MaxCalls \in Nat
    BY MaxCallsAssumption
<1>5. ASSUME NEW s \in ListSection
      PROVE  Len(stored'[s].items) + Cardinality(Pending') <= calls'
    BY <1>2, <1>3 DEF Sized
<1>6. ASSUME NEW x \in Pending'
      PROVE  /\ Len(request'[x].order) <= 2
             /\ Len(request'[x].base) + Cardinality(Pending') <= calls'
    <2>1. /\ Len(request[x].order) <= 2
          /\ Len(request[x].base) + Cardinality(Pending) <= calls
        BY <1>1 DEF Sized
    <2> QED
        BY <1>1, <1>2, <1>3, <2>1
<1>7. Cardinality(Pending') <= calls'
    BY <1>2, <1>3 DEF Sized
<1> QED
    BY <1>2, <1>5, <1>6, <1>7 DEF Sized

\* A request that goes on with what it was sent, and with what it has read.
LEMMA SizedOnward ==
    ASSUME Lists, Sized, NEW r \in Request, NEW step, Moves(r, step),
           Writing(r), Writing(r)', UNCHANGED <<stored, calls>>,
           request'[r].order = request[r].order,
           \/ request'[r].base = request[r].base
           \/ \E s \in ListSection : request'[r].base = stored[s].items
    PROVE  Sized'
<1>1. Pending' = Pending /\ r \in Pending
    BY DEF Moves, Pending, Writing, At
<1>2. \A x \in Pending : x # r => request'[x] = request[x]
    BY DEF Moves, Pending
<1>3. ASSUME NEW x \in Pending
      PROVE  /\ Len(request'[x].order) <= 2
             /\ Len(request'[x].base) + Cardinality(Pending) <= calls
    <2>1. CASE x = r
        BY <1>1, <2>1 DEF Sized
    <2>2. CASE x # r
        BY <1>2, <2>2 DEF Sized
    <2> QED
        BY <2>1, <2>2
<1> QED
    BY <1>1, <1>3 DEF Sized

LEMMA TypedKept ==
    ASSUME Typed, NEW r \in Request, NEW step, Moves(r, step),
           UNCHANGED <<stored, pushed>>, step # "push",
           step = "put" => request'[r].base \in Seq(Entry)
    PROVE  Typed'
<1>1. ASSUME NEW x \in Request
      PROVE  /\ At(x, "push")' => request'[x].value \in Config
             /\ At(x, "put")' => request'[x].base \in Seq(Entry)
    <2>1. CASE x = r
        BY <2>1 DEF Moves, At
    <2>2. CASE x # r
        BY <2>2 DEF Moves, At, Typed
    <2> QED
        BY <2>1, <2>2
<1> QED
    BY <1>1 DEF Typed

LEMMA CopiesKept ==
    ASSUME Shape, Copies, NEW r \in Request, NEW step, Moves(r, step),
           whole' \in {NoValue, Empty},
           \A c \in Backups' : c \in 1..MaxCalls /\ backups'[c] = Empty,
           calls' \in Nat, calls <= calls',
           Asks(r)' =>
               /\ request'[r] \in DeviceCall /\ request'[r].call <= calls'
               /\ step \in {"putBackup", "putWhole"} => request'[r].value = Empty
    PROVE  Copies'
<1>1. ASSUME NEW x \in Request, Asks(x)'
      PROVE  /\ request'[x] \in DeviceCall /\ request'[x].call <= calls'
             /\ request'[x].at \in {"putBackup", "putWhole"} =>
                    request'[x].value = Empty
    <2>1. CASE x = r
        BY <1>1, <2>1 DEF Moves
    <2>2. CASE x # r
        <3>1. Asks(x) /\ request'[x] = request[x]
            BY <1>1, <2>2 DEF Moves, Asks, At
        <3>2. /\ request[x] \in DeviceCall /\ request[x].call <= calls
              /\ request[x].at \in {"putBackup", "putWhole"} =>
                     request[x].value = Empty
            BY <3>1 DEF Copies
        <3>3. request[x].call \in Nat /\ calls \in Nat
            BY <3>2 DEF DeviceCall, Shape
        <3> QED
            BY <3>1, <3>2, <3>3
    <2> QED
        BY <2>1, <2>2
<1> QED
    BY <1>1 DEF Copies

\* A request that arrives brings room for the entry it may add.
LEMMA SectionRequestSizes ==
    ASSUME IInv, Lists, Sizes, NEW r \in Request, SectionRequest(r)
    PROVE  Sizes'
<1>1. PICK s \in Section, op \in ListOp, id \in 1..MaxId,
           body \in 1..MaxId, order \in Orders :
          Arrive(r, [at |-> "access", op |-> op, section |-> s, id |-> id,
                     body |-> body, order |-> order, call |-> calls + 1,
                     base |-> << >>, seen |-> 0, failed |-> FALSE])
    BY SectionRequestArrives
<1> DEFINE q == [at |-> "access", op |-> op, section |-> s, id |-> id,
                 body |-> body, order |-> order, call |-> calls + 1,
                 base |-> << >>, seen |-> 0, failed |-> FALSE]
<1>2. /\ calls \in Nat /\ calls' = calls + 1 /\ calls' \in Nat
      /\ calls <= calls' /\ calls' <= MaxCalls
    BY <1>1, MaxCallsAssumption DEF Arrive, IInv, Shape
<1>3. Len(order) <= 2
    <2>1. PICK n \in 0..2 : order \in [1..n -> 1..MaxId]
        BY DEF Orders
    <2>2. n \in Nat /\ n <= 2
        OBVIOUS
    <2> DEFINE S == 1..MaxId
    <2>3. order \in [1..n -> S]
        BY <2>1
    <2> HIDE DEF S
    <2> QED
        BY <2>2, <2>3
<1>4. /\ Moves(r, "access") /\ request'[r] = q
      /\ Writing(r)' /\ ~Writing(r) /\ ~Asks(r)'
    BY <1>1 DEF Arrive, Moves, IInv, Shape, Writing, Asks, At, DeviceSteps,
                ListOp, DeviceOp
<1>5. UNCHANGED <<record, stored, whole, backups, pushed, admitted, ghosts>>
    BY <1>1 DEF Arrive
<1>6. q.order = order /\ Len(q.base) = 0
    BY DEF q
<1> HIDE DEF q
<1>7. /\ Pending' = Pending \cup {r} /\ r \notin Pending
      /\ \A x \in Pending : request'[x] = request[x]
    BY <1>4 DEF Moves, Pending, Writing, At
<1>8. /\ IsFiniteSet(Pending') /\ Cardinality(Pending) \in Nat
      /\ Cardinality(Pending') = Cardinality(Pending) + 1
    BY <1>7, FS_AddElement, FS_CardinalityType DEF Sizes, Sized
<1>9. Sized'
    <2>1. ASSUME NEW t \in ListSection
          PROVE  Len(stored'[t].items) + Cardinality(Pending') <= calls'
        <3>1. /\ Len(stored[t].items) \in Nat
              /\ Len(stored[t].items) + Cardinality(Pending) <= calls
            BY DEF Lists, Written, Sizes, Sized
        <3> QED
            BY <1>2, <1>5, <1>8, <3>1
    <2>2. ASSUME NEW x \in Pending'
          PROVE  /\ Len(request'[x].order) <= 2
                 /\ Len(request'[x].base) + Cardinality(Pending') <= calls'
        <3>1. CASE x = r
            BY <1>2, <1>3, <1>4, <1>6, <1>8, <3>1 DEF Sizes, Sized
        <3>2. CASE x \in Pending
            <4>1. /\ Len(request[x].order) <= 2 /\ Len(request[x].base) \in Nat
                  /\ Len(request[x].base) + Cardinality(Pending) <= calls
                <5>1. request[x] \in ListRequest
                    BY <3>2 DEF Lists, Written, Pending
                <5>2. Len(request[x].base) \in Nat
                    BY <5>1 DEF ListRequest
                <5> QED
                    BY <3>2, <5>2 DEF Sizes, Sized
            <4> QED
                BY <1>2, <1>7, <1>8, <3>2, <4>1
        <3> QED
            BY <1>7, <3>1, <3>2
    <2>3. Cardinality(Pending') <= calls'
        BY <1>2, <1>8 DEF Sizes, Sized
    <2> QED
        BY <1>2, <1>8, <2>1, <2>2, <2>3 DEF Sized
<1>10. Typed'
    BY <1>4, <1>5, TypedKept DEF Sizes
<1>11. Copies'
    <2>1. \A c \in Backups' : c \in 1..MaxCalls /\ backups'[c] = Empty
        BY <1>5 DEF Sizes, Copies, Backups
    <2> QED
        BY <1>2, <1>4, <1>5, <2>1, CopiesKept DEF Sizes, Copies, IInv
<1>12. Rest'
    BY <1>2, <1>5 DEF Sizes, Rest, ghosts
<1> QED
    BY <1>9, <1>10, <1>11, <1>12 DEF Sizes

LEMMA DeviceRequestSizes ==
    ASSUME IInv, Lists, Sizes, NEW r \in Request, DeviceRequest(r)
    PROVE  Sizes'
<1>1. PICK op \in DeviceOp :
        \E b \in IF op \in {"restore", "forget"} THEN 1..calls ELSE {0} :
          Arrive(r, [at |-> IF op = "connect" THEN "key" ELSE "access",
                     op |-> op, section |-> "none", backup |-> b,
                     call |-> calls + 1, value |-> NoValue])
    BY DEF DeviceRequest
<1>2. PICK b \in IF op \in {"restore", "forget"} THEN 1..calls ELSE {0} :
          Arrive(r, [at |-> IF op = "connect" THEN "key" ELSE "access",
                     op |-> op, section |-> "none", backup |-> b,
                     call |-> calls + 1, value |-> NoValue])
    BY <1>1
<1> DEFINE step == IF op = "connect" THEN "key" ELSE "access"
           q == [at |-> step, op |-> op, section |-> "none", backup |-> b,
                 call |-> calls + 1, value |-> NoValue]
<1>3. request' = [request EXCEPT ![r] = q]
    BY <1>2 DEF Arrive
<1>4. Moves(r, step) /\ request'[r] = q /\ ~Writing(r)'
    BY <1>3 DEF IInv, Shape, Moves, Writing, At, DeviceOp
<1>5. /\ calls \in Nat /\ calls' = calls + 1 /\ calls' \in Nat
      /\ calls <= calls' /\ calls' <= MaxCalls
    BY <1>2, MaxCallsAssumption DEF Arrive, IInv, Shape
<1>6. UNCHANGED <<record, stored, whole, backups, pushed, admitted, ghosts>>
    BY <1>2 DEF Arrive
<1>7. b \in Nat /\ step \in {"key", "access"}
    BY <1>5
<1>8. q \in DeviceCall /\ q.call = calls'
    BY <1>5, <1>7 DEF DeviceCall, DeviceSteps
<1> HIDE DEF step, q
<1>9. Sized'
    BY <1>4, <1>5, <1>6, SizedAside DEF IInv, Sizes
<1>10. Typed'
    BY <1>4, <1>6, <1>7, TypedKept DEF Sizes
<1>11. Copies'
    <2>1. \A c \in Backups' : c \in 1..MaxCalls /\ backups'[c] = Empty
        BY <1>6 DEF Sizes, Copies, Backups
    <2>2. whole' \in {NoValue, Empty}
        BY <1>6 DEF Sizes, Copies
    <2> QED
        BY <1>4, <1>5, <1>7, <1>8, <2>1, <2>2, CopiesKept DEF Sizes, IInv
<1>12. Rest'
    BY <1>5, <1>6 DEF Sizes, Rest, ghosts
<1> QED
    BY <1>9, <1>10, <1>11, <1>12 DEF Sizes

\* A request about the device goes on: what it was sent and read stays.
LEMMA DeviceMoves ==
    ASSUME Shape, Copies, NEW r \in Request, Asks(r),
           NEW step \in DeviceSteps, NEW v \in {NoValue, Empty},
           step \in {"putBackup", "putWhole"} => v = Empty,
           request' = [request EXCEPT ![r].at = step, ![r].value = v]
    PROVE  /\ Moves(r, step)
           /\ request'[r] \in DeviceCall /\ request'[r].call = request[r].call
           /\ request'[r].value = v
<1>1. request[r] \in DeviceCall
    BY DEF Copies
<1>2. request'[r] = [request[r] EXCEPT !.at = step, !.value = v]
    BY DEF Shape
<1> QED
    BY <1>1, <1>2 DEF Shape, Moves, DeviceCall

\* What a step that neither writes nor arrives has to show.
LEMMA QuietSizes ==
    ASSUME IInv, Lists, Sizes, NEW r \in Request, NEW step, Moves(r, step),
           step \notin {"read", "put", "push"}, ~Writing(r)',
           UNCHANGED <<stored, pushed, calls>>,
           whole' \in {NoValue, Empty},
           \A c \in Backups' : c \in 1..MaxCalls /\ backups'[c] = Empty,
           Asks(r)' =>
               /\ request'[r] \in DeviceCall /\ request'[r].call <= calls
               /\ step \in {"putBackup", "putWhole"} => request'[r].value = Empty,
           Rest'
    PROVE  Sizes'
<1>1. /\ calls \in Nat /\ calls' \in Nat /\ calls <= calls' /\ calls' <= MaxCalls
    BY DEF IInv, Shape, Sizes, Sized
<1>2. Sized'
    BY <1>1, SizedAside DEF IInv, Sizes
<1>3. Typed'
    BY TypedKept DEF Sizes
<1>4. Copies'
    BY <1>1, CopiesKept DEF IInv, Sizes
<1> QED
    BY <1>2, <1>3, <1>4 DEF Sizes

\* A request ends, and leaves what is stored.
LEMMA EndSizes ==
    ASSUME IInv, Lists, Sizes, NEW r \in Request, End(r),
           UNCHANGED <<stored, pushed, calls>>,
           whole' \in {NoValue, Empty},
           \A c \in Backups' : c \in 1..MaxCalls /\ backups'[c] = Empty,
           Rest'
    PROVE  Sizes'
<1>1. Moves(r, "idle")
    BY EndMoves DEF IInv
<1>2. ~Writing(r)' /\ ~Asks(r)'
    BY <1>1 DEF Moves, Writing, Asks, At, DeviceSteps
<1> QED
    BY <1>1, <1>2, QuietSizes

\* A request about the device takes its next step, and keeps its value unless it
\* has read one.
LEMMA AskSizes ==
    ASSUME IInv, Lists, Sizes, NEW r \in Request, Asks(r),
           NEW step \in DeviceSteps \ {"access"}, NEW v \in {NoValue, Empty},
           step \in {"putBackup", "putWhole"} => v = Empty,
           request' = [request EXCEPT ![r].at = step, ![r].value = v],
           UNCHANGED <<stored, pushed, calls, backups>>,
           whole' \in {NoValue, Empty}, Rest'
    PROVE  Sizes'
<1>1. /\ Moves(r, step)
      /\ request'[r] \in DeviceCall /\ request'[r].call = request[r].call
      /\ request'[r].value = v
    BY DeviceMoves DEF IInv, Sizes
<1>2. step \notin {"read", "put", "push"} /\ ~Writing(r)'
    BY <1>1 DEF Moves, Writing, At, DeviceSteps
<1>3. request[r].call <= calls
    BY DEF Sizes, Copies
<1>4. \A c \in Backups' : c \in 1..MaxCalls /\ backups'[c] = Empty
    BY DEF Sizes, Copies, Backups
<1> QED
    BY <1>1, <1>2, <1>3, <1>4, QuietSizes

LEMMA OnlyIsShorter ==
    ASSUME NEW T, NEW s \in Seq(T), NEW K \in SUBSET DOMAIN s
    PROVE  /\ Len(Only(s, K)) \in Nat /\ Len(Only(s, K)) <= Len(s)
           /\ K = {} => Len(Only(s, K)) = 0
<1> DEFINE n == Len(s)
<1>1. n \in Nat /\ DOMAIN s = 1..n
    OBVIOUS
<1> HIDE DEF n
<1>2. IsFiniteSet(1..n) /\ Cardinality(1..n) = n
    <2>1. 1 \in Int /\ n \in Int /\ (n >= 1 \/ 1 > n) /\ n = n - 1 + 1
        BY <1>1
    <2> QED
        BY <1>1, <2>1, FS_Interval
<1>3. /\ Cardinality(K) \in Nat /\ Cardinality(K) <= n
      /\ K = {} => Cardinality(K) = 0
    BY <1>1, <1>2, FS_Subset, FS_CardinalityType, FS_EmptySet
<1>4. Len(Only(s, K)) = Cardinality(K)
    BY OnlyKeeps
<1> QED
    BY <1>3, <1>4 DEF n

\* A write adds at most one entry: an order names two ids at most, of a list
\* that is not empty.
LEMMA WrittenSize ==
    ASSUME NEW q \in ListRequest, q.section \in ListSection, Len(q.order) <= 2
    PROVE  Len(NewValue(q).items) <= Len(q.base) + 1
<1>1. /\ q.base \in Seq(Row) /\ Len(q.base) \in Nat /\ q.op \in ListOp
      /\ q.order \in Seq(1..MaxId)
    BY DEF ListRequest
<1>2. q.section \notin ReplacedSections
    BY SectionsAssumption DEF ListSection
<1>3. CASE q.op = "create"
    <2> DEFINE e == [id |-> IF q.section \in NumberedSections
                            THEN NextId(q.base) ELSE q.id,
                     by |-> q.call]
    <2>1. Created(q) = Append(q.base, e)
        BY DEF Created
    <2> HIDE DEF e
    <2>2. Len(Created(q)) = Len(q.base) + 1
        BY <1>1, <2>1
    <2> QED
        BY <1>1, <1>2, <1>3, <2>2 DEF NewValue, List
<1>4. CASE q.op = "update"
    BY <1>1, <1>2, <1>4, UpdatedList DEF NewValue, List
<1>5. CASE q.op = "delete"
    <2>1. OtherIds(q) \in SUBSET DOMAIN q.base
        BY DEF OtherIds
    <2>2. Len(Deleted(q)) \in Nat /\ Len(Deleted(q)) <= Len(q.base)
        BY <1>1, <2>1, OnlyIsShorter DEF Deleted, OtherIds
    <2> QED
        BY <1>1, <1>2, <1>5, <2>2 DEF NewValue, List
<1>6. CASE q.op = "reorder"
    <2> DEFINE K == {k \in DOMAIN q.order : q.order[k] \in Ids(q.base)}
    <2>1. Known(q) = Only(q.order, K)
        BY DEF Known
    <2>2. K \in SUBSET DOMAIN q.order /\ (q.base = << >> => K = {})
        BY DEF Ids
    <2> HIDE DEF K
    <2>3. /\ Len(Known(q)) \in Nat /\ Len(Known(q)) <= Len(q.order)
          /\ K = {} => Len(Known(q)) = 0
        BY <1>1, <2>1, <2>2, OnlyIsShorter
    <2>4. q.base # << >> => Len(q.base) >= 1
        BY <1>1
    <2>5. Len(Known(q)) <= Len(q.base) + 1
        BY <1>1, <2>2, <2>3, <2>4
    <2>6. Len(Reordered(q)) = Len(Known(q))
        BY ReorderedList
    <2> QED
        BY <1>2, <1>6, <2>5, <2>6 DEF NewValue, List
<1> QED
    BY <1>1, <1>3, <1>4, <1>5, <1>6 DEF ListOp

\* The entries of what is written are those read, and that of the request.
LEMMA WrittenEntries ==
    ASSUME NEW q \in ListRequest, q.base \in Seq(Entry),
           MaxCalls \in Nat, q.call <= MaxCalls, Len(q.base) < MaxCalls
    PROVE  NewValue(q) \in Config
<1>1. /\ q.id \in 1..MaxId /\ q.body \in 1..MaxId
      /\ q.call \in 1..MaxCalls /\ q.op \in ListOp
      /\ Len(q.base) \in Nat /\ MaxId \in Nat
    BY MaxIdAssumption DEF ListRequest
<1>2. /\ q.id \in 0..(MaxId + MaxCalls) /\ q.body \in 0..(MaxId + MaxCalls)
      /\ Len(q.base) + 1 \in 0..(MaxId + MaxCalls)
    BY <1>1
<1>3. CASE q.section \in ReplacedSections
    <2>1. [id |-> 0, by |-> q.call] \in Entry
        BY <1>1 DEF Entry
    <2> DEFINE e == [id |-> 0, by |-> q.call]
    <2>2. Object(q.call).items = << e >> /\ Object(q.call) = [kind |-> "object", items |-> << e >>]
        BY DEF Object
    <2> HIDE DEF e
    <2>3. << e >> \in Seq(Entry)
        BY <2>1 DEF e
    <2> QED
        BY <1>3, <2>2, <2>3 DEF NewValue, Config
<1>4. CASE q.section \notin ReplacedSections /\ q.op = "create"
    <2> DEFINE n == IF q.section \in NumberedSections
                    THEN NextId(q.base) ELSE q.id
               e == [id |-> n, by |-> q.call]
    <2>1. n \in 0..(MaxId + MaxCalls)
        BY <1>2 DEF NextId
    <2> HIDE DEF n
    <2>2. e \in Entry
        BY <1>1, <2>1 DEF Entry
    <2>3. Created(q) = Append(q.base, e)
        BY DEF Created, n
    <2> HIDE DEF e
    <2>4. Created(q) \in Seq(Entry)
        BY <2>2, <2>3
    <2> QED
        BY <1>4, <2>4 DEF NewValue, List, Config
<1>5. CASE q.section \notin ReplacedSections /\ q.op = "update"
    <2> DEFINE f == FirstWith(q.base, q.id)
               e == UpdatedEntry(q)
    <2>1. e \in Entry
        BY <1>1, <1>2 DEF Entry, UpdatedEntry
    <2>2. Updated(q) = q.base \/ Updated(q) = [q.base EXCEPT ![f] = e]
        BY DEF Updated
    <2> HIDE DEF f, e
    <2>3. Updated(q) \in Seq(Entry)
        BY <2>1, <2>2
    <2> QED
        BY <1>5, <2>3 DEF NewValue, List, Config
<1>6. CASE q.section \notin ReplacedSections /\ q.op = "delete"
    <2>1. OtherIds(q) \in SUBSET DOMAIN q.base
        BY DEF OtherIds
    <2>2. Deleted(q) \in Seq(Entry)
        BY <2>1, OnlyKeeps DEF Deleted, OtherIds
    <2> QED
        BY <1>6, <2>2 DEF NewValue, List, Config
<1>7. CASE q.section \notin ReplacedSections /\ q.op = "reorder"
    <2>1. /\ Reordered(q) \in Seq(Row) /\ DOMAIN Reordered(q) = DOMAIN Known(q)
          /\ \A k \in DOMAIN Known(q) :
                /\ Reordered(q)[k] = q.base[FirstWith(q.base, Known(q)[k])]
                /\ FirstWith(q.base, Known(q)[k]) \in DOMAIN q.base
        BY ReorderedList
    <2>2. \A k \in DOMAIN Reordered(q) : Reordered(q)[k] \in Entry
        BY <2>1
    <2>3. Reordered(q) \in Seq(Entry)
        BY <2>1, <2>2
    <2> QED
        BY <1>7, <2>3 DEF NewValue, List, Config
<1> QED
    BY <1>1, <1>3, <1>4, <1>5, <1>6, <1>7 DEF ListOp

LEMMA PutSizes ==
    ASSUME IInv, Lists, Sizes, NEW r \in Request, Put(r)
    PROVE  Sizes'
<1> DEFINE q == request[r]
           s == request[r].section
<1>1. /\ Writing(r) /\ q \in ListRequest /\ s \in Section /\ r \in Pending
      /\ q.call <= calls /\ calls' = calls /\ calls \in Nat
      /\ q.base \in Seq(Entry) /\ Len(q.base) \in Nat /\ Len(q.order) <= 2
      /\ Len(q.base) + Cardinality(Pending) <= calls
    <2>1. At(r, "put") /\ Writing(r) /\ r \in Pending /\ calls' = calls
        BY DEF Put, Writing, Pending
    <2>2. q \in ListRequest /\ q.call <= calls
        BY <2>1 DEF Lists, Written
    <2>3. s \in Section /\ Len(q.base) \in Nat
        BY <2>2 DEF ListRequest
    <2>4. /\ q.base \in Seq(Entry) /\ Len(q.order) <= 2
          /\ Len(q.base) + Cardinality(Pending) <= calls
        BY <2>1 DEF Sizes, Sized, Typed
    <2> QED
        BY <2>1, <2>2, <2>3, <2>4 DEF IInv, Shape
<1>2. /\ Moves(r, "push") /\ ~Writing(r)' /\ ~Asks(r)'
      /\ request'[r].value = NewValue(q)
      /\ \A x \in Request : x # r => request'[x] = request[x]
    <2> DEFINE v == NewValue(q)
    <2>1. request' = [request EXCEPT ![r] =
                          [at |-> "push", section |-> s, value |-> v]]
        BY DEF Put, Handed
    <2> HIDE DEF v
    <2>2. /\ \A x \in Request : x # r => request'[x] = request[x]
          /\ request' = [x \in Request |-> request'[x]]
          /\ request'[r].at = "push" /\ request'[r].value = v
        BY <2>1 DEF IInv, Shape
    <2> QED
        BY <2>2 DEF Moves, Writing, Asks, At, DeviceSteps, v
<1>3. /\ stored'[s] = NewValue(q) /\ pushed' = pushed
      /\ \A t \in Section : t # s => stored'[t] = stored[t]
    BY <1>1 DEF Put, IInv, Shape
<1>4. /\ Pending' = Pending \ {r}
      /\ \A x \in Pending' : x \in Pending /\ request'[x] = request[x]
    BY <1>2 DEF Pending, Writing, At
<1>5. /\ IsFiniteSet(Pending') /\ Cardinality(Pending) \in Nat
      /\ Cardinality(Pending') = Cardinality(Pending) - 1
      /\ Cardinality(Pending') \in Nat
    BY <1>1, <1>4, FS_RemoveElement, FS_CardinalityType DEF Sizes, Sized
<1>6. Sized'
    <2>1. ASSUME NEW t \in ListSection
          PROVE  Len(stored'[t].items) + Cardinality(Pending') <= calls'
        <3>1. t \in Section /\ Len(stored[t].items) \in Nat
              /\ Len(stored[t].items) + Cardinality(Pending) <= calls
            BY DEF ListSection, Section, Lists, Written, Sizes, Sized
        <3>2. CASE t = s
            <4>1. Len(NewValue(q).items) <= Len(q.base) + 1
                BY <1>1, <3>2, WrittenSize
            <4>2. Len(NewValue(q).items) \in Nat
                BY <1>1, <3>2, WrittenList
            <4> HIDE DEF q, s
            <4> QED
                BY <1>1, <1>3, <1>5, <3>2, <4>1, <4>2
        <3>3. CASE t # s
            BY <1>1, <1>3, <1>5, <3>1, <3>3
        <3> QED
            BY <3>2, <3>3
    <2>2. ASSUME NEW x \in Pending'
          PROVE  /\ Len(request'[x].order) <= 2
                 /\ Len(request'[x].base) + Cardinality(Pending') <= calls'
        <3>1. x \in Request /\ Writing(x) /\ x \in Pending
            BY <1>4 DEF Pending
        <3>2. request[x] \in ListRequest
            BY <3>1 DEF Lists, Written
        <3>3. Len(request[x].base) \in Nat
            BY <3>2 DEF ListRequest
        <3>4. /\ Len(request[x].order) <= 2
              /\ Len(request[x].base) + Cardinality(Pending) <= calls
            BY <3>1 DEF Sizes, Sized
        <3> QED
            BY <1>1, <1>4, <1>5, <3>3, <3>4
    <2>3. Cardinality(Pending') <= calls' /\ calls' <= MaxCalls
        BY <1>1, <1>5 DEF Sizes, Sized
    <2> QED
        BY <1>5, <2>1, <2>2, <2>3 DEF Sized
<1>7. Typed'
    <2>1. NewValue(q) \in Config
        <3>1. Len(q.base) < MaxCalls /\ q.call <= MaxCalls /\ MaxCalls \in Nat
            <4>1. q.call \in Nat /\ calls <= MaxCalls /\ MaxCalls \in Nat
                BY <1>1, MaxCallsAssumption DEF ListRequest, Sizes, Sized
            <4> HIDE DEF q
            <4> QED
                BY <1>1, <1>5, <4>1
        <3> QED
            BY <1>1, <3>1, WrittenEntries
    <2>2. \A t \in Section : stored'[t] \in Config /\ pushed'[t] \in Config
        BY <1>3, <2>1 DEF Sizes, Typed
    <2>3. ASSUME NEW x \in Request
          PROVE  /\ At(x, "push")' => request'[x].value \in Config
                 /\ At(x, "put")' => request'[x].base \in Seq(Entry)
        <3>1. CASE x = r
            BY <1>2, <2>1, <3>1 DEF Moves, At
        <3>2. CASE x # r
            BY <1>2, <3>2 DEF At, Sizes, Typed
        <3> QED
            BY <3>1, <3>2
    <2> QED
        BY <2>2, <2>3 DEF Typed
<1>8. Copies'
    <2>1. \A c \in Backups' : c \in 1..MaxCalls /\ backups'[c] = Empty
        BY DEF Put, Sizes, Copies, Backups
    <2>2. whole' \in {NoValue, Empty}
        BY DEF Put, Sizes, Copies
    <2> QED
        BY <1>1, <1>2, <2>1, <2>2, CopiesKept DEF IInv, Sizes
<1>9. Rest'
    BY <1>1 DEF Put, Sizes, Rest
<1> QED
    BY <1>6, <1>7, <1>8, <1>9 DEF Sizes

LEMMA ReadListSizes ==
    ASSUME IInv, Lists, Sizes, NEW r \in Request, NEW ok \in BOOLEAN,
           ReadList(r, ok)
    PROVE  Sizes'
<1> DEFINE q == request[r]
           s == request[r].section
<1>1. /\ Writing(r) /\ q.at = "read" /\ q \in ListRequest /\ q.base = << >>
      /\ s \in ListSection /\ s \in Section
      /\ UNCHANGED <<record, stored, whole, backups, pushed, admitted, calls>>
      /\ UNCHANGED <<shrunk, apart, removedAt>>
    BY DEF ReadList, ghosts, Lists, Written, Writing, At, ListSection, Section
<1>2. /\ whole' \in {NoValue, Empty}
      /\ \A c \in Backups' : c \in 1..MaxCalls /\ backups'[c] = Empty
      /\ Rest'
    BY <1>1 DEF Sizes, Copies, Rest, Backups
<1>3. CASE End(r)
    BY <1>1, <1>2, <1>3, EndSizes
<1>4. ASSUME NEW base, NEW seen, NEW failed, base \in Seq(Entry),
             base = << >> \/ base = stored[s].items,
             request' = [request EXCEPT ![r].at = "put", ![r].base = base,
                                        ![r].seen = seen, ![r].failed = failed]
      PROVE  Sizes'
    <2>1. request'[r] = [q EXCEPT !.at = "put", !.base = base, !.seen = seen,
                                  !.failed = failed]
        BY <1>4 DEF IInv, Shape
    <2>2. /\ request'[r].at = "put" /\ request'[r].base = base
          /\ request'[r].order = q.order
        BY <1>1, <2>1 DEF ListRequest
    <2>3. Moves(r, "put") /\ Writing(r)' /\ ~Asks(r)'
        BY <1>4, <2>2 DEF IInv, Shape, Moves, Writing, Asks, At, DeviceSteps
    <2>4. Sized'
        BY <1>1, <1>4, <2>2, <2>3, SizedOnward DEF Sizes
    <2>5. Typed'
        BY <1>1, <1>4, <2>2, <2>3, TypedKept DEF Sizes
    <2>6. calls \in Nat /\ calls' \in Nat /\ calls <= calls'
        BY <1>1 DEF IInv, Shape
    <2>7. Copies'
        BY <1>2, <2>3, <2>6, CopiesKept DEF IInv, Sizes
    <2> QED
        BY <1>2, <2>4, <2>5, <2>7 DEF Sizes
<1>5. CASE request' = [request EXCEPT ![r].at = "put",
                           ![r].base = stored[s].items, ![r].seen = putBy[s]]
    <2>1. stored[s].items \in Seq(Entry)
        BY <1>1 DEF Sizes, Typed, Config
    <2>2. [request EXCEPT ![r].at = "put",
                           ![r].base = stored[s].items, ![r].seen = putBy[s]]
          = [request EXCEPT ![r].at = "put", ![r].base = stored[s].items,
                            ![r].seen = putBy[s], ![r].failed = q.failed]
        <3>1. [q EXCEPT !.at = "put", !.base = stored[s].items, !.seen = putBy[s]]
              = [q EXCEPT !.at = "put", !.base = stored[s].items,
                          !.seen = putBy[s], !.failed = q.failed]
            BY <1>1 DEF ListRequest
        <3> QED
            BY <3>1 DEF IInv, Shape
    <2> QED
        BY <1>4, <1>5, <2>1, <2>2
<1>6. CASE request' = [request EXCEPT ![r].at = "put", ![r].seen = putBy[s],
                                      ![r].failed = ~ok]
    <2>1. << >> \in Seq(Entry)
        OBVIOUS
    <2>2. [request EXCEPT ![r].at = "put", ![r].seen = putBy[s],
                          ![r].failed = ~ok]
          = [request EXCEPT ![r].at = "put", ![r].base = << >>,
                            ![r].seen = putBy[s], ![r].failed = ~ok]
        <3>1. [q EXCEPT !.at = "put", !.seen = putBy[s], !.failed = ~ok]
              = [q EXCEPT !.at = "put", !.base = << >>, !.seen = putBy[s],
                          !.failed = ~ok]
            BY <1>1 DEF ListRequest
        <3> QED
            BY <3>1 DEF IInv, Shape
    <2> QED
        BY <1>4, <1>6, <2>1, <2>2
<1> QED
    BY <1>3, <1>5, <1>6 DEF ReadList

LEMMA AccessSizes ==
    ASSUME IInv, Lists, Sizes, NEW r \in Request, Access(r)
    PROVE  Sizes'
<1> DEFINE next == AfterAccess(request[r])
<1>1. /\ At(r, "access")
      /\ UNCHANGED <<record, stored, whole, backups, pushed, admitted, calls>>
      /\ UNCHANGED <<shrunk, apart, removedAt>>
    BY DEF Access, ghosts
<1>2. /\ whole' \in {NoValue, Empty}
      /\ \A c \in Backups' : c \in 1..MaxCalls /\ backups'[c] = Empty
      /\ Rest'
    BY <1>1 DEF Sizes, Copies, Rest, Backups
<1>3. CASE ~record
    BY <1>1, <1>2, <1>3, EndSizes DEF Access
<1>4. CASE record /\ request[r].op \in DeviceOp \ {"connect"}
    <2>1. next \in {"readWhole", "readBackup", "deleteBackup", "deleteRecord"}
        <3>1. request[r].op \in {"backup", "restore", "forget", "remove"}
            BY <1>4 DEF DeviceOp
        <3>2. request[r].op \notin ListOp
            BY <3>1 DEF ListOp
        <3> QED
            BY <3>1, <3>2 DEF AfterAccess
    <2>2. request' = [request EXCEPT ![r].at = next]
        BY <1>4 DEF Access
    <2> HIDE DEF next
    <2>3. /\ next \in DeviceSteps \ {"access"}
          /\ next \notin {"putBackup", "putWhole"}
        BY <2>1 DEF DeviceSteps
    <2>4. Asks(r) /\ request[r] \in DeviceCall
        BY <1>1, <1>4 DEF Asks, Sizes, Copies
    <2>5. /\ request[r].value \in {NoValue, Empty}
          /\ [request EXCEPT ![r].at = next]
             = [request EXCEPT ![r].at = next, ![r].value = request[r].value]
        BY <2>4 DEF DeviceCall, IInv, Shape
    <2>6. request' = [request EXCEPT ![r].at = next,
                                     ![r].value = request[r].value]
        BY <2>2, <2>5
    <2> QED
        BY <1>1, <1>2, <2>3, <2>4, <2>5, <2>6, AskSizes
<1>5. CASE record /\ request[r].op \notin DeviceOp \ {"connect"}
    <2>1. /\ Writing(r) /\ request[r] \in ListRequest /\ request[r].base = << >>
        BY <1>1, <1>5 DEF Writing, Lists, Written, At
    <2>2. next \in {"put", "read"}
        <3>1. request[r].op \in ListOp
            BY <2>1 DEF ListRequest
        <3> QED
            BY <1>5, <3>1 DEF AfterAccess, DeviceOp
    <2>3. request' = [request EXCEPT ![r].at = next]
        BY <1>5 DEF Access
    <2> HIDE DEF next
    <2>4. request'[r] = [request[r] EXCEPT !.at = next]
        BY <2>3 DEF IInv, Shape
    <2>5. /\ request'[r].at = next /\ request'[r].order = request[r].order
          /\ request'[r].base = request[r].base
        BY <2>1, <2>4 DEF ListRequest
    <2>6. Moves(r, next) /\ Writing(r)' /\ ~Asks(r)'
        BY <2>2, <2>3, <2>5
        DEF IInv, Shape, Moves, Writing, Asks, At, DeviceSteps
    <2>7. << >> \in Seq(Entry) /\ next # "push"
        BY <2>2
    <2>8. Sized'
        BY <1>1, <2>1, <2>5, <2>6, SizedOnward DEF Sizes
    <2>9. Typed'
        BY <1>1, <2>1, <2>5, <2>6, <2>7, TypedKept DEF Sizes
    <2>10. calls \in Nat /\ calls' \in Nat /\ calls <= calls'
        BY <1>1 DEF IInv, Shape
    <2>11. Copies'
        BY <1>2, <2>6, <2>10, CopiesKept DEF IInv, Sizes
    <2> QED
        BY <1>2, <2>8, <2>9, <2>11 DEF Sizes
<1> QED
    BY <1>3, <1>4, <1>5

\* What the object is handed is what was written, or the empty configuration.
LEMMA PushSizes ==
    ASSUME IInv, Lists, Sizes, NEW r \in Request, NEW ok \in BOOLEAN,
           Push(r, ok) \/ PushFull(r, ok)
    PROVE  Sizes'
<1>1. /\ End(r) /\ UNCHANGED <<record, stored, whole, backups, admitted, calls>>
      /\ UNCHANGED <<shrunk, removedAt>>
    BY DEF Push, PushFull
<1>2. /\ whole' \in {NoValue, Empty}
      /\ \A c \in Backups' : c \in 1..MaxCalls /\ backups'[c] = Empty
    BY <1>1 DEF Sizes, Copies, Backups
<1>3. Moves(r, "idle") /\ ~Writing(r)' /\ ~Asks(r)'
    BY <1>1, EndMoves DEF IInv, Moves, Writing, Asks, At, DeviceSteps
<1>4. /\ calls \in Nat /\ calls' \in Nat /\ calls <= calls' /\ calls' <= MaxCalls
    BY <1>1 DEF IInv, Shape, Sizes, Sized
<1>5. Sized'
    BY <1>1, <1>3, <1>4, SizedAside DEF IInv, Sizes
<1>6. Typed'
    <2>1. \A s \in Section : pushed'[s] \in Config
        <3>1. Absent \in Config
            <4>1. << >> \in Seq(Entry)
                OBVIOUS
            <4> QED
                BY <4>1 DEF Absent, Config
        <3>2. CASE Push(r, ok)
            <4>1. request[r].value \in Config /\ request[r].section \in Section
                BY <3>2 DEF Push, Sizes, Typed, IInv, Shape, RecordOK, At
            <4> QED
                BY <3>2, <4>1 DEF Push, Sizes, Typed, IInv, Shape
        <3>3. CASE PushFull(r, ok)
            BY <3>1, <3>3 DEF PushFull, Sizes, Typed
        <3> QED
            BY <3>2, <3>3
    <2>2. ASSUME NEW x \in Request
          PROVE  /\ At(x, "push")' => request'[x].value \in Config
                 /\ At(x, "put")' => request'[x].base \in Seq(Entry)
        BY <1>3 DEF Moves, At, Sizes, Typed
    <2> QED
        BY <1>1, <2>1, <2>2 DEF Sizes, Typed
<1>7. Copies'
    BY <1>2, <1>3, <1>4, CopiesKept DEF IInv, Sizes
<1>8. apart' \subseteq Section
    BY DEF Push, PushFull, IInv, Shape, RecordOK, At, Sizes, Rest
<1>9. Rest'
    BY <1>1, <1>8 DEF Sizes, Rest
<1> QED
    BY <1>5, <1>6, <1>7, <1>9 DEF Sizes

LEMMA DeviceStepSizes ==
    ASSUME IInv, Lists, Sizes, NEW r \in Request,
           \/ ReadWhole(r) \/ PutBackup(r) \/ ReadBackup(r) \/ PutWhole(r)
           \/ DeleteBackup(r) \/ DeleteRecord(r)
           \/ LookUpKey(r) \/ LookUpEntry(r) \/ Upgrade(r)
    PROVE  Sizes'
<1>1. /\ Asks(r) /\ request[r].at \in DeviceSteps \ {"access"}
      /\ request[r] \in DeviceCall
      /\ request[r].call <= calls /\ request[r].call \in Nat \ {0}
      /\ request[r].value \in {NoValue, Empty}
      /\ request[r].at \in {"putBackup", "putWhole"} => request[r].value = Empty
    <2>1. Asks(r) /\ request[r].at \in DeviceSteps \ {"access"}
        BY DEF ReadWhole, PutBackup, ReadBackup, PutWhole, DeleteBackup,
               DeleteRecord, LookUpKey, LookUpEntry, Upgrade, At, Asks,
               DeviceSteps
    <2> QED
        BY <2>1 DEF Sizes, Copies, DeviceCall
<1>2. /\ UNCHANGED <<stored, pushed, calls, shrunk, apart>>
      /\ calls \in Nat /\ calls <= MaxCalls /\ MaxCalls \in Nat
    BY MaxCallsAssumption
    DEF ReadWhole, PutBackup, ReadBackup, PutWhole, DeleteBackup, DeleteRecord,
        LookUpKey, LookUpEntry, Upgrade, ghosts, IInv, Shape, Sizes, Sized
<1>3. request[r].call \in 1..MaxCalls
    BY <1>1, <1>2
<1>4. whole \in {NoValue, Empty} /\ NoValue # Empty
      /\ \A c \in Backups : c \in 1..MaxCalls /\ backups[c] = Empty
    BY DEF Sizes, Copies, NoValue, Empty
<1>5. /\ record \in BOOLEAN /\ removedAt \in Nat /\ removedAt <= calls
      /\ admitted \subseteq 1..MaxCalls
      /\ shrunk \subseteq ListSection /\ apart \subseteq Section
    BY DEF Sizes, Rest
<1>6. CASE ReadWhole(r)
    <2> DEFINE v == IF whole = NoValue THEN Empty ELSE whole
    <2>1. v = Empty
        BY <1>4
    <2>2. request' = [request EXCEPT ![r].at = "putBackup", ![r].value = v]
        BY <1>6 DEF ReadWhole
    <2> HIDE DEF v
    <2>3. "putBackup" \in DeviceSteps \ {"access"}
        BY DEF DeviceSteps
    <2>4. UNCHANGED <<backups, whole>> /\ Rest'
        BY <1>2, <1>5, <1>6 DEF ReadWhole, Rest, ghosts
    <2> QED
        BY <1>1, <1>2, <1>4, <2>1, <2>2, <2>3, <2>4, AskSizes
<1>7. CASE PutBackup(r)
    <2>1. request[r].value = Empty
        BY <1>1, <1>7 DEF PutBackup, At
    <2>2. \A c \in Backups' : c \in 1..MaxCalls /\ backups'[c] = Empty
        BY <1>3, <1>4, <1>7, <2>1 DEF PutBackup, Backups
    <2>3. End(r) /\ whole' = whole /\ Rest'
        BY <1>2, <1>5, <1>7 DEF PutBackup, Rest, ghosts
    <2> QED
        BY <1>2, <1>4, <2>2, <2>3, EndSizes
<1>8. CASE ReadBackup(r)
    <2>1. UNCHANGED <<backups, whole>> /\ Rest'
        BY <1>2, <1>5, <1>8 DEF ReadBackup, Rest, ghosts
    <2>2. \A c \in Backups' : c \in 1..MaxCalls /\ backups'[c] = Empty
        BY <1>4, <2>1 DEF Backups
    <2>3. CASE End(r)
        BY <1>2, <1>4, <2>1, <2>2, <2>3, EndSizes
    <2>4. CASE ~End(r)
        <3> DEFINE v == backups[request[r].backup]
        <3>1. v = Empty /\ request' = [request EXCEPT ![r].at = "putWhole",
                                                      ![r].value = v]
            BY <1>4, <1>8, <2>4 DEF ReadBackup
        <3> HIDE DEF v
        <3>2. "putWhole" \in DeviceSteps \ {"access"}
            BY DEF DeviceSteps
        <3> QED
            BY <1>1, <1>2, <1>4, <2>1, <3>1, <3>2, AskSizes
    <2> QED
        BY <2>3, <2>4
<1>9. CASE PutWhole(r)
    <2>1. /\ request[r].value = Empty /\ whole' = Empty
          /\ request' = [request EXCEPT ![r].at = "pushFull"]
          /\ backups' = backups
        BY <1>1, <1>9 DEF PutWhole, At
    <2>2. [request EXCEPT ![r].at = "pushFull"]
          = [request EXCEPT ![r].at = "pushFull", ![r].value = request[r].value]
        BY <1>1 DEF DeviceCall, IInv, Shape
    <2>3. "pushFull" \in DeviceSteps \ {"access"}
        BY DEF DeviceSteps
    <2>4. Rest'
        BY <1>2, <1>5, <1>9 DEF PutWhole, Rest, ghosts
    <2> QED
        BY <1>1, <1>2, <2>1, <2>2, <2>3, <2>4, AskSizes
<1>10. CASE DeleteBackup(r)
    <2>1. \A c \in Backups' : c \in 1..MaxCalls /\ backups'[c] = Empty
        BY <1>4, <1>10 DEF DeleteBackup, Backups
    <2>2. End(r) /\ whole' = whole /\ Rest'
        BY <1>2, <1>5, <1>10 DEF DeleteBackup, Rest, ghosts
    <2> QED
        BY <1>2, <1>4, <2>1, <2>2, EndSizes
<1>11. CASE DeleteRecord(r) \/ Upgrade(r)
    <2>1. End(r) /\ whole' = whole /\ backups' = backups
        BY <1>11 DEF DeleteRecord, Upgrade
    <2>2. \A c \in Backups' : c \in 1..MaxCalls /\ backups'[c] = Empty
        BY <1>4, <2>1 DEF Backups
    <2>3. Rest'
        <3>1. CASE DeleteRecord(r)
            <4>1. /\ record' = FALSE /\ removedAt' \in {calls, removedAt}
                  /\ UNCHANGED <<admitted, calls, shrunk, apart>>
                BY <3>1 DEF DeleteRecord
            <4>2. removedAt' \in Nat /\ removedAt' <= calls'
                BY <1>2, <1>5, <4>1
            <4>3. record' \in BOOLEAN
                BY <4>1
            <4> QED
                BY <1>2, <1>5, <4>1, <4>2, <4>3 DEF Rest
        <3>2. CASE Upgrade(r)
            <4>1. /\ admitted' = admitted \cup {request[r].call}
                  /\ UNCHANGED <<record, calls, shrunk, apart, removedAt>>
                BY <3>2 DEF Upgrade, ghosts
            <4> QED
                BY <1>2, <1>3, <1>5, <4>1 DEF Rest
        <3> QED
            BY <1>11, <3>1, <3>2
    <2> QED
        BY <1>2, <1>4, <2>1, <2>2, <2>3, EndSizes
<1>12. CASE LookUpKey(r) \/ LookUpEntry(r)
    <2>1. UNCHANGED <<backups, whole>> /\ Rest'
        BY <1>2, <1>5, <1>12 DEF LookUpKey, LookUpEntry, Rest, ghosts
    <2>2. \A c \in Backups' : c \in 1..MaxCalls /\ backups'[c] = Empty
        BY <1>4, <2>1 DEF Backups
    <2>3. CASE End(r)
        BY <1>2, <1>4, <2>1, <2>2, <2>3, EndSizes
    <2>4. ASSUME NEW step \in {"entry", "upgrade"},
                 request' = [request EXCEPT ![r].at = step]
          PROVE  Sizes'
        <3>1. [request EXCEPT ![r].at = step]
              = [request EXCEPT ![r].at = step, ![r].value = request[r].value]
            BY <1>1 DEF DeviceCall, IInv, Shape
        <3>2. /\ step \in DeviceSteps \ {"access"}
              /\ step \notin {"putBackup", "putWhole"}
            BY DEF DeviceSteps
        <3> QED
            BY <1>1, <1>2, <1>4, <2>1, <2>4, <3>1, <3>2, AskSizes
    <2> QED
        BY <1>12, <2>3, <2>4 DEF LookUpKey, LookUpEntry
<1> QED
    BY <1>6, <1>7, <1>8, <1>9, <1>10, <1>11, <1>12

LEMMA CutSizes ==
    ASSUME IInv, Lists, Sizes, NEW r \in Request, Cut(r)
    PROVE  Sizes'
<1>1. /\ End(r) /\ UNCHANGED <<record, stored, whole, backups, pushed>>
      /\ UNCHANGED <<admitted, calls, shrunk, removedAt>>
    BY DEF Cut
<1>2. apart' \subseteq Section
    BY DEF Cut, IInv, Shape, RecordOK, At, Sizes, Rest
<1>3. /\ whole' \in {NoValue, Empty}
      /\ \A c \in Backups' : c \in 1..MaxCalls /\ backups'[c] = Empty
      /\ Rest'
    BY <1>1, <1>2 DEF Sizes, Copies, Rest, Backups
<1> QED
    BY <1>1, <1>3, EndSizes

THEOREM SizesInvariance == Spec => []Sizes
<1>1. IInv /\ Lists /\ Sizes /\ [Next]_vars => Sizes'
    <2> SUFFICES ASSUME IInv, Lists, Sizes, [Next]_vars PROVE Sizes'
        OBVIOUS
    <2>1. CASE UNCHANGED vars
        <3>1. UNCHANGED <<record, stored, whole, backups, pushed, admitted>>
              /\ UNCHANGED <<request, calls, shrunk, apart, removedAt>>
            BY <2>1 DEF vars, ghosts
        <3>2. Pending' = Pending
            BY <3>1 DEF Pending, Writing, At
        <3> QED
            BY <3>1, <3>2 DEF Sizes, Sized, Typed, Copies, Rest, Asks, At,
               Backups
    <2>2. CASE Next
        BY <2>2, SectionRequestSizes, DeviceRequestSizes, AccessSizes,
           ReadListSizes, PutSizes, PushSizes, DeviceStepSizes, CutSizes
        DEF Next
    <2> QED
        BY <2>1, <2>2
<1> QED
    BY <1>1, InitSizes, Invariance, ListsInvariance, PTL DEF Spec

\* Types, for any sections and any bound on the requests: the entries of a list
\* are never more than the calls there were, so no id given by length exceeds
\* them, whatever overlaps or fails.
THEOREM TypeCorrect == Spec => []TypeOK
<1>1. IInv /\ Sizes => TypeOK
    <2> SUFFICES ASSUME IInv, Sizes PROVE TypeOK
        OBVIOUS
    <2>1. ASSUME NEW s \in Section, NEW v \in {stored[s], pushed[s]}
          PROVE  /\ v.kind \in {"absent", "list", "object"}
                 /\ v.items \in Seq(Entry)
        BY DEF Sizes, Typed, Config
    <2>2. calls \in 0..MaxCalls /\ removedAt \in 0..MaxCalls
        BY MaxCallsAssumption DEF IInv, Shape, Sizes, Sized, Rest
    <2>3. Backups \subseteq 1..MaxCalls
        BY DEF Sizes, Copies
    <2> QED
        BY <2>1, <2>2, <2>3 DEF TypeOK, Sizes, Copies, Rest
<1> QED
    BY <1>1, Invariance, SizesInvariance, PTL

\* create_backup reads a key that no section writes, and a restore writes to it
\* what a backup holds: every backup there ever is holds the empty configuration,
\* whatever is stored, and so does the whole once one is restored.
THEOREM BackupsAreEmpty ==
    Spec => []((\A c \in Backups : backups[c] = Empty)
               /\ whole \in {NoValue, Empty})
<1>1. Sizes => (\A c \in Backups : backups[c] = Empty)
               /\ whole \in {NoValue, Empty}
    BY DEF Sizes, Copies
<1> QED
    BY <1>1, SizesInvariance, PTL
=============================================================================
