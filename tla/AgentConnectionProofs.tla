----------------------- MODULE AgentConnectionProofs -----------------------
(***************************************************************************)
(* What holds of the Durable Object for any number of sockets, commands    *)
(* and suspended handlers: first under all the faults its model knows,     *)
(* then three promises each of which some faults break, under the others.  *)
(***************************************************************************)
EXTENDS AgentConnection, TLAPS

\* Until an AUTH has been verified no handler is past the checks.
VerifiedInv ==
    ~verified => \A h \in suspended : h.at \notin {"auth_ok_key", "online", "body"}

\* A command whose body is being read is one handler's alone.
BodyInv ==
    \A h \in suspended :
        h.at = "body" => h.sock = NoSocket /\ h.cmd \in Cmds /\ cmd[h.cmd] = "waiting"

\* An instance that has read its storage holds all the pending entries stored.
LoadedInv == ~unloaded => StoredPending \subseteq memory.pending

IInv == /\ TypeOK /\ NothingBeforeVerification /\ AnsweredStaysSettled
        /\ VerifiedInv /\ BodyInv /\ LoadedInv

-----------------------------------------------------------------------------
LEMMA WaitingFields ==
    ASSUME NEW p, NEW s, NEW c
    PROVE  /\ Waiting(p, s, c).at = p
           /\ Waiting(p, s, c).sock = s
           /\ Waiting(p, s, c).cmd = c
BY DEF Waiting

LEMMA WaitingType ==
    ASSUME NEW p \in AwaitPoints, NEW s \in Sockets \cup {NoSocket},
           NEW c \in Cmds \cup {NoCmd}
    PROVE  Waiting(p, s, c) \in Suspended
BY DEF Waiting, Suspended

LEMMA LoadedType ==
    ASSUME IInv
    PROVE  /\ Loaded \in AgentState
           /\ ~verified => ~Loaded.authenticated
           /\ \A c \in ConfigCmds : cmd[c] = "answered" => c \notin Loaded.pending
           /\ StoredPending \subseteq Loaded.pending
BY DEF IInv, TypeOK, Loaded, StoredPending, NothingBeforeVerification,
   AnsweredStaysSettled

LEMMA StateFacts ==
    ASSUME TypeOK
    PROVE  /\ memory.device_id \in BOOLEAN /\ memory.authenticated \in BOOLEAN
           /\ memory.pending \subseteq Cmds
           /\ storage # NoState => storage.pending \subseteq Cmds
BY DEF TypeOK, AgentState

LEMMA DefaultStateType == DefaultState \in AgentState
BY DEF DefaultState, AgentState

LEMMA InitIInv == Init => IInv
<1> SUFFICES ASSUME Init PROVE IInv
    OBVIOUS
<1>1. TypeOK
    BY DefaultStateType DEF Init, TypeOK
<1>2. VerifiedInv /\ BodyInv
    BY DEF Init, VerifiedInv, BodyInv
<1>3. NothingBeforeVerification
    BY DEF Init, DefaultState, NothingBeforeVerification
<1>4. AnsweredStaysSettled /\ LoadedInv
    BY ConfigAssumption DEF Init, AnsweredStaysSettled, LoadedInv
<1> QED
    BY <1>1, <1>2, <1>3, <1>4 DEF IInv

-----------------------------------------------------------------------------
(* One lemma per action. *)

LEMMA HandleWebsocketPreserves ==
    ASSUME IInv, NEW s \in Sockets, HandleWebsocket(s)
    PROVE  IInv'
<1> USE DEF HandleWebsocket, Save
<1>0. TypeOK
    BY DEF IInv
<1>1. TypeOK'
    BY <1>0, LoadedType DEF TypeOK, AgentState
<1>2. NothingBeforeVerification' /\ VerifiedInv'
    BY LoadedType DEF IInv, NothingBeforeVerification, VerifiedInv
<1>3. BodyInv'
    BY DEF IInv, BodyInv
<1>4. AnsweredStaysSettled'
    BY LoadedType DEF AnsweredStaysSettled, StoredPending
<1>5. LoadedInv'
    BY DEF LoadedInv, StoredPending
<1> QED
    BY <1>1, <1>2, <1>3, <1>4, <1>5 DEF IInv

LEMMA HandleCommandPreserves ==
    ASSUME IInv, NEW c \in Cmds, HandleCommand(c)
    PROVE  IInv'
<1> USE DEF HandleCommand, Suspend
<1>0. TypeOK
    BY DEF IInv
<1>1. TypeOK'
  <2>1. memory' \in AgentState
      BY LoadedType
  <2>2. suspended' \subseteq Suspended
    <3>1. Waiting("body", NoSocket, c) \in Suspended
        BY WaitingType DEF AwaitPoints
    <3> QED
        BY <1>0, <3>1 DEF TypeOK
  <2> QED
      BY <1>0, <2>1, <2>2 DEF TypeOK
<1>2. NothingBeforeVerification' /\ VerifiedInv'
    BY LoadedType DEF IInv, TypeOK, NothingBeforeVerification, VerifiedInv
<1>3. BodyInv'
    BY DEF IInv, TypeOK, BodyInv, Waiting
<1>4. AnsweredStaysSettled'
    BY LoadedType DEF IInv, TypeOK, AgentState, AnsweredStaysSettled, StoredPending
<1>5. LoadedInv'
    BY LoadedType DEF LoadedInv, StoredPending
<1> QED
    BY <1>1, <1>2, <1>3, <1>4, <1>5 DEF IInv

LEMMA SendCommandPreserves ==
    ASSUME IInv, NEW h \in suspended, SendCommand(h)
    PROVE  IInv'
<1> USE DEF SendCommand, Resume, Save
<1>0. TypeOK
    BY DEF IInv
<1>a. h.cmd \in Cmds
    BY DEF IInv, BodyInv
<1>1. TypeOK'
    BY <1>0, <1>a DEF TypeOK, AgentState
<1>2. NothingBeforeVerification' /\ VerifiedInv'
    BY DEF IInv, NothingBeforeVerification, VerifiedInv
<1>3. BodyInv'
    BY DEF IInv, TypeOK, BodyInv, Suspended
<1>4. AnsweredStaysSettled'
    BY DEF IInv, TypeOK, AgentState, AnsweredStaysSettled, StoredPending, BodyInv
<1>5. LoadedInv'
    BY DEF IInv, TypeOK, AgentState, LoadedInv, StoredPending
<1> QED
    BY <1>1, <1>2, <1>3, <1>4, <1>5 DEF IInv

LEMMA HandleStatusRequestPreserves ==
    ASSUME IInv, HandleStatusRequest
    PROVE  IInv'
<1> USE DEF HandleStatusRequest
<1>0. TypeOK
    BY DEF IInv
<1>1. TypeOK'
    BY <1>0, LoadedType DEF TypeOK
<1>2. NothingBeforeVerification' /\ VerifiedInv'
    BY LoadedType DEF IInv, NothingBeforeVerification, VerifiedInv
<1>3. BodyInv'
    BY DEF IInv, BodyInv
<1>4. AnsweredStaysSettled'
    BY LoadedType DEF AnsweredStaysSettled, StoredPending
<1>5. LoadedInv'
    BY LoadedType DEF LoadedInv, StoredPending
<1> QED
    BY <1>1, <1>2, <1>3, <1>4, <1>5 DEF IInv

LEMMA HandleDisconnectPreserves ==
    ASSUME IInv, HandleDisconnect
    PROVE  IInv'
<1> USE DEF HandleDisconnect, Save
<1>0. TypeOK
    BY DEF IInv
<1>1. TypeOK'
    BY <1>0 DEF TypeOK, AgentState
<1>2. NothingBeforeVerification' /\ VerifiedInv'
    BY DEF IInv, NothingBeforeVerification, VerifiedInv
<1>3. BodyInv'
    BY DEF IInv, BodyInv
<1>4. AnsweredStaysSettled'
    BY DEF IInv, AnsweredStaysSettled, StoredPending
<1>5. LoadedInv'
    BY DEF LoadedInv, StoredPending
<1> QED
    BY <1>1, <1>2, <1>3, <1>4, <1>5 DEF IInv

LEMMA HandleAuthPreserves ==
    ASSUME IInv, NEW s \in Sockets, NEW device \in BOOLEAN, NEW key \in BOOLEAN,
           HandleAuth(s, device, key)
    PROVE  IInv'
<1> USE DEF HandleAuth, Suspend
<1>0. TypeOK
    BY DEF IInv
<1>1. TypeOK'
    BY <1>0, WaitingType DEF TypeOK, AwaitPoints
<1>2. NothingBeforeVerification' /\ VerifiedInv'
    BY WaitingFields DEF IInv, TypeOK, NothingBeforeVerification, VerifiedInv
<1>3. BodyInv'
    BY DEF IInv, BodyInv, Waiting
<1>4. AnsweredStaysSettled'
    BY DEF IInv, AnsweredStaysSettled, StoredPending
<1>5. LoadedInv'
    BY DEF IInv, LoadedInv, StoredPending
<1> QED
    BY <1>1, <1>2, <1>3, <1>4, <1>5 DEF IInv

LEMMA AuthAcceptedPreserves ==
    ASSUME IInv, NEW h \in suspended, AuthAccepted(h)
    PROVE  IInv'
<1> USE DEF AuthAccepted, Reply, Save
<1>0. TypeOK
    BY DEF IInv
<1>a. h.sock \in Sockets \cup {NoSocket}
    BY <1>0 DEF TypeOK, Suspended
<1>1. TypeOK'
    BY <1>0, <1>a, StateFacts, WaitingType
    DEF TypeOK, AgentState, AwaitPoints
<1>2. NothingBeforeVerification' /\ VerifiedInv'
    BY DEF IInv, NothingBeforeVerification, VerifiedInv
<1>3. BodyInv'
    BY DEF IInv, BodyInv, Waiting
<1>4. AnsweredStaysSettled'
    BY DEF IInv, TypeOK, AgentState, AnsweredStaysSettled, StoredPending
<1>5. LoadedInv'
    BY DEF IInv, TypeOK, AgentState, LoadedInv, StoredPending
<1> QED
    BY <1>1, <1>2, <1>3, <1>4, <1>5 DEF IInv

LEMMA AuthRejectedPreserves ==
    ASSUME IInv, NEW h \in suspended, AuthRejected(h)
    PROVE  IInv'
<1> USE DEF AuthRejected, Reply, Resume, Save
<1>0. TypeOK
    BY DEF IInv
<1>1. TypeOK'
    BY <1>0 DEF TypeOK
<1>2. NothingBeforeVerification' /\ VerifiedInv'
    BY DEF IInv, NothingBeforeVerification, VerifiedInv
<1>3. BodyInv'
    BY DEF IInv, BodyInv
<1>4. AnsweredStaysSettled'
    BY DEF IInv, AnsweredStaysSettled, StoredPending
<1>5. LoadedInv'
    BY DEF IInv, LoadedInv, StoredPending
<1> QED
    BY <1>1, <1>2, <1>3, <1>4, <1>5 DEF IInv

LEMMA AuthOnlinePreserves ==
    ASSUME IInv, NEW h \in suspended, AuthOnline(h)
    PROVE  IInv'
<1> USE DEF AuthOnline, Resume, Save
<1>0. TypeOK
    BY DEF IInv
<1>1. TypeOK'
    BY <1>0 DEF TypeOK
<1>2. NothingBeforeVerification' /\ VerifiedInv'
    BY DEF IInv, NothingBeforeVerification, VerifiedInv
<1>3. BodyInv'
    BY DEF IInv, BodyInv
<1>4. AnsweredStaysSettled'
    BY DEF IInv, AnsweredStaysSettled, StoredPending
<1>5. LoadedInv'
    BY DEF LoadedInv, StoredPending
<1> QED
    BY <1>1, <1>2, <1>3, <1>4, <1>5 DEF IInv

LEMMA HandleStatusPreserves ==
    ASSUME IInv, NEW s \in Sockets, HandleStatus(s)
    PROVE  IInv'
<1> USE DEF HandleStatus, Suspend, Save
<1>0. TypeOK
    BY DEF IInv
<1>1. TypeOK'
    BY <1>0, WaitingType DEF TypeOK, AwaitPoints
<1>2. NothingBeforeVerification' /\ VerifiedInv'
    BY WaitingFields DEF IInv, NothingBeforeVerification, VerifiedInv
<1>3. BodyInv'
    BY DEF IInv, BodyInv, Waiting
<1>4. AnsweredStaysSettled'
    BY DEF IInv, AnsweredStaysSettled, StoredPending
<1>5. LoadedInv'
    BY DEF IInv, LoadedInv, StoredPending
<1> QED
    BY <1>1, <1>2, <1>3, <1>4, <1>5 DEF IInv

LEMMA StatusStoredPreserves ==
    ASSUME IInv, NEW h \in suspended, StatusStored(h)
    PROVE  IInv'
<1> USE DEF StatusStored, Resume, Save
<1>0. TypeOK
    BY DEF IInv
<1>1. TypeOK'
    BY <1>0 DEF TypeOK
<1>2. NothingBeforeVerification' /\ VerifiedInv'
    BY DEF IInv, NothingBeforeVerification, VerifiedInv
<1>3. BodyInv'
    BY DEF IInv, BodyInv
<1>4. AnsweredStaysSettled'
    BY DEF IInv, AnsweredStaysSettled, StoredPending
<1>5. LoadedInv'
    BY DEF IInv, LoadedInv, StoredPending
<1> QED
    BY <1>1, <1>2, <1>3, <1>4, <1>5 DEF IInv

LEMMA HandleTelemetryPreserves ==
    ASSUME IInv, NEW s \in Sockets, HandleTelemetry(s)
    PROVE  IInv'
<1> USE DEF HandleTelemetry, Suspend, Save
<1>0. TypeOK
    BY DEF IInv
<1>1. TypeOK'
    BY <1>0, WaitingType DEF TypeOK, AwaitPoints
<1>2. NothingBeforeVerification' /\ VerifiedInv'
    BY WaitingFields DEF IInv, NothingBeforeVerification, VerifiedInv
<1>3. BodyInv'
    BY DEF IInv, BodyInv, Waiting
<1>4. AnsweredStaysSettled'
    BY DEF IInv, AnsweredStaysSettled, StoredPending
<1>5. LoadedInv'
    BY DEF IInv, LoadedInv, StoredPending
<1> QED
    BY <1>1, <1>2, <1>3, <1>4, <1>5 DEF IInv

LEMMA TelemetryStoredPreserves ==
    ASSUME IInv, NEW h \in suspended, TelemetryStored(h)
    PROVE  IInv'
<1> USE DEF TelemetryStored, Resume, Save
<1>0. TypeOK
    BY DEF IInv
<1>1. TypeOK'
    BY <1>0 DEF TypeOK
<1>2. NothingBeforeVerification' /\ VerifiedInv'
    BY DEF IInv, NothingBeforeVerification, VerifiedInv
<1>3. BodyInv'
    BY DEF IInv, BodyInv
<1>4. AnsweredStaysSettled'
    BY DEF IInv, AnsweredStaysSettled, StoredPending
<1>5. LoadedInv'
    BY DEF LoadedInv, StoredPending
<1> QED
    BY <1>1, <1>2, <1>3, <1>4, <1>5 DEF IInv

LEMMA HandleOtherPreserves ==
    ASSUME IInv, NEW s \in Sockets, HandleOther(s)
    PROVE  IInv'
<1> USE DEF HandleOther, Save
<1>0. TypeOK
    BY DEF IInv
<1>1. TypeOK'
    BY <1>0 DEF TypeOK
<1>2. NothingBeforeVerification' /\ VerifiedInv'
    BY DEF IInv, NothingBeforeVerification, VerifiedInv
<1>3. BodyInv'
    BY DEF IInv, BodyInv
<1>4. AnsweredStaysSettled'
    BY DEF IInv, AnsweredStaysSettled, StoredPending
<1>5. LoadedInv'
    BY DEF LoadedInv, StoredPending
<1> QED
    BY <1>1, <1>2, <1>3, <1>4, <1>5 DEF IInv

LEMMA HandleConfigResponsePreserves ==
    ASSUME IInv, NEW s \in Sockets, NEW c \in Cmds, HandleConfigResponse(s, c)
    PROVE  IInv'
<1> USE DEF HandleConfigResponse, Talks, Save
<1>0. TypeOK
    BY DEF IInv
<1>1. TypeOK'
    BY <1>0 DEF TypeOK, AgentState
<1>2. NothingBeforeVerification' /\ VerifiedInv'
    BY DEF IInv, NothingBeforeVerification, VerifiedInv
<1>3. BodyInv'
    BY DEF IInv, BodyInv
<1>4. AnsweredStaysSettled'
    BY DEF IInv, AnsweredStaysSettled, StoredPending
<1>5. LoadedInv'
    BY DEF LoadedInv, StoredPending
<1> QED
    BY <1>1, <1>2, <1>3, <1>4, <1>5 DEF IInv

LEMMA HandleExecResultPreserves ==
    ASSUME IInv, NEW s \in Sockets, NEW c \in Cmds, HandleExecResult(s, c)
    PROVE  IInv'
<1> USE DEF HandleExecResult, Talks, Suspend, Save
<1>0. TypeOK
    BY DEF IInv
<1>1. TypeOK'
    BY <1>0, WaitingType DEF TypeOK, AgentState, AwaitPoints
<1>2. NothingBeforeVerification' /\ VerifiedInv'
    BY DEF IInv, NothingBeforeVerification, VerifiedInv
<1>3. BodyInv'
    BY DEF IInv, BodyInv, Waiting
<1>4. AnsweredStaysSettled'
    BY DEF IInv, TypeOK, AgentState, AnsweredStaysSettled, StoredPending
<1>5. LoadedInv'
    BY CallerIdAssumption DEF IInv, TypeOK, AgentState, LoadedInv, StoredPending
<1> QED
    BY <1>1, <1>2, <1>3, <1>4, <1>5 DEF IInv

LEMMA WebsocketClosePreserves ==
    ASSUME IInv, NEW s \in Sockets, WebsocketClose(s)
    PROVE  IInv'
<1> USE DEF WebsocketClose, Suspend, Save
<1>0. TypeOK
    BY DEF IInv
<1>1. TypeOK'
  <2>1. memory' \in AgentState
      BY <1>0 DEF TypeOK, AgentState
  <2>2. suspended' \subseteq Suspended
    <3>1. Waiting("offline", s, NoCmd) \in Suspended
        BY WaitingType DEF AwaitPoints
    <3> QED
        BY <1>0, <3>1 DEF TypeOK
  <2> QED
      BY <1>0, <2>1, <2>2 DEF TypeOK
<1>2. NothingBeforeVerification' /\ VerifiedInv'
    BY WaitingFields
       DEF IInv, TypeOK, AgentState, NothingBeforeVerification, VerifiedInv
<1>3. BodyInv'
    BY DEF IInv, BodyInv, Waiting
<1>4. AnsweredStaysSettled'
    BY DEF IInv, TypeOK, AgentState, AnsweredStaysSettled, StoredPending
<1>5. LoadedInv'
    BY DEF IInv, TypeOK, AgentState, LoadedInv, StoredPending
<1> QED
    BY <1>1, <1>2, <1>3, <1>4, <1>5 DEF IInv

LEMMA CloseFinishedPreserves ==
    ASSUME IInv, NEW h \in suspended, CloseFinished(h)
    PROVE  IInv'
<1> USE DEF CloseFinished, Resume, Save
<1>0. TypeOK
    BY DEF IInv
<1>1. TypeOK'
    BY <1>0 DEF TypeOK
<1>2. NothingBeforeVerification' /\ VerifiedInv'
    BY DEF IInv, NothingBeforeVerification, VerifiedInv
<1>3. BodyInv'
    BY DEF IInv, BodyInv
<1>4. AnsweredStaysSettled'
    BY DEF IInv, AnsweredStaysSettled, StoredPending
<1>5. LoadedInv'
    BY DEF LoadedInv, StoredPending
<1> QED
    BY <1>1, <1>2, <1>3, <1>4, <1>5 DEF IInv

LEMMA HibernatePreserves ==
    ASSUME IInv, Hibernate
    PROVE  IInv'
<1> USE DEF Hibernate, DefaultState
<1>0. TypeOK
    BY DEF IInv
<1>1. TypeOK'
    BY <1>0 DEF TypeOK, AgentState
<1>2. NothingBeforeVerification' /\ VerifiedInv'
    BY DEF IInv, NothingBeforeVerification, VerifiedInv
<1>3. BodyInv'
    BY DEF BodyInv
<1>4. AnsweredStaysSettled'
    BY DEF IInv, AnsweredStaysSettled, StoredPending
<1>5. LoadedInv'
    BY DEF LoadedInv
<1> QED
    BY <1>1, <1>2, <1>3, <1>4, <1>5 DEF IInv

LEMMA RestartPreserves ==
    ASSUME IInv, Restart
    PROVE  IInv'
<1> USE DEF Restart, DefaultState
<1>0. TypeOK
    BY DEF IInv
<1>1. TypeOK'
    BY <1>0 DEF TypeOK, AgentState
<1>2. NothingBeforeVerification' /\ VerifiedInv'
    BY DEF IInv, NothingBeforeVerification, VerifiedInv
<1>3. BodyInv'
    BY DEF BodyInv
<1>4. AnsweredStaysSettled'
    BY DEF IInv, TypeOK, AgentState, AnsweredStaysSettled, StoredPending
<1>5. LoadedInv'
    BY DEF LoadedInv
<1> QED
    BY <1>1, <1>2, <1>3, <1>4, <1>5 DEF IInv

LEMMA StepIInv == IInv /\ [Next]_vars => IInv'
<1> SUFFICES ASSUME IInv, [Next]_vars PROVE IInv'
    OBVIOUS
<1>1. CASE Requests
    BY <1>1, HandleWebsocketPreserves, HandleCommandPreserves,
       HandleStatusRequestPreserves, HandleDisconnectPreserves
       DEF Requests
<1>2. CASE Messages
    BY <1>2, HandleAuthPreserves, HandleStatusPreserves, HandleTelemetryPreserves,
       HandleOtherPreserves, HandleConfigResponsePreserves,
       HandleExecResultPreserves, WebsocketClosePreserves
       DEF Messages
<1>3. CASE Resumes
    BY <1>3, SendCommandPreserves, AuthAcceptedPreserves, AuthRejectedPreserves,
       AuthOnlinePreserves, StatusStoredPreserves, TelemetryStoredPreserves,
       CloseFinishedPreserves
       DEF Resumes, ResumeOne
<1>4. CASE Hibernate \/ Restart
    BY <1>4, HibernatePreserves, RestartPreserves
<1>5. CASE UNCHANGED vars
    BY <1>5
       DEF vars, IInv, TypeOK, NothingBeforeVerification, AnsweredStaysSettled,
       VerifiedInv, BodyInv, LoadedInv, StoredPending
<1> QED
    BY <1>1, <1>2, <1>3, <1>4, <1>5 DEF Next

\* The invariant the properties below are read off.
THEOREM Inductive == Spec => []IInv
BY InitIInv, StepIInv, PTL DEF Spec

\* Every variable of the object keeps its type.
THEOREM TypeCorrect == Spec => []TypeOK
<1>1. IInv => TypeOK
    BY DEF IInv
<1> QED
    BY <1>1, Inductive, PTL

\* However requests, messages, hibernations, restarts and reconnects interleave,
\* nothing is treated as authenticated before one AUTH was verified.
THEOREM VerificationComesFirst == Spec => []NothingBeforeVerification
<1>1. IInv => NothingBeforeVerification
    BY DEF IInv
<1> QED
    BY <1>1, Inductive, PTL

\* A config command that was answered is pending nowhere, ever again.
THEOREM AnswersAreFinal == Spec => []AnsweredStaysSettled
<1>1. IInv => AnsweredStaysSettled
    BY DEF IInv
<1> QED
    BY <1>1, Inductive, PTL

\* What is recorded as pending leaves storage only with its answer, or by the
\* save of an instance that has not read its storage.
THEOREM PendingIsKept == Spec => PendingLostOnlyUnloaded
<1>1. ASSUME IInv, [Next]_vars, ~unloaded, NEW c \in StoredPending \ StoredPending'
      PROVE  cmd'[c] = "answered"
  <2>1. c \in memory.pending /\ c \in Loaded.pending /\ c \in Cmds
      BY <1>1, StateFacts, LoadedType DEF IInv, LoadedInv
  <2>2. storage' # storage
      BY DEF StoredPending
  <2>3. storage' = memory' /\ c \notin memory'.pending
    <3>1. storage' = memory'
        BY <1>1, <2>2
           DEF Next, Requests, Messages, Resumes, ResumeOne, vars, Save,
           HandleWebsocket, HandleCommand, HandleStatusRequest, HandleDisconnect,
           HandleAuth, HandleStatus, HandleTelemetry, HandleOther,
           HandleConfigResponse, HandleExecResult, WebsocketClose, SendCommand,
           AuthAccepted, AuthRejected, AuthOnline, StatusStored, TelemetryStored,
           CloseFinished, Hibernate, Restart
    <3>2. memory' # NoState
        BY <1>1, StepIInv, NoStateAssumption DEF IInv, TypeOK
    <3> QED
        BY <3>1, <3>2 DEF StoredPending
  <2>4. memory \in AgentState
      BY <1>1 DEF IInv, TypeOK
  <2>5. CASE Requests
    <3>1. ASSUME NEW s \in Sockets, HandleWebsocket(s) PROVE FALSE
        BY <2>3, <3>1, <1>1, LoadedType DEF HandleWebsocket
    <3>2. ASSUME NEW d \in Cmds, HandleCommand(d) PROVE FALSE
        BY <2>2, <3>2 DEF HandleCommand
    <3>3. ~HandleStatusRequest
        BY <2>2 DEF HandleStatusRequest
    <3>4. ~HandleDisconnect
        BY <2>1, <2>3, <2>4 DEF HandleDisconnect, AgentState
    <3> QED
        BY <2>5, <3>1, <3>2, <3>3, <3>4 DEF Requests
  <2>6. CASE Messages
    <3>1. ASSUME NEW s \in Sockets, NEW d \in Cmds, HandleConfigResponse(s, d)
          PROVE  cmd'[c] = "answered"
        BY <1>1, <2>1, <2>3, <3>1 DEF HandleConfigResponse, IInv, TypeOK
    <3>2. ASSUME NEW s \in Sockets, NEW d \in Cmds, HandleExecResult(s, d) PROVE FALSE
        BY <2>1, <2>3, <3>2, CallerIdAssumption DEF HandleExecResult
    <3>3. ASSUME NEW s \in Sockets, WebsocketClose(s) PROVE FALSE
        BY <2>1, <2>3, <3>3 DEF WebsocketClose
    <3>4. ASSUME NEW s \in Sockets,
                 \/ \E device, key \in BOOLEAN : HandleAuth(s, device, key)
                 \/ HandleStatus(s) \/ HandleTelemetry(s) \/ HandleOther(s)
          PROVE  FALSE
        BY <2>1, <2>3, <3>4 DEF HandleAuth, HandleStatus, HandleTelemetry, HandleOther
    <3> QED
        BY <2>6, <3>1, <3>2, <3>3, <3>4 DEF Messages
  <2>7. CASE Resumes
    <3>1. ASSUME NEW h \in suspended, SendCommand(h) PROVE FALSE
        BY <2>1, <2>3, <3>1 DEF SendCommand
    <3>2. ASSUME NEW h \in suspended, AuthAccepted(h) PROVE FALSE
        BY <2>1, <2>3, <3>2 DEF AuthAccepted
    <3>3. ASSUME NEW h \in suspended,
                 AuthRejected(h) \/ AuthOnline(h) \/ StatusStored(h)
                 \/ TelemetryStored(h) \/ CloseFinished(h)
          PROVE  FALSE
        BY <2>1, <2>3, <3>3
           DEF AuthRejected, AuthOnline, StatusStored, TelemetryStored,
           CloseFinished
    <3> QED
        BY <2>7, <3>1, <3>2, <3>3 DEF Resumes, ResumeOne
  <2>8. CASE Hibernate \/ Restart \/ UNCHANGED vars
      BY <2>2, <2>8 DEF Hibernate, Restart, vars
  <2> QED
      BY <1>1, <2>5, <2>6, <2>7, <2>8 DEF Next
<1>2. IInv /\ [Next]_vars =>
        [\A c \in StoredPending \ StoredPending' : cmd'[c] = "answered" \/ unloaded]_vars
    BY <1>1
<1> QED
    BY <1>2, Inductive, PTL DEF Spec, PendingLostOnlyUnloaded

-----------------------------------------------------------------------------
(* What the three promises share. *)

KeyPoints == {"auth_ok_key", "auth_bad_key"}
AuthPoints == KeyPoints \cup {"online"}

\* The session is up: AUTH_OK has left on the current socket.
Up == /\ websocket # NoSocket
      /\ socket[websocket] = "open"
      /\ told[websocket] = "AUTH_OK"

OnlineSuspended == \E h \in suspended : h.at = "online"

-----------------------------------------------------------------------------
(* A session stays on record.  Broken by "hibernate" (the save of an object *)
(* that loaded nothing), "poll" (a load between AUTH_OK and its save) and   *)
(* "overlap" (the close of one socket under the session of another); the    *)
(* faults left take the session away with its socket.                       *)

OneOpen == \A s \in Sockets : socket[s] = "open" => s = websocket

\* While a socket is being closed, none is open.
Closing ==
    CloseSuspended \/ (\E s \in Sockets : socket[s] = "closing") =>
        \A s \in Sockets : socket[s] # "open"

UntoldUnused == \A s \in Sockets : socket[s] = "unused" => told[s] = "nothing"

\* The flag in memory is never behind the session; the one in storage only
\* while the handler of AUTH has still to save.
OnRecord ==
    /\ Up => memory.authenticated
    /\ Up /\ ~OnlineSuspended => storage # NoState /\ storage.authenticated

RecordInv == OneOpen /\ Closing /\ UntoldUnused /\ OnRecord

RecordFaults == {"restart", "disconnect", "early_close"}

LEMMA InitRecord == Init => RecordInv
BY DEF Init, RecordInv, OneOpen, Closing, CloseSuspended, UntoldUnused,
   OnRecord, Up

LEMMA TalkingIsUp ==
    ASSUME OneOpen, NEW s \in Sockets, Talks(s)
    PROVE  Up /\ s = websocket
BY NoSocketAssumption DEF OneOpen, Talks, Up

\* A step that leaves the sockets and what they were told, and does not take
\* the flag of a session that is up.
RecordStill ==
    /\ UNCHANGED <<socket, websocket, told>>
    /\ Up => memory'.authenticated
    /\ \/ storage' = memory'
       \/ storage' = storage /\ (OnlineSuspended => OnlineSuspended')
    /\ CloseSuspended' => CloseSuspended

LEMMA RecordStillKeeps ==
    ASSUME RecordInv, RecordStill, memory' \in AgentState
    PROVE  RecordInv'
<1>1. UNCHANGED <<socket, websocket, told>> /\ (Up' <=> Up)
    BY DEF RecordStill, Up
<1>2. OneOpen' /\ Closing' /\ UntoldUnused'
    BY <1>1 DEF RecordInv, OneOpen, Closing, UntoldUnused, RecordStill
<1>3. memory' # NoState
    BY NoStateAssumption
<1>4. OnRecord'
    BY <1>1, <1>3 DEF RecordInv, OnRecord, RecordStill
<1> QED
    BY <1>2, <1>4 DEF RecordInv

LEMMA RecordStillSteps ==
    ASSUME IInv, RecordInv, Faults \subseteq RecordFaults,
           \/ \E c \in Cmds : HandleCommand(c)
           \/ HandleStatusRequest
           \/ \E s \in Sockets :
                 \/ \E device, key \in BOOLEAN : HandleAuth(s, device, key)
                 \/ HandleStatus(s) \/ HandleTelemetry(s) \/ HandleOther(s)
                 \/ \E c \in Cmds :
                       HandleConfigResponse(s, c) \/ HandleExecResult(s, c)
           \/ \E h \in suspended :
                 \/ SendCommand(h) \/ AuthOnline(h)
                 \/ StatusStored(h) \/ TelemetryStored(h)
    PROVE  RecordStill
<1>1. /\ memory \in AgentState
      /\ Up => memory.authenticated
      /\ Up /\ ~OnlineSuspended => storage # NoState /\ storage.authenticated
    BY DEF IInv, TypeOK, RecordInv, OnRecord
<1>2. CASE (\E c \in Cmds : HandleCommand(c)) \/ HandleStatusRequest
    <2>1. ~AuthSuspended /\ memory' = Loaded
        BY <1>2 DEF HandleCommand, HandleStatusRequest, RecordFaults
    <2>2. ~OnlineSuspended
        BY <2>1 DEF AuthSuspended, OnlineSuspended
    <2>3. Up => memory'.authenticated
        BY <1>1, <2>1, <2>2 DEF Loaded
    <2>4. UNCHANGED <<socket, websocket, told, storage>>
        BY <1>2 DEF HandleCommand, HandleStatusRequest
    <2>5. CloseSuspended' => CloseSuspended
        <3>1. \A h \in suspended' \ suspended : h.at = "body"
            BY <1>2, WaitingFields
            DEF HandleCommand, HandleStatusRequest, Suspend
        <3> QED
            BY <3>1 DEF CloseSuspended
    <2> QED
        BY <2>2, <2>3, <2>4, <2>5 DEF RecordStill
<1>3. ASSUME NEW s \in Sockets,
             \/ \E device, key \in BOOLEAN : HandleAuth(s, device, key)
             \/ HandleStatus(s) \/ HandleTelemetry(s) \/ HandleOther(s)
             \/ \E c \in Cmds :
                   HandleConfigResponse(s, c) \/ HandleExecResult(s, c)
      PROVE  RecordStill
    <2>1. UNCHANGED <<socket, websocket, told>> /\ storage' \in {storage, memory'}
        BY <1>3 DEF HandleAuth, HandleStatus, HandleTelemetry, HandleOther,
           HandleConfigResponse, HandleExecResult, Save
    <2>2. memory'.authenticated <=> memory.authenticated
        BY <1>1, <1>3 DEF HandleAuth, HandleStatus, HandleTelemetry, HandleOther,
           HandleConfigResponse, HandleExecResult, AgentState
    <2>3. /\ suspended \subseteq suspended'
          /\ \A h \in suspended' \ suspended : h.at # "offline"
        BY <1>3, WaitingFields
        DEF HandleAuth, HandleStatus, HandleTelemetry, HandleOther,
            HandleConfigResponse, HandleExecResult, Suspend
    <2> QED
        BY <1>1, <2>1, <2>2, <2>3
        DEF RecordStill, OnlineSuspended, CloseSuspended
<1>4. ASSUME NEW h \in suspended,
             \/ SendCommand(h) \/ AuthOnline(h)
             \/ StatusStored(h) \/ TelemetryStored(h)
      PROVE  RecordStill
    <2>1. /\ UNCHANGED <<socket, websocket, told>>
          /\ suspended' = suspended \ {h}
          /\ \/ storage' = memory'
             \/ storage' = storage /\ h.at \in {"body", "status"}
        BY <1>4 DEF SendCommand, AuthOnline, StatusStored, TelemetryStored,
           Save, Resume
    <2>2. memory'.authenticated <=> memory.authenticated
        BY <1>1, <1>4 DEF SendCommand, AuthOnline, StatusStored,
           TelemetryStored, AgentState
    <2> QED
        BY <1>1, <2>1, <2>2 DEF RecordStill, OnlineSuspended, CloseSuspended
<1> QED
    BY <1>2, <1>3, <1>4

LEMMA HandleWebsocketRecords ==
    ASSUME IInv, RecordInv, Faults \subseteq RecordFaults,
           NEW s \in Sockets, HandleWebsocket(s)
    PROVE  RecordInv'
<1>1. /\ suspended = {} /\ \A t \in Sockets : socket[t] \in {"unused", "closed"}
      /\ socket[s] = "unused" /\ told[s] = "nothing"
      /\ socket' = [socket EXCEPT ![s] = "open"] /\ websocket' = s
      /\ UNCHANGED <<suspended, told>>
    BY DEF HandleWebsocket, RecordFaults, RecordInv, UntoldUnused
<1>2. socket'[s] = "open" /\ \A t \in Sockets \ {s} : socket'[t] = socket[t]
    BY <1>1 DEF IInv, TypeOK
<1>3. ~Up' /\ ~CloseSuspended'
    BY <1>1 DEF Up, CloseSuspended
<1> QED
    BY <1>1, <1>2, <1>3 DEF RecordInv, OneOpen, Closing, UntoldUnused, OnRecord

\* Wherever nothing is open, nothing is up.
LEMMA NothingOpen ==
    ASSUME \A s \in Sockets : socket'[s] # "open", UntoldUnused',
           websocket' \in Sockets \cup {NoSocket}
    PROVE  RecordInv'
BY DEF RecordInv, OneOpen, Closing, OnRecord, Up

LEMMA EndsRecord ==
    ASSUME IInv, RecordInv,
           \/ HandleDisconnect \/ Restart
           \/ \E s \in Sockets : WebsocketClose(s)
           \/ \E h \in suspended : CloseFinished(h)
    PROVE  RecordInv'
<1>1. websocket' \in Sockets \cup {NoSocket}
    BY StepIInv DEF IInv, TypeOK, Next, Requests, Messages, Resumes, ResumeOne
<1>2. UntoldUnused'
    <2>1. \A s \in Sockets : socket'[s] = "unused" => socket[s] = "unused"
        BY DEF HandleDisconnect, Restart, WebsocketClose, CloseFinished, IInv,
           TypeOK
    <2>2. told' = told
        BY DEF HandleDisconnect, Restart, WebsocketClose, CloseFinished
    <2> QED
        BY <2>1, <2>2 DEF RecordInv, UntoldUnused
<1>3. \A s \in Sockets : socket'[s] # "open"
    <2>1. CASE HandleDisconnect
        BY <2>1, NoSocketAssumption
        DEF HandleDisconnect, RecordInv, OneOpen, IInv, TypeOK
    <2>2. CASE Restart
        BY <2>2 DEF Restart
    <2>3. ASSUME NEW s \in Sockets, WebsocketClose(s)
          PROVE  \A t \in Sockets : socket'[t] # "open"
        BY <2>3 DEF WebsocketClose, RecordInv, OneOpen, Closing, IInv, TypeOK
    <2>4. ASSUME NEW h \in suspended, CloseFinished(h)
          PROVE  \A t \in Sockets : socket'[t] # "open"
        BY <2>4 DEF CloseFinished, RecordInv, Closing, CloseSuspended
    <2> QED
        BY <2>1, <2>2, <2>3, <2>4
<1> QED
    BY <1>1, <1>2, <1>3, NothingOpen

LEMMA AuthRecords ==
    ASSUME IInv, RecordInv, NEW h \in suspended,
           AuthAccepted(h) \/ AuthRejected(h)
    PROVE  RecordInv'
<1>1. UNCHANGED <<socket, websocket>> /\ memory \in AgentState
    BY DEF AuthAccepted, AuthRejected, IInv, TypeOK
<1>2. \A s \in Sockets : told'[s] # told[s] => socket[s] = "open"
    BY DEF AuthAccepted, AuthRejected, Reply, SendOk, IInv, TypeOK
<1>3. CloseSuspended' => CloseSuspended
    <2>1. \A g \in suspended' \ suspended : g.at = "online"
        BY WaitingFields DEF AuthAccepted, AuthRejected, Resume
    <2> QED
        BY <2>1 DEF CloseSuspended
<1>4. OneOpen' /\ Closing' /\ UntoldUnused'
    BY <1>1, <1>2, <1>3 DEF RecordInv, OneOpen, Closing, UntoldUnused
<1>5. memory # NoState /\ memory' # NoState
    BY <1>1, NoStateAssumption DEF AuthAccepted, AuthRejected, AgentState
<1>6. CASE AuthAccepted(h)
    <2>1. memory'.authenticated
        BY <1>1, <1>6 DEF AuthAccepted, AgentState
    <2>2. Up' => SendOk
        BY <1>1 DEF Up, SendOk
    <2>3. Up' => OnlineSuspended' \/ storage' = memory'
        BY <1>6, <2>2, WaitingFields DEF AuthAccepted, OnlineSuspended, Save
    <2>4. OnRecord'
        BY <1>5, <2>1, <2>3 DEF OnRecord
    <2> QED
        BY <1>4, <2>4 DEF RecordInv
<1>7. CASE AuthRejected(h)
    <2>1. Up' => Up /\ SendOk
        BY <1>1, <1>7 DEF AuthRejected, Reply, SendOk, Up, IInv, TypeOK
    <2>2. memory' = memory /\ (SendOk => storage' = memory')
        BY <1>7 DEF AuthRejected, Save
    <2>3. OnRecord'
        BY <1>5, <2>1, <2>2 DEF RecordInv, OnRecord
    <2> QED
        BY <1>4, <2>3 DEF RecordInv
<1> QED
    BY <1>6, <1>7

LEMMA StepRecord ==
    Faults \subseteq RecordFaults =>
        (IInv /\ RecordInv /\ [Next]_vars => RecordInv')
<1> SUFFICES ASSUME Faults \subseteq RecordFaults, IInv, RecordInv, [Next]_vars
             PROVE  RecordInv'
    OBVIOUS
<1>1. memory' \in AgentState
    BY StepIInv DEF IInv, TypeOK
<1>2. CASE RecordStill
    BY <1>1, <1>2, RecordStillKeeps
<1>3. CASE Requests
    BY <1>2, <1>3, HandleWebsocketRecords, RecordStillSteps, EndsRecord
    DEF Requests
<1>4. CASE Messages
    BY <1>2, <1>4, RecordStillSteps, EndsRecord DEF Messages
<1>5. CASE Resumes
    BY <1>2, <1>5, RecordStillSteps, AuthRecords, EndsRecord
    DEF Resumes, ResumeOne
<1>6. ~Hibernate
    BY DEF Hibernate, RecordFaults
<1>7. CASE UNCHANGED vars
    BY <1>7 DEF vars, RecordInv, OneOpen, Closing, CloseSuspended, UntoldUnused,
       OnRecord, Up, OnlineSuspended
<1> QED
    BY <1>3, <1>4, <1>5, <1>6, <1>7, EndsRecord DEF Next

THEOREM RecordInductive ==
    Faults \subseteq RecordFaults => (Spec => []RecordInv)
<1> SUFFICES ASSUME Faults \subseteq RecordFaults PROVE Spec => []RecordInv
    OBVIOUS
<1>1. IInv /\ RecordInv /\ [Next]_vars => RecordInv'
    BY StepRecord
<1> QED
    BY <1>1, InitRecord, Inductive, PTL DEF Spec

\* Restarts, /disconnect and a socket that closes under its AUTH included:
\* while the socket of an authenticated session is open, a quiet object has
\* the session on record, so the next instance finds it there.
THEOREM SessionsAreOnRecord ==
    Faults \subseteq RecordFaults => (Spec => []AuthSticks)
<1>1. RecordInv => AuthSticks
    <2> SUFFICES ASSUME RecordInv, NEW s \in Sockets, suspended = {}, Talks(s)
                 PROVE  storage.authenticated
        BY DEF AuthSticks
    <2> QED
        BY TalkingIsUp DEF RecordInv, OnRecord, OnlineSuspended
<1> QED
    BY <1>1, RecordInductive, PTL

-----------------------------------------------------------------------------
(* No command before AUTH_OK.  Its handler checks the flag, awaits the body *)
(* and then sends, on the socket there is by then.  Broken by "poll" (the   *)
(* load of a flag that is about to be taken back), "restart" (the flag a    *)
(* lost session left in storage), "overlap" and "early_close".              *)

Live(s) == socket[s] \in {"open", "closing"}

OneLive == \A s, t \in Sockets : Live(s) /\ Live(t) => s = t

AuthSent ==
    \A s \in Sockets : /\ s \in auth_sent => socket[s] # "unused"
                       /\ told[s] # "nothing" => s \in auth_sent

\* The current socket is open, or its close is under way.
CurrentLive ==
    websocket # NoSocket => \/ socket[websocket] = "open"
                            \/ socket[websocket] = "closed" /\ CloseSuspended

CloseIsLast == CloseSuspended => \A s \in Sockets : ~Live(s)

\* The handler of an AUTH is of the socket that lives, and before the answer
\* it is the only one.
AuthLives ==
    \A h \in suspended : h.at \in AuthPoints =>
        /\ h.sock \in Sockets /\ Live(h.sock) /\ h.sock \in auth_sent
        /\ h.at \in KeyPoints =>
              /\ told[h.sock] = "nothing"
              /\ \A g \in suspended : g.at \in KeyPoints => g = h

StoredFlag == storage # NoState /\ storage.authenticated

\* Neither copy of the flag is ahead of the answer on the current socket, and
\* both are down before the next socket opens.
FlagTold ==
    websocket # NoSocket /\ (memory.authenticated \/ StoredFlag) =>
        told[websocket] = "AUTH_OK"

FlagDown ==
    (\A s \in Sockets : ~Live(s)) =>
        ~memory.authenticated /\ (~CloseSuspended => ~StoredFlag)

BodyTold ==
    \A h \in suspended :
        h.at = "body" => websocket = NoSocket \/ told[websocket] = "AUTH_OK"

CommandInv == /\ OneLive /\ AuthSent /\ CurrentLive /\ CloseIsLast /\ AuthLives
              /\ FlagTold /\ FlagDown /\ BodyTold /\ CommandAfterAuthOk

CommandFaults == {"hibernate", "disconnect"}

LEMMA InitCommand == Init => CommandInv
<1> SUFFICES ASSUME Init PROVE CommandInv
    OBVIOUS
<1>1. OneLive /\ AuthSent /\ CurrentLive /\ CloseIsLast
    BY DEF Init, OneLive, AuthSent, CurrentLive, CloseIsLast, CloseSuspended,
       Live
<1>2. AuthLives /\ FlagTold /\ FlagDown /\ BodyTold /\ CommandAfterAuthOk
    BY DEF Init, AuthLives, FlagTold, FlagDown, StoredFlag, DefaultState,
       BodyTold, CommandAfterAuthOk
<1> QED
    BY <1>1, <1>2 DEF CommandInv

\* A step that leaves the sockets: a flag that is up afterwards was up in one
\* of its copies, no AUTH or close begins, and a command that starts to wait
\* has seen the flag.
CommandStill ==
    /\ UNCHANGED <<socket, websocket, auth_sent, told>>
    /\ memory'.authenticated =>
          memory.authenticated \/ (~CloseSuspended /\ StoredFlag)
    /\ storage' \in {storage, memory'}
    /\ \A h \in suspended' : h.at \in AuthPoints => h \in suspended
    /\ CloseSuspended' <=> CloseSuspended
    /\ \A h \in suspended' \ suspended : h.at = "body" => memory'.authenticated
    /\ \A c \in Cmds : cmd'[c] = "early" => cmd[c] = "early"

LEMMA CommandStillKeeps ==
    ASSUME CommandInv, CommandStill
    PROVE  CommandInv'
<1>1. /\ UNCHANGED <<socket, websocket, auth_sent, told>>
      /\ \A s : Live(s)' <=> Live(s)
    BY DEF CommandStill, Live
<1>2. OneLive' /\ AuthSent' /\ CurrentLive' /\ CloseIsLast'
    BY <1>1 DEF CommandInv, OneLive, AuthSent, CurrentLive, CloseIsLast,
       CommandStill
<1>3. AuthLives'
    <2>1. \A h \in suspended' : h.at \in KeyPoints => h.at \in AuthPoints
        BY DEF AuthPoints
    <2> QED
        BY <1>1, <2>1 DEF CommandInv, AuthLives, CommandStill
<1>4. StoredFlag' => StoredFlag \/ memory'.authenticated
    BY DEF StoredFlag, CommandStill
<1>5. FlagTold'
    BY <1>1, <1>4 DEF CommandInv, FlagTold, CommandStill
<1>6. FlagDown'
    BY <1>1, <1>4 DEF CommandInv, FlagDown, CommandStill
<1>7. BodyTold'
    BY <1>1, <1>5 DEF CommandInv, BodyTold, FlagTold, CommandStill
<1>8. CommandAfterAuthOk'
    BY DEF CommandInv, CommandAfterAuthOk, CommandStill
<1> QED
    BY <1>2, <1>3, <1>5, <1>6, <1>7, <1>8 DEF CommandInv

LEMMA CommandRequestsStill ==
    ASSUME IInv, CommandInv, Faults \subseteq CommandFaults,
           (\E c \in Cmds : HandleCommand(c)) \/ HandleStatusRequest
    PROVE  CommandStill
<1>1. ~CloseSuspended /\ memory' = Loaded
    BY DEF HandleCommand, HandleStatusRequest, CommandFaults
<1>2. UNCHANGED <<socket, websocket, auth_sent, told, storage>>
    BY DEF HandleCommand, HandleStatusRequest
<1>3. memory'.authenticated => memory.authenticated \/ StoredFlag
    BY <1>1 DEF Loaded, StoredFlag
<1>4. /\ suspended \subseteq suspended'
      /\ \A h \in suspended' \ suspended : h.at = "body" /\ memory'.authenticated
    BY WaitingFields DEF HandleCommand, HandleStatusRequest, Suspend
<1>5. \A c \in Cmds : cmd'[c] = "early" => cmd[c] = "early"
    BY DEF HandleCommand, HandleStatusRequest, IInv, TypeOK
<1> QED
    BY <1>1, <1>2, <1>3, <1>4, <1>5
    DEF CommandStill, CloseSuspended, AuthPoints, KeyPoints

LEMMA CommandMessagesStill ==
    ASSUME IInv, CommandInv, NEW s \in Sockets,
           \/ HandleStatus(s) \/ HandleTelemetry(s) \/ HandleOther(s)
           \/ \E c \in Cmds : HandleConfigResponse(s, c) \/ HandleExecResult(s, c)
    PROVE  CommandStill
<1>1. /\ UNCHANGED <<socket, websocket, auth_sent, told>>
      /\ storage' \in {storage, memory'}
    BY DEF HandleStatus, HandleTelemetry, HandleOther, HandleConfigResponse,
       HandleExecResult, Save
<1>2. memory'.authenticated <=> memory.authenticated
    BY DEF HandleStatus, HandleTelemetry, HandleOther, HandleConfigResponse,
       HandleExecResult, AgentState, IInv, TypeOK
<1>3. /\ suspended \subseteq suspended'
      /\ \A h \in suspended' \ suspended : h.at \in {"status", "store"}
    BY WaitingFields DEF HandleStatus, HandleTelemetry, HandleOther,
       HandleConfigResponse, HandleExecResult, Suspend
<1>4. \A c \in Cmds : cmd'[c] = "early" => cmd[c] = "early"
    BY DEF HandleStatus, HandleTelemetry, HandleOther, HandleConfigResponse,
       HandleExecResult, IInv, TypeOK
<1> QED
    BY <1>1, <1>2, <1>3, <1>4
    DEF CommandStill, CloseSuspended, AuthPoints, KeyPoints

\* The send after the body: what the check saw is true of the socket there is.
LEMMA CommandResumesStill ==
    ASSUME IInv, CommandInv, NEW h \in suspended,
           \/ SendCommand(h) \/ AuthOnline(h)
           \/ StatusStored(h) \/ TelemetryStored(h)
    PROVE  CommandStill
<1>1. /\ UNCHANGED <<socket, websocket, auth_sent, told>>
      /\ storage' \in {storage, memory'}
      /\ suspended' = suspended \ {h} /\ h.at # "offline"
    BY DEF SendCommand, AuthOnline, StatusStored, TelemetryStored, Save, Resume
<1>2. memory'.authenticated <=> memory.authenticated
    BY DEF SendCommand, AuthOnline, StatusStored, TelemetryStored, AgentState,
       IInv, TypeOK
<1>3. h.at = "body" /\ websocket # NoSocket => told[websocket] = "AUTH_OK"
    BY DEF CommandInv, BodyTold
<1>4. \A c \in Cmds : cmd'[c] = "early" => cmd[c] = "early"
    BY <1>3 DEF SendCommand, AuthOnline, StatusStored, TelemetryStored, IInv,
       TypeOK
<1> QED
    BY <1>1, <1>2, <1>4 DEF CommandStill, CloseSuspended

LEMMA HandleWebsocketCommands ==
    ASSUME IInv, CommandInv, Faults \subseteq CommandFaults, NEW s \in Sockets,
           HandleWebsocket(s)
    PROVE  CommandInv'
<1>1. /\ suspended = {} /\ \A t \in Sockets : socket[t] \in {"unused", "closed"}
      /\ socket[s] = "unused"
      /\ memory' = [Loaded EXCEPT !.device_id = TRUE] /\ storage' = memory'
      /\ socket' = [socket EXCEPT ![s] = "open"] /\ websocket' = s
      /\ UNCHANGED <<suspended, auth_sent, told, cmd>>
    BY DEF HandleWebsocket, Save, CommandFaults
<1>2. ~Loaded.authenticated /\ Loaded \in AgentState
    BY <1>1, LoadedType
    DEF Loaded, CommandInv, FlagDown, StoredFlag, Live, CloseSuspended
<1>3. ~memory'.authenticated /\ ~StoredFlag'
    BY <1>1, <1>2 DEF AgentState, StoredFlag
<1>4. socket'[s] = "open" /\ \A t \in Sockets \ {s} : socket'[t] = socket[t]
    BY <1>1 DEF IInv, TypeOK
<1>5. OneLive' /\ AuthSent'
    BY <1>1, <1>4 DEF CommandInv, OneLive, AuthSent, Live
<1>6. CurrentLive' /\ CloseIsLast' /\ AuthLives' /\ BodyTold'
    BY <1>1, <1>4 DEF CurrentLive, CloseIsLast, CloseSuspended, AuthLives,
       BodyTold
<1>7. FlagTold' /\ FlagDown' /\ CommandAfterAuthOk'
    BY <1>1, <1>3 DEF CommandInv, FlagTold, FlagDown, CommandAfterAuthOk
<1> QED
    BY <1>5, <1>6, <1>7 DEF CommandInv

LEMMA HandleAuthCommands ==
    ASSUME IInv, CommandInv, NEW s \in Sockets, NEW device \in BOOLEAN,
           NEW key \in BOOLEAN, HandleAuth(s, device, key)
    PROVE  CommandInv'
<1>1. PICK point \in KeyPoints :
          suspended' = suspended \cup {Waiting(point, s, NoCmd)}
    BY DEF HandleAuth, Suspend, KeyPoints
<1>2. /\ socket[s] = "open" /\ s \notin auth_sent
      /\ auth_sent' = auth_sent \cup {s}
      /\ UNCHANGED <<socket, websocket, memory, storage, told, cmd>>
    BY DEF HandleAuth
<1>3. told[s] = "nothing" /\ Live(s)
    BY <1>2 DEF CommandInv, AuthSent, Live
<1>4. \A h \in suspended : h.at \notin AuthPoints
    BY <1>2, <1>3 DEF CommandInv, AuthLives, OneLive
<1> DEFINE new == Waiting(point, s, NoCmd)
<1>5. new.at = point /\ new.sock = s /\ suspended' = suspended \cup {new}
    BY <1>1, WaitingFields
<1> HIDE DEF new
<1>6. (CloseSuspended' <=> CloseSuspended) /\ \A t : Live(t)' <=> Live(t)
    BY <1>2, <1>5 DEF CloseSuspended, KeyPoints, Live
<1>7. OneLive' /\ AuthSent' /\ CurrentLive' /\ CloseIsLast'
    BY <1>2, <1>6 DEF CommandInv, OneLive, AuthSent, CurrentLive, CloseIsLast
<1>8. AuthLives'
    BY <1>2, <1>3, <1>4, <1>5, <1>6 DEF AuthLives, AuthPoints
<1>9. FlagTold' /\ FlagDown' /\ BodyTold' /\ CommandAfterAuthOk'
    BY <1>2, <1>5, <1>6 DEF CommandInv, FlagTold, FlagDown, StoredFlag, BodyTold,
       KeyPoints, CommandAfterAuthOk
<1> QED
    BY <1>7, <1>8, <1>9 DEF CommandInv

\* An answer to AUTH goes to the socket that sent it, or nowhere.
LEMMA AnswerFinds ==
    ASSUME IInv, CommandInv, NEW h \in suspended, h.at \in KeyPoints
    PROVE  /\ h.sock \in Sockets /\ Live(h.sock) /\ h.sock \in auth_sent
           /\ told[h.sock] = "nothing" /\ ~CloseSuspended
           /\ websocket # NoSocket => websocket = h.sock
           /\ \A g \in suspended \ {h} : g.at \notin KeyPoints
<1>1. /\ h.sock \in Sockets /\ Live(h.sock) /\ h.sock \in auth_sent
      /\ told[h.sock] = "nothing"
      /\ \A g \in suspended \ {h} : g.at \notin KeyPoints
    BY DEF CommandInv, AuthLives, AuthPoints
<1>2. ~CloseSuspended
    BY <1>1 DEF CommandInv, CloseIsLast
<1>3. websocket # NoSocket => websocket = h.sock
    BY <1>1, <1>2 DEF CommandInv, CurrentLive, OneLive, Live, IInv, TypeOK
<1> QED
    BY <1>1, <1>2, <1>3

LEMMA AuthAcceptedCommands ==
    ASSUME IInv, CommandInv, NEW h \in suspended, AuthAccepted(h)
    PROVE  CommandInv'
<1>1. /\ h.at = "auth_ok_key" /\ h.at \in KeyPoints
      /\ UNCHANGED <<socket, websocket, auth_sent, cmd>>
    BY DEF AuthAccepted, KeyPoints
<1>2. /\ h.sock \in Sockets /\ Live(h.sock) /\ h.sock \in auth_sent
      /\ told[h.sock] = "nothing" /\ ~CloseSuspended
      /\ websocket # NoSocket => websocket = h.sock
      /\ \A g \in suspended \ {h} : g.at \notin KeyPoints
    BY <1>1, AnswerFinds
<1>3. websocket # NoSocket => socket[websocket] = "open"
    BY <1>2 DEF CommandInv, CurrentLive
<1>4. /\ websocket # NoSocket => told' = [told EXCEPT ![websocket] = "AUTH_OK"]
      /\ websocket = NoSocket => told' = told
    BY <1>2, <1>3 DEF AuthAccepted, Reply, SendOk
<1>5. /\ websocket # NoSocket => told'[websocket] = "AUTH_OK"
      /\ \A s \in Sockets : s # websocket => told'[s] = told[s]
    BY <1>2, <1>4 DEF IInv, TypeOK
<1>6. /\ \A g \in suspended' : g.at \notin KeyPoints
      /\ \A g \in suspended' \ suspended : g.at = "online" /\ g.sock = h.sock
    BY <1>2, WaitingFields DEF AuthAccepted, KeyPoints
<1>7. ~CloseSuspended' /\ \A s : Live(s)' <=> Live(s)
    BY <1>1, <1>2, <1>6 DEF CloseSuspended, Live
<1>8. OneLive' /\ CurrentLive' /\ CloseIsLast'
    BY <1>1, <1>3, <1>7 DEF CommandInv, OneLive, CurrentLive, CloseIsLast
<1>9. AuthSent'
    BY <1>1, <1>2, <1>5, NoSocketAssumption DEF CommandInv, AuthSent
<1>10. AuthLives'
    BY <1>1, <1>2, <1>6, <1>7 DEF CommandInv, AuthLives, AuthPoints
<1>11. FlagTold' /\ FlagDown'
    BY <1>1, <1>2, <1>5, <1>7 DEF FlagTold, FlagDown
<1>12. BodyTold' /\ CommandAfterAuthOk'
    BY <1>1, <1>5 DEF CommandInv, BodyTold, CommandAfterAuthOk
<1> QED
    BY <1>8, <1>9, <1>10, <1>11, <1>12 DEF CommandInv

LEMMA AuthRejectedCommands ==
    ASSUME IInv, CommandInv, NEW h \in suspended, AuthRejected(h)
    PROVE  CommandInv'
<1>1. /\ h.at = "auth_bad_key" /\ h.at \in KeyPoints
      /\ suspended' = suspended \ {h} /\ storage' \in {storage, memory}
      /\ UNCHANGED <<socket, websocket, auth_sent, cmd, memory>>
    BY DEF AuthRejected, KeyPoints, Resume, Save
<1>2. /\ h.sock \in Sockets /\ Live(h.sock) /\ h.sock \in auth_sent
      /\ told[h.sock] = "nothing" /\ ~CloseSuspended
      /\ websocket # NoSocket => websocket = h.sock
      /\ \A g \in suspended \ {h} : g.at \notin KeyPoints
    BY <1>1, AnswerFinds
<1>3. \A s \in Sockets : s # websocket => told'[s] = told[s]
    BY DEF AuthRejected, Reply, IInv, TypeOK
<1>4. ~CloseSuspended' /\ \A s : Live(s)' <=> Live(s)
    BY <1>1, <1>2 DEF CloseSuspended, Live
<1>5. OneLive' /\ CurrentLive' /\ CloseIsLast'
    BY <1>1, <1>2, <1>4 DEF CommandInv, OneLive, CurrentLive, CloseIsLast
<1>6. AuthSent'
    BY <1>1, <1>2, <1>3, NoSocketAssumption DEF CommandInv, AuthSent
<1>7. AuthLives'
    BY <1>1, <1>2, <1>4 DEF CommandInv, AuthLives, AuthPoints
<1>8. websocket # NoSocket => ~memory.authenticated /\ ~StoredFlag
    BY <1>2 DEF CommandInv, FlagTold
<1>9. FlagTold' /\ FlagDown'
    BY <1>1, <1>2, <1>4, <1>8 DEF FlagTold, FlagDown, StoredFlag
<1>10. BodyTold' /\ CommandAfterAuthOk'
    BY <1>1, <1>2 DEF CommandInv, BodyTold, CommandAfterAuthOk
<1> QED
    BY <1>5, <1>6, <1>7, <1>9, <1>10 DEF CommandInv

LEMMA HandleDisconnectCommands ==
    ASSUME IInv, CommandInv, HandleDisconnect
    PROVE  CommandInv'
<1>1. /\ websocket' = NoSocket /\ storage' = memory'
      /\ memory' = [memory EXCEPT !.authenticated = FALSE]
      /\ UNCHANGED <<suspended, auth_sent, told, cmd>>
    BY DEF HandleDisconnect, Save
<1>2. ~memory'.authenticated /\ ~StoredFlag'
    BY <1>1 DEF AgentState, StoredFlag, IInv, TypeOK
<1>3. \A s \in Sockets : /\ Live(s)' <=> Live(s)
                         /\ socket'[s] = "unused" <=> socket[s] = "unused"
    BY DEF HandleDisconnect, Live, IInv, TypeOK
<1>4. CloseSuspended' <=> CloseSuspended
    BY <1>1 DEF CloseSuspended
<1>5. OneLive' /\ AuthSent' /\ CurrentLive' /\ CloseIsLast'
    BY <1>1, <1>3, <1>4 DEF CommandInv, OneLive, AuthSent, CurrentLive,
       CloseIsLast
<1>6. AuthLives'
    BY <1>1, <1>3 DEF CommandInv, AuthLives
<1>7. FlagTold' /\ FlagDown' /\ BodyTold' /\ CommandAfterAuthOk'
    BY <1>1, <1>2 DEF CommandInv, FlagTold, FlagDown, BodyTold,
       CommandAfterAuthOk
<1> QED
    BY <1>5, <1>6, <1>7 DEF CommandInv

LEMMA WebsocketCloseCommands ==
    ASSUME IInv, CommandInv, Faults \subseteq CommandFaults, NEW s \in Sockets,
           WebsocketClose(s)
    PROVE  CommandInv'
<1>1. /\ Live(s) /\ ~AuthSuspended
      /\ socket' = [socket EXCEPT ![s] = "closed"]
      /\ memory' = [memory EXCEPT !.authenticated = FALSE]
      /\ UNCHANGED <<auth_sent, told, cmd>>
    BY DEF WebsocketClose, Live, CommandFaults
<1>2. ~memory'.authenticated
    BY <1>1 DEF AgentState, IInv, TypeOK
<1>3. socket'[s] = "closed" /\ \A t \in Sockets \ {s} : socket'[t] = socket[t]
    BY <1>1 DEF IInv, TypeOK
<1>4. \A t \in Sockets : ~Live(t)'
    BY <1>1, <1>3 DEF CommandInv, OneLive, Live
<1>5. /\ suspended \subseteq suspended'
      /\ \A h \in suspended' \ suspended : h.at = "offline"
    BY WaitingFields DEF WebsocketClose, Suspend
<1>6. \A h \in suspended' : h.at \notin AuthPoints
    BY <1>1, <1>5 DEF AuthSuspended, AuthPoints, KeyPoints
<1>7. \/ websocket' = websocket /\ storage' = storage /\ CloseSuspended'
      \/ websocket' = NoSocket /\ storage' = memory'
    BY WaitingFields DEF WebsocketClose, Suspend, CloseSuspended, Save
<1>8. OneLive' /\ AuthSent' /\ CloseIsLast' /\ AuthLives'
    BY <1>1, <1>3, <1>4, <1>6 DEF CommandInv, OneLive, AuthSent, CloseIsLast,
       AuthLives, Live
<1>9. CurrentLive'
    <2>1. CASE websocket' = NoSocket
        BY <2>1 DEF CurrentLive
    <2>2. CASE websocket' = websocket /\ websocket # NoSocket /\ CloseSuspended'
        <3>1. socket[websocket] = "open"
            BY <1>1, <2>2 DEF CommandInv, CurrentLive, CloseIsLast
        <3>2. websocket = s
            BY <1>1, <2>2, <3>1 DEF CommandInv, OneLive, Live, IInv, TypeOK
        <3> QED
            BY <1>3, <2>2, <3>2 DEF CurrentLive
    <2> QED
        BY <1>7, <2>1, <2>2
<1>10. FlagTold' /\ FlagDown'
    BY <1>1, <1>2, <1>7 DEF CommandInv, FlagTold, FlagDown, StoredFlag
<1>11. BodyTold' /\ CommandAfterAuthOk'
    BY <1>1, <1>5, <1>7 DEF CommandInv, BodyTold, CommandAfterAuthOk
<1> QED
    BY <1>8, <1>9, <1>10, <1>11 DEF CommandInv

LEMMA CloseFinishedCommands ==
    ASSUME IInv, CommandInv, NEW h \in suspended, CloseFinished(h)
    PROVE  CommandInv'
<1>1. /\ h.at = "offline" /\ suspended' = suspended \ {h}
      /\ storage' = memory' /\ websocket' = NoSocket
      /\ UNCHANGED <<socket, auth_sent, told, cmd, memory>>
    BY DEF CloseFinished, Resume, Save
<1>2. \A s \in Sockets : ~Live(s)
    BY <1>1 DEF CommandInv, CloseIsLast, CloseSuspended
<1>3. ~memory.authenticated /\ \A s : Live(s)' <=> Live(s)
    BY <1>1, <1>2 DEF CommandInv, FlagDown, Live
<1>4. OneLive' /\ AuthSent' /\ CurrentLive' /\ CloseIsLast' /\ AuthLives'
    BY <1>1, <1>2, <1>3 DEF CommandInv, OneLive, AuthSent, CurrentLive,
       CloseIsLast, AuthLives
<1>5. FlagTold' /\ FlagDown' /\ BodyTold' /\ CommandAfterAuthOk'
    BY <1>1, <1>3 DEF CommandInv, FlagTold, FlagDown, StoredFlag, BodyTold,
       CommandAfterAuthOk
<1> QED
    BY <1>4, <1>5 DEF CommandInv

LEMMA HibernateCommands ==
    ASSUME CommandInv, Hibernate
    PROVE  CommandInv'
<1>1. /\ suspended = {} /\ websocket' = NoSocket /\ memory' = DefaultState
      /\ UNCHANGED <<socket, storage, suspended, auth_sent, told, cmd>>
    BY DEF Hibernate
<1>2. ~CloseSuspended /\ ~CloseSuspended' /\ \A s : Live(s)' <=> Live(s)
    BY <1>1 DEF CloseSuspended, Live
<1>3. OneLive' /\ AuthSent' /\ CurrentLive' /\ CloseIsLast' /\ AuthLives'
    BY <1>1, <1>2 DEF CommandInv, OneLive, AuthSent, CurrentLive, CloseIsLast,
       AuthLives
<1>4. FlagTold' /\ FlagDown' /\ BodyTold' /\ CommandAfterAuthOk'
    BY <1>1, <1>2 DEF CommandInv, FlagTold, FlagDown, StoredFlag, DefaultState,
       BodyTold, CommandAfterAuthOk
<1> QED
    BY <1>3, <1>4 DEF CommandInv

LEMMA StepCommand ==
    Faults \subseteq CommandFaults =>
        (IInv /\ CommandInv /\ [Next]_vars => CommandInv')
<1> SUFFICES ASSUME Faults \subseteq CommandFaults, IInv, CommandInv, [Next]_vars
             PROVE  CommandInv'
    OBVIOUS
<1>1. CASE CommandStill
    BY <1>1, CommandStillKeeps
<1>2. CASE Requests
    BY <1>1, <1>2, HandleWebsocketCommands, CommandRequestsStill,
       HandleDisconnectCommands DEF Requests
<1>3. CASE Messages
    BY <1>1, <1>3, HandleAuthCommands, CommandMessagesStill,
       WebsocketCloseCommands DEF Messages
<1>4. CASE Resumes
    BY <1>1, <1>4, CommandResumesStill, AuthAcceptedCommands,
       AuthRejectedCommands, CloseFinishedCommands DEF Resumes, ResumeOne
<1>5. ~Restart
    BY DEF Restart, CommandFaults
<1>6. CASE UNCHANGED vars
    BY <1>1, <1>6 DEF vars, CommandStill, CloseSuspended
<1> QED
    BY <1>2, <1>3, <1>4, <1>5, <1>6, HibernateCommands DEF Next

THEOREM CommandInductive ==
    Faults \subseteq CommandFaults => (Spec => []CommandInv)
<1> SUFFICES ASSUME Faults \subseteq CommandFaults PROVE Spec => []CommandInv
    OBVIOUS
<1>1. IInv /\ CommandInv /\ [Next]_vars => CommandInv'
    BY StepCommand
<1> QED
    BY <1>1, InitCommand, Inductive, PTL DEF Spec

\* Hibernation and /disconnect included: no command leaves on a socket that
\* has not been answered AUTH_OK.
THEOREM CommandsFollowAuthOk ==
    Faults \subseteq CommandFaults => (Spec => []CommandAfterAuthOk)
<1>1. CommandInv => CommandAfterAuthOk
    BY DEF CommandInv
<1> QED
    BY <1>1, CommandInductive, PTL

-----------------------------------------------------------------------------
(* device_status tells whether a session is up.  Of the faults only "poll"  *)
(* leaves that alone: each other one ends a session, or begins one, without *)
(* the put that would say so.                                               *)

\* One socket at most is open, the object's current one; an answer follows
\* an AUTH.
OneSession ==
    \A s \in Sockets :
        /\ socket[s] # "closing"
        /\ socket[s] = "open" => s = websocket
        /\ socket[s] = "unused" => told[s] = "nothing" /\ s \notin auth_sent
        /\ told[s] # "nothing" => s \in auth_sent

\* The current socket stays so until its close is through, and both copies of
\* the state know the device.
Current ==
    websocket # NoSocket =>
        /\ socket[websocket] \in {"open", "closed"}
        /\ socket[websocket] = "closed" => CloseSuspended
        /\ memory.device_id /\ storage # NoState /\ storage.device_id

\* One handler at most is inside an AUTH or a close, and it is of the current
\* socket.
OneHandler ==
    \A h \in suspended :
        /\ h.at \in AuthPoints \cup {"offline"} =>
              websocket # NoSocket /\ h = Waiting(h.at, websocket, NoCmd)
        /\ h.at \in AuthPoints =>
              /\ socket[websocket] = "open" /\ websocket \in auth_sent
              /\ told[websocket] = IF h.at = "online" THEN "AUTH_OK"
                                                      ELSE "nothing"
              /\ \A g \in suspended : g.at \in AuthPoints => g = h
        /\ h.at = "offline" => socket[websocket] = "closed"

\* device_status is the session's, unless an AUTH or a close has yet to put it.
Reported ==
    ~CloseSuspended => (status_kv = "online" <=> Up /\ ~OnlineSuspended)

StatusInv == OneSession /\ Current /\ OneHandler /\ Reported

LEMMA InitStatus == Init => StatusInv
<1> SUFFICES ASSUME Init PROVE StatusInv
    OBVIOUS
<1>1. ~Up
    BY DEF Init, Up
<1> QED
    BY <1>1 DEF Init, StatusInv, OneSession, Current, OneHandler, Reported

\* A step inside a session: the sockets stay, whatever is saved is memory, and
\* no AUTH or close begins or ends.
Within ==
    /\ UNCHANGED <<socket, websocket, status_kv, auth_sent, told>>
    /\ websocket # NoSocket => memory'.device_id
    /\ storage' \in {storage, memory'}
    /\ \A h : h.at \in AuthPoints \cup {"offline"} =>
           (h \in suspended' <=> h \in suspended)

LEMMA WithinKeeps ==
    ASSUME StatusInv, Within, memory' \in AgentState
    PROVE  StatusInv'
<1>1. UNCHANGED <<socket, websocket, status_kv, auth_sent, told>>
    BY DEF Within
<1>2. Up' <=> Up
    BY <1>1 DEF Up
<1>3. (OnlineSuspended' <=> OnlineSuspended) /\ (CloseSuspended' <=> CloseSuspended)
    BY DEF Within, OnlineSuspended, CloseSuspended, AuthPoints
<1>4. OneSession'
    BY <1>1 DEF StatusInv, OneSession
<1>5. memory' # NoState /\ (storage' = storage \/ storage' = memory')
    BY NoStateAssumption DEF Within
<1>6. Current'
    BY <1>1, <1>3, <1>5 DEF StatusInv, Current, Within
<1>7. OneHandler'
    <2>1. \A h \in suspended' :
              h.at \in AuthPoints \cup {"offline"} => h \in suspended
        BY DEF Within
    <2> QED
        BY <1>1, <2>1 DEF StatusInv, OneHandler
<1>8. Reported'
    BY <1>1, <1>2, <1>3 DEF StatusInv, Reported
<1> QED
    BY <1>4, <1>6, <1>7, <1>8 DEF StatusInv

LEMMA WithinSteps ==
    ASSUME IInv, StatusInv,
           \/ \E c \in Cmds : HandleCommand(c)
           \/ HandleStatusRequest
           \/ \E s \in Sockets :
                 \/ HandleStatus(s) \/ HandleTelemetry(s) \/ HandleOther(s)
                 \/ \E c \in Cmds :
                       HandleConfigResponse(s, c) \/ HandleExecResult(s, c)
           \/ \E h \in suspended :
                 SendCommand(h) \/ StatusStored(h) \/ TelemetryStored(h)
    PROVE  Within
<1>1. /\ memory \in AgentState
      /\ websocket # NoSocket => memory.device_id
      /\ websocket # NoSocket => Loaded.device_id
    BY DEF IInv, TypeOK, StatusInv, Current, Loaded
<1>2. CASE (\E c \in Cmds : HandleCommand(c)) \/ HandleStatusRequest
    <2>1. /\ UNCHANGED <<socket, websocket, status_kv, auth_sent, told, storage>>
          /\ memory' = Loaded
        BY <1>2 DEF HandleCommand, HandleStatusRequest
    <2>2. /\ suspended \subseteq suspended'
          /\ \A h \in suspended' \ suspended : h.at = "body"
        BY <1>2, WaitingFields DEF HandleCommand, HandleStatusRequest, Suspend
    <2> QED
        BY <1>1, <2>1, <2>2 DEF Within, AuthPoints, KeyPoints
<1>3. ASSUME NEW s \in Sockets,
             \/ HandleStatus(s) \/ HandleTelemetry(s) \/ HandleOther(s)
             \/ \E c \in Cmds :
                   HandleConfigResponse(s, c) \/ HandleExecResult(s, c)
      PROVE  Within
    <2>1. /\ UNCHANGED <<socket, websocket, status_kv, auth_sent, told>>
          /\ storage' \in {storage, memory'}
        BY <1>3 DEF HandleStatus, HandleTelemetry, HandleOther,
           HandleConfigResponse, HandleExecResult, Save
    <2>2. memory'.device_id <=> memory.device_id
        BY <1>1, <1>3 DEF HandleStatus, HandleTelemetry, HandleOther,
           HandleConfigResponse, HandleExecResult, AgentState
    <2>3. /\ suspended \subseteq suspended'
          /\ \A h \in suspended' \ suspended : h.at \in {"status", "store"}
        BY <1>3, WaitingFields
        DEF HandleStatus, HandleTelemetry, HandleOther, HandleConfigResponse,
            HandleExecResult, Suspend
    <2> QED
        BY <1>1, <2>1, <2>2, <2>3 DEF Within, AuthPoints, KeyPoints
<1>4. ASSUME NEW h \in suspended,
             SendCommand(h) \/ StatusStored(h) \/ TelemetryStored(h)
      PROVE  Within
    <2>1. /\ UNCHANGED <<socket, websocket, status_kv, auth_sent, told>>
          /\ storage' \in {storage, memory'}
          /\ suspended' = suspended \ {h} /\ h.at \in {"body", "status", "store"}
        BY <1>4 DEF SendCommand, StatusStored, TelemetryStored, Save, Resume
    <2>2. memory'.device_id <=> memory.device_id
        BY <1>1, <1>4 DEF SendCommand, StatusStored, TelemetryStored, AgentState
    <2> QED
        BY <1>1, <2>1, <2>2 DEF Within, AuthPoints, KeyPoints
<1> QED
    BY <1>2, <1>3, <1>4

LEMMA HandleWebsocketReports ==
    ASSUME IInv, StatusInv, Faults \subseteq {"poll"}, NEW s \in Sockets,
           HandleWebsocket(s)
    PROVE  StatusInv'
<1>1. /\ suspended = {} /\ \A t \in Sockets : socket[t] \in {"unused", "closed"}
      /\ socket[s] = "unused"
      /\ memory' = [Loaded EXCEPT !.device_id = TRUE] /\ storage' = memory'
      /\ socket' = [socket EXCEPT ![s] = "open"] /\ websocket' = s
      /\ UNCHANGED <<status_kv, suspended, auth_sent, told>>
    BY DEF HandleWebsocket, Save
<1>2. ~Up /\ ~CloseSuspended /\ ~OnlineSuspended
    BY <1>1 DEF Up, CloseSuspended, OnlineSuspended, IInv, TypeOK
<1>3. memory' \in AgentState /\ memory'.device_id
    BY <1>1, LoadedType DEF AgentState
<1>4. /\ socket'[s] = "open" /\ \A t \in Sockets \ {s} : socket'[t] = socket[t]
      /\ told[s] = "nothing" /\ s # NoSocket
    BY <1>1, NoSocketAssumption DEF IInv, TypeOK, StatusInv, OneSession
<1>5. ~Up' /\ ~CloseSuspended' /\ ~OnlineSuspended'
    BY <1>1, <1>4 DEF Up, CloseSuspended, OnlineSuspended
<1>6. OneSession'
    BY <1>1, <1>4 DEF StatusInv, OneSession
<1>7. Current' /\ OneHandler'
    BY <1>1, <1>3, <1>4, NoStateAssumption DEF Current, OneHandler
<1>8. Reported'
    BY <1>1, <1>2, <1>5 DEF StatusInv, Reported
<1> QED
    BY <1>6, <1>7, <1>8 DEF StatusInv

LEMMA HandleAuthReports ==
    ASSUME IInv, StatusInv, NEW s \in Sockets, NEW device \in BOOLEAN,
           NEW key \in BOOLEAN, HandleAuth(s, device, key)
    PROVE  StatusInv'
<1>1. PICK point \in KeyPoints :
          suspended' = suspended \cup {Waiting(point, s, NoCmd)}
    BY DEF HandleAuth, Suspend, KeyPoints
<1>2. /\ socket[s] = "open" /\ s \notin auth_sent
      /\ auth_sent' = auth_sent \cup {s}
      /\ UNCHANGED <<socket, websocket, memory, storage, status_kv, told>>
    BY DEF HandleAuth
<1>3. s = websocket /\ websocket # NoSocket /\ told[s] = "nothing"
    BY <1>2, NoSocketAssumption DEF StatusInv, OneSession, IInv, TypeOK
<1>4. \A h \in suspended : h.at \notin AuthPoints \cup {"offline"}
    BY <1>2, <1>3 DEF StatusInv, OneHandler
<1>5. (Up' <=> Up) /\ ~OnlineSuspended /\ ~OnlineSuspended'
      /\ ~CloseSuspended /\ ~CloseSuspended'
    BY <1>1, <1>2, <1>4, WaitingFields
    DEF Up, OnlineSuspended, CloseSuspended, AuthPoints, KeyPoints
<1>6. OneSession' /\ Current'
    BY <1>2, <1>3, <1>5 DEF StatusInv, OneSession, Current
<1>7. OneHandler'
    <2> DEFINE new == Waiting(point, s, NoCmd)
    <2>1. new.at = point /\ suspended' = suspended \cup {new}
        BY <1>1, WaitingFields
    <2>2. new = Waiting(new.at, websocket, NoCmd)
        BY <1>3, <2>1
    <2> HIDE DEF new
    <2> QED
        BY <1>2, <1>3, <1>4, <2>1, <2>2 DEF OneHandler, AuthPoints, KeyPoints
<1>8. Reported'
    BY <1>2, <1>5 DEF StatusInv, Reported
<1> QED
    BY <1>6, <1>7, <1>8 DEF StatusInv

\* An AUTH under way is of the socket that is open, and alone.
LEMMA AuthIsAlone ==
    ASSUME IInv, StatusInv, NEW h \in suspended, h.at \in AuthPoints
    PROVE  /\ websocket \in Sockets /\ socket[websocket] = "open" /\ SendOk
           /\ h.sock = websocket /\ memory.device_id
           /\ ~CloseSuspended
           /\ \A g \in suspended \ {h} : g.at \notin AuthPoints \cup {"offline"}
<1>1. websocket # NoSocket /\ h = Waiting(h.at, websocket, NoCmd)
    BY DEF StatusInv, OneHandler
<1>2. h.sock = websocket
    BY <1>1, WaitingFields
<1>3. /\ socket[websocket] = "open"
      /\ \A g \in suspended : g.at \in AuthPoints => g = h
    BY DEF StatusInv, OneHandler
<1>4. ~CloseSuspended
    BY <1>3 DEF CloseSuspended, StatusInv, OneHandler
<1> QED
    BY <1>1, <1>2, <1>3, <1>4 DEF SendOk, StatusInv, Current, CloseSuspended,
       IInv, TypeOK

LEMMA AuthAcceptedReports ==
    ASSUME IInv, StatusInv, NEW h \in suspended, AuthAccepted(h)
    PROVE  StatusInv'
<1> DEFINE new == Waiting("online", h.sock, NoCmd)
<1>1. /\ h.at = "auth_ok_key" /\ h.at \in AuthPoints
      /\ memory' = [memory EXCEPT !.authenticated = TRUE]
      /\ UNCHANGED <<socket, websocket, status_kv, auth_sent>>
    BY DEF AuthAccepted, AuthPoints, KeyPoints
<1>2. /\ websocket \in Sockets /\ websocket # NoSocket /\ SendOk
      /\ socket[websocket] = "open" /\ h.sock = websocket /\ memory.device_id
      /\ ~CloseSuspended
      /\ \A g \in suspended \ {h} : g.at \notin AuthPoints \cup {"offline"}
    BY <1>1, AuthIsAlone, NoSocketAssumption
<1>3. websocket \in auth_sent /\ told[websocket] = "nothing"
    BY <1>1 DEF StatusInv, OneHandler
<1>4. /\ told' = [told EXCEPT ![websocket] = "AUTH_OK"] /\ storage' = storage
      /\ suspended' = (suspended \ {h}) \cup {new}
    BY <1>2, <1>3 DEF AuthAccepted, Reply
<1>5. /\ new.at = "online" /\ new = Waiting(new.at, websocket, NoCmd)
    BY <1>2, WaitingFields
<1>6. /\ told'[websocket] = "AUTH_OK"
      /\ \A s \in Sockets \ {websocket} : told'[s] = told[s]
    BY <1>2, <1>4 DEF IInv, TypeOK
<1>7. memory'.device_id
    BY <1>1, <1>2 DEF IInv, TypeOK, AgentState
<1> HIDE DEF new
<1>8. OnlineSuspended' /\ ~CloseSuspended'
    BY <1>2, <1>4, <1>5 DEF OnlineSuspended, CloseSuspended
<1>9. OneSession' /\ Current'
    BY <1>1, <1>2, <1>3, <1>4, <1>6, <1>7 DEF StatusInv, OneSession, Current
<1>10. OneHandler'
    BY <1>1, <1>2, <1>3, <1>4, <1>5, <1>6 DEF OneHandler, AuthPoints
<1>11. Reported'
    <2>1. ~Up
        BY <1>3 DEF Up
    <2> QED
        BY <1>1, <1>2, <1>8, <2>1 DEF StatusInv, Reported
<1> QED
    BY <1>9, <1>10, <1>11 DEF StatusInv

LEMMA AuthRejectedReports ==
    ASSUME IInv, StatusInv, NEW h \in suspended, AuthRejected(h)
    PROVE  StatusInv'
<1>1. /\ h.at = "auth_bad_key" /\ h.at \in AuthPoints
      /\ suspended' = suspended \ {h}
      /\ UNCHANGED <<socket, websocket, status_kv, auth_sent, memory>>
    BY DEF AuthRejected, AuthPoints, KeyPoints, Resume
<1>2. /\ websocket \in Sockets /\ websocket # NoSocket /\ SendOk
      /\ socket[websocket] = "open" /\ memory.device_id
      /\ ~CloseSuspended
      /\ \A g \in suspended \ {h} : g.at \notin AuthPoints \cup {"offline"}
    BY <1>1, AuthIsAlone, NoSocketAssumption
<1>3. websocket \in auth_sent /\ told[websocket] = "nothing"
    BY <1>1 DEF StatusInv, OneHandler
<1>4. told' = [told EXCEPT ![websocket] = "AUTH_FAIL"] /\ storage' = memory'
    BY <1>2, <1>3 DEF AuthRejected, Reply, Save
<1>5. /\ told'[websocket] = "AUTH_FAIL"
      /\ \A s \in Sockets \ {websocket} : told'[s] = told[s]
    BY <1>2, <1>4 DEF IInv, TypeOK
<1>6. ~Up /\ ~Up' /\ ~OnlineSuspended' /\ ~CloseSuspended'
    BY <1>1, <1>2, <1>3, <1>5 DEF Up, OnlineSuspended, CloseSuspended,
       AuthPoints
<1>7. memory' # NoState
    BY <1>1, NoStateAssumption DEF IInv, TypeOK
<1>8. OneSession' /\ Current'
    BY <1>1, <1>2, <1>3, <1>4, <1>5, <1>7 DEF StatusInv, OneSession, Current
<1>9. OneHandler'
    BY <1>1, <1>2 DEF OneHandler
<1>10. Reported'
    BY <1>1, <1>2, <1>6 DEF StatusInv, Reported
<1> QED
    BY <1>8, <1>9, <1>10 DEF StatusInv

LEMMA AuthOnlineReports ==
    ASSUME IInv, StatusInv, NEW h \in suspended, AuthOnline(h)
    PROVE  StatusInv'
<1>1. /\ h.at = "online" /\ h.at \in AuthPoints
      /\ suspended' = suspended \ {h} /\ status_kv' = "online"
      /\ storage' = memory'
      /\ UNCHANGED <<socket, websocket, auth_sent, told, memory>>
    BY DEF AuthOnline, AuthPoints, Resume, Save
<1>2. /\ websocket # NoSocket /\ socket[websocket] = "open"
      /\ memory.device_id /\ ~CloseSuspended
      /\ \A g \in suspended \ {h} : g.at \notin AuthPoints \cup {"offline"}
    BY <1>1, AuthIsAlone, NoSocketAssumption
<1>3. told[websocket] = "AUTH_OK"
    BY <1>1 DEF StatusInv, OneHandler
<1>4. Up' /\ ~OnlineSuspended' /\ ~CloseSuspended'
    BY <1>1, <1>2, <1>3 DEF Up, OnlineSuspended, CloseSuspended, AuthPoints
<1>5. memory' # NoState
    BY <1>1, NoStateAssumption DEF IInv, TypeOK
<1>6. OneSession' /\ Current'
    BY <1>1, <1>2, <1>5 DEF StatusInv, OneSession, Current
<1>7. OneHandler' /\ Reported'
    BY <1>1, <1>2, <1>4 DEF OneHandler, Reported
<1> QED
    BY <1>6, <1>7 DEF StatusInv

LEMMA WebsocketCloseReports ==
    ASSUME IInv, StatusInv, Faults \subseteq {"poll"}, NEW s \in Sockets,
           WebsocketClose(s)
    PROVE  StatusInv'
<1> DEFINE new == Waiting("offline", s, NoCmd)
<1>1. /\ socket[s] = "open" /\ s = websocket /\ websocket # NoSocket
      /\ memory.device_id /\ ~AuthSuspended
    BY NoSocketAssumption DEF WebsocketClose, StatusInv, OneSession, Current
<1>2. /\ socket' = [socket EXCEPT ![s] = "closed"]
      /\ memory' = [memory EXCEPT !.authenticated = FALSE]
      /\ suspended' = suspended \cup {new}
      /\ UNCHANGED <<websocket, storage, status_kv, auth_sent, told>>
    BY <1>1 DEF WebsocketClose, Suspend
<1>3. new.at = "offline" /\ new = Waiting(new.at, websocket, NoCmd)
    BY <1>1, WaitingFields
<1>4. memory'.device_id
    BY <1>1, <1>2 DEF IInv, TypeOK, AgentState
<1>5. socket'[s] = "closed" /\ \A t \in Sockets \ {s} : socket'[t] = socket[t]
    BY <1>2 DEF IInv, TypeOK
<1> HIDE DEF new
<1>6. CloseSuspended'
    BY <1>2, <1>3 DEF CloseSuspended
<1>7. OneSession' /\ Current'
    BY <1>1, <1>2, <1>4, <1>5, <1>6 DEF StatusInv, OneSession, Current
<1>8. OneHandler'
    <2>1. ASSUME NEW g \in suspended
          PROVE  g.at \notin AuthPoints \cup {"offline"}
        BY <1>1 DEF AuthSuspended, StatusInv, OneHandler, AuthPoints, KeyPoints
    <2> QED
        BY <1>1, <1>2, <1>3, <1>5, <2>1 DEF OneHandler, AuthPoints, KeyPoints
<1>9. Reported'
    BY <1>6 DEF Reported
<1> QED
    BY <1>7, <1>8, <1>9 DEF StatusInv

LEMMA CloseFinishedReports ==
    ASSUME IInv, StatusInv, NEW h \in suspended, CloseFinished(h)
    PROVE  StatusInv'
<1>1. /\ h.at = "offline" /\ suspended' = suspended \ {h}
      /\ status_kv' = "offline" /\ websocket' = NoSocket
      /\ UNCHANGED <<socket, auth_sent, told>>
    BY DEF CloseFinished, Resume
<1>2. /\ websocket # NoSocket /\ h = Waiting("offline", websocket, NoCmd)
      /\ socket[websocket] = "closed"
    BY <1>1 DEF StatusInv, OneHandler
<1>3. ASSUME NEW g \in suspended' PROVE g.at \notin AuthPoints \cup {"offline"}
    <2>1. g \in suspended /\ g # h
        BY <1>1
    <2>2. g.at = "offline" => g = Waiting("offline", websocket, NoCmd)
        BY <2>1 DEF StatusInv, OneHandler
    <2>3. g.at \notin AuthPoints
        BY <1>2, <2>1 DEF StatusInv, OneHandler
    <2> QED
        BY <1>2, <2>1, <2>2, <2>3
<1>4. OneSession'
    BY <1>1, <1>2 DEF StatusInv, OneSession
<1>5. Current' /\ OneHandler' /\ Reported'
    BY <1>1, <1>3 DEF Current, OneHandler, Reported, Up
<1> QED
    BY <1>4, <1>5 DEF StatusInv

LEMMA StepStatus ==
    Faults \subseteq {"poll"} =>
        (IInv /\ StatusInv /\ [Next]_vars => StatusInv')
<1> SUFFICES ASSUME Faults \subseteq {"poll"}, IInv, StatusInv, [Next]_vars
             PROVE  StatusInv'
    OBVIOUS
<1>1. memory' \in AgentState
    BY StepIInv DEF IInv, TypeOK
<1>2. CASE Within
    BY <1>1, <1>2, WithinKeeps
<1>3. ~HandleDisconnect /\ ~Hibernate /\ ~Restart
    BY DEF HandleDisconnect, Hibernate, Restart
<1>4. CASE Requests
    BY <1>2, <1>3, <1>4, HandleWebsocketReports, WithinSteps DEF Requests
<1>5. CASE Messages
    BY <1>2, <1>5, HandleAuthReports, WithinSteps, WebsocketCloseReports
    DEF Messages
<1>6. CASE Resumes
    BY <1>2, <1>6, WithinSteps, AuthAcceptedReports, AuthRejectedReports,
       AuthOnlineReports, CloseFinishedReports DEF Resumes, ResumeOne
<1>7. CASE UNCHANGED vars
    BY <1>2, <1>7 DEF vars, Within, StatusInv, Current
<1> QED
    BY <1>3, <1>4, <1>5, <1>6, <1>7 DEF Next

THEOREM StatusInductive == Faults \subseteq {"poll"} => (Spec => []StatusInv)
<1> SUFFICES ASSUME Faults \subseteq {"poll"} PROVE Spec => []StatusInv
    OBVIOUS
<1>1. IInv /\ StatusInv /\ [Next]_vars => StatusInv'
    BY StepStatus
<1> QED
    BY <1>1, InitStatus, Inductive, PTL DEF Spec

\* With sessions one after the other, and whatever commands and status requests
\* come under an AUTH or a close: device_status is "online" exactly while a
\* session is up, whenever the object is at rest.
THEOREM StatusAgrees == Faults \subseteq {"poll"} => (Spec => []OnlineAgrees)
<1>1. IInv /\ StatusInv => OnlineAgrees
    <2> SUFFICES ASSUME IInv, StatusInv, suspended = {}
                 PROVE  status_kv = "online" <=> \E s \in Sockets : Talks(s)
        BY DEF OnlineAgrees
    <2>1. ~CloseSuspended /\ ~OnlineSuspended
        BY DEF CloseSuspended, OnlineSuspended
    <2>2. OneOpen
        BY DEF StatusInv, OneSession, OneOpen
    <2>3. Up <=> \E s \in Sockets : Talks(s)
        BY <2>2, TalkingIsUp DEF Up, Talks, IInv, TypeOK
    <2> QED
        BY <2>1, <2>3 DEF StatusInv, Reported
<1> QED
    BY <1>1, Inductive, StatusInductive, PTL

-----------------------------------------------------------------------------
(* An AUTH is not forgotten: the safety side of AuthIsAnswered.  Broken by  *)
(* "hibernate" (the reply of an object that lost its socket goes nowhere)   *)
(* and "overlap" (it goes to another one).                                  *)

AuthPending ==
    \A s \in auth_sent :
        socket[s] = "open" /\ told[s] = "nothing" =>
            \E h \in suspended : h.sock = s /\ h.at \in KeyPoints

SentUsed == \A s \in auth_sent : socket[s] # "unused"

PendingInv == OneOpen /\ Closing /\ SentUsed /\ AuthPending

PendingFaults == {"restart", "disconnect", "early_close", "poll"}

\* A step that leaves the sockets, their answers and the handlers of AUTHs that
\* have none.
PendingStill ==
    /\ UNCHANGED <<socket, websocket, told, auth_sent>>
    /\ {h \in suspended : h.at \in KeyPoints} \subseteq suspended'
    /\ CloseSuspended' => CloseSuspended

LEMMA PendingStillKeeps ==
    ASSUME PendingInv, PendingStill
    PROVE  PendingInv'
<1>1. OneOpen' /\ Closing' /\ SentUsed'
    BY DEF PendingInv, PendingStill, OneOpen, Closing, SentUsed
<1>2. AuthPending'
    BY DEF PendingInv, PendingStill, AuthPending
<1> QED
    BY <1>1, <1>2 DEF PendingInv

LEMMA PendingStillSteps ==
    ASSUME \/ \E c \in Cmds : HandleCommand(c)
           \/ HandleStatusRequest
           \/ \E s \in Sockets :
                 \/ HandleStatus(s) \/ HandleTelemetry(s) \/ HandleOther(s)
                 \/ \E c \in Cmds :
                       HandleConfigResponse(s, c) \/ HandleExecResult(s, c)
           \/ \E h \in suspended :
                 \/ SendCommand(h) \/ AuthOnline(h)
                 \/ StatusStored(h) \/ TelemetryStored(h)
           \/ UNCHANGED vars
    PROVE  PendingStill
<1>1. CASE (\E c \in Cmds : HandleCommand(c)) \/ HandleStatusRequest
    <2>1. /\ suspended \subseteq suspended'
          /\ \A h \in suspended' \ suspended : h.at = "body"
        BY <1>1, WaitingFields DEF HandleCommand, HandleStatusRequest, Suspend
    <2> QED
        BY <1>1, <2>1
        DEF PendingStill, CloseSuspended, HandleCommand, HandleStatusRequest
<1>2. ASSUME NEW s \in Sockets,
             \/ HandleStatus(s) \/ HandleTelemetry(s) \/ HandleOther(s)
             \/ \E c \in Cmds :
                   HandleConfigResponse(s, c) \/ HandleExecResult(s, c)
      PROVE  PendingStill
    <2>1. UNCHANGED <<socket, websocket, told, auth_sent>>
        BY <1>2 DEF HandleStatus, HandleTelemetry, HandleOther,
           HandleConfigResponse, HandleExecResult
    <2>2. /\ suspended \subseteq suspended'
          /\ \A h \in suspended' \ suspended : h.at # "offline"
        BY <1>2, WaitingFields DEF HandleStatus, HandleTelemetry, HandleOther,
           HandleConfigResponse, HandleExecResult, Suspend
    <2> QED
        BY <2>1, <2>2 DEF PendingStill, CloseSuspended
<1>3. ASSUME NEW h \in suspended,
             \/ SendCommand(h) \/ AuthOnline(h)
             \/ StatusStored(h) \/ TelemetryStored(h)
      PROVE  PendingStill
    <2>1. /\ UNCHANGED <<socket, websocket, told, auth_sent>>
          /\ suspended' = suspended \ {h}
          /\ h.at \in {"body", "online", "status", "store"}
        BY <1>3 DEF SendCommand, AuthOnline, StatusStored, TelemetryStored,
           Resume
    <2> QED
        BY <2>1 DEF PendingStill, CloseSuspended, KeyPoints
<1>4. CASE UNCHANGED vars
    BY <1>4 DEF vars, PendingStill, CloseSuspended
<1> QED
    BY <1>1, <1>2, <1>3, <1>4

LEMMA HandleWebsocketPends ==
    ASSUME IInv, PendingInv, Faults \subseteq PendingFaults,
           NEW s \in Sockets, HandleWebsocket(s)
    PROVE  PendingInv'
<1>1. /\ suspended = {} /\ \A t \in Sockets : socket[t] \in {"unused", "closed"}
      /\ socket[s] = "unused"
      /\ socket' = [socket EXCEPT ![s] = "open"] /\ websocket' = s
      /\ UNCHANGED <<suspended, told, auth_sent>>
    BY DEF HandleWebsocket, PendingFaults
<1>2. socket'[s] = "open" /\ \A t \in Sockets \ {s} : socket'[t] = socket[t]
    BY <1>1 DEF IInv, TypeOK
<1>3. s \notin auth_sent /\ auth_sent \subseteq Sockets
    BY <1>1 DEF PendingInv, SentUsed, IInv, TypeOK
<1>4. OneOpen' /\ Closing'
    BY <1>1, <1>2 DEF OneOpen, Closing, CloseSuspended
<1>5. SentUsed' /\ AuthPending'
    BY <1>1, <1>2, <1>3 DEF PendingInv, SentUsed, AuthPending
<1> QED
    BY <1>4, <1>5 DEF PendingInv

LEMMA HandleAuthPends ==
    ASSUME IInv, PendingInv, NEW s \in Sockets,
           NEW device \in BOOLEAN, NEW key \in BOOLEAN,
           HandleAuth(s, device, key)
    PROVE  PendingInv'
<1>1. /\ socket[s] = "open" /\ auth_sent' = auth_sent \cup {s}
      /\ UNCHANGED <<socket, websocket, told>>
    BY DEF HandleAuth
<1>2. PICK h : h.sock = s /\ h.at \in KeyPoints /\ suspended' = suspended \cup {h}
    BY WaitingFields DEF HandleAuth, Suspend, KeyPoints
<1>3. OneOpen' /\ Closing' /\ SentUsed'
    BY <1>1, <1>2
    DEF PendingInv, OneOpen, Closing, CloseSuspended, SentUsed, KeyPoints
<1>4. AuthPending'
    BY <1>1, <1>2 DEF PendingInv, AuthPending
<1> QED
    BY <1>3, <1>4 DEF PendingInv

\* The handler of the AUTH of an open socket, when it goes on, answers it: that
\* socket is the current one.
LEMMA AnswerPends ==
    ASSUME IInv, PendingInv, NEW h \in suspended,
           AuthAccepted(h) \/ AuthRejected(h)
    PROVE  PendingInv'
<1>1. /\ UNCHANGED <<socket, websocket, auth_sent>>
      /\ suspended \ {h} \subseteq suspended'
      /\ \A g \in suspended' \ suspended : g.at = "online"
      /\ Reply("AUTH_OK") \/ Reply("AUTH_FAIL")
    BY WaitingFields DEF AuthAccepted, AuthRejected, Resume
<1>2. OneOpen' /\ Closing' /\ SentUsed'
    BY <1>1 DEF PendingInv, OneOpen, Closing, CloseSuspended, SentUsed
<1>3. ASSUME NEW s \in auth_sent, socket[s] = "open", told'[s] = "nothing"
      PROVE  s # websocket /\ told[s] = "nothing"
    <2>1. s \in Sockets /\ told \in [Sockets -> {"nothing", "AUTH_OK", "AUTH_FAIL"}]
        BY DEF IInv, TypeOK
    <2> QED
        BY <1>1, <1>3, <2>1, NoSocketAssumption DEF Reply, SendOk
<1>4. ASSUME NEW s \in auth_sent, socket[s] = "open"
      PROVE  s = websocket
    BY <1>4 DEF PendingInv, OneOpen, IInv, TypeOK
<1>5. AuthPending'
    BY <1>1, <1>3, <1>4 DEF AuthPending
<1> QED
    BY <1>2, <1>5 DEF PendingInv

LEMMA EndsPend ==
    ASSUME IInv, PendingInv,
           \/ HandleDisconnect \/ Restart
           \/ \E s \in Sockets : WebsocketClose(s)
           \/ \E h \in suspended : CloseFinished(h)
    PROVE  PendingInv'
<1>1. /\ auth_sent' = auth_sent /\ auth_sent \subseteq Sockets
      /\ \A s \in Sockets : socket'[s] = "unused" => socket[s] = "unused"
    BY DEF HandleDisconnect, Restart, WebsocketClose, CloseFinished, IInv, TypeOK
<1>2. \A s \in Sockets : socket'[s] # "open"
    <2>1. CASE HandleDisconnect
        BY <2>1, NoSocketAssumption
        DEF HandleDisconnect, PendingInv, OneOpen, IInv, TypeOK
    <2>2. CASE Restart
        BY <2>2 DEF Restart
    <2>3. ASSUME NEW s \in Sockets, WebsocketClose(s)
          PROVE  \A t \in Sockets : socket'[t] # "open"
        BY <2>3 DEF WebsocketClose, PendingInv, OneOpen, Closing, IInv, TypeOK
    <2>4. ASSUME NEW h \in suspended, CloseFinished(h)
          PROVE  \A t \in Sockets : socket'[t] # "open"
        BY <2>4 DEF CloseFinished, PendingInv, Closing, CloseSuspended
    <2> QED
        BY <2>1, <2>2, <2>3, <2>4
<1> QED
    BY <1>1, <1>2 DEF PendingInv, OneOpen, Closing, SentUsed, AuthPending

LEMMA StepPending ==
    Faults \subseteq PendingFaults =>
        (IInv /\ PendingInv /\ [Next]_vars => PendingInv')
<1> SUFFICES ASSUME Faults \subseteq PendingFaults, IInv, PendingInv, [Next]_vars
             PROVE  PendingInv'
    OBVIOUS
<1>1. CASE Requests
    BY <1>1, HandleWebsocketPends, PendingStillSteps, PendingStillKeeps, EndsPend
    DEF Requests
<1>2. CASE Messages
    BY <1>2, HandleAuthPends, PendingStillSteps, PendingStillKeeps, EndsPend
    DEF Messages
<1>3. CASE Resumes
    BY <1>3, AnswerPends, PendingStillSteps, PendingStillKeeps, EndsPend
    DEF Resumes, ResumeOne
<1>4. ~Hibernate
    BY DEF Hibernate, PendingFaults
<1> QED
    BY <1>1, <1>2, <1>3, <1>4, PendingStillSteps, PendingStillKeeps, EndsPend
    DEF Next

\* Restarts, /disconnect, early closes and polls in any mix: an AUTH without an
\* answer on a socket that is open is in the hands of its handler, which waits
\* for nothing but the key lookup.
THEOREM AuthIsNotForgotten ==
    Faults \subseteq PendingFaults => (Spec => []AuthPending)
<1> SUFFICES ASSUME Faults \subseteq PendingFaults PROVE Spec => []AuthPending
    OBVIOUS
<1>1. Init => PendingInv
    BY DEF Init, PendingInv, OneOpen, Closing, CloseSuspended, SentUsed,
       AuthPending
<1>2. IInv /\ PendingInv /\ [Next]_vars => PendingInv'
    BY StepPending
<1>3. PendingInv => AuthPending
    BY DEF PendingInv
<1> QED
    BY <1>1, <1>2, <1>3, Inductive, PTL DEF Spec
=============================================================================
