-------------------------- MODULE DispatcherProofs --------------------------
(***************************************************************************)
(* What holds of the dispatcher for any set of requests, commands, config  *)
(* sections and mode configs.  The inductive invariant says what each step *)
(* of a handler has established: the mode read on taking a message is the  *)
(* mode in force until the answer, a request is touched once, and the mode *)
(* file always tells what the next start will load.                        *)
(***************************************************************************)
EXTENDS Dispatcher, TLAPS

\* The message in hand, by the point its handler has reached.
TaskInv ==
    task # Idle =>
        /\ running
        /\ task.mode = mode
        /\ reply[task.req] = "taken"
        /\ task.at \notin {"running", "installed"} => effect[task.req] = NoEffect
        /\ task.at = "upgrading" => task.mode.mode = "takeover"
        /\ task.at \in {"writing", "persisted"} =>
              /\ task.msg.config \in ModeConfig
              /\ begun /\ asked = task.msg.config
        /\ task.at = "writing" => file = Corrupt
        /\ task.at = "persisted" => file = asked

\* What the next start will load.
FileInv ==
    /\ begun => file \in {asked, Missing, Corrupt}
    /\ ~begun => settled = Persisted(file)
    /\ running => settled = mode
    /\ running /\ (task = Idle \/ task.at # "persisted") => file \in {mode, Missing, Corrupt}

\* Requests not in hand.
RequestInv ==
    \A r \in Requests :
        /\ reply[r] = "new" => effect[r] = NoEffect
        /\ r \in reboots => effect[r].kind = "reboot_granted"

IInv == TypeOK /\ TaskInv /\ FileInv /\ RequestInv /\ FailureMeansUntouched

-----------------------------------------------------------------------------
(* The data. *)

LEMMA DefaultModeType == DefaultMode \in ModeConfig
BY DEF DefaultMode, ModeConfig, Modes

LEMMA PersistedType == ASSUME NEW contents PROVE Persisted(contents) \in ModeConfig
BY DefaultModeType DEF Persisted

LEMMA UpdateConfig ==
    ASSUME NEW m \in Messages, m.type = "MODE_UPDATE", m.config # NoConfig
    PROVE  m.config \in ModeConfig
BY OfferedAssumption DEF Messages

LEMMA PushSection ==
    ASSUME NEW m \in Messages, m.type = "CONFIG", m.parses
    PROVE  m.section \in Sections
BY DEF Messages

LEMMA EffectTypes ==
    /\ \A s \in Sections : [kind |-> "config", section |-> s] \in Effects
    /\ \A c \in AllowedCommands : [kind |-> "exec", command |-> c] \in Effects
    /\ \A k \in {"none", "install", "stale_binary", "reboot_granted", "rebooted"} : [kind |-> k] \in Effects
BY DEF Effects

-----------------------------------------------------------------------------
LEMMA InitIInv == Init => IInv
<1> SUFFICES ASSUME Init PROVE IInv
    OBVIOUS
<1>1. /\ mode \in ModeConfig
      /\ file \in ModeConfig \cup {Missing, Corrupt}
    BY PersistedType, OfferedAssumption DEF Init
<1>2. TypeOK
    BY <1>1, EffectTypes DEF Init, TypeOK, NoEffect
<1>3. TaskInv /\ RequestInv /\ FailureMeansUntouched
    BY DEF Init, TaskInv, RequestInv, FailureMeansUntouched
<1>4. FileInv
    BY <1>1 DEF Init, FileInv, Persisted
<1> QED
    BY <1>2, <1>3, <1>4 DEF IInv
-----------------------------------------------------------------------------
(* One lemma per action. *)

LEMMA TaskFacts ==
    ASSUME IInv, task # Idle
    PROVE  /\ task \in [req : Requests, msg : Messages, mode : ModeConfig, at : Steps]
           /\ task.req \in Requests /\ task.msg \in Messages
           /\ task.mode \in ModeConfig /\ task.at \in Steps
BY DEF IInv, TypeOK

LEMMA TakePreserves ==
    ASSUME IInv, NEW r \in Requests, NEW m \in Messages, Take(r, m)
    PROVE  IInv'
<1> USE DEF Take
<1>1. TypeOK'
    BY DEF IInv, TypeOK, Steps
<1>2. TaskInv'
    BY DEF IInv, TypeOK, TaskInv, RequestInv
<1>3. FileInv'
    BY DEF IInv, FileInv
<1>4. RequestInv' /\ FailureMeansUntouched'
    BY DEF IInv, RequestInv, FailureMeansUntouched
<1> QED
    BY <1>1, <1>2, <1>3, <1>4 DEF IInv

LEMMA HandleConfigPreserves ==
    ASSUME IInv, HandleConfig
    PROVE  IInv'
<1> USE DEF HandleConfig, Handling, Answer, Touch, ProcessUnchanged, ModeUnchanged
<1>1. TypeOK'
    BY EffectTypes, PushSection DEF IInv, TypeOK, Replies
<1>2. TaskInv'
    BY DEF TaskInv
<1>3. FileInv'
    BY DEF IInv, FileInv
<1>4. RequestInv' /\ FailureMeansUntouched'
    BY DEF IInv, TypeOK, RequestInv, FailureMeansUntouched, TaskInv, NoEffect
<1> QED
    BY <1>1, <1>2, <1>3, <1>4 DEF IInv

LEMMA HandleExecPreserves ==
    ASSUME IInv, HandleExec
    PROVE  IInv'
<1> USE DEF HandleExec, Handling, Answer, GoOn, Touch, ExecDenied, ProcessUnchanged, ModeUnchanged
<1>1. TypeOK'
    BY EffectTypes DEF IInv, TypeOK, Replies, Steps
<1>2. TaskInv'
    BY DEF IInv, TypeOK, TaskInv
<1>3. FileInv'
    BY DEF IInv, FileInv
<1>4. RequestInv' /\ FailureMeansUntouched'
    BY DEF IInv, TypeOK, RequestInv, FailureMeansUntouched, TaskInv, NoEffect
<1> QED
    BY <1>1, <1>2, <1>3, <1>4 DEF IInv

LEMMA ExecDonePreserves ==
    ASSUME IInv, ExecDone
    PROVE  IInv'
<1> USE DEF ExecDone, InHand, Answer, ProcessUnchanged, ModeUnchanged
<1>1. TypeOK'
    BY DEF IInv, TypeOK, Replies
<1>2. TaskInv'
    BY DEF TaskInv
<1>3. FileInv'
    BY DEF IInv, FileInv
<1>4. RequestInv' /\ FailureMeansUntouched'
    BY DEF IInv, RequestInv, FailureMeansUntouched
<1> QED
    BY <1>1, <1>2, <1>3, <1>4 DEF IInv

LEMMA HandleRebootPreserves ==
    ASSUME IInv, HandleReboot
    PROVE  IInv'
<1> USE DEF HandleReboot, Handling, Answer, Touch, ModeUnchanged
<1>1. TypeOK'
    BY EffectTypes DEF IInv, TypeOK, Replies
<1>2. TaskInv'
    BY DEF TaskInv
<1>3. FileInv'
    BY DEF IInv, FileInv
<1>4. RequestInv' /\ FailureMeansUntouched'
    BY DEF IInv, TypeOK, RequestInv, FailureMeansUntouched, TaskInv, NoEffect
<1> QED
    BY <1>1, <1>2, <1>3, <1>4 DEF IInv

LEMMA HandleUpgradePreserves ==
    ASSUME IInv, HandleUpgrade
    PROVE  IInv'
<1> USE DEF HandleUpgrade, Handling, Answer, GoOn, ProcessUnchanged, ModeUnchanged
<1>1. TypeOK'
    BY DEF IInv, TypeOK, Replies, Steps
<1>2. TaskInv'
    BY DEF IInv, TypeOK, TaskInv
<1>3. FileInv'
    BY DEF IInv, FileInv
<1>4. RequestInv' /\ FailureMeansUntouched'
    BY DEF IInv, TypeOK, RequestInv, FailureMeansUntouched, TaskInv, NoEffect
<1> QED
    BY <1>1, <1>2, <1>3, <1>4 DEF IInv

LEMMA UpgradeFailsPreserves ==
    ASSUME IInv, UpgradeFails
    PROVE  IInv'
<1> USE DEF UpgradeFails, InHand, Answer, ProcessUnchanged, ModeUnchanged
<1>1. TypeOK'
    BY DEF IInv, TypeOK, Replies
<1>2. TaskInv'
    BY DEF TaskInv
<1>3. FileInv'
    BY DEF IInv, FileInv
<1>4. RequestInv' /\ FailureMeansUntouched'
    BY DEF IInv, RequestInv, FailureMeansUntouched, TaskInv, NoEffect
<1> QED
    BY <1>1, <1>2, <1>3, <1>4 DEF IInv

LEMMA UpgradeRestoresStalePreserves ==
    ASSUME IInv, UpgradeRestoresStale
    PROVE  IInv'
<1> USE DEF UpgradeRestoresStale, InHand, Answer, Touch, ProcessUnchanged, ModeUnchanged
<1>1. TypeOK'
    BY EffectTypes DEF IInv, TypeOK, Replies
<1>2. TaskInv'
    BY DEF TaskInv
<1>3. FileInv'
    BY DEF IInv, FileInv
<1>4. RequestInv' /\ FailureMeansUntouched'
    BY DEF IInv, RequestInv, FailureMeansUntouched, TaskInv, NoEffect
<1> QED
    BY <1>1, <1>2, <1>3, <1>4 DEF IInv

LEMMA UpgradeInstallsPreserves ==
    ASSUME IInv, UpgradeInstalls
    PROVE  IInv'
<1> USE DEF UpgradeInstalls, InHand, GoOn, Touch, ProcessUnchanged, ModeUnchanged
<1>1. TypeOK'
    BY EffectTypes DEF IInv, TypeOK, Steps
<1>2. TaskInv'
    BY DEF IInv, TaskInv
<1>3. FileInv'
    BY DEF IInv, FileInv
<1>4. RequestInv' /\ FailureMeansUntouched'
    BY DEF IInv, RequestInv, FailureMeansUntouched, TaskInv, NoEffect
<1> QED
    BY <1>1, <1>2, <1>3, <1>4 DEF IInv

LEMMA UpgradeDonePreserves ==
    ASSUME IInv, UpgradeDone
    PROVE  IInv'
<1> USE DEF UpgradeDone, InHand, Answer, ModeUnchanged
<1>1. TypeOK'
    BY DEF IInv, TypeOK, Replies
<1>2. TaskInv'
    BY DEF TaskInv
<1>3. FileInv'
    BY DEF IInv, FileInv
<1>4. RequestInv' /\ FailureMeansUntouched'
    BY DEF IInv, RequestInv, FailureMeansUntouched
<1> QED
    BY <1>1, <1>2, <1>3, <1>4 DEF IInv

LEMMA HandlePlainPreserves ==
    ASSUME IInv, HandlePlain
    PROVE  IInv'
<1> USE DEF HandlePlain, Handling, Answer, ProcessUnchanged, ModeUnchanged
<1>1. TypeOK'
    BY DEF IInv, TypeOK, Replies
<1>2. TaskInv'
    BY DEF TaskInv
<1>3. FileInv'
    BY DEF IInv, FileInv
<1>4. RequestInv' /\ FailureMeansUntouched'
    BY DEF IInv, TypeOK, RequestInv, FailureMeansUntouched, TaskInv, NoEffect
<1> QED
    BY <1>1, <1>2, <1>3, <1>4 DEF IInv

LEMMA ModeUpdateRefusedPreserves ==
    ASSUME IInv, ModeUpdateRefused
    PROVE  IInv'
<1> USE DEF ModeUpdateRefused, Handling, Answer, ProcessUnchanged, ModeUnchanged
<1>1. TypeOK'
    BY DEF IInv, TypeOK, Replies
<1>2. TaskInv'
    BY DEF TaskInv
<1>3. FileInv'
    BY DEF IInv, FileInv
<1>4. RequestInv' /\ FailureMeansUntouched'
    BY DEF IInv, RequestInv, FailureMeansUntouched, TaskInv, NoEffect
<1> QED
    BY <1>1, <1>2, <1>3, <1>4 DEF IInv

LEMMA ModeWriteBeginsPreserves ==
    ASSUME IInv, ModeWriteBegins
    PROVE  IInv'
<1> USE DEF ModeWriteBegins, Handling, GoOn, ProcessUnchanged
<1>1. TypeOK'
    BY UpdateConfig DEF IInv, TypeOK, Steps
<1>2. TaskInv'
    BY UpdateConfig DEF IInv, TypeOK, TaskInv
<1>3. FileInv'
    BY DEF IInv, FileInv
<1>4. RequestInv' /\ FailureMeansUntouched'
    BY DEF IInv, RequestInv, FailureMeansUntouched
<1> QED
    BY <1>1, <1>2, <1>3, <1>4 DEF IInv

LEMMA ModeWrittenPreserves ==
    ASSUME IInv, ModeWritten
    PROVE  IInv'
<1> USE DEF ModeWritten, InHand, GoOn, ProcessUnchanged
<1>a. task' # Idle
    BY TaskFacts, IdleAssumption DEF Steps
<1>1. TypeOK'
    BY DEF IInv, TypeOK, TaskInv, Steps
<1>2. TaskInv'
    BY DEF IInv, TaskInv
<1>3. FileInv'
    BY <1>a DEF IInv, TaskInv, FileInv
<1>4. RequestInv' /\ FailureMeansUntouched'
    BY DEF IInv, RequestInv, FailureMeansUntouched
<1> QED
    BY <1>1, <1>2, <1>3, <1>4 DEF IInv

LEMMA ModeWriteFailsPreserves ==
    ASSUME IInv, ModeWriteFails
    PROVE  IInv'
<1> USE DEF ModeWriteFails, InHand, Answer, ProcessUnchanged, ModeUnchanged
<1>1. TypeOK'
    BY DEF IInv, TypeOK, Replies
<1>2. TaskInv'
    BY DEF TaskInv
<1>3. FileInv'
    BY DEF IInv, FileInv
<1>4. RequestInv' /\ FailureMeansUntouched'
    BY DEF IInv, RequestInv, FailureMeansUntouched, TaskInv, NoEffect
<1> QED
    BY <1>1, <1>2, <1>3, <1>4 DEF IInv

LEMMA ModeBroadcastPreserves ==
    ASSUME IInv, ModeBroadcast
    PROVE  IInv'
<1> USE DEF ModeBroadcast, InHand, Answer, ProcessUnchanged
<1>1. TypeOK'
    BY DEF IInv, TypeOK, TaskInv, Replies
<1>2. TaskInv'
    BY DEF TaskInv
<1>3. FileInv'
    BY DEF IInv, TaskInv, FileInv, Persisted
<1>4. RequestInv' /\ FailureMeansUntouched'
    BY DEF IInv, RequestInv, FailureMeansUntouched, TaskInv, NoEffect
<1> QED
    BY <1>1, <1>2, <1>3, <1>4 DEF IInv

LEMMA StopPreserves ==
    ASSUME IInv, Stop
    PROVE  IInv'
<1> USE DEF Stop, Dies, ModeUnchanged
<1>1. TypeOK'
    BY DEF IInv, TypeOK
<1>2. TaskInv'
    BY DEF TaskInv
<1>3. FileInv'
    BY DEF IInv, FileInv
<1>4. RequestInv' /\ FailureMeansUntouched'
    BY DEF IInv, RequestInv, FailureMeansUntouched
<1> QED
    BY <1>1, <1>2, <1>3, <1>4 DEF IInv

LEMMA RebootFiresPreserves ==
    ASSUME IInv, NEW r \in Requests, RebootFires(r)
    PROVE  IInv'
<1> USE DEF RebootFires, Dies, ModeUnchanged
<1>1. TypeOK'
    BY EffectTypes DEF IInv, TypeOK
<1>2. TaskInv'
    BY DEF IInv, TaskInv
<1>3. FileInv'
    BY DEF IInv, FileInv
<1>4. effect[r] # NoEffect
    BY DEF IInv, RequestInv, NoEffect
<1>5. RequestInv' /\ FailureMeansUntouched'
  <2>1. CASE Dies
    BY <1>4, <2>1 DEF IInv, TypeOK, RequestInv, FailureMeansUntouched
  <2>2. CASE ~Dies
    BY <2>2 DEF IInv, RequestInv, FailureMeansUntouched
  <2> QED
    BY <2>1, <2>2
<1> QED
    BY <1>1, <1>2, <1>3, <1>5 DEF IInv

LEMMA RestartFiresPreserves ==
    ASSUME IInv, NEW r \in Requests, RestartFires(r)
    PROVE  IInv'
<1> USE DEF RestartFires, Dies, ModeUnchanged
<1>1. TypeOK'
    BY DEF IInv, TypeOK
<1>2. TaskInv'
    BY DEF TaskInv
<1>3. FileInv'
    BY DEF IInv, FileInv
<1>4. RequestInv' /\ FailureMeansUntouched'
    BY DEF IInv, RequestInv, FailureMeansUntouched
<1> QED
    BY <1>1, <1>2, <1>3, <1>4 DEF IInv

LEMMA BootPreserves ==
    ASSUME IInv, Boot
    PROVE  IInv'
<1> USE DEF Boot
<1>1. TypeOK'
    BY PersistedType DEF IInv, TypeOK
<1>2. TaskInv'
    BY DEF IInv, TaskInv
<1>3. FileInv'
    BY DEF IInv, TypeOK, FileInv, Persisted
<1>4. RequestInv' /\ FailureMeansUntouched'
    BY DEF IInv, RequestInv, FailureMeansUntouched
<1> QED
    BY <1>1, <1>2, <1>3, <1>4 DEF IInv

LEMMA StepIInv == IInv /\ [Next]_vars => IInv'
<1> SUFFICES ASSUME IInv, [Next]_vars PROVE IInv'
    OBVIOUS
<1>1. CASE \E r \in Requests, m \in Messages : Take(r, m)
    BY <1>1, TakePreserves
<1>2. CASE Handle
    BY <1>2, HandleConfigPreserves, HandleExecPreserves, ExecDonePreserves,
       HandleRebootPreserves, HandleUpgradePreserves, UpgradeFailsPreserves,
       UpgradeRestoresStalePreserves, UpgradeInstallsPreserves,
       UpgradeDonePreserves, HandlePlainPreserves, ModeUpdateRefusedPreserves,
       ModeWriteBeginsPreserves, ModeWrittenPreserves, ModeWriteFailsPreserves,
       ModeBroadcastPreserves
       DEF Handle
<1>3. CASE Stop \/ Boot
    BY <1>3, StopPreserves, BootPreserves
<1>4. CASE \E r \in Requests : RebootFires(r) \/ RestartFires(r)
    BY <1>4, RebootFiresPreserves, RestartFiresPreserves
<1>5. CASE UNCHANGED vars
    BY <1>5
       DEF vars, IInv, TypeOK, TaskInv, FileInv, RequestInv, FailureMeansUntouched
<1> QED
    BY <1>1, <1>2, <1>3, <1>4, <1>5 DEF Next

\* The invariant the properties below are read off.
THEOREM Inductive == Spec => []IInv
BY InitIInv, StepIInv, PTL DEF Spec

\* Every variable of the dispatcher keeps its type.
THEOREM TypeCorrect == Spec => []TypeOK
<1>1. IInv => TypeOK
    BY DEF IInv
<1> QED
    BY <1>1, Inductive, PTL

\* Whatever sequence of updates, failures, crashes and starts led here, between
\* two messages mode.json holds no valid config but the one in force.
THEOREM FileAgrees == Spec => []DiskFollowsMode
<1>1. IInv => DiskFollowsMode
    BY DEF IInv, FileInv, DiskFollowsMode
<1> QED
    BY <1>1, Inductive, PTL

\* A request answered with a failure has done nothing to the router, except an
\* upgrade that lost both its backup and its rename.
THEOREM FailuresTouchNothing == Spec => []FailureMeansUntouched
<1>1. IInv => FailureMeansUntouched
    BY DEF IInv
<1> QED
    BY <1>1, Inductive, PTL

\* A start of the agent loads the mode acknowledged last, or, when a write of
\* mode.json began since, the config of that write or Observe.
THEOREM BootRestoresMode == Spec => BootKeepsMode
<1>1. ASSUME IInv, [Next]_vars, ~running, running'
      PROVE  IF begun THEN mode' \in {asked, DefaultMode} ELSE mode' = settled
  <2>2. Boot
    <3>1. ~Handle
        BY <1>1
           DEF Handle, HandleConfig, HandleExec, ExecDone, HandleReboot,
           HandleUpgrade, UpgradeFails, UpgradeRestoresStale, UpgradeInstalls,
           UpgradeDone, HandlePlain, ModeUpdateRefused, ModeWriteBegins,
           ModeWritten, ModeWriteFails, ModeBroadcast, Handling, InHand
    <3> QED
        BY <1>1, <3>1 DEF Next, vars, Take, Stop, RebootFires, RestartFires
  <2>3. mode' = Persisted(file) /\ (begun => file \in {asked, Missing, Corrupt})
        /\ (~begun => settled = Persisted(file))
      BY <1>1, <2>2 DEF Boot, IInv, FileInv
  <2> QED
      BY <2>3, FileAssumption DEF Persisted
<1>2. IInv /\ [Next]_vars =>
        [~running /\ running' =>
           IF begun THEN mode' \in {asked, DefaultMode} ELSE mode' = settled]_vars
    BY <1>1
<1> QED
    BY <1>2, Inductive, PTL DEF Spec, BootKeepsMode

-----------------------------------------------------------------------------
(* The dispatcher implements ModeGuard. *)

LEMMA SameModes == Guard!ModeConfig = ModeConfig
BY DEF Guard!ModeConfig, ModeConfig, Guard!Modes, Modes

LEMMA GuardInitially == Init => Guard!GuardInit
BY InitIInv, SameModes
   DEF IInv, TypeOK, Init, Guard!GuardInit, Guard!NoEffect, NoEffect

LEMMA GuardStep == IInv /\ IInv' /\ [Next]_vars => [Guard!GuardNext]_<<mode, effect>>
<1> SUFFICES ASSUME IInv, IInv', [Next]_vars
             PROVE  \/ Guard!GuardNext
                    \/ UNCHANGED <<mode, effect>>
    OBVIOUS
<1>1. ASSUME UNCHANGED effect PROVE Guard!GuardNext \/ UNCHANGED <<mode, effect>>
    BY <1>1, SameModes DEF IInv, TypeOK, Guard!GuardNext, Guard!ChangeMode
<1>2. ASSUME task # Idle, effect[task.req] = NoEffect,
             NEW e, e \in Guard!Effects, Guard!Permits(mode, e),
             Touch(e), UNCHANGED mode
      PROVE  Guard!GuardNext
    BY <1>2, TaskFacts
       DEF Touch, Guard!GuardNext, Guard!Touch, Guard!NoEffect, NoEffect
<1>3. CASE HandleConfig
  <2>1. CASE UNCHANGED effect
      BY <1>1, <2>1
  <2>2. CASE ~UNCHANGED effect
    <3> DEFINE e == [kind |-> "config", section |-> task.msg.section]
    <3>1. /\ task # Idle /\ task.msg.parses /\ task.msg.type = "CONFIG"
          /\ EffectiveMode(mode, task.msg.section) = "takeover"
          /\ Touch(e) /\ UNCHANGED mode /\ effect[task.req] = NoEffect
        BY <1>3, <2>2 DEF HandleConfig, Handling, ModeUnchanged, IInv, TaskInv
    <3>2. task.msg.section \in Sections
        BY <3>1, TaskFacts, PushSection
    <3>3. e \in Guard!Effects
        BY <3>2 DEF Guard!Effects
    <3>4. Guard!Permits(mode, e)
        BY <3>1 DEF Guard!Permits, Guard!EffectiveMode, EffectiveMode
    <3> QED
        BY <1>2, <3>1, <3>3, <3>4
  <2> QED
      BY <2>1, <2>2
<1>4. CASE HandleExec
  <2>1. CASE UNCHANGED effect
      BY <1>1, <2>1
  <2>2. CASE ~UNCHANGED effect
    <3> DEFINE e == [kind |-> "exec", command |-> task.msg.command]
    <3>1. /\ task # Idle /\ ~ExecDenied(task.msg.command, mode)
          /\ Touch(e) /\ UNCHANGED mode /\ effect[task.req] = NoEffect
        BY <1>4, <2>2 DEF HandleExec, Handling, ModeUnchanged, IInv, TaskInv
    <3>2. task.msg.command \in AllowedCommands
        BY <3>1 DEF ExecDenied
    <3>3. e \in Guard!Effects
        BY <3>2 DEF Guard!Effects, Guard!AllowedCommands, AllowedCommands
    <3>4. Guard!Permits(mode, e)
      <4>1. CASE task.msg.command \in DiagnosticCommands
          BY <3>1, <4>1
             DEF Guard!Permits, ExecDenied, CanExecDiagnostics,
             Guard!DiagnosticCommands, DiagnosticCommands
      <4>2. CASE task.msg.command \notin DiagnosticCommands
          BY <3>1, <4>2
             DEF Guard!Permits, ExecDenied, CanExec, Guard!AllowedCommands,
             AllowedCommands
      <4> QED
          BY <4>1, <4>2
    <3> QED
        BY <1>2, <3>1, <3>3, <3>4
  <2> QED
      BY <2>1, <2>2
<1>5. CASE HandleReboot
  <2>1. CASE UNCHANGED effect
      BY <1>1, <2>1
  <2>2. CASE ~UNCHANGED effect
    <3> DEFINE e == [kind |-> "reboot_granted"]
    <3>1. /\ task # Idle /\ mode.mode = "takeover"
          /\ Touch(e) /\ UNCHANGED mode /\ effect[task.req] = NoEffect
        BY <1>5, <2>2 DEF HandleReboot, Handling, ModeUnchanged, IInv, TaskInv
    <3>2. e \in Guard!Effects /\ Guard!Permits(mode, e)
        BY <3>1 DEF Guard!Effects, Guard!Permits
    <3> QED
        BY <1>2, <3>1, <3>2
  <2> QED
      BY <2>1, <2>2
<1>6. CASE UpgradeInstalls \/ UpgradeRestoresStale
  <2>1. PICK k \in {"install", "stale_binary"} : Touch([kind |-> k])
      BY <1>6 DEF UpgradeInstalls, UpgradeRestoresStale
  <2>2. /\ task # Idle /\ mode.mode = "takeover"
        /\ UNCHANGED mode /\ effect[task.req] = NoEffect
      BY <1>6
         DEF UpgradeInstalls, UpgradeRestoresStale, InHand, ModeUnchanged, IInv,
         TaskInv
  <2>3. [kind |-> k] \in Guard!Effects /\ Guard!Permits(mode, [kind |-> k])
      BY <2>2 DEF Guard!Effects, Guard!Permits
  <2> QED
      BY <1>2, <2>1, <2>2, <2>3
<1>7. ASSUME NEW r \in Requests, RebootFires(r)
      PROVE  Guard!GuardNext \/ UNCHANGED <<mode, effect>>
  <2>1. CASE UNCHANGED effect
      BY <1>1, <2>1
  <2>2. CASE ~UNCHANGED effect
      BY <1>7
         DEF RebootFires, ModeUnchanged, IInv, RequestInv, Guard!GuardNext,
         Guard!Reboot
  <2> QED
      BY <2>1, <2>2
<1>8. CASE HandleUpgrade \/ UpgradeFails \/ UpgradeDone \/ ExecDone \/ HandlePlain \/ ModeUpdateRefused \/ ModeWriteBegins
           \/ ModeWritten \/ ModeWriteFails \/ ModeBroadcast \/ Stop \/ Boot
           \/ UNCHANGED vars
    BY <1>1, <1>8
       DEF HandleUpgrade, UpgradeFails, UpgradeDone, ExecDone, HandlePlain,
       ModeUpdateRefused, ModeWriteBegins, ModeWritten, ModeWriteFails,
       ModeBroadcast, Stop, Boot, vars
<1>9. CASE \E r \in Requests, m \in Messages : Take(r, m)
    BY <1>9 DEF Take
<1>10. CASE \E r \in Requests : RestartFires(r)
    BY <1>1, <1>10 DEF RestartFires
<1> QED
    BY <1>3, <1>4, <1>5, <1>6, <1>7, <1>8, <1>9, <1>10 DEF Next, Handle

\* The agent touches the router only as the mode in force permits, each request
\* at most once, and reboots only where that was granted.
THEOREM ImplementsModeGuard == Spec => GuardSpec
<1>1. Init => Guard!GuardInit
    BY GuardInitially
<1> QED
    BY <1>1, Inductive, GuardStep, PTL DEF Spec, GuardSpec, Guard!GuardSpec, Guard!guardVars
=============================================================================
