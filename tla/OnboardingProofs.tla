-------------------------- MODULE OnboardingProofs --------------------------
(***************************************************************************)
(* What holds of the onboarding page for any routers, configurations and   *)
(* number of registrations.  The inductive invariant says that a press of  *)
(* Place Order waits only on the summary it was made on (Pressed), that a  *)
(* registration is outstanding exactly while the wizard says so (OneCall), *)
(* and on which steps the one device without a failure may exist (Owed).   *)
(***************************************************************************)
EXTENDS Portal, FiniteSetTheorems, SequenceTheorems, TLAPS

\* The summary cannot change while a press of its button waits.
Pressed == confirm # None => step = "summary" /\ confirm = Flow!Summary

\* One registration at most is outstanding, of what was reviewed.
OneCall ==
    \/ step # "submitting" /\ calls = << >>
    \/ /\ step = "submitting" /\ Len(calls) = 1
       /\ calls[1].what = calls[1].seen

\* Every device is owed to a failure, but the one the outstanding registration
\* has made or the order is about.
Owed ==
    /\ IsFiniteSet(devices)
    /\ Cardinality(devices) <= failures + 1
    /\ \/ step = "complete"
       \/ step = "submitting" /\ calls[1].made
       \/ Cardinality(devices) <= failures
    /\ failures + Len(calls) <= sent

IInv ==
    /\ Flow!TypeOK /\ Pressed /\ OneCall /\ Owed /\ Flow!OrderedAsReviewed
-----------------------------------------------------------------------------
(* The wizard's steps *)

LEMMA StepValues ==
    Flow!Step = {"welcome", "router", "config", "summary", "complete", "submitting"}
<1> DEFINE S == <<"welcome", "router", "config", "summary", "complete">>
<1>1. DOMAIN S = {1, 2, 3, 4, 5}
    OBVIOUS
<1>2. {S[i] : i \in DOMAIN S} = {"welcome", "router", "config", "summary", "complete"}
    BY <1>1
<1> QED
    BY <1>2 DEF Flow!Step, Flow!Steps

\* The Back and Next buttons lead to the neighbouring steps.
LEMMA Neighbours ==
    /\ step = "router" => Flow!Steps[Flow!Index - 1] = "welcome"
    /\ step = "config" => Flow!Steps[Flow!Index - 1] = "router"
    /\ step = "summary" => Flow!Steps[Flow!Index - 1] = "config"
    /\ step = "welcome" => Flow!Steps[Flow!Index + 1] = "router"
    /\ step = "router" => Flow!Steps[Flow!Index + 1] = "config"
    /\ step = "config" => Flow!Steps[Flow!Index + 1] = "summary"
<1>1. DOMAIN Flow!Steps = {1, 2, 3, 4, 5}
    BY DEF Flow!Steps
<1>2. /\ Flow!Steps[1] = "welcome" /\ Flow!Steps[2] = "router"
      /\ Flow!Steps[3] = "config" /\ Flow!Steps[4] = "summary"
      /\ Flow!Steps[5] = "complete"
    BY DEF Flow!Steps
<1>3. /\ step = "welcome" => Flow!Index = 1
      /\ step = "router" => Flow!Index = 2
      /\ step = "config" => Flow!Index = 3
      /\ step = "summary" => Flow!Index = 4
    BY <1>1, <1>2 DEF Flow!Index
<1> QED
    BY <1>2, <1>3

\* The onboarding page's copies of two library operators are the library's.
LEMMA SameOperators ==
    /\ \A S : Flow!Cardinality(S) = Cardinality(S)
    /\ \A s, i : Flow!RemoveAt(s, i) = RemoveAt(s, i)
<1>1. ASSUME NEW S PROVE Flow!Cardinality(S) = Cardinality(S)
    BY DEF Flow!Cardinality, Cardinality
<1>2. ASSUME NEW s, NEW i PROVE Flow!RemoveAt(s, i) = RemoveAt(s, i)
    BY DEF Flow!RemoveAt, RemoveAt
<1> QED
    BY <1>1, <1>2

\* A registration outstanding.
Call == [what : Flow!Reviewed, seen : Flow!Reviewed, n : 0..MaxCalls, made : BOOLEAN]

LEMMA Singleton ==
    ASSUME NEW c \in Call
    PROVE  <<c>> \in Seq(Call) /\ Len(<<c>>) = 1 /\ <<c>>[1] = c
OBVIOUS

LEMMA InitIInv == Flow!Init => IInv
<1> SUFFICES ASSUME Flow!Init PROVE IInv
    OBVIOUS
<1> USE DEF Flow!Init
<1>1. << >> \in Seq(Call) /\ Len(<< >>) = 0 /\ 0 \in 0..MaxCalls
    BY CallsAssumption
<1>2. Flow!TypeOK
    BY <1>1, StepValues DEF Flow!TypeOK, Call
<1>3. Pressed /\ OneCall /\ Flow!OrderedAsReviewed
    BY DEF Pressed, OneCall, Flow!OrderedAsReviewed
<1>4. Owed
    BY <1>1, FS_EmptySet DEF Owed
<1> QED
    BY <1>2, <1>3, <1>4 DEF IInv

-----------------------------------------------------------------------------
(* One lemma per group of actions *)

\* Everything in front of the registration only moves between the steps.
LEMMA WizardStep ==
    ASSUME IInv,
           \/ Flow!GoBack \/ Flow!GoNext \/ Flow!Retry
           \/ \E ok \in BOOLEAN : Flow!RoutersLoaded(ok)
           \/ \E r \in Router : Flow!SelectRouter(r)
           \/ \E c \in Config : Flow!SubmitConfig(c)
           \/ \E s \in {"router", "config"} : Flow!EditSection(s)
    PROVE  IInv'
<1>1. /\ step \in {"welcome", "router", "config", "summary"}
      /\ step' \in {"welcome", "router", "config", "summary"}
      /\ list' \in {"loading", "shown", "failed"} /\ failedOnce' \in BOOLEAN
      /\ router' \in Router \cup {None} /\ config' \in Config \cup {None}
      /\ UNCHANGED <<calls, order, devices, failures, sent>>
      /\ \/ confirm' = None
         \/ confirm' = confirm /\ step # "summary"
  <2> USE StepValues DEF IInv, Flow!TypeOK, Flow!GoToStep
  <2>1. CASE Flow!GoBack
    BY <2>1, Neighbours DEF Flow!GoBack, Flow!CanGoBack
  <2>2. CASE Flow!GoNext
    BY <2>2, Neighbours DEF Flow!GoNext, Flow!CanGoNext
  <2>3. CASE Flow!Retry
    BY <2>3 DEF Flow!Retry
  <2>4. CASE \E ok \in BOOLEAN : Flow!RoutersLoaded(ok)
    BY <2>4 DEF Flow!RoutersLoaded
  <2>5. CASE \E r \in Router : Flow!SelectRouter(r)
    BY <2>5 DEF Flow!SelectRouter
  <2>6. CASE \E c \in Config : Flow!SubmitConfig(c)
    BY <2>6 DEF Flow!SubmitConfig
  <2>7. CASE \E s \in {"router", "config"} : Flow!EditSection(s)
    BY <2>7 DEF Flow!EditSection
  <2> QED
    BY <2>1, <2>2, <2>3, <2>4, <2>5, <2>6, <2>7
<1>2. confirm' = None
    BY <1>1 DEF IInv, Pressed
<1>3. Flow!TypeOK'
    BY <1>1, <1>2, StepValues DEF IInv, Flow!TypeOK, Flow!Step, Flow!Steps
<1>4. Pressed' /\ OneCall' /\ Owed' /\ Flow!OrderedAsReviewed'
    BY <1>1, <1>2 DEF IInv, Pressed, OneCall, Owed, Flow!OrderedAsReviewed
<1> QED
    BY <1>3, <1>4 DEF IInv

LEMMA PlaceOrderStep ==
    ASSUME IInv, Flow!PlaceOrder
    PROVE  IInv'
<1> USE DEF Flow!PlaceOrder
<1>1. confirm' \in Flow!Reviewed
    BY DEF Flow!Summary, Flow!Reviewed, IInv, Flow!TypeOK
<1>2. Flow!TypeOK'
    BY <1>1 DEF IInv, Flow!TypeOK, Flow!Step, Flow!Steps
<1>3. Pressed'
    BY DEF Pressed, Flow!Summary
<1>4. OneCall' /\ Owed' /\ Flow!OrderedAsReviewed'
    BY DEF IInv, OneCall, Owed, Flow!OrderedAsReviewed
<1> QED
    BY <1>2, <1>3, <1>4 DEF IInv

LEMMA OrderSubmittedStep ==
    ASSUME IInv, Flow!OrderSubmitted
    PROVE  IInv'
<1> USE DEF Flow!OrderSubmitted
<1> DEFINE c == [what |-> Flow!Summary, seen |-> confirm, n |-> sent, made |-> FALSE]
<1>1. /\ step = "summary" /\ confirm = Flow!Summary /\ confirm \in Flow!Reviewed
      /\ calls = << >> /\ sent \in 0..MaxCalls /\ failures \in 0..MaxCalls
    BY DEF IInv, Pressed, OneCall, Flow!TypeOK
<1>2. c \in Call /\ c.what = c.seen /\ ~c.made
    BY <1>1 DEF Call
<1>3. calls' = <<c>>
    BY <1>1
<1> HIDE DEF c
<1>4. calls' \in Seq(Call) /\ Len(calls') = 1 /\ calls'[1] = c
    BY <1>2, <1>3, Singleton
<1>5. sent' \in 0..MaxCalls /\ sent' = sent + 1
    BY <1>1, CallsAssumption
<1>6. /\ step' = "submitting" /\ confirm' = None
      /\ UNCHANGED <<router, config, list, failedOnce, order, devices, failures>>
    BY DEF Flow!GoToStep
<1>7. Flow!TypeOK'
    BY <1>4, <1>5, <1>6, StepValues DEF IInv, Flow!TypeOK, Call, Flow!Step, Flow!Steps
<1>8. Pressed' /\ OneCall'
    BY <1>2, <1>4, <1>6 DEF Pressed, OneCall
<1>9. Owed'
    BY <1>1, <1>4, <1>5, <1>6 DEF IInv, Owed
<1>10. Flow!OrderedAsReviewed'
    BY <1>6 DEF IInv, Flow!OrderedAsReviewed
<1> QED
    BY <1>7, <1>8, <1>9, <1>10 DEF IInv

\* Past Place Order there is one call, and the step says so.
LEMMA TheCall ==
    ASSUME IInv, NEW i \in 1..MaxCalls, i \in DOMAIN calls
    PROVE  /\ i = 1 /\ step = "submitting" /\ confirm = None
           /\ Len(calls) = 1 /\ DOMAIN calls = {1}
           /\ calls \in Seq(Call) /\ calls[1] \in Call
           /\ calls[1].what = calls[1].seen
<1>1. calls \in Seq(Call) /\ DOMAIN calls = 1..Len(calls)
    BY DEF IInv, Flow!TypeOK, Call
<1>2. calls # << >>
    BY <1>1
<1>3. step = "submitting" /\ Len(calls) = 1 /\ calls[1].what = calls[1].seen
    BY <1>2 DEF IInv, OneCall
<1>4. confirm = None
    BY <1>3 DEF IInv, Pressed
<1> QED
    BY <1>1, <1>3, <1>4

LEMMA DeviceMadeStep ==
    ASSUME IInv, NEW i \in 1..MaxCalls, Flow!DeviceMade(i)
    PROVE  IInv'
<1> USE DEF Flow!DeviceMade
<1>1. /\ i = 1 /\ step = "submitting" /\ confirm = None
      /\ Len(calls) = 1 /\ DOMAIN calls = {1}
      /\ calls \in Seq(Call) /\ calls[1] \in Call
      /\ calls[1].what = calls[1].seen
    BY TheCall
<1> DEFINE d == Flow!Registered(calls[1])
<1>2. d \in Flow!DeviceType /\ d.what = d.seen
    BY <1>1 DEF Flow!Registered, Call, Flow!DeviceType
<1>3. devices' = devices \cup {d}
    BY <1>1
<1>4. calls' = [calls EXCEPT ![1] = [calls[1] EXCEPT !.made = TRUE]]
    BY <1>1
<1> DEFINE c == [calls[1] EXCEPT !.made = TRUE]
<1>5. c \in Call /\ c.what = c.seen /\ c.made
    BY <1>1 DEF Call
<1>6. calls' \in Seq(Call) /\ Len(calls') = 1 /\ calls'[1] = c
    BY <1>1, <1>4, <1>5
<1> HIDE DEF d, c
<1>7. Flow!TypeOK'
    BY <1>2, <1>3, <1>6 DEF IInv, Flow!TypeOK, Call, Flow!Step, Flow!Steps
<1>8. Pressed' /\ OneCall'
    BY <1>1, <1>5, <1>6 DEF Pressed, OneCall
<1>9. Owed'
  <2>1. IsFiniteSet(devices) /\ Cardinality(devices) <= failures
    BY <1>1 DEF IInv, Owed
  <2>2. /\ IsFiniteSet(devices')
        /\ \/ Cardinality(devices') = Cardinality(devices)
           \/ Cardinality(devices') = Cardinality(devices) + 1
    BY <1>3, <2>1, FS_AddElement
  <2>3. Cardinality(devices) \in Nat /\ failures \in Nat
    BY <2>1, FS_CardinalityType DEF IInv, Flow!TypeOK
  <2>4. Cardinality(devices') <= failures' + 1
    BY <2>1, <2>2, <2>3
  <2>5. failures' + Len(calls') <= sent'
    BY <1>1, <1>6 DEF IInv, Owed
  <2> QED
    BY <1>1, <1>5, <1>6, <2>2, <2>4, <2>5 DEF Owed
<1>10. Flow!OrderedAsReviewed'
    BY <1>2, <1>3 DEF IInv, Flow!OrderedAsReviewed
<1> QED
    BY <1>7, <1>8, <1>9, <1>10 DEF IInv

\* The answer of the one call leaves none.
LEMMA CallRemoved ==
    ASSUME calls \in Seq(Call), Len(calls) = 1, calls' = RemoveAt(calls, 1)
    PROVE  calls' = << >> /\ calls' \in Seq(Call) /\ Len(calls') = 0
<1>1. SubSeq(calls, 1, 1 - 1) = << >>
    BY SubSeqEmpty
<1>2. SubSeq(calls, 1 + 1, Len(calls)) = << >>
    BY SubSeqEmpty
<1>3. RemoveAt(calls, 1) = << >> \o << >>
    BY <1>1, <1>2 DEF RemoveAt
<1>4. << >> \o << >> = << >> /\ << >> \in Seq(Call) /\ Len(<< >>) = 0
    BY EmptySeq, ConcatEmptySeq
<1> QED
    BY <1>3, <1>4

LEMMA OrderAnsweredStep ==
    ASSUME IInv, NEW i \in 1..MaxCalls, Flow!OrderAnswered(i)
    PROVE  IInv'
<1> USE DEF Flow!OrderAnswered
<1>1. /\ i = 1 /\ step = "submitting" /\ confirm = None
      /\ Len(calls) = 1 /\ DOMAIN calls = {1}
      /\ calls \in Seq(Call) /\ calls[1] \in Call
    BY TheCall
<1>2. order' \in Flow!DeviceType
    BY <1>1 DEF Flow!Registered, Call, Flow!DeviceType
<1>3. calls' = << >> /\ calls' \in Seq(Call) /\ Len(calls') = 0
    BY <1>1, CallRemoved, SameOperators
<1>4. /\ step' = "complete"
      /\ UNCHANGED <<router, config, list, failedOnce, confirm, devices, failures, sent>>
    BY DEF Flow!GoToStep
<1>5. Flow!TypeOK'
    BY <1>2, <1>3, <1>4, StepValues DEF IInv, Flow!TypeOK, Call, Flow!Step, Flow!Steps
<1>6. Pressed' /\ OneCall' /\ Flow!OrderedAsReviewed'
    BY <1>1, <1>3, <1>4 DEF IInv, Pressed, OneCall, Flow!OrderedAsReviewed
<1>7. Owed'
    BY <1>1, <1>3, <1>4 DEF IInv, Owed, Flow!TypeOK
<1> QED
    BY <1>5, <1>6, <1>7 DEF IInv

LEMMA OrderFailedStep ==
    ASSUME IInv, NEW i \in 1..MaxCalls, Flow!OrderFailed(i)
    PROVE  IInv'
<1> USE DEF Flow!OrderFailed
<1>1. /\ i = 1 /\ step = "submitting" /\ confirm = None
      /\ Len(calls) = 1 /\ DOMAIN calls = {1}
      /\ calls \in Seq(Call) /\ calls[1] \in Call
    BY TheCall
<1>2. calls' = << >> /\ calls' \in Seq(Call) /\ Len(calls') = 0
    BY <1>1, CallRemoved, SameOperators
<1>3. /\ step' = "summary" /\ failures' = failures + 1
      /\ UNCHANGED <<router, config, list, failedOnce, confirm, order, devices, sent>>
    BY DEF Flow!GoToStep
<1>4. /\ failures \in 0..MaxCalls /\ sent \in 0..MaxCalls /\ failures + 1 <= sent
      /\ IsFiniteSet(devices) /\ Cardinality(devices) <= failures + 1
    BY <1>1 DEF IInv, Owed, Flow!TypeOK
<1>5. Flow!TypeOK'
    BY <1>2, <1>3, <1>4, StepValues, CallsAssumption
    DEF IInv, Flow!TypeOK, Call, Flow!Step, Flow!Steps
<1>6. Pressed' /\ OneCall' /\ Flow!OrderedAsReviewed'
    BY <1>1, <1>2, <1>3 DEF IInv, Pressed, OneCall, Flow!OrderedAsReviewed
<1>7. Owed'
  <2>1. Cardinality(devices) \in Nat
    BY <1>4, FS_CardinalityType
  <2> QED
    BY <1>2, <1>3, <1>4, <2>1 DEF Owed
<1> QED
    BY <1>5, <1>6, <1>7 DEF IInv

LEMMA ReloadStep ==
    ASSUME Flow!Reload
    PROVE  IInv'
<1> USE DEF Flow!Reload
<1>1. << >> \in Seq(Call) /\ Len(<< >>) = 0 /\ 0 \in 0..MaxCalls
    BY CallsAssumption
<1>2. step' \in Flow!Step
    BY StepValues
<1>3. Flow!TypeOK'
    BY <1>1, <1>2 DEF Flow!TypeOK, Flow!Step, Flow!Steps, Call
<1>4. Pressed' /\ OneCall' /\ Flow!OrderedAsReviewed'
    BY DEF Pressed, OneCall, Flow!OrderedAsReviewed
<1>5. Owed'
    BY <1>1, FS_EmptySet DEF Owed
<1> QED
    BY <1>3, <1>4, <1>5 DEF IInv

-----------------------------------------------------------------------------
(* The theorems *)

LEMMA NextIInv ==
    ASSUME IInv, [TabNext]_tabVars
    PROVE  IInv'
<1>1. CASE UNCHANGED flowVars
    BY <1>1 DEF flowVars, IInv, Flow!TypeOK, Flow!Step, Flow!Steps, Pressed, Flow!Summary,
                OneCall, Owed, Flow!OrderedAsReviewed
<1>2. CASE Flow!Next
  <2>1. CASE \/ Flow!GoBack \/ Flow!GoNext \/ Flow!Retry
             \/ \E ok \in BOOLEAN : Flow!RoutersLoaded(ok)
             \/ \E r \in Router : Flow!SelectRouter(r)
             \/ \E c \in Config : Flow!SubmitConfig(c)
             \/ \E s \in {"router", "config"} : Flow!EditSection(s)
    BY <2>1, WizardStep
  <2>2. CASE Flow!PlaceOrder \/ Flow!OrderSubmitted \/ Flow!Reload
    BY <2>2, PlaceOrderStep, OrderSubmittedStep, ReloadStep
  <2>3. CASE \E i \in 1..MaxCalls :
                 Flow!DeviceMade(i) \/ Flow!OrderAnswered(i) \/ Flow!OrderFailed(i)
    BY <2>3, DeviceMadeStep, OrderAnsweredStep, OrderFailedStep
  <2> QED
    BY <1>2, <2>1, <2>2, <2>3 DEF Flow!Next
<1> QED
    BY <1>1, <1>2 DEF TabNext, OnPage, tabVars

\* The invariant holds in every reachable state of a tab, of either kind.
THEOREM FlowInvariance == TabSpec => []IInv
<1>1. TabInit => IInv
    BY InitIInv DEF TabInit
<1>2. IInv /\ [TabNext]_tabVars => IInv'
    BY NextIInv
<1> QED
    BY <1>1, <1>2, PTL DEF TabSpec

\* What the wizard, its calls and the devices registered hold is of its type,
\* for any routers and configurations.
THEOREM FlowTypes == TabSpec => []Flow!TypeOK
<1>1. IInv => Flow!TypeOK
    BY DEF IInv
<1> QED
    BY <1>1, FlowInvariance, PTL

\* Whatever is selected, edited and gone back to: what is registered is what the
\* summary showed when Place Order was pressed.
THEOREM RegisteredAsReviewed == TabSpec => []OrderedAsReviewed
<1>1. IInv => OrderedAsReviewed
    BY DEF IInv, OrderedAsReviewed
<1> QED
    BY <1>1, FlowInvariance, PTL

\* However often Place Order is pressed: the devices are at most one more than
\* the registrations that were answered with a failure.
THEOREM DevicesAreOwed == TabSpec => []OneDevicePerOrder
<1>1. IInv => OneDevicePerOrder
    BY SameOperators DEF IInv, Owed, OneDevicePerOrder, Flow!OneDevicePerOrder
<1> QED
    BY <1>1, FlowInvariance, PTL

=============================================================================
