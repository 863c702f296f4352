----------------------------- MODULE Onboarding -----------------------------
(***************************************************************************)
(* The onboarding page of the portal: OnboardingFlow drives the wizard     *)
(* (OnboardingWizard) through RouterSelector, ConfigForm and OrderSummary  *)
(* and registers a device (useRegisterDevice).                             *)
(*                                                                         *)
(* Abstracted: a router and a valid configuration to a name each; the      *)
(* wizard's copies of both, always set together with the flow's, to those. *)
(* The registration (SchemaStore's DeviceRegister) either inserts the      *)
(* device or fails, and its answer may be lost in both cases.              *)
(***************************************************************************)
EXTENDS Naturals, Sequences, SequencesExt, FiniteSets

CONSTANTS
    Router,      \* routers in stock
    Config,      \* configurations the form accepts
    None,
    MaxCalls     \* bound: registrations sent

VARIABLES
    step,        \* currentStep of the wizard
    router,      \* selectedRouter
    config,
    list,        \* RouterSelector: "loading", "shown" or "failed"
    failedOnce,  \* RouterSelector: error, which nothing clears
    confirm,     \* OrderSummary: what was on it when Place Order was pressed
    calls,       \* registrations sent and not answered
    order,       \* orderResponse: the device it names
    devices,     \* devices registered
    failures,    \* ghost: registrations answered with a failure
    sent         \* ghost: registrations ever sent

fvars == <<step, router, config, list, failedOnce, confirm, calls, order,
           devices, failures, sent>>

Steps == <<"welcome", "router", "config", "summary", "complete">>
Step == {Steps[i] : i \in DOMAIN Steps} \cup {"submitting"}

Init ==
    /\ step = "welcome"
    /\ router = None /\ config = None
    /\ list = "loading" /\ failedOnce = FALSE
    /\ confirm = None
    /\ calls = << >>
    /\ order = None
    /\ devices = {}
    /\ failures = 0 /\ sent = 0

-----------------------------------------------------------------------------
(* The wizard.  Each step's component is mounted when the step is entered  *)
(* and unmounted when it is left: RouterSelector starts to load, and what  *)
(* an unmounted OrderSummary emits is dropped.                             *)

GoToStep(s) ==
    /\ step' = s
    /\ IF s = "router"
       THEN list' = "loading" /\ failedOnce' = FALSE
       ELSE UNCHANGED <<list, failedOnce>>

Index == CHOOSE i \in DOMAIN Steps : Steps[i] = step
CanGoBack == step \notin {"welcome", "submitting", "complete"}
CanGoNext ==
    \/ step = "welcome"
    \/ step = "router" /\ router # None
    \/ step = "config" /\ config # None

\* Mutant: the timer of the summary that was left still counts.
GoBackTimerRuns ==
    /\ CanGoBack
    /\ GoToStep(Steps[Index - 1])
    /\ UNCHANGED <<router, config, confirm, calls, order, devices, failures,
                   sent>>

GoBack ==
    /\ CanGoBack
    /\ GoToStep(Steps[Index - 1])
    /\ confirm' = None
    /\ UNCHANGED <<router, config, calls, order, devices, failures, sent>>

\* The Next button: not on the summary.
GoNext ==
    /\ CanGoNext
    /\ GoToStep(Steps[Index + 1])
    /\ UNCHANGED <<router, config, confirm, calls, order, devices, failures,
                   sent>>

-----------------------------------------------------------------------------
(* RouterSelector and ConfigForm *)

\* A list, or an error that stays in front of any list a Retry brings.
RoutersLoaded(ok) ==
    /\ step = "router" /\ list = "loading"
    /\ failedOnce' = (failedOnce \/ ~ok)
    /\ list' = IF failedOnce' THEN "failed" ELSE "shown"
    /\ UNCHANGED <<step, router, config, confirm, calls, order, devices,
                   failures, sent>>

Retry ==
    /\ step = "router" /\ list = "failed"
    /\ list' = "loading"
    /\ UNCHANGED <<step, router, config, failedOnce, confirm, calls, order,
                   devices, failures, sent>>

SelectRouter(r) ==
    /\ step = "router" /\ list = "shown"
    /\ router' = r
    /\ GoToStep("config")
    /\ UNCHANGED <<config, confirm, calls, order, devices, failures, sent>>

SubmitConfig(c) ==
    /\ step = "config"
    /\ config' = c
    /\ GoToStep("summary")
    /\ UNCHANGED <<router, confirm, calls, order, devices, failures, sent>>

-----------------------------------------------------------------------------
(* OrderSummary and the registration *)

Summary == [router |-> router, config |-> config]

\* Change, Edit or Go Back of the summary.  Only Go Back is disabled while a
\* press of Place Order waits; the others unmount the summary with its timer.
EditSection(s) ==
    /\ step = "summary"
    /\ s \in {"router", "config"}
    /\ GoToStep(s)
    /\ confirm' = None
    /\ UNCHANGED <<router, config, calls, order, devices, failures, sent>>

\* Place Order: the summary emits submit a second later.
PlaceOrder ==
    /\ step = "summary" /\ confirm = None
    /\ router # None /\ config # None
    /\ confirm' = Summary
    /\ UNCHANGED <<step, router, config, list, failedOnce, calls, order,
                   devices, failures, sent>>

\* Mutant: the summary stays while the registration is sent.
OrderSubmittedQuietly ==
    /\ confirm # None
    /\ sent < MaxCalls
    /\ calls' = Append(calls, [what |-> Summary, seen |-> confirm,
                               n |-> sent, made |-> FALSE])
    /\ sent' = sent + 1
    /\ confirm' = None
    /\ UNCHANGED <<step, router, config, list, failedOnce, order, devices,
                   failures>>

\* handleOrderSubmit: registers what the flow holds by then.
OrderSubmitted ==
    /\ confirm # None
    /\ sent < MaxCalls
    /\ GoToStep("submitting")
    /\ calls' = Append(calls, [what |-> Summary, seen |-> confirm,
                               n |-> sent, made |-> FALSE])
    /\ sent' = sent + 1
    /\ confirm' = None
    /\ UNCHANGED <<router, config, order, devices, failures>>

Registered(c) == [what |-> c.what, seen |-> c.seen, n |-> c.n]

\* The API inserts the device.
DeviceMade(i) ==
    /\ i \in DOMAIN calls /\ ~calls[i].made
    /\ devices' = devices \cup {Registered(calls[i])}
    /\ calls' = [calls EXCEPT ![i].made = TRUE]
    /\ UNCHANGED <<step, router, config, list, failedOnce, confirm, order,
                   failures, sent>>

\* The answer: an order named after the device (its api_key is not kept).
OrderAnswered(i) ==
    /\ i \in DOMAIN calls /\ calls[i].made
    /\ order' = Registered(calls[i])
    /\ GoToStep("complete")
    /\ calls' = RemoveAt(calls, i)
    /\ UNCHANGED <<router, config, confirm, devices, failures, sent>>

\* A failure, before or after the device was inserted: back to the summary.
OrderFailed(i) ==
    /\ i \in DOMAIN calls
    /\ GoToStep("summary")
    /\ calls' = RemoveAt(calls, i)
    /\ failures' = failures + 1
    /\ UNCHANGED <<router, config, confirm, order, devices, sent>>

\* The page is loaded anew: another order, nothing of this one is known.
Reload ==
    /\ step \notin {"welcome", "router"}
    /\ step' = "welcome"
    /\ router' = None /\ config' = None
    /\ list' = "loading" /\ failedOnce' = FALSE
    /\ confirm' = None /\ calls' = << >> /\ order' = None
    /\ devices' = {} /\ failures' = 0 /\ sent' = 0

Next ==
    \/ GoBack \/ GoNext \/ Retry \/ PlaceOrder \/ OrderSubmitted \/ Reload
    \/ \E ok \in BOOLEAN : RoutersLoaded(ok)
    \/ \E r \in Router : SelectRouter(r)
    \/ \E c \in Config : SubmitConfig(c)
    \/ \E s \in {"router", "config"} : EditSection(s)
    \/ \E i \in 1..MaxCalls :
        DeviceMade(i) \/ OrderAnswered(i) \/ OrderFailed(i)

-----------------------------------------------------------------------------
(* Properties. *)

Reviewed == [router : Router, config : Config]
DeviceType == [what : Reviewed, seen : Reviewed, n : 0..MaxCalls]

\* Types of the wizard's state.
TypeOK ==
    /\ step \in Step
    /\ router \in Router \cup {None} /\ config \in Config \cup {None}
    /\ list \in {"loading", "shown", "failed"} /\ failedOnce \in BOOLEAN
    /\ confirm \in Reviewed \cup {None}
    /\ calls \in Seq([what : Reviewed, seen : Reviewed, n : 0..MaxCalls,
                      made : BOOLEAN])
    /\ order \in DeviceType \cup {None}
    /\ devices \subseteq DeviceType
    /\ failures \in 0..MaxCalls /\ sent \in 0..MaxCalls

\* What is registered is what the summary showed when Place Order was
\* pressed, although the handler reads the selection a second later and the
\* wizard's Back button stays enabled in that second.
OrderedAsReviewed == \A d \in devices : d.what = d.seen

\* Every device beyond the first is owed to a registration that was answered
\* with a failure: pressing, going back and pressing again register one.
OneDevicePerOrder == Cardinality(devices) <= failures + 1
=============================================================================
