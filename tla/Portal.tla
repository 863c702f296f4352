------------------------------- MODULE Portal -------------------------------
(***************************************************************************)
(* A tab of the portal: one of its polled pages (PortalPage) or the        *)
(* onboarding page (Onboarding).  Going from one to the other is a full    *)
(* page load that shares nothing between them, so a behaviour stays on the *)
(* page it starts with.                                                    *)
(***************************************************************************)
EXTENDS PortalPage

CONSTANTS Router, Config, None, MaxCalls

ASSUME NoneAssumption == None \notin Router \cup Config
ASSUME CallsAssumption == MaxCalls \in Nat

VARIABLES
    tab,      \* "page" or "onboarding"
    step, router, config, list, failedOnce, confirm, calls, order, devices,
    failures, sent

Flow == INSTANCE Onboarding

flowVars == <<step, router, config, list, failedOnce, confirm, calls, order,
              devices, failures, sent>>
tabVars == <<tab, vars, flowVars>>

TabInit ==
    /\ tab \in {"page", "onboarding"}
    /\ Init /\ Flow!Init
    /\ tab = "onboarding" => page = DashboardApp /\ ~hidden

OnPage(A) == tab = "page" /\ A /\ UNCHANGED <<tab, flowVars>>

TabNext ==
    \/ OnPage(Next)
    \/ tab = "onboarding" /\ Flow!Next /\ UNCHANGED <<tab, vars>>

TabFairness ==
    /\ WF_tabVars(OnPage(Load))
    /\ WF_tabVars(OnPage(PollTick))
    /\ WF_tabVars(OnPage(\E ok \in BOOLEAN : Lands(1, ok)))
    /\ SF_tabVars(OnPage(Lands(1, TRUE)))

TabSpec == TabInit /\ [][TabNext]_tabVars /\ TabFairness

\* What is ordered is what was reviewed (Onboarding).
OrderedAsReviewed == Flow!OrderedAsReviewed

\* A second device needs a failed registration (Onboarding).
OneDevicePerOrder == Flow!OneDevicePerOrder

\* Types of both.
TabTypeOK == TypeOK /\ Flow!TypeOK
=============================================================================
