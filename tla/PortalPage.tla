----------------------------- MODULE PortalPage -----------------------------
(***************************************************************************)
(* A page of the portal (packages/portal-astro): a Vue component over one  *)
(* composable, polled by usePolling, whose form and buttons save and then  *)
(* fetch again.  Page records say what tells the pages apart; the actions  *)
(* below are the shared behaviour of the composables and of the handlers.  *)
(*                                                                         *)
(* The browser runs one callback at a time and nothing orders or cancels   *)
(* requests: an answer takes effect when it comes, whatever was asked      *)
(* since.  A page is left by a full page load, which forgets everything    *)
(* but the device selected in localStorage.                                *)
(*                                                                         *)
(* The client behind the composables is the interface of lib/api/client.ts *)
(* (the generated one that is to replace it declares no endpoint yet).     *)
(*                                                                         *)
(* Abstracted: what a list or configuration holds to the version of it the *)
(* server had for a device (for the logs: for a query); a form to whether  *)
(* it is open and edited; validation failures change nothing here.         *)
(***************************************************************************)
EXTENDS Naturals, Sequences, SequencesExt

CONSTANTS
    Device,       \* devices of the user; for useLogs: queries
    Save,         \* slots for saves under way at the same time
    Pages,        \* the pages of the run
    NoDevice, Nothing, Later,
    MaxVersion,   \* bound: changes the server accepts per device
    MaxFlights    \* bound: fetches in flight, the refetches of saves aside

ASSUME NoDeviceAssumption == NoDevice \notin Device
ASSUME BoundsAssumption == MaxVersion \in Nat /\ MaxFlights \in Nat \ {0, 1}

VARIABLES
    page,      \* the page of this behaviour
    loaded,    \* the page is loaded and its component mounted
    hidden,    \* document.hidden
    sel,       \* the device id (or query) the composable reads
    listed,    \* RoutingApp: useDevices has its answer
    timer,     \* intervals running
    polling,   \* isPolling
    flights,   \* fetches in flight, in the order they were sent
    save,      \* saves under way
    busy,      \* saving / generating
    form,      \* the page's form
    shown,     \* data: what was last written to it
    loading, error,
    server,    \* the version the server has, per device
    asked,     \* ghost: a fetch was sent since the page was loaded
    overlap,   \* ghost: two fetches were in flight since none was
    noticed    \* ghost: a visibilitychange came since the page was loaded

view == <<flights, save, busy, form, shown, loading, error, asked, overlap>>
clock == <<timer, polling, noticed>>
vars == <<page, loaded, hidden, sel, listed, clock, view, server>>

-----------------------------------------------------------------------------
(* The composables: what the fetch is keyed by, the saves they offer, and  *)
(* those whose answer is written into the data.                            *)

UseDevices == [keyed |-> "no", ops |-> {}, writes |-> {}]
UseDashboards == [keyed |-> "no", ops |-> {"create", "update", "remove"},
                  writes |-> {}]
UseNAT == [keyed |-> "device", ops |-> {"create", "update", "remove"},
           writes |-> {}]
UseRoutes == [keyed |-> "device", ops |-> {"create", "update", "remove"},
              writes |-> {}]
UseQoS == [keyed |-> "device", ops |-> {"create", "update", "remove"},
           writes |-> {}]
UseReports == [keyed |-> "device", ops |-> {"create", "remove"},
               writes |-> {}]
UseDDNS == [keyed |-> "device",
            ops |-> {"create", "update", "remove", "force"}, writes |-> {}]
UseVPNClient ==
    [keyed |-> "device", writes |-> {},
     ops |-> {"create", "update", "remove", "connect", "disconnect"}]
UseVPNServer == [keyed |-> "device", writes |-> {"config"},
                 ops |-> {"config", "createPeer", "deletePeer"}]
UseIPS == [keyed |-> "device", ops |-> {"config"}, writes |-> {"config"}]
UseLogs == [keyed |-> "query", ops |-> {}, writes |-> {}]

\* fetchData of the pages without a backend: constants after 500 ms.
UseMock == [keyed |-> "no", ops |-> {"config"}, writes |-> {}]

(* The pages.  form: the saves of the form; quick: those of the buttons of *)
(* a row; opens: where the form is ("modal": over the page whatever it     *)
(* shows, "card": in the page's content, "always": it is the content,      *)
(* "never": Modal is given `show`, and its prop is `open`); guard: Save is *)
(* disabled while busy; closes: the form closes before or after the        *)
(* refetch; then: a created row belongs to the device of the opening.      *)
View == [uses |-> UseDevices, form |-> {}, quick |-> {}, opens |-> "never",
         guard |-> FALSE, closes |-> "before", then |-> FALSE,
         local |-> FALSE, mock |-> FALSE]

DashboardApp == View
DashboardViewerApp == [View EXCEPT !.uses = UseDashboards]
LogsApp == [View EXCEPT !.uses = UseLogs]
QoSApp == [View EXCEPT !.uses = UseQoS]
VPNServerApp == [View EXCEPT !.uses = UseVPNServer]
VPNClientApp == [View EXCEPT !.uses = UseVPNClient,
                             !.quick = {"connect", "disconnect"}]
DDNSApp == [View EXCEPT !.uses = UseDDNS, !.quick = {"force"}]
ReportsApp == [View EXCEPT !.uses = UseReports, !.quick = {"remove"},
                           !.form = {"create"}, !.guard = TRUE]
NATRulesApp == [View EXCEPT !.uses = UseNAT, !.quick = {"remove", "update"},
                            !.form = {"create", "update"},
                            !.opens = "modal", !.then = TRUE]
IPSApp == [View EXCEPT !.uses = UseIPS, !.form = {"config"},
                       !.opens = "card"]
RoutingApp == [View EXCEPT !.uses = UseRoutes, !.quick = {"remove"},
                           !.form = {"create", "update"}, !.guard = TRUE,
                           !.closes = "after", !.local = TRUE]
Mock == [View EXCEPT !.uses = UseMock, !.form = {"config"}, !.mock = TRUE,
                     !.opens = "always", !.guard = TRUE, !.closes = "after"]
WANApp == Mock
LANApp == Mock
DHCPApp == Mock
WiFiApp == Mock

Op == {"create", "update", "remove", "force", "connect", "disconnect",
       "config", "createPeer", "deletePeer"}
PageType ==
    [uses : [keyed : {"no", "device", "query"}, ops : SUBSET Op,
             writes : SUBSET Op],
     form : SUBSET Op, quick : SUBSET Op,
     opens : {"modal", "card", "always", "never"}, guard : BOOLEAN,
     closes : {"before", "after"}, then : BOOLEAN, local : BOOLEAN,
     mock : BOOLEAN]

ASSUME PagesAssumption == Pages \subseteq PageType
ASSUME OffersAssumption ==
    \A p \in Pages : p.form \cup p.quick \subseteq p.uses.ops

-----------------------------------------------------------------------------
Keyed == page.uses.keyed # "no"
CanAsk == page.uses.keyed # "device" \/ sel # NoDevice
\* Mutant: the answer may come from a cache.
AskCached == [key |-> IF Keyed THEN sel ELSE NoDevice, from |-> 0]

\* Mutant: the device is read once.
AskFirst ==
    LET k == IF shown # Nothing THEN shown.key
             ELSE IF Keyed THEN sel ELSE NoDevice IN
    [key |-> k, from |-> server[k]]

Ask == [key |-> IF Keyed THEN sel ELSE NoDevice,
        from |-> server[IF Keyed THEN sel ELSE NoDevice]]
Room(n) == ~CanAsk \/ Len(flights) + n <= MaxFlights

\* The template: spinner, then error, then the content.
Content == loaded /\ ~loading /\ ~error /\ (page.local => sel # NoDevice)

Closed == [open |-> FALSE, dirty |-> FALSE, to |-> NoDevice]
Start == IF page.opens = "always" THEN [Closed EXCEPT !.open = TRUE]
                                  ELSE Closed
Idle == [pc |-> "idle", form |-> FALSE, writes |-> FALSE, to |-> NoDevice,
         ver |-> 0, key |-> NoDevice, from |-> 0]
Refetching == {s \in Save : save[s].pc = "refetch"}

\* The form a user can reach.
FormThere ==
    CASE page.opens = "modal" -> form.open
      [] page.opens = "card" -> form.open /\ Content /\ shown # Nothing
      [] page.opens = "always" -> Content
      [] OTHER -> FALSE

Init ==
    /\ page \in Pages
    /\ loaded = FALSE /\ hidden \in BOOLEAN
    /\ sel \in CASE page.local \/ ~Keyed -> {NoDevice}
                 [] page.uses.keyed = "query" -> Device
                 [] OTHER -> Device \cup {NoDevice}
    /\ listed = FALSE
    /\ timer = 0 /\ polling = FALSE /\ noticed = FALSE
    /\ flights = << >> /\ save = [s \in Save |-> Idle] /\ busy = FALSE
    /\ form = Closed /\ shown = Nothing
    /\ loading = TRUE /\ error = FALSE
    /\ server = [d \in Device \cup {NoDevice} |-> 0]
    /\ asked = FALSE /\ overlap = FALSE

\* refetch, n times in a row: nothing at all without a device.
Send(n) ==
    /\ Room(n)
    /\ IF CanAsk
       THEN /\ flights' = flights \o [i \in 1..n |-> Ask]
            /\ loading' = TRUE /\ error' = FALSE /\ asked' = TRUE
            /\ overlap' = (\/ overlap \/ flights # << >> \/ n > 1
                           \/ Refetching # {})
       ELSE UNCHANGED <<flights, loading, error, asked, overlap>>
    /\ UNCHANGED <<save, busy, shown>>

\* onMounted: the composable fetches, then usePolling resumes, which fetches
\* again (immediate: false only leaves out a third).  RoutingApp selects its
\* first device before useDevices can have answered.
Load ==
    /\ ~loaded
    /\ loaded' = TRUE
    /\ sel' \in IF page.local /\ listed THEN Device ELSE {sel}
    /\ timer' = timer + 1 /\ polling' = TRUE
    /\ Send(2)
    /\ form' = Start
    /\ UNCHANGED <<page, hidden, listed, noticed, server>>

\* useDevices of RoutingApp is answered.
DevicesListed ==
    /\ loaded /\ page.local /\ ~listed
    /\ listed' = TRUE
    /\ UNCHANGED <<page, loaded, hidden, sel, clock, view, server>>

\* The interval fires.
PollTick ==
    /\ timer > 0 /\ CanAsk
    /\ Send(1)
    /\ UNCHANGED <<page, loaded, hidden, sel, listed, clock, form, server>>

\* visibilitychange, hidden: stop.
Hide ==
    /\ loaded /\ ~hidden
    /\ hidden' = TRUE /\ noticed' = TRUE
    /\ timer' = IF timer > 0 THEN timer - 1 ELSE timer
    /\ polling' = IF timer > 0 THEN FALSE ELSE polling
    /\ UNCHANGED <<page, loaded, sel, listed, view, server>>

\* Mutant: resume does not look at isPolling.
UnhideAgain ==
    /\ loaded /\ hidden
    /\ hidden' = FALSE /\ noticed' = TRUE
    /\ timer' = timer + 1 /\ polling' = TRUE /\ Send(1)
    /\ UNCHANGED <<page, loaded, sel, listed, form, server>>

\* visibilitychange, visible: resume.
Unhide ==
    /\ loaded /\ hidden
    /\ hidden' = FALSE /\ noticed' = TRUE
    /\ IF polling
       THEN UNCHANGED <<timer, polling, view>>
       ELSE timer' = timer + 1 /\ polling' = TRUE /\ Send(1)
            /\ UNCHANGED form
    /\ UNCHANGED <<page, loaded, sel, listed, server>>

\* A Retry, Refresh or Reset button.
Refresh ==
    /\ loaded /\ ~loading
    /\ Send(1)
    /\ UNCHANGED <<page, loaded, hidden, sel, listed, clock, form, server>>

\* Mutant: no finally.
AnswerNoFinally(k, ok, v) ==
    /\ loading' = (loading /\ ~ok)
    /\ error' = IF ok THEN error ELSE TRUE
    /\ shown' = IF ok THEN [key |-> k, ver |-> v] ELSE shown

\* Any answer ends loading.  On the pages without a backend it is written to
\* the fields of the form.
Answer(k, ok, v) ==
    /\ loading' = FALSE
    /\ error' = IF ok THEN error ELSE TRUE
    /\ shown' = IF ok THEN [key |-> k, ver |-> v] ELSE shown

\* Mutant: every page edits the rows it lists.
LandsRebinds(i, ok) ==
    /\ i \in DOMAIN flights
    /\ \E v \in flights[i].from .. server[flights[i].key] :
           Answer(flights[i].key, ok, v)
    /\ ok \/ ~page.mock
    /\ flights' = RemoveAt(flights, i)
    /\ overlap' = (overlap /\ (Len(flights) > 1 \/ Refetching # {}))
    /\ form' = [form EXCEPT !.dirty = FALSE]
    /\ UNCHANGED <<page, loaded, hidden, sel, listed, clock, save, busy,
                   asked, server>>

Lands(i, ok) ==
    /\ i \in DOMAIN flights
    /\ \E v \in flights[i].from .. server[flights[i].key] :
           Answer(flights[i].key, ok, v)
    /\ ok \/ ~page.mock
    /\ flights' = RemoveAt(flights, i)
    /\ overlap' = (overlap /\ (Len(flights) > 1 \/ Refetching # {}))
    /\ form' = IF page.mock THEN [form EXCEPT !.dirty = FALSE] ELSE form
    /\ UNCHANGED <<page, loaded, hidden, sel, listed, clock, save, busy,
                   asked, server>>

\* DeviceSelector (its choice or its default); LogsApp's filters, whose
\* watcher fetches at once.  The selector of RoutingApp is in its content.
Select(d) ==
    /\ loaded /\ Keyed /\ d # sel
    /\ page.local => Content
    /\ sel' = d
    /\ IF page.uses.keyed = "query" \/ page.local
       THEN /\ Len(flights) < MaxFlights
            /\ flights' = Append(flights, [key |-> d, from |-> server[d]])
            /\ loading' = TRUE /\ error' = FALSE /\ asked' = TRUE
            /\ overlap' = (overlap \/ flights # << >> \/ Refetching # {})
            /\ UNCHANGED <<save, busy, form, shown>>
       ELSE UNCHANGED view
    /\ UNCHANGED <<page, loaded, hidden, listed, clock, server>>

\* Somebody else, or the device, changes what the server has.
ServerChanges(d) ==
    /\ ~page.mock
    /\ server[d] < MaxVersion
    /\ d = NoDevice <=> ~Keyed
    /\ server' = [server EXCEPT ![d] = @ + 1]
    /\ UNCHANGED <<page, loaded, hidden, sel, listed, clock, view>>

\* Another page is opened, or this one reloaded.  A save that was sent may
\* still be applied (ServerChanges).
Leave ==
    /\ loaded
    /\ loaded' = FALSE
    /\ sel' = IF page.local THEN NoDevice ELSE sel
    /\ listed' = FALSE
    /\ timer' = 0 /\ polling' = FALSE /\ noticed' = FALSE
    /\ flights' = << >> /\ save' = [s \in Save |-> Idle] /\ busy' = FALSE
    /\ form' = Closed /\ shown' = Nothing
    /\ loading' = TRUE /\ error' = FALSE /\ asked' = FALSE /\ overlap' = FALSE
    /\ UNCHANGED <<page, hidden, server>>

-----------------------------------------------------------------------------
(* Forms and saves. *)

KeepAllBut == UNCHANGED <<page, loaded, hidden, sel, listed, clock>>

\* Add, or Edit of a row; the device of a created row is read now or later.
OpenForm ==
    /\ page.opens \in {"modal", "card"} /\ ~form.open /\ Content
    /\ \E op \in page.form :
        /\ op # "create" => shown # Nothing
        /\ form' = [open |-> TRUE, dirty |-> FALSE,
                    to |-> CASE op = "update" -> shown.key
                             [] op = "create" /\ page.then -> sel
                             [] OTHER -> Later]
    /\ KeepAllBut
    /\ UNCHANGED <<flights, save, busy, shown, loading, error, asked,
                   overlap, server>>

Edit ==
    /\ FormThere
    /\ form' = [form EXCEPT !.dirty = TRUE]
    /\ KeepAllBut
    /\ UNCHANGED <<flights, save, busy, shown, loading, error, asked,
                   overlap, server>>

Cancel ==
    /\ FormThere /\ page.opens # "always"
    /\ form' = Closed
    /\ KeepAllBut
    /\ UNCHANGED <<flights, save, busy, shown, loading, error, asked,
                   overlap, server>>

Begin(s, isForm, writes, to) ==
    /\ save[s].pc = "idle"
    /\ save' = [save EXCEPT ![s] = [Idle EXCEPT !.pc = "sent",
                   !.form = isForm, !.writes = writes, !.to = to]]
    /\ error' = FALSE
    /\ KeepAllBut
    /\ UNCHANGED <<flights, form, shown, loading, asked, overlap, server>>

\* Save: a configuration is of the device selected now.
Submit(s) ==
    /\ FormThere
    /\ page.guard => ~busy
    /\ page.form = {"config"} => CanAsk
    /\ Begin(s, TRUE, page.form \cap page.uses.writes # {},
             IF form.to = Later THEN sel ELSE form.to)
    /\ busy' = page.guard

\* Toggle, delete, connect, force: the row belongs to the list shown.
Press(s) ==
    /\ Content /\ shown # Nothing /\ page.quick # {}
    /\ Begin(s, FALSE, FALSE, shown.key)
    /\ UNCHANGED busy

\* The server applies it.  It knows no rule without a device.
Applied(s) ==
    /\ save[s].pc = "sent"
    /\ IF page.mock THEN UNCHANGED server
       ELSE /\ save[s].to \in Device
            /\ server[save[s].to] < MaxVersion
            /\ server' = [server EXCEPT ![save[s].to] = @ + 1]
    /\ save' = [save EXCEPT ![s].pc = "applied",
                            ![s].ver = server'[save[s].to]]
    /\ KeepAllBut
    /\ UNCHANGED <<flights, busy, form, shown, loading, error, asked, overlap>>

\* The form closes, whichever it is by now.
CloseForm == form' = IF page.opens = "always" THEN form ELSE Closed

\* The answer: the handler goes on to refetch and, without a device, to its
\* end.
Answered(s) ==
    /\ save[s].pc = "applied"
    /\ save' = [save EXCEPT ![s] = IF CanAsk
           THEN [@ EXCEPT !.pc = "refetch", !.key = Ask.key,
                          !.from = Ask.from] ELSE Idle]
    /\ shown' = IF save[s].writes
                THEN [key |-> save[s].to, ver |-> save[s].ver] ELSE shown
    /\ IF save[s].form /\ (page.closes = "before" \/ ~CanAsk)
       THEN CloseForm ELSE UNCHANGED form
    /\ busy' = (busy /\ ~(save[s].form /\ ~CanAsk))
    /\ IF CanAsk
       THEN /\ loading' = TRUE /\ error' = FALSE /\ asked' = TRUE
            /\ overlap' = (overlap \/ flights # << >> \/ Refetching # {})
       ELSE UNCHANGED <<loading, error, asked, overlap>>
    /\ KeepAllBut
    /\ UNCHANGED <<flights, server>>

\* No answer, or a refusal: what the server did stays, the form stays open.
SaveFails(s) ==
    /\ save[s].pc \in {"sent", "applied"} /\ ~page.mock
    /\ save' = [save EXCEPT ![s] = Idle]
    /\ error' = TRUE
    /\ busy' = (busy /\ ~save[s].form)
    /\ KeepAllBut
    /\ UNCHANGED <<flights, form, shown, loading, asked, overlap, server>>

\* The refetch of a save: its failure is swallowed by the composable.
Refetched(s, ok) ==
    /\ save[s].pc = "refetch"
    /\ ok \/ ~page.mock
    /\ \E v \in save[s].from .. server[save[s].key] :
           Answer(save[s].key, ok, v)
    /\ save' = [save EXCEPT ![s] = Idle]
    /\ overlap' = (overlap /\ (flights # << >> \/ Refetching # {s}))
    /\ busy' = (busy /\ ~save[s].form)
    /\ form' = CASE page.mock -> [form EXCEPT !.dirty = FALSE]
                 [] save[s].form /\ page.closes = "after" -> Closed
                 [] OTHER -> form
    /\ KeepAllBut
    /\ UNCHANGED <<flights, asked, server>>

-----------------------------------------------------------------------------
Next ==
    \/ Load \/ DevicesListed \/ PollTick \/ Hide \/ Unhide \/ Refresh
    \/ \E i \in 1..MaxFlights, ok \in BOOLEAN : Lands(i, ok)
    \/ \E d \in Device : Select(d)
    \/ \E d \in Device \cup {NoDevice} : ServerChanges(d)
    \/ Leave
    \/ OpenForm \/ Edit \/ Cancel
    \/ \E s \in Save :
        \/ Submit(s) \/ Press(s) \/ Applied(s) \/ Answered(s) \/ SaveFails(s)
        \/ \E ok \in BOOLEAN : Refetched(s, ok)

-----------------------------------------------------------------------------
(* Properties. *)

Version == 0..MaxVersion
Key == Device \cup {NoDevice}
SaveType == [pc : {"idle", "sent", "applied", "refetch"}, form : BOOLEAN,
             writes : BOOLEAN, to : Key, ver : Version, key : Key,
             from : Version]

\* Types of the page's state.
TypeOK ==
    /\ page \in Pages
    /\ loaded \in BOOLEAN /\ hidden \in BOOLEAN /\ listed \in BOOLEAN
    /\ polling \in BOOLEAN /\ noticed \in BOOLEAN /\ busy \in BOOLEAN
    /\ loading \in BOOLEAN /\ error \in BOOLEAN
    /\ asked \in BOOLEAN /\ overlap \in BOOLEAN
    /\ sel \in Key
    /\ timer \in Nat
    /\ flights \in Seq([key : Key, from : Version])
    /\ Len(flights) <= MaxFlights
    /\ save \in [Save -> SaveType]
    /\ form \in [open : BOOLEAN, dirty : BOOLEAN, to : Key \cup {Later}]
    /\ shown \in [key : Key, ver : Version] \cup {Nothing}
    /\ server \in [Key -> Version]

\* One interval at most runs, isPolling says whether one does, and from the
\* first visibilitychange on it runs exactly while the page is on screen,
\* however often it is hidden, shown, left and loaded.
PollsOnlyOnScreen ==
    /\ timer <= 1 /\ (polling <=> timer = 1)
    /\ noticed => (timer = 1 <=> ~hidden)
    /\ ~loaded => timer = 0

\* The spinner is shown while a fetch is in flight, unless fetches overlapped
\* (the first answer takes it away); it stays for good only when no fetch was
\* ever sent.
LoadingTold ==
    /\ (flights # << >> \/ Refetching # {}) /\ ~overlap => loading
    /\ loaded /\ loading /\ flights = << >> /\ Refetching = {} => ~asked

\* When the refetch after a save succeeds, the page shows the save, or the
\* list of another device.
SaveIsShown ==
    [][\A s \in Save : Refetched(s, TRUE) =>
          \/ page.mock
          \/ shown'.key # save[s].to
          \/ shown'.ver >= save[s].ver]_vars

\* A draft is lost to its user (who cancels or leaves), to the end of a save
\* (which closes the form that is open by then), and on the pages without a
\* backend to every answer; never to a poll on the other pages.
DraftKept ==
    [][form.dirty /\ ~form'.dirty =>
          \/ Cancel \/ Leave \/ page.mock
          \/ \E s \in Save : save[s].form /\ save[s] # save'[s]]_vars

\* The composables do not watch the device, yet the page comes to show the
\* one that stays selected, once the page stays on screen.
SelectionReached ==
    \A d \in Device :
        <>[](loaded /\ ~hidden /\ sel = d)
            => <>[](shown # Nothing /\ shown.key = d)
=============================================================================
