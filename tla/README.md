# TLA+ models of ngfw.sh

ngfw.sh manages home routers from the cloud. A Rust agent on the router keeps a
WebSocket to a Cloudflare Worker, where one Durable Object per device owns the
connection; a REST API in Rust stores configurations and talks to devices
through that object; a second API in TypeScript (`packages/schema`) serves the
fleet, settings and reports; a Vue portal polls them. This directory models the
parts where order, loss, staleness and restarts matter, model-checks them with
TLC and proves the main invariants with TLAPS.

## The system

| Part | Source | State | Operations |
| --- | --- | --- | --- |
| Durable Object of a device | `packages/api/src/rpc/agent_connection.rs` | `agent_state` (device id, `authenticated`, pending commands) in memory and in its storage; the current socket; `device_status` in KV | `/websocket`, `/command`, `/status`, `/disconnect`; `websocket_message`, `websocket_close`, `websocket_error` |
| Agent connection loop | `packages/agent/src/connection.rs` | attempt counter, backoff, the socket, its ends of two channels | connect, AUTH with timeout, first STATUS, message loop, reconnect, shutdown |
| Agent dispatcher | `packages/agent/src/dispatcher.rs` | mode (watch channel), the message in hand, spawned reboot and restart timers | config, exec, reboot, upgrade, status, ping, mode update |
| Agent mode | `packages/agent/src/mode.rs`, `packages/protocol/src/agent.rs` | `/jffs/ngfw/mode.json` | load, persist, effective mode, permissions |
| Agent collector | `packages/agent/src/collector.rs` | previous counters | tick, read, send |
| Agent main | `packages/agent/src/main.rs` | channels of 256, shutdown watch | spawn, signal, join |
| Config store of the API | `packages/api/src/storage/mod.rs`, `middleware/auth.rs`, `handlers/agent.rs` | KV values per device and section, backup objects, the entry and key of the device | write, list operations, reorder, push, backup, restore, remove, admit the agent |
| Schema API: fleet | `packages/schema/src/endpoints/{fleet,ddns,reports}` | tables `devices`, `ddns_configs`, `reports`; KV entries of each device | register, delete, list, status, DDNS read/update/force, report generate/delete/list/read |
| Schema API: settings | `packages/schema/src/middleware/auth.ts`, `endpoints/{ips,qos,vpn-client}` | token cache, two KV documents per user, four tables | verify, read, update, rule and profile operations |
| Schema API: the rest | `packages/schema/src/endpoints/{wan,lan,dhcp,wifi,nat,routing,vpn-server,onboarding,dashboards,billing}` | none | answers computed from the body |
| Portal pages | `packages/portal-astro/src/{components,composables}` | data shown, spinner, form, timer, selected device | poll, hide/show, select, edit, save, refetch |
| Portal onboarding | `packages/portal-astro/src/components/onboarding` | wizard step, selection, configuration, order | choose, configure, review, order |
| Not modelled | rate limiter, rollback store, adapters, legacy portal, sandbox, site | | see below |

How they meet. The REST API stores a config section in KV and posts `/command`
to the Durable Object; the object sends an RPC message on its socket and keeps
the id as pending; the agent's connection task puts the message into the inbound
channel; the dispatcher handles it under the current mode and puts its response
into the outbound channel, which it shares with the collector; the connection
task writes it to the socket; the object drops the pending entry and saves.

What is hard here:

* **Handlers that interleave at awaits.** A Durable Object's handlers exclude
  each other while one awaits the object's *own* storage, but not while it awaits
  KV or a request body. AUTH, close, STATUS, metrics, alerts and `/command` all
  have such an await between changing memory and saving it.
* **An instance that comes and goes.** Hibernation drops memory and keeps the
  sockets; an eviction drops both. `load_state` runs in some handlers only.
* **Sockets that overlap.** The agent reconnects before the old socket's close
  has been handled.
* **Bounded channels in a cycle.** Connection and dispatcher send to each other.
* **A process that dies** between writing the mode file, broadcasting the mode,
  installing a binary, acknowledging, and restarting.
* **Read-modify-write over KV and SQL.** The APIs check in one call and write in
  later ones, put whole documents and lists back, and write the parts of a device
  one after another; any call may be the last.
* **Answers in any order.** The portal neither cancels nor orders its requests:
  polls, refreshes and the refetch after a save overlap, the selected device
  changes under them, and the end of a save closes whichever form is open.

`PROJECT.json` lists each hazard at its line, with the properties that cover it.

## Modules

| Module | Models | Extends |
| --- | --- | --- |
| `AgentConnection` | the Durable Object | |
| `AgentMode` | modes, effective mode, permissions, command lists | |
| `ModeGuard` | abstract: what the agent promises about the router | `AgentMode` |
| `Dispatcher` | the dispatcher task, mode persistence, process death and start; refines `ModeGuard` | `AgentMode` |
| `AgentTasks` | connection, dispatcher and collector tasks, both channels, signal and join | |
| `DeviceRegistry` | abstract: what the fleet database promises about devices and what is attached to them | |
| `SchemaStore` | /fleet, /ddns, /reports of the schema API; refines `DeviceRegistry` | |
| `SchemaMock` | the endpoints that keep nothing, as functions | |
| `SchemaSettings` | clerkAuth and its cache, /ips, /qos, /vpn/client, with the endpoints of `SchemaMock` | `SchemaMock` |
| `PortalPage` | a polled page: composable, timer, form, saves | |
| `Onboarding` | the onboarding wizard and its registration | |
| `Portal` | a tab: one page or the wizard; instantiates `Onboarding` | `PortalPage` |
| `ConfigStore` | configuration sections, pushes, backups, removal, entry of the agent (Rust API) | |
| `AgentConnectionProofs`, `DispatcherProofs`, `AgentTasksProofs`, `SchemaStoreProofs`, `SchemaSettingsProofs`, `ConfigStoreProofs` | theorems | the module named, `TLAPS` |
| `PortalPageProofs`, `OnboardingProofs` | theorems about a page, about the wizard | `Portal`, `TLAPS` |
| `MC*` | values for the constants | the above |

### AgentConnection

One action per event the runtime delivers, and one per resumption after a KV or
body await (`AwaitPoints`); what remains of a cut handler is a record in
`suspended`. Storage awaits do not cut a handler: the input gate holds other
events back. `memory` and `storage` are `self.agent_state` and its saved copy,
`websocket` is `self.websocket`, `status_kv` is the `device_status` key.
`told` is the AUTH answer a socket has carried, `cmd` the fate of a command, and
`unloaded` and `verified` are history variables. As in the code,
`websocket_message` does not call `load_state`, replies go to the *current*
socket rather than to the one the message came on, and `EXEC_RESULT` removes the
`command_id` of its payload, which is never the key under which the entry was
filed.

The constant `Faults` selects what the environment may do beyond one orderly
session after another: `hibernate`, `restart`, `overlap`, `disconnect`,
`early_close` (a socket closes under a suspended AUTH) and `poll` (`/command` or
`/status` arrives under a suspended AUTH or close).

Abstracted: payloads, `last_status`, `last_seen`, `owner_id`; KV reads and
writes and the parsing of bodies succeed, so no handler ends between its await and its
save (the `?` of lines 94, 163, 306 and 343 of `agent_connection.rs`);
`websocket_error`, which only logs, has no action; an agent sends AUTH once per socket and other messages only
after AUTH_OK, which is what `connection.rs` does; a config response goes out on
the session the agent has when the response is ready.

### Dispatcher, AgentMode, ModeGuard

The dispatcher takes a message, reads the mode once and runs the handler to its
response. A handler is cut where it awaits (`Steps`): the child process, the
upgrade before and after the rename, the write of the mode file. At each of
these the process may die (`Stop`, `RebootFires`, `RestartFires`) and start again
(`Boot`). `tokio::fs::write` truncates, then writes: between the two the file
does not parse. Since the file is never synced, `Stop` is a death of the
process, not a power cut, whose effect on the file the code does not determine.
Handing a config section to its adapter is an opaque effect: that hand-over is a
stub in the code. `settled`, `begun` and `asked` are history variables.

`ModeGuard` is the promise without messages, files and crashes: a request touches
the router at most once, only while the mode in force permits it, and a reboot
happens only after it was granted. The refinement mapping is the identity on
`mode` and `effect`.

### AgentTasks

The three tasks and the two bounded channels. A full channel suspends its
sender; a channel whose receiver has returned fails its sender. The connection
task awaits `inbound_tx.send` *inside* a branch of its `select!`
(`conn = "forwarding"`) and meanwhile serves nothing else. Returning drops a
task's receiver and what is queued in it. Pauses double up to `MaxBackoff`
after they are taken and restart at one second only after a clean close.

### SchemaStore, DeviceRegistry

A request is a record whose `pc` names the await it waits at; each action runs
from one await to the next, so two requests interleave at every SQL statement and
KV call. `Abort` ends a request at any of them, as an exception does
(`app.onError` answers 500): nothing is rolled back. A row of `devices` takes its
`ddns_configs` and `reports` with it (ON DELETE CASCADE of the migrations), an
INSERT without its device throws. KV is taken to be linearizable: what a stale
edge cache may answer is not modelled. `acked`, `doomed`, `removed`, `last` and
`exposed` are history variables: registrations answered 201, devices a delete has
found, deletions answered 200, the DDNS value written last, and the answers with data
of a device that is not, or no more, the caller's. A status is answered with the row
found before its two KV reads, and a list of reports with the page read before the total
is counted, whatever has become of the device in between: `Isolation` says that these
are the only two, and that no answer ever has data of another user.

`DeviceRegistry` has four atomic steps: register, remove with everything attached,
attach, detach; an id is never used twice. `row`, `used` and the items present map
to it.

### SchemaMock, SchemaSettings

`SchemaMock` gives each endpoint without a store as a function from a body (the
fields sent, those sent as null) to its answer. `x ?? fallback` replaces an
explicit null; `...body` gives back everything. `SchemaSettings` runs the cached
or fresh verification of a token, then one handler of /ips, /qos, /vpn/client or
of `SchemaMock`. The put into the cache is handed to `waitUntil`, so `filling` holds
the puts that may still land, late or never. `deployed` is chosen at the start: four of
the tables are created by no migration of the package, and without them every
statement throws. In a request, `behind` is a history field: the keys of the document
that other updates have changed since this one read it. A partial update,
`{...current, ...updates}`, is `Merged`, which takes field by field from one of the two.
That an endpoint without a store gives back every field it was sent, nulls and the
private key apart, is a fact about constants: `EchoesAreComplete`, an ASSUME of
`MCSchemaSettings` that TLC evaluates.

### PortalPage, Onboarding, Portal

Fifteen pages are records over the same actions: how they are polled, what the
fetch is keyed by (nothing, the selected device, a query), which saves they have,
whether the save's answer is written into the data, whether polls fill the form,
and `mock` for those without a backend. Components are mounted and unmounted by a
full page load (the site is static Astro), which forgets everything but the
selection in localStorage. The pages are modelled against the `ApiClient`
interface of `lib/api/client.ts`; the generated client that is to replace it
declares no endpoint (`makeApi([])`). A save is sent, applied by the server or
not, answered, and followed by a refetch; fetches land in any order. `overlap` and
`asked` are history variables.

`Onboarding` is the wizard with the second `OrderSummary` waits before it emits,
registrations that fail or whose answer is lost, and the list of routers.
`Portal` puts the two side by side as a tab, where a behaviour stays on one.

### ConfigStore

One device of the Rust API. A write is `check_device_access`, for list sections
the read of the list, the put, and the push to the Durable Object; `Cut` ends it
at any await. A create takes every failure of the read for an empty list
(`unwrap_or_default`), the other operations end. `NumberedSections` number entries
by length, `KeyedSections` take the id of the body, `ReplacedSections` are put
whole. An update finds its entry by the id of the path; routes and firewall rules are
then given that id, the entries of keyed sections whatever id the body carries, which
nothing compares with the path. `whole` is `config:<id>`, the key of backups and restores, which no section
writes. An agent is admitted after two lookups, of its key and of its device's
entry; a removal deletes the entry alone. Filters of lists are written with `Only`,
which the proofs can expand; `OnlyIsFilter` has TLC compare it with `SelectSeq` on
every sequence of up to four. `putBy`, `shrunk`, `apart` and
`removedAt` are history variables, and so is `changed`: for a request between its read
and its put, the entries that others have put in or taken out since.

## Runs

| Run | Asks | Result |
| --- | --- | --- |
| `agent_connection` | all six faults, two sockets, a CONFIG_PUSH and an EXEC: nothing authenticated before a verified AUTH; an answered config command never comes back as pending; a pending entry is lost only by an instance that never loaded | holds, 263,959 states |
| `agent_connection_orderly` | no fault, fair: authentication sticks, no command before AUTH_OK, `device_status` agrees with the session, AUTH is answered | holds, 5,461 states |
| `agent_connection_hibernate` | hibernation alone: `AuthSticks` | violated (finding) |
| `agent_connection_poll` | a poll during a close: `CommandAfterAuthOk` | violated (finding) |
| `dispatcher` | three requests of every type, crashes anywhere: the file follows the mode, a failure leaves the router untouched, a start restores the right mode, `ModeGuard` is implemented | holds, 284,539 states |
| `dispatcher_refused_update` | a refused mode update survives a restart | violated (finding) |
| `agent_tasks` | three requests: conservation, order, backoff, shutdown completes, accepted requests end, connection and dispatcher do not wait for each other while at most `InCap + 1` requests are unfinished | holds, 32,910 states |
| `agent_tasks_full` | one request more: shutdown completes | violated (finding) |
| `schema_store` | registrations and deletions are whole, attachments keep to the owner, no answer has data of another user, and of a device that is gone only a status or a list of reports, the DDNS row served is the last written unless two were inserted, `DeviceRegistry` is implemented | holds, 742,924 states |
| `schema_settings` | a token refused and forgotten stays so, an update changes what it was sent and nothing else but for keys that another update changed between its read and its write | holds, 592,232 states |
| `portal` | intervals run on screen only, the spinner tells the truth, a save is shown, a draft is kept, the selected device is reached; an order is what was reviewed, and a second device needs a failure | holds, 288,422 states |
| `config_store` | lists nothing was taken out of have ids 1..n, a write takes out and brings in what it was asked to and, where another has come in between, undoes only what that one changed, the object holds what is stored unless a push was lost, cut or overtaken, an agent of a removed device stays out | holds, 378,020 states |

The properties of the orderly run need their environment. Allowing one fault at
a time (two sockets, two commands) shows which fault each depends on; V means TLC
finds a violation. The faults under which one of the first three holds leave it
standing together, in any order and number: that is proved (below).

| Fault | `AuthSticks` | `CommandAfterAuthOk` | `OnlineAgrees` | `AuthIsAnswered` |
| --- | --- | --- | --- | --- |
| none | holds | holds | holds | holds |
| `hibernate` | V | holds | V | V |
| `restart` | holds | V | V | holds |
| `overlap` | V | V | V | V |
| `disconnect` | holds | holds | V | V |
| `early_close` | holds | V | V | holds |
| `poll` | V | V | holds | holds |

### Bounds

* Two sockets: a session and the one that replaces it, which is all that code
  with a single `self.websocket` can confuse. Two commands: one whose answer is
  matched by message id, one by `command_id`.
* `MaxSuspended = 2` under all faults: any two handlers race; with three the
  same properties hold (587,675 states). Three in the orderly run.
* Dispatcher: three requests are a mode update, a request under it and a third
  between them; two sections (one `validate_config` wants as an object); a
  command of each class; four configs with an override in each direction.
* Tasks: channels of two and one instead of 256. What matters is full or not:
  `InCap + 1` outstanding requests fit between the inbound channel and the hand
  of the dispatcher, and with `InCap + 2` every place in the cycle can be full.
  `NumRequests = 3` is the largest number for which the cycle cannot close, 4
  the smallest for which it can, so the pair of runs locates the threshold; that it
  is `InCap + 2` for all capacities is proved (`TheCircleNeedsRequests`).
  `MaxBackoff = 4` and `AttemptCap = 3` reach the cap of the pause.
* `schema_store`: two users, so that one may see what is the other's; two requests,
  since every hazard listed is of a pair; one device, because handlers of different
  devices touch different rows and entries, two reports and two DDNS rows.
* `schema_settings`: two users with a token each, two requests, one rule, one
  profile, two keys of a document. `OneAtATime` stops the search where two stores,
  or a store and the token cache, are in use: no handler touches two stores, so
  their product adds nothing.
* `portal`: `MaxFlights = 2` fetches beside the refetches of saves and one slot for
  saves give all orders of a pair; one change per device tells old from new; two
  registrations are the first and its repetition.
* `config_store`: one section of each kind, lists of up to four entries, ids 1 and
  2. `Bounded` lets a behaviour write one section, since sections share nothing,
  and keeps the fourth call for the numbered lists, where two creates, a delete and
  a create repeat an id. Requests stop at `MaxCalls`, so the run may end:
  deadlock is not checked there.
* Requests are symmetric in the three stores: a slot's name is in no constant
  and no property of those runs is a liveness property.

### Fairness

* `AgentConnection`: every KV call and body read returns, so a suspended handler
  continues (weak, per await point). Nothing is promised of what arrives from
  outside.
* `AgentTasks`: weak on every task, since tokio schedules a woken task; connects
  and handlers return (AUTH and commands have timeouts). Strong where the
  runtime is stronger: `select!` without `biased` picks among ready branches at
  random (`ConnShutdown`, `SendNext`), and an mpsc channel grants room to
  waiting senders in order (`DispReply`, `CollSend`). `NetworkFairness` says that
  a network lets the agent through again and again; no property about requests
  being served could hold without it.
* `Portal`: a page is loaded in the end, its interval fires and an answer lands or
  fails (weak); fetches succeed again and again if they land again and again
  (strong, without which no page could show anything). Users, visibility, saves
  and page loads have no fairness: `SelectionReached` is about a page that stays
  on screen with one selection.
* The safety runs use no fairness.

## Findings

1. *Hibernation blanks the session.* `websocket_message` does not load, and every
   message ends with a save: the first message after hibernation stores an
   unauthenticated state without device id or pending commands, while its socket
   stays open (`agent_connection_hibernate`).
2. *A poll during a close keeps the session authenticated.* `websocket_close`
   clears the flag, waits for KV and saves; a `/status` in between reloads the
   old flag and the close saves that. The next socket then takes commands before
   its AUTH, which the agent drops (`agent_connection_poll`).
3. *A refused mode update can lose the mode at the next start*: the file is
   truncated before it is written (`dispatcher_refused_update`).
4. *Full channels stop the agent for good*, shutdown included: connection and
   dispatcher each wait for the other (`agent_tasks_full`).

Seen while modelling, without a run of their own, since no text of the repository
promises otherwise or the model leaves the detail out:

* *Config store.* `create_backup` copies a key no section writes: a backup is `{}`
  (proved: `BackupsAreEmpty`) and restoring it pushes an empty configuration while every section stays as it
  is. `list_backups` answers ids that end in `.json`, to which download, restore and
  delete add another. Creates of NAT rules, blocklists, peers and traffic classes
  replace the list by one entry, after which reading it fails; their deletes do
  nothing. A PUT of VLAN 1 whose body has id 2 leaves two entries of id 2, and a
  later delete of 2 takes out both (WiFi networks and firewall zones likewise). Of two
  overlapping writes of a list the later undoes the other. The id of a route or
  firewall rule repeats after a delete. The device limit never applies: owner entries are bare uuids and are parsed as JSON. A
  removal leaves the key's mapping and the owner's entry. Every push lacks the
  version the agent requires.
* *Schema API.* Two first DDNS updates insert two rows; overlapping updates of the
  IPS document lose fields; a status asked for while the device is deleted may still be
  answered 200; an explicit null is replaced by the fallback.
* *Portal.* `RoutingApp.vue:65-71` looks for the first device before the list has
  come and never again; without one the page is its spinner, which hides the
  selector. `RoutingApp.vue:478` and `ReportsApp.vue:455` pass `:show` to a `Modal`
  whose property is `open`. `immediate: false` does not keep `usePolling` from
  fetching at once. The polls of the WAN, LAN, DHCP and WiFi pages write into the
  form being edited. `RouterSelector` never clears its error.

## Proofs

Eight modules prove type correctness of every component and 35 of the 39 properties
of the passing runs, for every value of the constants that their named assumptions
allow: all but the four liveness properties, three of which have a safety part that
is proved (see "Only model-checked"). Each component
has an inductive invariant, proved by one lemma per action; an action property
then follows from the invariant and a look at the steps that can touch it. The
invariants were checked with TLC, on instances like those of the runs, before they were
proved.

The named assumptions on constants say that values which stand for "none" are none
of the real ones, that capacities and bounds are numbers of the size the code
gives them (a channel holds at least one message, the first pause is at most the
longest, two fetches may overlap, requests are counted by a number), and that pages,
offered configs and owners of tokens have their types. TLC evaluates all of them. The
bounds that keep TLC finite (`MaxSuspended`, `MaxCalls`, `MaxVersion`, `MaxId`,
`AttemptCap`, `MaxFlights` from two on) are otherwise arbitrary in the theorems.

### AgentConnectionProofs

Any number of sockets, commands and suspended handlers. First, under any set of
faults, `IInv`: type correctness, the two safety invariants of the run and

* `VerifiedInv`: before a verified AUTH no handler is suspended past a check --
  otherwise `NothingBeforeVerification` is not preserved when it resumes;
* `BodyInv`: a command whose body is being read belongs to one handler and is
  "waiting" -- otherwise a resumed send could refile an answered command;
* `LoadedInv`: an instance that has loaded holds all stored pending entries --
  otherwise its save could drop one.

`AnsweredStaysSettled` is inductive only together with `BodyInv`: an answered
command cannot have a handler still holding it. From `IInv` follow the two
invariants and the action property `PendingLostOnlyUnloaded` (with `LoadedInv`,
only an unloaded instance can save less than is stored).

Then four theorems of the form `Faults \subseteq F => (Spec => []P)`. `F` is each
time the largest set that works: every fault left out breaks `P` by itself, as the table
under Runs shows for the first three.

| Theorem | `P` | `F` | What the invariant adds, and why |
| --- | --- | --- | --- |
| `SessionsAreOnRecord` | `AuthSticks` | `restart`, `disconnect`, `early_close` | `OnRecord`: the flag in memory is never behind the session, the one in storage only while AUTH has still to save; `Closing`: no socket is open while one closes, so the flag a close clears is nobody's |
| `CommandsFollowAuthOk` | `CommandAfterAuthOk` | `hibernate`, `disconnect` | `FlagTold`: neither copy of the flag is ahead of the answer on the current socket; `FlagDown`: both are down before the next socket opens; `BodyTold`: a handler that passed the check and waits for its body will send on an answered socket or on none |
| `StatusAgrees` | `OnlineAgrees` | `poll` | `OneHandler`: one AUTH or close at most is under way; `Reported`: `device_status` is the session's unless that handler has yet to put it |
| `AuthIsNotForgotten` | `AuthPending`, the safety part of `AuthIsAnswered` | `restart`, `disconnect`, `early_close`, `poll` | `OneOpen`, `Closing`, `SentUsed`: an open socket is the current one, so what its handler sends on `self.websocket` reaches it |

`AuthPending` says that an AUTH without an answer on an open socket is in the hands of
a handler that waits for the key lookup alone. It is no property of a run: TLC was
asked before the proof, and finds it violated under `hibernate` or `overlap` alone
(the first drops the handler, the second sends its answer to the other socket). Under
`disconnect` it holds and `AuthIsAnswered` does not: the socket is closing then, and
nothing promises that the object hears of its end.

### DispatcherProofs

Any sections, requests and offered configs. `IInv` adds

* `TaskInv`: the message in hand carries the mode in force, has its request marked
  "taken", has had no effect before the step that has one, and during a mode
  update ties the file to the config asked for -- needed because handlers act on
  the mode they read before awaiting;
* `FileInv`: what the file holds at each point of a write, in terms of `begun`,
  `asked` and `settled`;
* `RequestInv`: a request not yet taken has had no effect, and a reboot still to
  fire was granted.

From it follow `DiskFollowsMode`, `FailureMeansUntouched`, `BootKeepsMode` and that
every step of `Dispatcher` is a step of `ModeGuard` or a stutter.

### AgentTasksProofs

Any capacities, number of requests and longest pause. `Conserved` and
`AnsweredInOrder` are about ends; what is inductive is where everything is:

* `Control`: a task holds a message exactly while it works on one, and a channel whose
  reader has returned is empty;
* `Placed`: a request is inside exactly when it is held by the connection, in a
  channel or in the dispatcher's hand;
* `Ordered`: along the path from the socket to the dispatcher and back, what is
  further on came in earlier. From it follow both that no request is in two places
  (it would have come in before itself) and the order of answers, across reconnects;
* `Tracks`: the backoff in every state of the connection, not only in the pause that
  `BackoffTracksAttempts` is about; it rests on lemmas about minima and powers of two.

What remains of the stop of finding 4 when the capacities are not fixed is counting:
a request inside fills one place, and by `Ordered` no request fills two
(`InsideCounted`, with the library's facts on surjections and cardinalities).
When connection and dispatcher wait for each other the hands of both and the
inbound channel are full of requests, so `InCap + 2` are unfinished
(`TheCircleNeedsRequests`; metrics may fill all of the outbound channel, so its
capacity is of no help). `Backpressure` is the bound from above. `OnlyTheCircleStops`
says that this is the one way to stop: after the signal some task can move, or all
have returned, or those two wait for each other. `ConnMoves`, `DispMoves` and `CollMoves`
name the states from which a task can move, because ENABLED is out of the prover's
reach; TLC finds them equivalent to ENABLED on three instances.

### SchemaStoreProofs

Any users, devices, reports, requests and rows. `IInv` adds to types and the six
promises of the run

* `OwnerKept`: a device found by an ownership check is still the user's or gone,
  and so is one on a page of reports already read; without it no write after the check
  could be shown harmless, nor any answer to be of the caller's own data (`Isolation`);
* `Deleting`, `Registering`: what a deletion or a registration under way still has
  to do, and that nobody else is doing it -- `AckedComplete` and
  `DeletedLeavesNothing` are about their ends only;
* `Fresh`, `Gone`: nothing is known of an id before its INSERT, no row comes back.

From it follow the promises and that every step is a step of `DeviceRegistry` or a
stutter.

### SchemaSettingsProofs

Any users, tokens and requests. `Sessions`: whoever is past clerkAuth has a user.
`InStep`: between its read and its write, what an update has read agrees with the
document in every key it is not behind in. Without it the merged document could not be
shown to keep what it was not sent (`OnlyOvertakenLost`).
`RefusedForGood` follows from types and a lemma on what each handler does to a
request (`StepKinds`).

### ConfigStoreProofs

Any sections and requests. `Follow` says that in a section that is not apart one
write at most waits for its push, and that it will push what is stored; without it
a push could not be shown to end the difference. `Out` says that an agent about to
be admitted came before any removal was answered, which the second lookup has
established. These give `DeviceFollows` and `RemovedStaysOut`.

The properties of the lists rest on a second invariant, `Lists`: every call has its
own number (`Fresh`), so a put in between shows in `putBy`, and a request that sees
none there has read what is stored (`AsRead`); a numbered list that is read and not
shrunk has ids 1..n (`Numbered`). With it a put appends the id n+1 (`IdsDense`).
`AskedOnly` needs `InStep` as well: until its put, what a request has read and what is
stored differ in entries that others have changed. What a write makes of the list
it read is a lemma per operation (`WriteIsAsked`, `OthersStay`), and the two together
are what it makes of the list stored. What a filter leaves is reasoned about by rank:
the place of an item is the number of items kept up to it, which is a bijection with
1..n, proved by the library's facts on finite sets.

A further invariant, `Sizes`, bounds what the types need bounded. Creates that overlap
may each append, so the length of a list says nothing by itself; with every write
under way counted (`Pending`), length and count together are at most the calls there were
(`Sized`). Hence `TypeCorrect`: no id given by length exceeds the calls. Its part `Copies`
follows what is copied to backups and back, and proves what was seen while
modelling: every backup there ever is holds the empty configuration
(`BackupsAreEmpty`).

### PortalPageProofs and OnboardingProofs

Any pages of the fifteen kinds' type, devices, saves and numbers of fetches. `Forgotten`:
an unloaded page has nothing under way. `Overlapping`: two answers on their way are
known to overlap, so the answer that clears the spinner is the last one
(`LoadingTold`). `Drafts`: an edited form is an open one (`DraftKept`). `SavesKnown`: a
save applied is not ahead of the server, nor of what its refetch may bring, so the
refetch shows it (`SaveIsShown`). `PollsOnlyOnScreen` is inductive with `Forgotten`.

For the wizard: a press waits only on the summary it was made on (`Pressed`), one
registration at most is outstanding, of what was reviewed (`OneCall`), and every
device but one is owed to a failure, on the steps where that one can exist (`Owed`).

### Only model-checked

* `AuthIsAnswered`, `ShutdownCompletes`, `AcceptedIsEnded` and `SelectionReached`: liveness
  under fairness, which needs ENABLED. Of the first, `AuthIsNotForgotten` is the safety
  part: nothing but the handler's progress is missing. Of the second it is
  `OnlyTheCircleStops`, of the third `Conserved`.
* The four violations, naturally, and what the table under Runs says of single faults.

Type invariants of `AgentTasks`, `SchemaStore`, `SchemaSettings`, `PortalPage`,
`Onboarding` and `ConfigStore` are not listed in the runs, to keep those to what could be
wrong: they are proved.

## Not modelled

* Rate limiter (`packages/api/src/middleware/rate_limit.rs`) and rollback store
  (`packages/agent/src/rollback.rs`): nothing calls them.
* Of the Rust API: reads, endpoints with fixed answers, commands that are only sent,
  firmware, user profiles, templates, and D1 reports and logs (one statement each).
* Stale reads of KV, power cuts, and the contents of payloads.
* Of the portal: `useAuth` (the Clerk library), `useToast`, `useDeviceStatus` (used by
  no page), layout and validation.
* The legacy portal, the sandbox, the site, documentation and scripts: sample data,
  one reconnect timer, static pages.
* Adapters: readers of router state or `todo!()` stubs.
* A command that timed out keeps running: its later effects are outside.

## Plan

1. `Session`: agent and Durable Object composed through one socket and the
   channels, with the command types each side knows (no type leads to
   MODE_UPDATE; a config push without a version is always refused).
2. `Registry`: registration in the Rust API with its owner entries and the count.
