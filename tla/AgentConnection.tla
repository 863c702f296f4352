-------------------------- MODULE AgentConnection --------------------------
(***************************************************************************)
(* The Durable Object that owns the WebSocket of one router                *)
(* (packages/api/src/rpc/agent_connection.rs).                             *)
(*                                                                         *)
(* One handler is not one step.  While the object awaits its own storage   *)
(* the runtime's input gate delivers no other event, so code up to and     *)
(* past a storage await is one step; while it awaits KV, or the body of an *)
(* HTTP request, other events run.  A handler is therefore cut at those    *)
(* awaits and the rest of it is kept in "suspended" until it is resumed.   *)
(*                                                                         *)
(* Left out: last_status, last_seen and owner_id (written and loaded with  *)
(* the fields kept here, read by nothing but the /status reply), and the   *)
(* payloads of messages.                                                   *)
(***************************************************************************)
EXTENDS Naturals, FiniteSets

CONSTANTS Sockets,       \* the server ends of the WebSocket pairs
          Cmds,          \* ids of the RPC messages /command creates
          ConfigCmds,    \* those of type CONFIG_PUSH or CONFIG_FULL
          Faults,        \* what the environment may do beyond a plain session
          MaxSuspended,  \* bound: handlers suspended at an await at once
          CallerId,      \* a command_id some caller of /command chose
          NoSocket, NoCmd, NoState

FaultKinds == {"hibernate",     \* idle object dropped from memory, sockets kept
               "restart",       \* object lost, its sockets with it
               "overlap",       \* a socket is opened before the last one is done with
               "disconnect",    \* POST /disconnect
               "early_close",   \* a socket closes under a suspended AUTH
               "poll"}          \* /command or /status arrives under a suspended
                                \* AUTH or close

ASSUME ConfigAssumption == ConfigCmds \subseteq Cmds
ASSUME FaultsAssumption == Faults \subseteq FaultKinds
ASSUME BoundAssumption == MaxSuspended \in Nat
ASSUME CallerIdAssumption == CallerId \notin Cmds
ASSUME NoSocketAssumption == NoSocket \notin Sockets

AgentState == [device_id : BOOLEAN,        \* Option<String>: is it Some
               authenticated : BOOLEAN,
               pending : SUBSET Cmds]      \* keys of pending_commands

ASSUME NoStateAssumption == NoState \notin AgentState

AwaitPoints == {"auth_ok_key", "auth_bad_key",  \* the api key lookup
                "online", "offline",            \* device_status put
                "status",                       \* status put
                "store",                        \* exec result, alert, metrics put
                "body"}                         \* req.json()

VARIABLES
    socket,      \* [Sockets -> "unused", "open", "closing", "closed"]
    websocket,   \* self.websocket
    memory,      \* self.agent_state
    storage,     \* "agent_state" in the object's storage, or NoState
    status_kv,   \* device_status:<id> in KV
    suspended,   \* the handlers waiting at an await
    auth_sent,   \* sockets on which the agent has sent its AUTH
    told,        \* the answer to AUTH a socket has carried
    cmd,         \* what became of each command
    unloaded,    \* history: this instance has not yet read its storage
    verified     \* history: an AUTH with this device's id and key has arrived

vars == <<socket, websocket, memory, storage, status_kv, suspended,
          auth_sent, told, cmd, unloaded, verified>>

-----------------------------------------------------------------------------
DefaultState == [device_id |-> FALSE, authenticated |-> FALSE, pending |-> {}]

Waiting(point, s, c) == [at |-> point, sock |-> s, cmd |-> c]

Suspended == [at : AwaitPoints, sock : Sockets \cup {NoSocket},
              cmd : Cmds \cup {NoCmd}]

TypeOK ==
    /\ socket \in [Sockets -> {"unused", "open", "closing", "closed"}]
    /\ websocket \in Sockets \cup {NoSocket}
    /\ memory \in AgentState
    /\ storage \in AgentState \cup {NoState}
    /\ status_kv \in {"absent", "online", "offline"}
    /\ suspended \subseteq Suspended
    /\ auth_sent \subseteq Sockets
    /\ told \in [Sockets -> {"nothing", "AUTH_OK", "AUTH_FAIL"}]
    /\ cmd \in [Cmds -> {"new", "refused", "waiting", "failed", "early",
                         "sent", "answered"}]
    /\ unloaded \in BOOLEAN
    /\ verified \in BOOLEAN

Init ==
    /\ socket = [s \in Sockets |-> "unused"]
    /\ websocket = NoSocket
    /\ memory = DefaultState
    /\ storage = NoState
    /\ status_kv = "absent"
    /\ suspended = {}
    /\ auth_sent = {}
    /\ told = [s \in Sockets |-> "nothing"]
    /\ cmd = [c \in Cmds |-> "new"]
    /\ unloaded = TRUE
    /\ verified = FALSE

-----------------------------------------------------------------------------
(* The helpers of the object. *)

\* load_state: what memory is after it.
Loaded == IF storage = NoState THEN memory ELSE storage

\* save_state.
Save == storage' = memory'

\* send_message returns Ok: with no socket it does nothing, and
\* send_with_str fails on a socket that is closing or closed.
SendOk == websocket = NoSocket \/ socket[websocket] = "open"

\* An AUTH reply leaves on the current socket.  The first one a socket
\* carries ends the agent's wait there, later ones mean nothing to it.
Reply(answer) ==
    told' = IF websocket # NoSocket /\ SendOk /\ told[websocket] = "nothing"
            THEN [told EXCEPT ![websocket] = answer]
            ELSE told

AuthSuspended ==
    \E h \in suspended : h.at \in {"auth_ok_key", "auth_bad_key", "online"}

CloseSuspended == \E h \in suspended : h.at = "offline"

Suspend(h) ==
    /\ Cardinality(suspended) < MaxSuspended
    /\ h \notin suspended
    /\ suspended' = suspended \cup {h}

Resume(h) == suspended' = suspended \ {h}

-----------------------------------------------------------------------------
(* Requests to the object. *)

\* Mutant: a new socket starts from a blank state instead of the stored one.
HandleWebsocketBlank(s) ==
    /\ socket[s] = "unused"
    /\ \/ "overlap" \in Faults
       \/ suspended = {} /\ \A t \in Sockets : socket[t] \in {"unused", "closed"}
    /\ memory' = [DefaultState EXCEPT !.device_id = TRUE]
    /\ Save
    /\ socket' = [socket EXCEPT ![s] = "open"]
    /\ websocket' = s
    /\ unloaded' = FALSE
    /\ UNCHANGED <<status_kv, suspended, auth_sent, told, cmd, verified>>

\* GET /websocket, sent by agent.rs once the api key is known.  The flag
\* "authenticated" is whatever storage holds.
HandleWebsocket(s) ==
    /\ socket[s] = "unused"
    /\ \/ "overlap" \in Faults
       \/ suspended = {} /\ \A t \in Sockets : socket[t] \in {"unused", "closed"}
    /\ memory' = [Loaded EXCEPT !.device_id = TRUE]
    /\ Save
    /\ socket' = [socket EXCEPT ![s] = "open"]
    /\ websocket' = s
    /\ unloaded' = FALSE
    /\ UNCHANGED <<status_kv, suspended, auth_sent, told, cmd, verified>>

\* POST /command up to req.json().
HandleCommand(c) ==
    /\ cmd[c] = "new"
    /\ "poll" \in Faults \/ ~(AuthSuspended \/ CloseSuspended)
    /\ memory' = Loaded
    /\ unloaded' = FALSE
    /\ IF memory'.authenticated /\ websocket # NoSocket
       THEN /\ Suspend(Waiting("body", NoSocket, c))
            /\ cmd' = [cmd EXCEPT ![c] = "waiting"]
       ELSE /\ cmd' = [cmd EXCEPT ![c] = "refused"]
            /\ UNCHANGED suspended
    /\ UNCHANGED <<socket, websocket, storage, status_kv, auth_sent, told, verified>>

\* POST /command after the body is read.  The pending entry stays in memory
\* when the socket is gone or the send fails; it is saved only with a send.
SendCommand(h) ==
    /\ h.at = "body"
    /\ Resume(h)
    /\ memory' = [memory EXCEPT !.pending = @ \cup {h.cmd}]
    /\ IF websocket # NoSocket /\ SendOk
       THEN /\ Save
            /\ cmd' = [cmd EXCEPT ![h.cmd] =
                          IF told[websocket] = "AUTH_OK" THEN "sent" ELSE "early"]
       ELSE /\ cmd' = [cmd EXCEPT ![h.cmd] = "failed"]
            /\ UNCHANGED storage
    /\ UNCHANGED <<socket, websocket, status_kv, auth_sent, told, unloaded, verified>>

\* Mutant: load_state without the test that there is a stored state.
StatusLoadsBlindly ==
    /\ "poll" \in Faults \/ ~(AuthSuspended \/ CloseSuspended)
    /\ memory' = storage
    /\ unloaded' = FALSE
    /\ UNCHANGED <<socket, websocket, storage, status_kv, suspended, auth_sent,
                   told, cmd, verified>>

\* GET /status.
HandleStatusRequest ==
    /\ "poll" \in Faults \/ ~(AuthSuspended \/ CloseSuspended)
    /\ memory' = Loaded
    /\ unloaded' = FALSE
    /\ UNCHANGED <<socket, websocket, storage, status_kv, suspended, auth_sent,
                   told, cmd, verified>>

\* POST /disconnect.  Nothing is loaded first and device_status is not written.
HandleDisconnect ==
    /\ "disconnect" \in Faults
    /\ socket' = IF websocket # NoSocket /\ socket[websocket] = "open"
                 THEN [socket EXCEPT ![websocket] = "closing"]
                 ELSE socket
    /\ memory' = [memory EXCEPT !.authenticated = FALSE]
    /\ websocket' = NoSocket
    /\ Save
    /\ UNCHANGED <<status_kv, suspended, auth_sent, told, cmd, unloaded, verified>>

-----------------------------------------------------------------------------
(* Messages of the agent.  websocket_message loads nothing and ignores the *)
(* socket it is given: replies go to self.websocket.                       *)

\* Mutant: the key lookup's result is not compared with the device.
HandleAuthAnyKey(s, device, key) ==
    /\ socket[s] = "open"
    /\ s \notin auth_sent
    /\ auth_sent' = auth_sent \cup {s}
    /\ Suspend(Waiting(IF device /\ memory.device_id THEN "auth_ok_key"
                       ELSE "auth_bad_key", s, NoCmd))
    /\ verified' = (verified \/ (device /\ memory.device_id /\ key))
    /\ UNCHANGED <<socket, websocket, memory, storage, status_kv, told, cmd, unloaded>>

\* AUTH up to the key lookup.  "device" and "key" say whether the request
\* names this device and whether KV maps its key to it.
HandleAuth(s, device, key) ==
    /\ socket[s] = "open"
    /\ s \notin auth_sent
    /\ auth_sent' = auth_sent \cup {s}
    /\ LET valid == device /\ memory.device_id /\ key IN
         /\ Suspend(Waiting(IF valid THEN "auth_ok_key" ELSE "auth_bad_key", s, NoCmd))
         /\ verified' = (verified \/ valid)
    /\ UNCHANGED <<socket, websocket, memory, storage, status_kv, told, cmd, unloaded>>

\* AUTH after the lookup, credentials valid: up to the device_status put.
AuthAccepted(h) ==
    /\ h.at = "auth_ok_key"
    /\ memory' = [memory EXCEPT !.authenticated = TRUE]
    /\ Reply("AUTH_OK")
    /\ suspended' = (suspended \ {h}) \cup
                       (IF SendOk /\ memory.device_id
                        THEN {Waiting("online", h.sock, NoCmd)} ELSE {})
    /\ IF SendOk /\ ~memory.device_id THEN Save ELSE UNCHANGED storage
    /\ UNCHANGED <<socket, websocket, status_kv, auth_sent, cmd, unloaded, verified>>

\* Mutant: a refused agent gets no reply.
AuthRejectedSilently(h) ==
    /\ h.at = "auth_bad_key"
    /\ Resume(h)
    /\ UNCHANGED <<memory, told>>
    /\ Save
    /\ UNCHANGED <<socket, websocket, status_kv, auth_sent, cmd, unloaded, verified>>

\* AUTH after the lookup, credentials invalid: reply and save.
AuthRejected(h) ==
    /\ h.at = "auth_bad_key"
    /\ Resume(h)
    /\ Reply("AUTH_FAIL")
    /\ UNCHANGED memory
    /\ IF SendOk THEN Save ELSE UNCHANGED storage
    /\ UNCHANGED <<socket, websocket, status_kv, auth_sent, cmd, unloaded, verified>>

\* Mutant: nothing is saved after AUTH.
AuthOnlineUnsaved(h) ==
    /\ h.at = "online"
    /\ Resume(h)
    /\ status_kv' = "online"
    /\ UNCHANGED <<socket, websocket, memory, storage, auth_sent, told, cmd,
                   unloaded, verified>>

\* AUTH after the put: process_message saves.
AuthOnline(h) ==
    /\ h.at = "online"
    /\ Resume(h)
    /\ status_kv' = "online"
    /\ UNCHANGED memory
    /\ Save
    /\ UNCHANGED <<socket, websocket, auth_sent, told, cmd, unloaded, verified>>

\* An agent sends anything but AUTH only after it has read AUTH_OK.
Talks(s) == socket[s] = "open" /\ told[s] = "AUTH_OK"

\* STATUS, up to its put, or whole when no device id is known.
HandleStatus(s) ==
    /\ Talks(s)
    /\ UNCHANGED memory
    /\ IF memory.device_id
       THEN Suspend(Waiting("status", s, NoCmd)) /\ UNCHANGED storage
       ELSE /\ IF SendOk THEN Save ELSE UNCHANGED storage
            /\ UNCHANGED suspended
    /\ UNCHANGED <<socket, websocket, status_kv, auth_sent, told, cmd, unloaded, verified>>

\* STATUS after its put: STATUS_OK, then save unless the send failed.
StatusStored(h) ==
    /\ h.at = "status"
    /\ Resume(h)
    /\ UNCHANGED memory
    /\ IF SendOk THEN Save ELSE UNCHANGED storage
    /\ UNCHANGED <<socket, websocket, status_kv, auth_sent, told, cmd, unloaded, verified>>

\* METRICS or ALERT, up to the put.
HandleTelemetry(s) ==
    /\ Talks(s)
    /\ UNCHANGED memory
    /\ IF memory.device_id
       THEN Suspend(Waiting("store", s, NoCmd)) /\ UNCHANGED storage
       ELSE Save /\ UNCHANGED suspended
    /\ UNCHANGED <<socket, websocket, status_kv, auth_sent, told, cmd, unloaded, verified>>

\* METRICS, ALERT or EXEC_RESULT after the put.
TelemetryStored(h) ==
    /\ h.at = "store"
    /\ Resume(h)
    /\ UNCHANGED memory
    /\ Save
    /\ UNCHANGED <<socket, websocket, status_kv, auth_sent, told, cmd, unloaded, verified>>

\* LOG, PONG and every type the object does not know (PING, MODE_ACK, ERROR,
\* STATUS_OK): nothing but the final save.
HandleOther(s) ==
    /\ Talks(s)
    /\ UNCHANGED memory
    /\ Save
    /\ UNCHANGED <<socket, websocket, status_kv, suspended, auth_sent, told, cmd,
                   unloaded, verified>>

\* Mutant: the entry is removed from memory and the save is forgotten.
HandleConfigResponseUnsaved(s, c) ==
    /\ Talks(s)
    /\ c \in ConfigCmds /\ cmd[c] = "sent"
    /\ cmd' = [cmd EXCEPT ![c] = "answered"]
    /\ memory' = [memory EXCEPT !.pending = @ \ {c}]
    /\ UNCHANGED <<socket, websocket, storage, status_kv, suspended, auth_sent, told,
                   unloaded, verified>>

\* CONFIG_ACK or CONFIG_FAIL: it echoes the id of the request, on the session
\* the agent has now.
HandleConfigResponse(s, c) ==
    /\ Talks(s)
    /\ c \in ConfigCmds /\ cmd[c] = "sent"
    /\ cmd' = [cmd EXCEPT ![c] = "answered"]
    /\ memory' = [memory EXCEPT !.pending = @ \ {c}]
    /\ Save
    /\ UNCHANGED <<socket, websocket, status_kv, suspended, auth_sent, told,
                   unloaded, verified>>

\* EXEC_RESULT, up to the put.  The entry removed is that of the command_id in
\* its payload, which the caller of /command chose before the message id, the
\* key of pending_commands, was drawn.
HandleExecResult(s, c) ==
    /\ Talks(s)
    /\ c \in Cmds \ ConfigCmds /\ cmd[c] = "sent"
    /\ cmd' = [cmd EXCEPT ![c] = "answered"]
    /\ memory' = [memory EXCEPT !.pending = @ \ {CallerId}]
    /\ IF memory.device_id
       THEN Suspend(Waiting("store", s, NoCmd)) /\ UNCHANGED storage
       ELSE Save /\ UNCHANGED suspended
    /\ UNCHANGED <<socket, websocket, status_kv, auth_sent, told, unloaded, verified>>

-----------------------------------------------------------------------------
(* The end of a socket, and of the object. *)

\* Mutant: a close leaves the session authenticated.
WebsocketCloseKeepsAuth(s) ==
    /\ socket[s] \in {"open", "closing"}
    /\ "early_close" \in Faults \/ ~AuthSuspended
    /\ socket' = [socket EXCEPT ![s] = "closed"]
    /\ UNCHANGED memory
    /\ IF memory.device_id
       THEN /\ Suspend(Waiting("offline", s, NoCmd))
            /\ UNCHANGED <<storage, websocket>>
       ELSE /\ Save
            /\ websocket' = NoSocket
            /\ UNCHANGED suspended
    /\ UNCHANGED <<status_kv, auth_sent, told, cmd, unloaded, verified>>

\* websocket_close up to the device_status put, or whole without a device id.
WebsocketClose(s) ==
    /\ socket[s] \in {"open", "closing"}
    /\ "early_close" \in Faults \/ ~AuthSuspended
    /\ socket' = [socket EXCEPT ![s] = "closed"]
    /\ memory' = [memory EXCEPT !.authenticated = FALSE]
    /\ IF memory.device_id
       THEN /\ Suspend(Waiting("offline", s, NoCmd))
            /\ UNCHANGED <<storage, websocket>>
       ELSE /\ Save
            /\ websocket' = NoSocket
            /\ UNCHANGED suspended
    /\ UNCHANGED <<status_kv, auth_sent, told, cmd, unloaded, verified>>

\* Mutant: a close does not report the device offline.
CloseFinishedQuietly(h) ==
    /\ h.at = "offline"
    /\ Resume(h)
    /\ UNCHANGED memory
    /\ Save
    /\ websocket' = NoSocket
    /\ UNCHANGED <<socket, status_kv, auth_sent, told, cmd, unloaded, verified>>

\* websocket_close after the put: it clears whatever socket is current.
CloseFinished(h) ==
    /\ h.at = "offline"
    /\ Resume(h)
    /\ status_kv' = "offline"
    /\ UNCHANGED memory
    /\ Save
    /\ websocket' = NoSocket
    /\ UNCHANGED <<socket, auth_sent, told, cmd, unloaded, verified>>

\* The runtime drops an idle object; its accepted sockets stay open, and the
\* next event meets a new instance.
Hibernate ==
    /\ "hibernate" \in Faults
    /\ suspended = {}
    /\ memory' = DefaultState
    /\ websocket' = NoSocket
    /\ unloaded' = TRUE
    /\ UNCHANGED <<socket, storage, status_kv, suspended, auth_sent, told, cmd, verified>>

\* The object is lost with its sockets and everything it was doing.
Restart ==
    /\ "restart" \in Faults
    /\ memory' = DefaultState
    /\ websocket' = NoSocket
    /\ unloaded' = TRUE
    /\ suspended' = {}
    /\ socket' = [s \in Sockets |-> IF socket[s] = "unused" THEN "unused" ELSE "closed"]
    /\ cmd' = [c \in Cmds |-> IF cmd[c] = "waiting" THEN "failed" ELSE cmd[c]]
    /\ UNCHANGED <<storage, status_kv, auth_sent, told, verified>>

-----------------------------------------------------------------------------
Requests ==
    \/ \E s \in Sockets : HandleWebsocket(s)
    \/ \E c \in Cmds : HandleCommand(c)
    \/ HandleStatusRequest
    \/ HandleDisconnect

Messages ==
    \E s \in Sockets :
        \/ \E device, key \in BOOLEAN : HandleAuth(s, device, key)
        \/ HandleStatus(s)
        \/ HandleTelemetry(s)
        \/ HandleOther(s)
        \/ \E c \in Cmds : HandleConfigResponse(s, c)
        \/ \E c \in Cmds : HandleExecResult(s, c)
        \/ WebsocketClose(s)

ResumeOne(h) ==
    \/ SendCommand(h)
    \/ AuthAccepted(h)
    \/ AuthRejected(h)
    \/ AuthOnline(h)
    \/ StatusStored(h)
    \/ TelemetryStored(h)
    \/ CloseFinished(h)

Resumes == \E h \in suspended : ResumeOne(h)

Next == Requests \/ Messages \/ Resumes \/ Hibernate \/ Restart

Spec == Init /\ [][Next]_vars

\* Every KV call and every body read returns, so a suspended handler goes on;
\* nothing that arrives from outside is promised.
Fairness ==
    \A p \in AwaitPoints :
        WF_vars(\E h \in suspended : h.at = p /\ ResumeOne(h))

FairSpec == Spec /\ Fairness

-----------------------------------------------------------------------------
(* Properties *)

\* Whatever is lost, raced or restarted, nothing passes for authenticated -- no
\* flag in memory or storage, no AUTH_OK, no command past the 503 checks --
\* before one AUTH has carried this device's id and a key KV maps to it.
NothingBeforeVerification ==
    ~verified =>
        /\ ~memory.authenticated
        /\ storage # NoState => ~storage.authenticated
        /\ \A s \in Sockets : told[s] # "AUTH_OK"
        /\ \A c \in Cmds : cmd[c] \in {"new", "refused"}

StoredPending == IF storage = NoState THEN {} ELSE storage.pending

\* A config command whose CONFIG_ACK or CONFIG_FAIL was processed never comes
\* back as pending: no late save, reload or failed send of another handler
\* resurrects the entry.
AnsweredStaysSettled ==
    \A c \in ConfigCmds :
        cmd[c] = "answered" => c \notin memory.pending /\ c \notin StoredPending

\* A command the API was told is "sent" is on record in storage until its
\* answer, as long as this instance has read its storage once; every loss of a
\* pending entry is the save of an instance that never loaded it.
PendingLostOnlyUnloaded ==
    [][\A c \in StoredPending \ StoredPending' : cmd'[c] = "answered" \/ unloaded]_vars

\* README.md:58-59 of packages/api: connections survive hibernation and the
\* device's authentication is kept in storage.  So while the socket of an
\* authenticated session stays open, a quiet object has it on record.
AuthSticks ==
    \A s \in Sockets :
        (suspended = {} /\ Talks(s)) => storage.authenticated

\* The 503 check is for the session: no command leaves on a socket that has
\* not been answered AUTH_OK (the agent drops whatever comes before it).
CommandAfterAuthOk == \A c \in Cmds : cmd[c] # "early"

\* The device_status other parts of the API read tells whether a session is
\* up, whenever the object is at rest.
OnlineAgrees ==
    suspended = {} => (status_kv = "online" <=> \E s \in Sockets : Talks(s))

\* An agent that has sent AUTH gets an answer, or its socket closes.
AuthIsAnswered ==
    \A s \in Sockets :
        s \in auth_sent ~> (told[s] # "nothing" \/ socket[s] = "closed")
=============================================================================
