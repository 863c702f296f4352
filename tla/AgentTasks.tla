----------------------------- MODULE AgentTasks -----------------------------
(***************************************************************************)
(* The three tasks of the router agent and the channels between them: the  *)
(* connection loop, the dispatcher and the metrics collector, spawned and  *)
(* joined by run() in packages/agent/src/main.rs.                          *)
(*                                                                         *)
(*   server -> connection -> inbound channel -> dispatcher                 *)
(*   server <- connection <- outbound channel <- dispatcher, collector     *)
(*                                                                         *)
(* Both channels are bounded, a full one suspends its sender, and the      *)
(* connection reads neither the socket nor the outbound channel while it   *)
(* waits for room in the inbound one.  What a handler of the dispatcher    *)
(* does is Dispatcher's subject; here it only takes time and may answer.   *)
(***************************************************************************)
EXTENDS Naturals, Sequences, FiniteSets, SequencesExt

CONSTANTS NumRequests,  \* bound: messages the server sends
          InCap,        \* capacity of the inbound channel (256)
          OutCap,       \* capacity of the outbound channel (256)
          MaxBackoff,   \* MAX_BACKOFF in seconds (60)
          AttemptCap,   \* bound: attempts are counted up to this
          Metrics, NoRequest

ASSUME CapAssumption == InCap \in Nat \ {0} /\ OutCap \in Nat \ {0}
ASSUME BackoffAssumption ==
    /\ MaxBackoff \in Nat \ {0} /\ AttemptCap \in Nat \ {0}
    /\ MaxBackoff <= 2 ^ AttemptCap
ASSUME RequestsAssumption == NumRequests \in Nat

\* Requests are numbered in the order they arrive.
Requests == 1..NumRequests

ASSUME NotARequest == {Metrics, NoRequest} \cap Requests = {}

VARIABLES
    main,      \* "waiting" for a signal, "joining" the tasks, "stopped"
    shutdown,  \* the watch channel all tasks hold
    conn,      \* where the connection task is
    held,      \* the message it waits to put into the inbound channel
    inq,       \* the inbound channel
    disp,      \* where the dispatcher is
    hand,      \* the message it is working on
    coll,      \* where the collector is
    outq,      \* the outbound channel
    backoff,   \* seconds the next pause will take
    attempt,   \* attempts since the last clean close
    fate       \* what became of each request

connVars == <<conn, held, backoff, attempt>>
vars == <<main, shutdown, conn, held, inq, disp, hand, coll, outq, backoff,
          attempt, fate>>

TypeOK ==
    /\ main \in {"waiting", "joining", "stopped"}
    /\ shutdown \in BOOLEAN
    /\ conn \in {"connecting", "auth", "running", "forwarding", "sleeping", "done"}
    /\ held \in Requests \cup {NoRequest}
    /\ inq \in Seq(Requests) /\ Len(inq) <= InCap
    /\ disp \in {"idle", "handling", "replying", "done"}
    /\ hand \in Requests \cup {NoRequest}
    /\ coll \in {"waiting", "sending", "done"}
    /\ outq \in Seq(Requests \cup {Metrics}) /\ Len(outq) <= OutCap
    /\ backoff \in 1..MaxBackoff
    /\ attempt \in 0..AttemptCap
    /\ fate \in [Requests -> {"unsent", "inside", "answered", "ignored", "lost",
                              "dropped"}]

Init ==
    /\ main = "waiting"
    /\ shutdown = FALSE
    /\ conn = "connecting"
    /\ held = NoRequest
    /\ inq = <<>>
    /\ disp = "idle"
    /\ hand = NoRequest
    /\ coll = "waiting"
    /\ outq = <<>>
    /\ backoff = 1
    /\ attempt = 1
    /\ fate = [r \in Requests |-> "unsent"]

Ends(rs, how) == fate' = [r \in Requests |-> IF r \in rs THEN how ELSE fate[r]]

-----------------------------------------------------------------------------
(* main *)

\* SIGINT or SIGTERM.
Signal ==
    /\ main = "waiting"
    /\ main' = "joining"
    /\ shutdown' = TRUE
    /\ UNCHANGED <<connVars, inq, disp, hand, coll, outq, fate>>

\* tokio::join! on the three handles, then run() returns.
Join ==
    /\ main = "joining"
    /\ conn = "done" /\ disp = "done" /\ coll = "done"
    /\ main' = "stopped"
    /\ UNCHANGED <<shutdown, connVars, inq, disp, hand, coll, outq, fate>>

-----------------------------------------------------------------------------
(* connection_loop and connect_and_run *)

\* The task returns: its receiver takes the outbound channel with it.
ConnReturns ==
    /\ conn' = "done"
    /\ outq' = <<>>
    /\ UNCHANGED <<backoff, attempt>>

\* Mutant: a clean close keeps the attempt counter.
PauseOrReturnCounting(clean) ==
    IF shutdown
    THEN ConnReturns
    ELSE /\ conn' = "sleeping"
         /\ UNCHANGED <<outq, attempt>>
         /\ backoff' = IF clean THEN 1 ELSE backoff

\* connect_and_run has returned; the loop looks at shutdown, then pauses.
PauseOrReturn(clean) ==
    IF shutdown
    THEN ConnReturns
    ELSE /\ conn' = "sleeping"
         /\ UNCHANGED outq
         /\ backoff' = IF clean THEN 1 ELSE backoff
         /\ attempt' = IF clean THEN 0 ELSE attempt

DroppedOutbound == IF shutdown THEN ToSet(outq) \cap Requests ELSE {}

\* connect_async, or AUTH with its timeout and the first STATUS, succeeds.
Proceed ==
    /\ \/ conn = "connecting" /\ conn' = "auth"
       \/ conn = "auth" /\ conn' = "running"
    /\ UNCHANGED <<main, shutdown, held, inq, disp, hand, coll, outq, backoff, attempt, fate>>

\* Mutant: the loop gives up when it cannot connect.
ConnectFailsForGood ==
    /\ conn \in {"connecting", "auth"}
    /\ ConnReturns
    /\ Ends(ToSet(outq) \cap Requests, "dropped")
    /\ UNCHANGED <<main, shutdown, held, inq, disp, hand, coll>>

\* One of them fails, or AUTH is refused or times out.
ConnectFails ==
    /\ conn \in {"connecting", "auth"}
    /\ PauseOrReturn(FALSE)
    /\ Ends(DroppedOutbound, "dropped")
    /\ UNCHANGED <<main, shutdown, held, inq, disp, hand, coll>>

\* The pause is over: back to the top of the loop, which looks at shutdown.
WakeUp ==
    /\ conn = "sleeping"
    /\ IF shutdown
       THEN ConnReturns
       ELSE /\ conn' = "connecting"
            /\ backoff' = Min({2 * backoff, MaxBackoff})
            /\ attempt' = Min({attempt + 1, AttemptCap})
            /\ UNCHANGED outq
    /\ Ends(DroppedOutbound, "dropped")
    /\ UNCHANGED <<main, shutdown, held, inq, disp, hand, coll>>

\* A message of the server is read from the socket.
Receive(r) ==
    /\ conn = "running"
    /\ fate[r] = "unsent" /\ \A i \in 1..(r - 1) : fate[i] # "unsent"
    /\ conn' = "forwarding"
    /\ held' = r
    /\ Ends({r}, "inside")
    /\ UNCHANGED <<main, shutdown, inq, disp, hand, coll, outq, backoff, attempt>>

\* inbound_tx.send has room.
Forward ==
    /\ conn = "forwarding" /\ disp # "done"
    /\ Len(inq) < InCap
    /\ inq' = Append(inq, held)
    /\ held' = NoRequest
    /\ conn' = "running"
    /\ UNCHANGED <<main, shutdown, disp, hand, coll, outq, backoff, attempt, fate>>

\* inbound_tx.send fails: the dispatcher is gone.
ForwardFails ==
    /\ conn = "forwarding" /\ disp = "done"
    /\ held' = NoRequest
    /\ PauseOrReturn(TRUE)
    /\ Ends(DroppedOutbound \cup {held}, "dropped")
    /\ UNCHANGED <<main, shutdown, inq, disp, hand, coll>>

\* The outbound branch: the socket takes the message, or fails and it is lost.
SendNext ==
    /\ conn = "running" /\ outq # <<>>
    /\ outq' = Tail(outq)
    /\ UNCHANGED <<conn, backoff, attempt>>
    /\ Ends({Head(outq)}, "answered")
    /\ UNCHANGED <<main, shutdown, held, inq, disp, hand, coll>>

SendNextFails ==
    /\ conn = "running" /\ outq # <<>>
    /\ IF shutdown
       THEN /\ ConnReturns
            /\ Ends(ToSet(outq) \cap Requests, "dropped")
       ELSE /\ conn' = "sleeping"
            /\ outq' = Tail(outq)
            /\ Ends({Head(outq)}, "lost")
            /\ UNCHANGED <<backoff, attempt>>
    /\ UNCHANGED <<main, shutdown, held, inq, disp, hand, coll>>

\* The server closes the socket, or a read, a ping or a pong fails.
SessionEnds ==
    /\ conn = "running"
    /\ \E clean \in BOOLEAN : PauseOrReturn(clean)
    /\ Ends(DroppedOutbound, "dropped")
    /\ UNCHANGED <<main, shutdown, held, inq, disp, hand, coll>>

\* The shutdown branches of the two select! statements.
ConnShutdown ==
    /\ conn \in {"running", "sleeping"} /\ shutdown
    /\ ConnReturns
    /\ Ends(DroppedOutbound, "dropped")
    /\ UNCHANGED <<main, shutdown, held, inq, disp, hand, coll>>

-----------------------------------------------------------------------------
(* dispatcher_loop: select! is biased, shutdown first. *)

\* The task returns: its receiver takes the inbound channel with it.
DispShutdown ==
    /\ disp = "idle" /\ shutdown
    /\ disp' = "done"
    /\ inq' = <<>>
    /\ Ends(ToSet(inq), "dropped")
    /\ UNCHANGED <<main, shutdown, connVars, hand, coll, outq>>

\* Mutant: the newest message is taken first.
DispTakeNewest ==
    /\ disp = "idle" /\ ~shutdown /\ inq # <<>>
    /\ hand' = Last(inq)
    /\ inq' = Front(inq)
    /\ disp' = "handling"
    /\ UNCHANGED <<main, shutdown, connVars, coll, outq, fate>>

\* Mutant: a message leaves the channel only when it has been handled.
DispTakePeeking ==
    /\ disp = "idle" /\ ~shutdown /\ inq # <<>>
    /\ hand' = Head(inq)
    /\ disp' = "handling"
    /\ UNCHANGED <<main, shutdown, connVars, inq, coll, outq, fate>>

DispTake ==
    /\ disp = "idle" /\ ~shutdown /\ inq # <<>>
    /\ hand' = Head(inq)
    /\ inq' = Tail(inq)
    /\ disp' = "handling"
    /\ UNCHANGED <<main, shutdown, connVars, coll, outq, fate>>

\* A handler returns, with or without a response.
DispHandled ==
    /\ disp = "handling"
    /\ \/ disp' = "replying" /\ UNCHANGED <<hand, fate>>
       \/ disp' = "idle" /\ hand' = NoRequest /\ Ends({hand}, "ignored")
    /\ UNCHANGED <<main, shutdown, connVars, inq, coll, outq>>

\* Mutant: the response is forgotten when the channel is full.
DispReplyNoWait ==
    /\ disp = "replying" /\ conn # "done"
    /\ outq' = IF Len(outq) < OutCap THEN Append(outq, hand) ELSE outq
    /\ hand' = NoRequest
    /\ disp' = "idle"
    /\ UNCHANGED <<main, shutdown, connVars, inq, coll, fate>>

\* outbound_tx.send has room.
DispReply ==
    /\ disp = "replying" /\ conn # "done"
    /\ Len(outq) < OutCap
    /\ outq' = Append(outq, hand)
    /\ hand' = NoRequest
    /\ disp' = "idle"
    /\ UNCHANGED <<main, shutdown, connVars, inq, coll, fate>>

\* outbound_tx.send fails: the connection is gone.
DispReplyFails ==
    /\ disp = "replying" /\ conn = "done"
    /\ disp' = "done"
    /\ hand' = NoRequest
    /\ inq' = <<>>
    /\ Ends(ToSet(inq) \cup {hand}, "dropped")
    /\ UNCHANGED <<main, shutdown, connVars, coll, outq>>

-----------------------------------------------------------------------------
(* metrics_loop *)

\* Whichever branch of select! ran, shutdown is looked at before collecting.
CollShutdown ==
    /\ coll = "waiting" /\ shutdown
    /\ coll' = "done"
    /\ UNCHANGED <<main, shutdown, connVars, inq, disp, hand, outq, fate>>

CollTick ==
    /\ coll = "waiting" /\ ~shutdown
    /\ coll' = "sending"
    /\ UNCHANGED <<main, shutdown, connVars, inq, disp, hand, outq, fate>>

\* Mutant: a channel whose receiver is gone counts as full.
CollSendDeaf ==
    /\ coll = "sending" /\ conn # "done"
    /\ Len(outq) < OutCap
    /\ outq' = Append(outq, Metrics)
    /\ coll' = "waiting"
    /\ UNCHANGED <<main, shutdown, connVars, inq, disp, hand, fate>>

CollSend ==
    /\ coll = "sending"
    /\ IF conn = "done"
       THEN coll' = "done" /\ UNCHANGED outq
       ELSE /\ Len(outq) < OutCap
            /\ outq' = Append(outq, Metrics)
            /\ coll' = "waiting"
    /\ UNCHANGED <<main, shutdown, connVars, inq, disp, hand, fate>>

-----------------------------------------------------------------------------
\* run() has returned and nothing is left to do.
Stopped == main = "stopped" /\ UNCHANGED vars

Connection ==
    \/ Proceed \/ ConnectFails \/ WakeUp
    \/ Forward \/ ForwardFails
    \/ SendNext \/ SendNextFails
    \/ SessionEnds \/ ConnShutdown

Dispatch == DispShutdown \/ DispTake \/ DispHandled \/ DispReply \/ DispReplyFails

Collect == CollShutdown \/ CollTick \/ CollSend

Next ==
    \/ Signal \/ Join \/ Stopped
    \/ Connection
    \/ \E r \in Requests : Receive(r)
    \/ Dispatch
    \/ Collect

Spec == Init /\ [][Next]_vars

\* Every task is scheduled, and every connect, AUTH (it has a timeout), pause
\* and handler ends.  Strong fairness where the runtime gives it: select! picks
\* a ready branch at random, and a channel serves waiting senders in turn.
TaskFairness ==
    /\ WF_vars(Join)
    /\ WF_vars(Proceed \/ ConnectFails)
    /\ WF_vars(WakeUp \/ ConnShutdown)
    /\ WF_vars(Forward \/ ForwardFails)
    /\ SF_vars(ConnShutdown)
    /\ SF_vars(SendNext \/ SendNextFails)
    /\ WF_vars(Dispatch)
    /\ WF_vars(Collect)
    /\ SF_vars(DispReply)
    /\ SF_vars(CollSend)

\* A network that lets the agent through again and again.
NetworkFairness == SF_vars(Proceed /\ conn = "connecting")
                   /\ SF_vars(Proceed /\ conn = "auth")

FairSpec == Spec /\ TaskFairness /\ NetworkFairness

-----------------------------------------------------------------------------
(* Properties *)

Places(r) ==
    (IF held = r THEN 1 ELSE 0)
    + (IF hand = r THEN 1 ELSE 0)
    + Cardinality({i \in DOMAIN inq : inq[i] = r})
    + Cardinality({i \in DOMAIN outq : outq[i] = r})

\* Through full channels, reconnects and tasks that return while others hold
\* its messages, a request the agent has accepted is in exactly one place until
\* it ends, and in none after: nothing is handled twice or silently forgotten.
Conserved ==
    \A r \in Requests : Places(r) = IF fate[r] = "inside" THEN 1 ELSE 0

\* Answers leave in the order the requests came in, across reconnects too: when
\* one is sent, no request received before it is still inside.
AnsweredInOrder ==
    [][\A i, j \in Requests :
          i < j /\ fate[j] # "answered" /\ fate'[j] = "answered"
             => fate[i] # "inside"]_vars

\* The pauses double with the attempts since the last clean close, or since the
\* start (the first pause after a clean close is one second again, and a
\* session that was up but ended in an error counts as a failed attempt).
BackoffTracksAttempts ==
    conn = "sleeping" =>
        \/ attempt = 0 /\ backoff = 1
        \/ attempt > 0 /\ backoff \in {Min({2 ^ (attempt - 1), MaxBackoff}),
                                       Min({2 ^ attempt, MaxBackoff})}

\* The connection waits for room in the inbound channel, the dispatcher for room
\* in the outbound one, and each is the only reader of what the other fills.
CircularWait ==
    /\ conn = "forwarding" /\ Len(inq) = InCap
    /\ disp = "replying" /\ Len(outq) = OutCap

Inside == {r \in Requests : fate[r] = "inside"}

\* However the metrics fill the outbound channel, connection and dispatcher do
\* not wait for each other while at most InCap + 1 requests are unfinished.
NoCircularWait == Cardinality(Inside) <= InCap + 1 => ~CircularWait

\* After a signal every task leaves, whatever it was waiting for, and run()
\* returns ("Exits cleanly when shutdown fires", collector.rs:29).
ShutdownCompletes == main = "joining" ~> main = "stopped"

\* However long the channels stay full, an accepted request is ended by its
\* answer being sent, or lost in a socket that fails, or it needs none -- unless
\* the agent is shut down first.
AcceptedIsEnded ==
    \A r \in Requests :
        fate[r] = "inside" ~> (fate[r] \in {"answered", "ignored", "lost"} \/ shutdown)
=============================================================================
