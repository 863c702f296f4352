-------------------------- MODULE AgentTasksProofs --------------------------
(***************************************************************************)
(* What holds of the agent's tasks for channels of any capacity and any    *)
(* number of requests.  The inductive invariant says where the requests    *)
(* that are inside the agent are (Placed), that each place holds later     *)
(* ones than the place after it (Ordered), and what the backoff is in      *)
(* every state of the connection, not only while it sleeps (Tracks).       *)
(***************************************************************************)
EXTENDS AgentTasks, FiniteSetTheorems, TLAPS

\* A task holds a message exactly while it works on one; a channel whose
\* reader has returned is empty.
Control ==
    /\ held \in Requests <=> conn = "forwarding"
    /\ hand \in Requests <=> disp \in {"handling", "replying"}
    /\ disp = "done" => inq = <<>>
    /\ conn = "done" => outq = <<>>

\* A request is inside exactly when it is held, in hand or in a channel.
Placed ==
    \A r \in Requests :
        fate[r] = "inside" <=>
            \/ held = r
            \/ hand = r
            \/ \E i \in DOMAIN inq : inq[i] = r
            \/ \E i \in DOMAIN outq : outq[i] = r

\* What is nearer to its end came in earlier.
InOrder == \A i, j \in DOMAIN inq : i < j => inq[i] < inq[j]
OutOrder ==
    \A i, j \in DOMAIN outq :
        i < j /\ outq[i] \in Requests /\ outq[j] \in Requests => outq[i] < outq[j]
OutFirst ==
    \A i \in DOMAIN outq : outq[i] \in Requests =>
        /\ hand \in Requests => outq[i] < hand
        /\ \A j \in DOMAIN inq : outq[i] < inq[j]
        /\ held \in Requests => outq[i] < held
HandNext ==
    hand \in Requests =>
        /\ \A j \in DOMAIN inq : hand < inq[j]
        /\ held \in Requests => hand < held
HeldLast == held \in Requests => \A j \in DOMAIN inq : inq[j] < held
UnsentLast ==
    \A r, s \in Requests : r < s /\ fate[r] = "unsent" => fate[s] = "unsent"
Ordered == InOrder /\ OutOrder /\ OutFirst /\ HandNext /\ HeldLast /\ UnsentLast

\* The backoff in every state of the connection.
Tracks ==
    \/ attempt = 0 /\ backoff = 1
    \/ attempt > 0 /\ backoff \in {Min({2 ^ (attempt - 1), MaxBackoff}),
                                   Min({2 ^ attempt, MaxBackoff})}

IInv == TypeOK /\ Control /\ Placed /\ Ordered /\ Tracks
-----------------------------------------------------------------------------
(* Minimum and powers of two *)

LEMMA MinOfTwo ==
    ASSUME NEW a \in Nat, NEW b \in Nat
    PROVE  Min({a, b}) = IF a <= b THEN a ELSE b
<1>1. \E x \in {a, b} : \A y \in {a, b} : x <= y
    OBVIOUS
<1> QED
    BY <1>1 DEF Min

\* What 2^n counts: the subsets of a set of n elements.
LEMMA SubsetsOfInterval ==
    ASSUME NEW n \in Nat
    PROVE  /\ IsFiniteSet(SUBSET (1..n))
           /\ Cardinality(SUBSET (1..n)) = 2 ^ n
           /\ 2 ^ n \in Nat
<1>1. IsFiniteSet(1..n) /\ Cardinality(1..n) = n
    BY FS_Interval
<1>2. /\ IsFiniteSet(SUBSET (1..n))
      /\ Cardinality(SUBSET (1..n)) = 2 ^ Cardinality(1..n)
    BY <1>1, FS_SUBSET, Zenon
<1>3. Cardinality(SUBSET (1..n)) \in Nat
    BY <1>2, FS_CardinalityType, Zenon
<1> QED
    BY <1>1, <1>2, <1>3, Zenon

LEMMA PowerStep ==
    ASSUME NEW n \in Nat
    PROVE  2 ^ n \in Nat /\ 2 ^ (n + 1) = 2 * 2 ^ n
<1> DEFINE Without == SUBSET (1..n)
           With == {B \cup {n + 1} : B \in Without}
           f == [B \in Without |-> B \cup {n + 1}]
<1>1. SUBSET (1..(n + 1)) = Without \cup With
  <2>1. 1..(n + 1) = (1..n) \cup {n + 1}
    OBVIOUS
  <2>2. ASSUME NEW B \in SUBSET (1..(n + 1)), n + 1 \in B
        PROVE  B \in With
    <3>1. B \ {n + 1} \in Without
      BY <2>1
    <3>2. B = (B \ {n + 1}) \cup {n + 1}
      BY <2>2
    <3> QED
      BY <3>1, <3>2
  <2>3. ASSUME NEW B \in SUBSET (1..(n + 1)), n + 1 \notin B
        PROVE  B \in Without
    BY <2>1, <2>3
  <2>4. ASSUME NEW B \in Without
        PROVE  B \in SUBSET (1..(n + 1)) /\ B \cup {n + 1} \in SUBSET (1..(n + 1))
    BY <2>1
  <2>5. SUBSET (1..(n + 1)) \subseteq Without \cup With
    BY <2>2, <2>3
  <2>6. With \subseteq SUBSET (1..(n + 1)) /\ Without \subseteq SUBSET (1..(n + 1))
    BY <2>4
  <2> HIDE DEF With, Without
  <2> QED
    BY <2>5, <2>6
<1>2. n + 1 \notin 1..n
    OBVIOUS
<1>3. Without \cap With = {}
    BY <1>2
<1>4. f \in Bijection(Without, With)
  <2>1. f \in [Without -> With]
    OBVIOUS
  <2>2. \A B, C \in Without : f[B] = f[C] => B = C
    BY <1>2
  <2>3. \A C \in With : \E B \in Without : f[B] = C
    OBVIOUS
  <2> QED
    BY <2>1, <2>2, <2>3 DEF Bijection, Injection, Surjection, IsInjective
<1>5. IsFiniteSet(Without) /\ Cardinality(Without) = 2 ^ n /\ 2 ^ n \in Nat
    BY SubsetsOfInterval
<1>6. IsFiniteSet(With) /\ Cardinality(With) = 2 ^ n
    BY <1>4, <1>5, FS_Bijection, Zenon DEF ExistsBijection
<1>7. Cardinality(Without \cup With) = 2 ^ n + 2 ^ n
  <2> HIDE DEF Without, With
  <2>1. Cardinality(Without \cup With) =
            Cardinality(Without) + Cardinality(With) - Cardinality(Without \cap With)
    BY <1>5, <1>6, FS_Union
  <2> QED
    BY <2>1, <1>3, <1>5, <1>6, FS_EmptySet
<1>8. n + 1 \in Nat
    OBVIOUS
<1>9. Cardinality(SUBSET (1..(n + 1))) = 2 ^ (n + 1)
    BY <1>8, SubsetsOfInterval, Zenon
<1>10. 2 ^ (n + 1) = 2 ^ n + 2 ^ n
    BY <1>1, <1>7, <1>9, Zenon
<1> QED
    BY <1>5, <1>10
-----------------------------------------------------------------------------
(* The initial state, and what the types say of one *)

LEMMA NotRequests == Metrics \notin Requests /\ NoRequest \notin Requests
BY NotARequest

LEMMA InitIInv == Init => IInv
<1> SUFFICES ASSUME Init PROVE IInv
    OBVIOUS
<1>1. TypeOK
  <2>1. 1 \in 1..MaxBackoff /\ 1 \in 0..AttemptCap /\ 0 <= InCap /\ 0 <= OutCap
    BY CapAssumption, BackoffAssumption
  <2>2. <<>> \in Seq(Requests) /\ <<>> \in Seq(Requests \cup {Metrics}) /\ Len(<<>>) = 0
    OBVIOUS
  <2> QED
    BY <2>1, <2>2 DEF Init, TypeOK
<1>2. Control /\ Placed
    BY NotRequests DEF Init, Control, Placed
<1>3. Ordered
    BY NotRequests DEF Init, Ordered, InOrder, OutOrder, OutFirst, HandNext,
                       HeldLast, UnsentLast
<1>4. Tracks
  <2>1. 2 ^ (1 - 1) = 1
    OBVIOUS
  <2>2. Min({1, MaxBackoff}) = 1
    BY MinOfTwo, BackoffAssumption
  <2> QED
    BY <2>1, <2>2 DEF Init, Tracks
<1> QED
    BY <1>1, <1>2, <1>3, <1>4 DEF IInv

-----------------------------------------------------------------------------
(* The backoff: an attempt later it is twice as long, up to its maximum *)

LEMMA Doubled ==
    ASSUME NEW n \in Nat
    PROVE  Min({2 * Min({2 ^ n, MaxBackoff}), MaxBackoff})
               = Min({2 ^ (n + 1), MaxBackoff})
<1>1. 2 ^ n \in Nat /\ 2 ^ (n + 1) = 2 * 2 ^ n /\ MaxBackoff \in Nat
    BY PowerStep, BackoffAssumption
<1> DEFINE p == 2 ^ n  q == 2 ^ (n + 1)
<1>2. p \in Nat /\ q \in Nat /\ q = 2 * p
    BY <1>1
<1> HIDE DEF p, q
<1>3. Min({p, MaxBackoff}) = IF p <= MaxBackoff THEN p ELSE MaxBackoff
    BY <1>1, <1>2, MinOfTwo
<1>4. Min({q, MaxBackoff}) = IF q <= MaxBackoff THEN q ELSE MaxBackoff
    BY <1>1, <1>2, MinOfTwo
<1>5. Min({p, MaxBackoff}) \in Nat
    BY <1>1, <1>2, <1>3
<1> DEFINE d == 2 * Min({p, MaxBackoff})
<1>6. d \in Nat /\ d = IF p <= MaxBackoff THEN 2 * p ELSE 2 * MaxBackoff
    BY <1>1, <1>2, <1>3, <1>5
<1> HIDE DEF d
<1>7. Min({d, MaxBackoff}) = IF d <= MaxBackoff THEN d ELSE MaxBackoff
    BY <1>1, <1>6, MinOfTwo
<1>8. Min({d, MaxBackoff}) = Min({q, MaxBackoff})
    BY <1>1, <1>2, <1>4, <1>6, <1>7
<1> QED
    BY <1>8 DEF p, q, d

LEMMA AtTheCap ==
    ASSUME NEW b \in 1..MaxBackoff,
           b \in {Min({2 ^ (AttemptCap - 1), MaxBackoff}),
                  Min({2 ^ AttemptCap, MaxBackoff})}
    PROVE  Min({2 * b, MaxBackoff}) = Min({2 ^ AttemptCap, MaxBackoff})
<1>1. /\ MaxBackoff \in Nat /\ AttemptCap \in Nat /\ AttemptCap - 1 \in Nat
      /\ MaxBackoff <= 2 ^ AttemptCap
    BY BackoffAssumption
<1>2. CASE b = Min({2 ^ (AttemptCap - 1), MaxBackoff})
    BY <1>1, <1>2, Doubled
<1>3. CASE b = Min({2 ^ AttemptCap, MaxBackoff})
  <2>1. 2 ^ AttemptCap \in Nat
    BY <1>1, PowerStep
  <2>2. Min({2 ^ AttemptCap, MaxBackoff}) = MaxBackoff
    BY <1>1, <2>1, MinOfTwo
  <2>3. Min({2 * MaxBackoff, MaxBackoff}) = MaxBackoff
    BY <1>1, MinOfTwo
  <2> QED
    BY <1>3, <2>2, <2>3
<1> QED
    BY <1>2, <1>3

LEMMA NextPause ==
    ASSUME TypeOK, Tracks,
           backoff' = Min({2 * backoff, MaxBackoff}),
           attempt' = Min({attempt + 1, AttemptCap})
    PROVE  /\ Tracks'
           /\ backoff' \in 1..MaxBackoff
           /\ attempt' \in 0..AttemptCap
<1>1. /\ MaxBackoff \in Nat \ {0} /\ AttemptCap \in Nat \ {0}
      /\ backoff \in 1..MaxBackoff /\ attempt \in 0..AttemptCap
    BY BackoffAssumption DEF TypeOK
<1>2. backoff' = IF 2 * backoff <= MaxBackoff THEN 2 * backoff ELSE MaxBackoff
    BY <1>1, MinOfTwo
<1>3. attempt' = IF attempt < AttemptCap THEN attempt + 1 ELSE AttemptCap
  <2>1. attempt' = IF attempt + 1 <= AttemptCap THEN attempt + 1 ELSE AttemptCap
    BY <1>1, MinOfTwo
  <2> QED
    BY <1>1, <2>1
<1>4. backoff' \in 1..MaxBackoff /\ attempt' \in 0..AttemptCap /\ attempt' > 0
    BY <1>1, <1>2, <1>3
<1>0. SUFFICES Tracks'
    BY <1>4
<1>5. CASE attempt = 0 /\ backoff = 1
  <2>1. attempt' = 1 /\ backoff' = Min({2, MaxBackoff})
    BY <1>1, <1>3, <1>5
  <2>2. 2 ^ (0 + 1) = 2 * 2 ^ 0 /\ 2 ^ 0 = 1
    BY PowerStep
  <2>3. 2 ^ 1 = 2
    BY <2>2
  <2> QED
    BY <1>4, <2>1, <2>3 DEF Tracks
<1>6. CASE /\ attempt > 0 /\ attempt < AttemptCap
           /\ backoff \in {Min({2 ^ (attempt - 1), MaxBackoff}),
                           Min({2 ^ attempt, MaxBackoff})}
  <2>1. attempt' = attempt + 1 /\ attempt' - 1 = attempt
    BY <1>1, <1>3, <1>6
  <2>2. attempt - 1 \in Nat /\ (attempt - 1) + 1 = attempt /\ attempt \in Nat
    BY <1>1, <1>6
  <2>3. backoff' \in {Min({2 ^ attempt, MaxBackoff}),
                      Min({2 ^ (attempt + 1), MaxBackoff})}
    <3>1. CASE backoff = Min({2 ^ (attempt - 1), MaxBackoff})
      <4>1. backoff' = Min({2 ^ ((attempt - 1) + 1), MaxBackoff})
        BY <2>2, <3>1, Doubled
      <4> QED
        BY <2>2, <4>1
    <3>2. CASE backoff = Min({2 ^ attempt, MaxBackoff})
      BY <2>2, <3>2, Doubled
    <3> QED
      BY <1>6, <3>1, <3>2
  <2> QED
    BY <1>4, <2>1, <2>3 DEF Tracks
<1>7. CASE /\ attempt = AttemptCap
           /\ backoff \in {Min({2 ^ (attempt - 1), MaxBackoff}),
                           Min({2 ^ attempt, MaxBackoff})}
  <2>1. backoff' = Min({2 ^ AttemptCap, MaxBackoff})
    BY <1>1, <1>7, AtTheCap
  <2>2. attempt' = AttemptCap
    BY <1>1, <1>3, <1>7
  <2> QED
    BY <1>4, <2>1, <2>2 DEF Tracks
<1> QED
    BY <1>1, <1>5, <1>6, <1>7 DEF Tracks, TypeOK

-----------------------------------------------------------------------------
(* Steps that only take messages away *)

\* The places empty, or stay as they are, and nothing becomes unsent.
LEMMA OrderWhenTakenAway ==
    ASSUME TypeOK, Ordered,
           inq' \in {inq, <<>>}, outq' \in {outq, <<>>},
           held' \in {held, NoRequest}, hand' \in {hand, NoRequest},
           \A r \in Requests : fate'[r] = "unsent" <=> fate[r] = "unsent"
    PROVE  Ordered'
<1> USE NotRequests DEF TypeOK
<1>1. InOrder'
    BY DEF Ordered, InOrder
<1>2. OutOrder'
    BY DEF Ordered, OutOrder
<1>3. OutFirst'
    BY DEF Ordered, OutFirst
<1>4. HandNext' /\ HeldLast'
    BY DEF Ordered, HandNext, HeldLast
<1>5. UnsentLast'
    BY DEF Ordered, UnsentLast
<1> QED
    BY <1>1, <1>2, <1>3, <1>4, <1>5 DEF Ordered

\* The fates an action may give to requests that were inside.
Over == {"answered", "ignored", "lost", "dropped"}

LEMMA EndsFacts ==
    ASSUME TypeOK, NEW rs, NEW how \in Over, Ends(rs, how)
    PROVE  /\ fate' \in [Requests -> {"unsent", "inside", "answered", "ignored",
                                      "lost", "dropped"}]
           /\ \A r \in Requests :
                  /\ r \in rs => fate'[r] = how
                  /\ r \notin rs => fate'[r] = fate[r]
BY DEF TypeOK, Ends, Over

\* What is ended was inside, so the unsent requests are the same as before.
LEMMA UnsentKept ==
    ASSUME TypeOK, NEW rs, NEW how \in Over, Ends(rs, how),
           \A r \in rs \cap Requests : fate[r] = "inside"
    PROVE  \A r \in Requests : fate'[r] = "unsent" <=> fate[r] = "unsent"
<1>1. how # "unsent"
    BY DEF Over
<1> QED
    BY <1>1, EndsFacts

\* The outbound channel's requests are inside; so are the others.
LEMMA AllInside ==
    ASSUME TypeOK, Placed
    PROVE  /\ \A r \in ToSet(outq) \cap Requests : fate[r] = "inside"
           /\ \A r \in ToSet(inq) : r \in Requests /\ fate[r] = "inside"
           /\ \A r \in Requests : held = r => fate[r] = "inside"
           /\ \A r \in Requests : hand = r => fate[r] = "inside"
<1> USE DEF Placed, ToSet
<1>1. \A r \in ToSet(outq) \cap Requests : fate[r] = "inside"
    OBVIOUS
<1>2. \A r \in ToSet(inq) : r \in Requests
    BY DEF TypeOK
<1> QED
    BY <1>1, <1>2

\* The connection ends its session or its pause: the outbound channel stays or,
\* when the task returns, is dropped with what is in it.
LEMMA OutboundStaysOrDrops ==
    ASSUME IInv, NEW gone \in SUBSET Requests,
           \/ outq' = outq /\ Ends(gone, "dropped")
           \/ outq' = <<>> /\ Ends(gone \cup (ToSet(outq) \cap Requests), "dropped"),
           \/ gone = {} /\ held' = held
           \/ gone = {held} /\ held' = NoRequest,
           UNCHANGED <<inq, hand>>
    PROVE  /\ Ordered'
           /\ Placed'
           /\ fate' \in [Requests -> {"unsent", "inside", "answered", "ignored",
                                      "lost", "dropped"}]
           /\ \A r \in Requests : fate'[r] = "answered" => fate[r] = "answered"
<1> USE NotRequests
<1>1. PICK rs \in SUBSET Requests :
          /\ Ends(rs, "dropped")
          /\ \/ outq' = outq /\ rs = gone
             \/ outq' = <<>> /\ rs = gone \cup (ToSet(outq) \cap Requests)
    OBVIOUS
<1>2. TypeOK /\ Placed /\ Ordered /\ Control
    BY DEF IInv
<1>3. \A r \in rs : fate[r] = "inside"
    BY <1>1, <1>2, AllInside
<1>4. "dropped" \in Over
    BY DEF Over
<1>5. /\ fate' \in [Requests -> {"unsent", "inside", "answered", "ignored",
                                 "lost", "dropped"}]
      /\ \A r \in Requests : /\ r \in rs => fate'[r] = "dropped"
                             /\ r \notin rs => fate'[r] = fate[r]
    BY <1>1, <1>2, <1>4, EndsFacts
<1>6. \A r \in Requests : fate'[r] = "unsent" <=> fate[r] = "unsent"
    BY <1>3, <1>5
<1>7. Ordered'
  <2>1. inq' \in {inq, <<>>} /\ outq' \in {outq, <<>>}
    BY <1>1
  <2>2. held' \in {held, NoRequest} /\ hand' \in {hand, NoRequest}
    OBVIOUS
  <2> QED
    BY <1>2, <1>6, <2>1, <2>2, OrderWhenTakenAway
<1>8. Placed'
  <2> SUFFICES ASSUME NEW r \in Requests
               PROVE  fate'[r] = "inside" <=>
                          \/ held' = r
                          \/ hand' = r
                          \/ \E i \in DOMAIN inq' : inq'[i] = r
                          \/ \E i \in DOMAIN outq' : outq'[i] = r
    BY DEF Placed
  <2>1. CASE r \in rs
    <3>1. fate'[r] = "dropped" /\ fate[r] = "inside"
      BY <1>3, <1>5, <2>1
    <3>2. held' # r
      <4>1. CASE gone = {} /\ held' = held
        <5>1. \E i \in DOMAIN outq : outq[i] = r
          BY <1>1, <2>1, <4>1 DEF ToSet
        <5> QED
          BY <1>2, <4>1, <5>1 DEF Ordered, OutFirst, TypeOK, Requests
      <4> QED
        BY <4>1
    <3>3. hand' # r /\ ~\E i \in DOMAIN inq' : inq'[i] = r
      BY <1>1, <1>2, <2>1 DEF Ordered, OutFirst, HandNext, HeldLast, TypeOK, Requests, ToSet
    <3>4. ~\E i \in DOMAIN outq' : outq'[i] = r
      BY <1>1, <1>2, <2>1 DEF Ordered, OutFirst, TypeOK, Requests, ToSet
    <3> QED
      BY <3>1, <3>2, <3>3, <3>4
  <2>2. CASE r \notin rs
    <3>1. fate'[r] = fate[r]
      BY <1>5, <2>2
    <3>2. held' = r <=> held = r
      BY <1>1, <2>2
    <3>3. (\E i \in DOMAIN outq' : outq'[i] = r) <=> (\E i \in DOMAIN outq : outq[i] = r)
      BY <1>1, <2>2 DEF ToSet
    <3> QED
      BY <1>2, <3>1, <3>2, <3>3 DEF Placed
  <2> QED
    BY <2>1, <2>2
<1> QED
    BY <1>5, <1>7, <1>8

\* The same where no message is held.
LEMMA OutboundStaysOrDropsIdle ==
    ASSUME IInv,
           \/ outq' = outq /\ Ends({}, "dropped")
           \/ outq' = <<>> /\ Ends(ToSet(outq) \cap Requests, "dropped"),
           UNCHANGED <<held, inq, hand>>
    PROVE  /\ Ordered'
           /\ Placed'
           /\ fate' \in [Requests -> {"unsent", "inside", "answered", "ignored",
                                      "lost", "dropped"}]
           /\ \A r \in Requests : fate'[r] = "answered" => fate[r] = "answered"
<1> DEFINE none == {}
<1>1. none \in SUBSET Requests /\ none = {}
    OBVIOUS
<1>2. none \cup (ToSet(outq) \cap Requests) = ToSet(outq) \cap Requests
    OBVIOUS
<1> HIDE DEF none
<1>3. \/ outq' = outq /\ Ends(none, "dropped")
      \/ outq' = <<>> /\ Ends(none \cup (ToSet(outq) \cap Requests), "dropped")
    BY <1>1, <1>2
<1>4. UNCHANGED <<inq, hand>> /\ held' = held
    OBVIOUS
<1> QED
    BY <1>1, <1>3, <1>4, OutboundStaysOrDrops

-----------------------------------------------------------------------------
(* One lemma per group of actions: the invariant is kept, and only SendNext *)
(* answers a request *)

NothingAnswered ==
    \A r \in Requests : fate'[r] = "answered" => fate[r] = "answered"

\* main, the collector's shutdown and tick, and Proceed: no message moves.
LEMMA QuietStep ==
    ASSUME IInv, Signal \/ Join \/ Stopped \/ CollShutdown \/ CollTick \/ Proceed
    PROVE  IInv' /\ NothingAnswered
<1> USE DEF Signal, Join, Stopped, CollShutdown, CollTick, Proceed, connVars, vars
<1>1. TypeOK' /\ Control'
    <2>1. TypeOK'
        BY DEF IInv, TypeOK
    <2>2. Control'
        BY DEF IInv, Control
    <2> QED
        BY <2>1, <2>2
<1>2. UNCHANGED <<held, hand, inq, outq, fate, backoff, attempt>>
    OBVIOUS
<1>3. Placed' /\ Ordered' /\ Tracks'
    BY <1>2 DEF IInv, Placed, Ordered, InOrder, OutOrder, OutFirst, HandNext,
                HeldLast, UnsentLast, Tracks
<1> QED
    BY <1>1, <1>2, <1>3 DEF IInv, NothingAnswered

\* A clean close, an unclean one, or the return of the task.
LEMMA PauseKeeps ==
    ASSUME IInv, NEW clean \in BOOLEAN, PauseOrReturn(clean)
    PROVE  /\ conn' \in {"sleeping", "done"}
           /\ outq' \in {outq, <<>>}
           /\ conn' = "done" => outq' = <<>>
           /\ backoff' \in 1..MaxBackoff /\ attempt' \in 0..AttemptCap
           /\ Tracks'
<1>1. /\ 1 \in 1..MaxBackoff /\ 0 \in 0..AttemptCap
      /\ backoff \in 1..MaxBackoff /\ attempt \in 0..AttemptCap
    BY BackoffAssumption DEF IInv, TypeOK
<1>2. \/ backoff' = backoff /\ attempt' = attempt
      \/ backoff' = 1 /\ attempt' = 0
    BY DEF PauseOrReturn, ConnReturns
<1>3. Tracks'
    BY <1>2 DEF Tracks, IInv
<1> QED
    BY <1>1, <1>2, <1>3 DEF PauseOrReturn, ConnReturns

\* The types and Control after a step that ends a session or a pause.
LEMMA ConnectionLeaves ==
    ASSUME IInv,
           conn' \in {"connecting", "sleeping", "done"},
           outq' \in {outq, <<>>}, conn' = "done" => outq' = <<>>,
           held' = NoRequest,
           backoff' \in 1..MaxBackoff, attempt' \in 0..AttemptCap,
           fate' \in [Requests -> {"unsent", "inside", "answered", "ignored",
                                   "lost", "dropped"}],
           UNCHANGED <<main, shutdown, inq, disp, hand, coll>>
    PROVE  TypeOK' /\ Control'
<1>1. outq' \in Seq(Requests \cup {Metrics}) /\ Len(outq') <= OutCap
  <2>1. CASE outq' = outq
    BY <2>1 DEF IInv, TypeOK
  <2>2. CASE outq' = <<>>
    BY <2>2, CapAssumption
  <2> QED
    BY <2>1, <2>2
<1>2. TypeOK'
    BY <1>1 DEF IInv, TypeOK
<1>3. Control'
    BY NotRequests DEF IInv, TypeOK, Control
<1> QED
    BY <1>2, <1>3

LEMMA HeldOnlyForwarding ==
    ASSUME IInv, conn # "forwarding"
    PROVE  held = NoRequest
BY DEF IInv, TypeOK, Control

LEMMA LeaveStep ==
    ASSUME IInv, ConnectFails \/ SessionEnds \/ ConnShutdown
    PROVE  IInv' /\ NothingAnswered
<1> USE DEF ConnectFails, SessionEnds, ConnShutdown
<1>1. held = NoRequest /\ held' = NoRequest
    BY HeldOnlyForwarding
<1>2. /\ conn' \in {"sleeping", "done"} /\ outq' \in {outq, <<>>}
      /\ conn' = "done" => outq' = <<>>
      /\ backoff' \in 1..MaxBackoff /\ attempt' \in 0..AttemptCap
      /\ Tracks'
  <2>1. CASE \E clean \in BOOLEAN : PauseOrReturn(clean)
    BY <2>1, PauseKeeps
  <2>2. CASE ConnReturns
    BY <2>2 DEF ConnReturns, IInv, TypeOK, Tracks
  <2> QED
    BY <2>1, <2>2
<1>3. \/ outq' = outq /\ Ends({}, "dropped")
      \/ outq' = <<>> /\ Ends(ToSet(outq) \cap Requests, "dropped")
  <2>1. CASE shutdown
    <3>1. outq' = <<>> /\ DroppedOutbound = ToSet(outq) \cap Requests
      BY <2>1 DEF PauseOrReturn, ConnReturns, DroppedOutbound
    <3>2. Ends(DroppedOutbound, "dropped")
      OBVIOUS
    <3> QED
      BY <3>1, <3>2
  <2>2. CASE ~shutdown
    <3>1. outq' = outq /\ DroppedOutbound = {}
      BY <2>2 DEF PauseOrReturn, DroppedOutbound
    <3> QED
      BY <3>1
  <2> QED
    BY <2>1, <2>2
<1>4. /\ Ordered' /\ Placed'
      /\ fate' \in [Requests -> {"unsent", "inside", "answered", "ignored",
                                 "lost", "dropped"}]
      /\ NothingAnswered
    BY <1>3, OutboundStaysOrDropsIdle DEF NothingAnswered
<1>5. TypeOK' /\ Control'
    BY <1>1, <1>2, <1>4, ConnectionLeaves
<1> QED
    BY <1>2, <1>4, <1>5 DEF IInv

LEMMA WakeUpStep ==
    ASSUME IInv, WakeUp
    PROVE  IInv' /\ NothingAnswered
<1> USE DEF WakeUp
<1>1. held = NoRequest /\ held' = NoRequest
    BY HeldOnlyForwarding
<1>2. /\ conn' \in {"connecting", "done"} /\ outq' \in {outq, <<>>}
      /\ conn' = "done" => outq' = <<>>
    BY DEF ConnReturns
<1>3. backoff' \in 1..MaxBackoff /\ attempt' \in 0..AttemptCap /\ Tracks'
  <2>1. CASE shutdown
    BY <2>1 DEF ConnReturns, IInv, TypeOK, Tracks
  <2>2. CASE ~shutdown
    BY <2>2, NextPause DEF IInv
  <2> QED
    BY <2>1, <2>2
<1>4. \/ outq' = outq /\ Ends({}, "dropped")
      \/ outq' = <<>> /\ Ends(ToSet(outq) \cap Requests, "dropped")
  <2>1. CASE shutdown
    <3>1. outq' = <<>> /\ ToSet(outq) \cap Requests = DroppedOutbound
      BY <2>1 DEF ConnReturns, DroppedOutbound
    <3> QED
      BY <3>1
  <2>2. CASE ~shutdown
    <3>1. outq' = outq /\ DroppedOutbound = {}
      BY <2>2 DEF DroppedOutbound
    <3> QED
      BY <3>1
  <2> QED
    BY <2>1, <2>2
<1>5. /\ Ordered' /\ Placed'
      /\ fate' \in [Requests -> {"unsent", "inside", "answered", "ignored",
                                 "lost", "dropped"}]
      /\ NothingAnswered
    BY <1>4, OutboundStaysOrDropsIdle DEF NothingAnswered
<1>6. TypeOK' /\ Control'
    BY <1>1, <1>2, <1>3, <1>5, ConnectionLeaves
<1> QED
    BY <1>3, <1>5, <1>6 DEF IInv

LEMMA ForwardFailsStep ==
    ASSUME IInv, ForwardFails
    PROVE  IInv' /\ NothingAnswered
<1> USE DEF ForwardFails
<1>1. held \in Requests /\ held' = NoRequest
    BY DEF IInv, Control
<1>2. /\ conn' \in {"sleeping", "done"} /\ outq' \in {outq, <<>>}
      /\ conn' = "done" => outq' = <<>>
      /\ backoff' \in 1..MaxBackoff /\ attempt' \in 0..AttemptCap
      /\ Tracks'
    BY PauseKeeps
<1>3. \/ outq' = outq /\ Ends({held}, "dropped")
      \/ outq' = <<>> /\ Ends({held} \cup (ToSet(outq) \cap Requests), "dropped")
  <2>1. CASE shutdown
    <3>1. /\ outq' = <<>>
          /\ {held} \cup (ToSet(outq) \cap Requests) = DroppedOutbound \cup {held}
      BY <2>1 DEF PauseOrReturn, ConnReturns, DroppedOutbound
    <3> QED
      BY <3>1
  <2>2. CASE ~shutdown
    <3>1. outq' = outq /\ DroppedOutbound \cup {held} = {held}
      BY <2>2 DEF PauseOrReturn, DroppedOutbound
    <3> QED
      BY <3>1
  <2> QED
    BY <2>1, <2>2
<1>4. /\ Ordered' /\ Placed'
      /\ fate' \in [Requests -> {"unsent", "inside", "answered", "ignored",
                                 "lost", "dropped"}]
      /\ NothingAnswered
    BY <1>1, <1>3, OutboundStaysOrDrops DEF NothingAnswered
<1>5. TypeOK' /\ Control'
    BY <1>1, <1>2, <1>4, ConnectionLeaves
<1> QED
    BY <1>2, <1>4, <1>5 DEF IInv

\* What is received is later than everything inside: requests come in order.
LEMMA ReceiveStep ==
    ASSUME IInv, NEW r \in Requests, Receive(r)
    PROVE  IInv' /\ NothingAnswered
<1> USE NotRequests DEF Receive
<1>1. /\ fate' \in [Requests -> {"unsent", "inside", "answered", "ignored",
                                 "lost", "dropped"}]
      /\ fate'[r] = "inside"
      /\ \A s \in Requests : s # r => fate'[s] = fate[s]
    BY DEF Ends, IInv, TypeOK
<1>2. \A s \in Requests : fate[s] = "inside" => s < r
    BY DEF IInv, Ordered, UnsentLast, Requests
<1>3. held = NoRequest
    BY HeldOnlyForwarding
<1>4. TypeOK' /\ Control' /\ Tracks'
    BY <1>1, <1>3 DEF IInv, TypeOK, Control, Tracks
<1>5. Placed'
    BY <1>1, <1>3 DEF IInv, Placed
<1>6. /\ \A i \in DOMAIN inq : inq[i] < r
      /\ hand \in Requests => hand < r
      /\ \A i \in DOMAIN outq : outq[i] \in Requests => outq[i] < r
    BY <1>2 DEF IInv, TypeOK, Placed
<1>7. InOrder' /\ OutOrder' /\ OutFirst' /\ HandNext' /\ HeldLast'
    BY <1>6 DEF IInv, Ordered, InOrder, OutOrder, OutFirst, HandNext, HeldLast
<1>8. UnsentLast'
  <2> SUFFICES ASSUME NEW p \in Requests, NEW q \in Requests,
                      p < q, fate'[p] = "unsent"
               PROVE  fate'[q] = "unsent"
    BY DEF UnsentLast
  <2>1. p # r /\ fate[p] = "unsent"
    BY <1>1
  <2>2. q # r
    BY <2>1 DEF Requests
  <2> QED
    BY <1>1, <2>1, <2>2 DEF IInv, Ordered, UnsentLast
<1> QED
    BY <1>1, <1>4, <1>5, <1>7, <1>8 DEF IInv, Ordered, NothingAnswered

LEMMA ForwardStep ==
    ASSUME IInv, Forward
    PROVE  IInv' /\ NothingAnswered
<1> USE NotRequests DEF Forward
<1>1. held \in Requests /\ inq \in Seq(Requests)
    BY DEF IInv, TypeOK, Control
<1>2. /\ inq' \in Seq(Requests) /\ Len(inq') = Len(inq) + 1
      /\ DOMAIN inq = 1..Len(inq) /\ DOMAIN inq' = 1..(Len(inq) + 1)
      /\ \A i \in DOMAIN inq : inq'[i] = inq[i]
      /\ inq'[Len(inq) + 1] = held
      /\ Len(inq) \in Nat
    BY <1>1
<1>3. TypeOK' /\ Control' /\ Tracks'
    BY <1>1, <1>2, CapAssumption DEF IInv, TypeOK, Control, Tracks
<1>4. Placed'
  <2> SUFFICES ASSUME NEW r \in Requests
               PROVE  (held' = r \/ \E i \in DOMAIN inq' : inq'[i] = r)
                          <=> (held = r \/ \E i \in DOMAIN inq : inq[i] = r)
    BY DEF IInv, Placed
  <2>1. DOMAIN inq \subseteq DOMAIN inq' /\ Len(inq) + 1 \in DOMAIN inq'
    BY <1>2
  <2>2. \A i \in DOMAIN inq' : i \in DOMAIN inq \/ i = Len(inq) + 1
    BY <1>2
  <2> QED
    BY <1>1, <1>2, <2>1, <2>2
<1>5. InOrder'
    BY <1>1, <1>2 DEF IInv, Ordered, InOrder, HeldLast
<1>6. OutFirst' /\ OutOrder'
    BY <1>1, <1>2 DEF IInv, Ordered, OutFirst, OutOrder
<1>7. HandNext' /\ HeldLast' /\ UnsentLast'
    BY <1>1, <1>2 DEF IInv, Ordered, HandNext, HeldLast, UnsentLast
<1> QED
    BY <1>3, <1>4, <1>5, <1>6, <1>7 DEF IInv, Ordered, NothingAnswered

\* The outbound channel without its first message.
LEMMA OutTail ==
    ASSUME TypeOK, outq # <<>>
    PROVE  /\ Tail(outq) \in Seq(Requests \cup {Metrics})
           /\ Len(Tail(outq)) <= OutCap
           /\ DOMAIN outq = 1..Len(outq) /\ Len(outq) \in Nat \ {0}
           /\ DOMAIN Tail(outq) = 1..(Len(outq) - 1)
           /\ \A i \in 1..(Len(outq) - 1) : Tail(outq)[i] = outq[i + 1]
           /\ Head(outq) = outq[1]
           /\ Head(outq) \in Requests \cup {Metrics}
BY CapAssumption DEF TypeOK

\* The first message leaves the outbound channel: answered, or lost.
LEMMA HeadLeaves ==
    ASSUME IInv, outq # <<>>, outq' = Tail(outq),
           NEW how \in {"answered", "lost"}, Ends({Head(outq)}, how),
           UNCHANGED <<held, hand, inq>>
    PROVE  /\ Placed' /\ Ordered'
           /\ fate' \in [Requests -> {"unsent", "inside", "answered", "ignored",
                                      "lost", "dropped"}]
           /\ \A r \in Requests :
                  fate'[r] = "answered" =>
                      fate[r] = "answered" \/ (how = "answered" /\ r = Head(outq))
<1> USE NotRequests
<1>1. TypeOK /\ Placed /\ Ordered
    BY DEF IInv
<1>2. /\ DOMAIN outq = 1..Len(outq) /\ Len(outq) \in Nat \ {0}
      /\ DOMAIN outq' = 1..(Len(outq) - 1)
      /\ \A i \in 1..(Len(outq) - 1) : outq'[i] = outq[i + 1]
      /\ Head(outq) = outq[1]
    BY <1>1, OutTail
<1>3. how \in Over
    BY DEF Over
<1>4. /\ fate' \in [Requests -> {"unsent", "inside", "answered", "ignored",
                                 "lost", "dropped"}]
      /\ \A r \in Requests : /\ r = Head(outq) => fate'[r] = how
                             /\ r # Head(outq) => fate'[r] = fate[r]
    BY <1>1, <1>3, EndsFacts
<1>5. Head(outq) \in Requests => fate[Head(outq)] = "inside"
    BY <1>1, <1>2 DEF Placed
<1>6. Placed'
  <2> SUFFICES ASSUME NEW r \in Requests
               PROVE  fate'[r] = "inside" <=>
                          \/ held = r
                          \/ hand = r
                          \/ \E i \in DOMAIN inq : inq[i] = r
                          \/ \E i \in DOMAIN outq' : outq'[i] = r
    BY DEF Placed
  <2>1. CASE r = Head(outq)
    <3>1. held # r /\ hand # r /\ ~\E i \in DOMAIN inq : inq[i] = r
      BY <1>1, <1>2, <2>1 DEF Ordered, OutFirst, Requests, TypeOK
    <3>2. ~\E i \in DOMAIN outq' : outq'[i] = r
      <4> SUFFICES ASSUME NEW i \in DOMAIN outq', outq'[i] = r
                   PROVE  FALSE
        OBVIOUS
      <4>1. i + 1 \in DOMAIN outq /\ outq[i + 1] = r /\ 1 \in DOMAIN outq /\ 1 < i + 1
        BY <1>2
      <4>2. outq[1] < outq[i + 1]
        BY <1>1, <1>2, <2>1, <4>1 DEF Ordered, OutOrder
      <4> QED
        BY <1>2, <2>1, <4>1, <4>2 DEF Requests
    <3>3. fate'[r] # "inside"
      BY <1>4, <2>1
    <3> QED
      BY <3>1, <3>2, <3>3
  <2>2. CASE r # Head(outq)
    <3>1. fate'[r] = fate[r]
      BY <1>4, <2>2
    <3>2. (\E i \in DOMAIN outq' : outq'[i] = r) <=> (\E i \in DOMAIN outq : outq[i] = r)
      <4>1. ASSUME NEW i \in DOMAIN outq, outq[i] = r
            PROVE  \E k \in DOMAIN outq' : outq'[k] = r
        <5>1. i # 1 /\ i - 1 \in DOMAIN outq' /\ outq'[i - 1] = outq[(i - 1) + 1]
          BY <1>2, <2>2, <4>1
        <5>2. (i - 1) + 1 = i
          BY <1>2
        <5> QED
          BY <4>1, <5>1, <5>2
      <4>2. ASSUME NEW i \in DOMAIN outq', outq'[i] = r
            PROVE  \E k \in DOMAIN outq : outq[k] = r
        <5>1. i + 1 \in DOMAIN outq /\ outq[i + 1] = r
          BY <1>2, <4>2
        <5> QED
          BY <5>1
      <4> QED
        BY <4>1, <4>2
    <3> QED
      BY <1>1, <3>1, <3>2 DEF Placed
  <2> QED
    BY <2>1, <2>2
<1>7. InOrder' /\ HandNext' /\ HeldLast'
    BY <1>1 DEF Ordered, InOrder, HandNext, HeldLast
<1>8. OutOrder'
  <2> SUFFICES ASSUME NEW i \in DOMAIN outq', NEW j \in DOMAIN outq', i < j,
                      outq'[i] \in Requests, outq'[j] \in Requests
               PROVE  outq'[i] < outq'[j]
    BY DEF OutOrder
  <2>1. /\ i + 1 \in DOMAIN outq /\ j + 1 \in DOMAIN outq /\ i + 1 < j + 1
        /\ outq'[i] = outq[i + 1] /\ outq'[j] = outq[j + 1]
    BY <1>2
  <2> QED
    BY <1>1, <2>1 DEF Ordered, OutOrder
<1>9. OutFirst'
  <2> SUFFICES ASSUME NEW i \in DOMAIN outq', outq'[i] \in Requests
               PROVE  /\ hand \in Requests => outq'[i] < hand
                      /\ \A j \in DOMAIN inq : outq'[i] < inq[j]
                      /\ held \in Requests => outq'[i] < held
    BY DEF OutFirst
  <2>1. i + 1 \in DOMAIN outq /\ outq'[i] = outq[i + 1]
    BY <1>2
  <2> QED
    BY <1>1, <2>1 DEF Ordered, OutFirst
<1>10. UnsentLast'
  <2>1. \A r \in Requests : fate'[r] = "unsent" <=> fate[r] = "unsent"
    BY <1>4, <1>5
  <2> QED
    BY <1>1, <2>1 DEF Ordered, UnsentLast
<1> QED
    BY <1>4, <1>6, <1>7, <1>8, <1>9, <1>10 DEF Ordered

\* The only step that answers: nothing inside is earlier than the head.
AnsweredFirst ==
    \A r \in Requests :
        fate'[r] = "answered" /\ fate[r] # "answered" =>
            \A s \in Requests : s < r => fate[s] # "inside"

LEMMA SendNextStep ==
    ASSUME IInv, SendNext
    PROVE  IInv' /\ AnsweredFirst
<1> USE NotRequests DEF SendNext
<1>1. TypeOK /\ Placed /\ Ordered
    BY DEF IInv
<1>2. /\ Placed' /\ Ordered'
      /\ fate' \in [Requests -> {"unsent", "inside", "answered", "ignored",
                                 "lost", "dropped"}]
      /\ \A r \in Requests :
             fate'[r] = "answered" => fate[r] = "answered" \/ r = Head(outq)
    BY HeadLeaves
<1>3. TypeOK' /\ Control' /\ Tracks'
    BY <1>1, <1>2, OutTail DEF IInv, TypeOK, Control, Tracks
<1>4. AnsweredFirst
  <2> SUFFICES ASSUME NEW r \in Requests, r = Head(outq),
                      NEW s \in Requests, s < r, fate[s] = "inside"
               PROVE  FALSE
    BY <1>2 DEF AnsweredFirst
  <2>1. 1 \in DOMAIN outq /\ outq[1] = r /\ DOMAIN outq \subseteq Nat
        /\ \A i \in DOMAIN outq : i = 1 \/ 1 < i
    BY <1>1, OutTail
  <2>2. CASE held = s \/ hand = s \/ \E i \in DOMAIN inq : inq[i] = s
    BY <1>1, <2>1, <2>2 DEF Ordered, OutFirst, Requests
  <2>3. CASE \E i \in DOMAIN outq : outq[i] = s
    BY <1>1, <2>1, <2>3 DEF Ordered, OutOrder, Requests
  <2> QED
    BY <1>1, <2>2, <2>3 DEF Placed
<1> QED
    BY <1>2, <1>3, <1>4 DEF IInv

LEMMA SendNextFailsStep ==
    ASSUME IInv, SendNextFails
    PROVE  IInv' /\ NothingAnswered
<1> USE NotRequests DEF SendNextFails
<1>1. held = NoRequest /\ held' = NoRequest /\ TypeOK
    BY HeldOnlyForwarding DEF IInv
<1>2. CASE shutdown
  <2>1. /\ outq' = <<>> /\ Ends(ToSet(outq) \cap Requests, "dropped")
        /\ UNCHANGED <<held, inq, hand>>
    BY <1>2 DEF ConnReturns
  <2>2. /\ Ordered' /\ Placed' /\ NothingAnswered
        /\ fate' \in [Requests -> {"unsent", "inside", "answered", "ignored",
                                   "lost", "dropped"}]
    BY <2>1, OutboundStaysOrDropsIdle DEF NothingAnswered
  <2>3. conn' = "done" /\ UNCHANGED <<backoff, attempt>>
    BY <1>2 DEF ConnReturns
  <2>4. TypeOK' /\ Control'
    BY <1>1, <2>1, <2>2, <2>3, ConnectionLeaves DEF TypeOK
  <2> QED
    BY <2>2, <2>3, <2>4 DEF IInv, Tracks
<1>3. CASE ~shutdown
  <2>1. /\ Placed' /\ Ordered' /\ NothingAnswered
        /\ fate' \in [Requests -> {"unsent", "inside", "answered", "ignored",
                                   "lost", "dropped"}]
    BY <1>3, HeadLeaves DEF NothingAnswered
  <2>2. conn' = "sleeping" /\ UNCHANGED <<backoff, attempt>> /\ outq' = Tail(outq)
    BY <1>3
  <2>3. TypeOK' /\ Control' /\ Tracks'
    BY <1>1, <2>1, <2>2, OutTail DEF IInv, TypeOK, Control, Tracks
  <2> QED
    BY <2>1, <2>3 DEF IInv
<1> QED
    BY <1>2, <1>3

\* The dispatcher returns: what is queued for it, and in its hand, is dropped.
LEMMA InboundDrops ==
    ASSUME IInv, NEW gone \in SUBSET Requests,
           inq' = <<>>, Ends(ToSet(inq) \cup gone, "dropped"),
           \/ gone = {} /\ hand' = hand
           \/ gone = {hand} /\ hand' = NoRequest,
           UNCHANGED <<outq, held>>
    PROVE  /\ Ordered' /\ Placed' /\ NothingAnswered
           /\ fate' \in [Requests -> {"unsent", "inside", "answered", "ignored",
                                      "lost", "dropped"}]
<1> USE NotRequests
<1>1. TypeOK /\ Placed /\ Ordered
    BY DEF IInv
<1> DEFINE rs == ToSet(inq) \cup gone
<1>2. \A r \in rs : r \in Requests /\ fate[r] = "inside"
    BY <1>1, AllInside
<1>3. "dropped" \in Over
    BY DEF Over
<1>4. /\ fate' \in [Requests -> {"unsent", "inside", "answered", "ignored",
                                 "lost", "dropped"}]
      /\ \A r \in Requests : /\ r \in rs => fate'[r] = "dropped"
                             /\ r \notin rs => fate'[r] = fate[r]
    BY <1>1, <1>3, EndsFacts
<1>5. \A r \in Requests : fate'[r] = "unsent" <=> fate[r] = "unsent"
    BY <1>2, <1>4
<1>6. Ordered'
  <2>1. inq' \in {inq, <<>>} /\ outq' \in {outq, <<>>}
    OBVIOUS
  <2>2. held' \in {held, NoRequest} /\ hand' \in {hand, NoRequest}
    OBVIOUS
  <2> QED
    BY <1>1, <1>5, <2>1, <2>2, OrderWhenTakenAway
<1>7. Placed'
  <2> SUFFICES ASSUME NEW r \in Requests
               PROVE  fate'[r] = "inside" <=>
                          \/ held = r
                          \/ hand' = r
                          \/ \E i \in DOMAIN outq : outq[i] = r
    BY DEF Placed
  <2>1. CASE r \in ToSet(inq)
    <3>1. PICK i \in DOMAIN inq : inq[i] = r
      BY <2>1 DEF ToSet
    <3>2. held # r /\ hand # r /\ ~\E j \in DOMAIN outq : outq[j] = r
      BY <1>1, <3>1 DEF Ordered, OutFirst, HandNext, HeldLast, Requests
    <3> QED
      BY <1>4, <2>1, <3>2
  <2>2. CASE r \in gone
    <3>1. r = hand /\ hand' # r
      BY <2>2
    <3>2. held # r /\ ~\E j \in DOMAIN outq : outq[j] = r
      BY <1>1, <3>1 DEF Ordered, OutFirst, HandNext, Requests
    <3> QED
      BY <1>4, <2>2, <3>1, <3>2
  <2>3. CASE r \notin rs
    <3>1. fate'[r] = fate[r] /\ ~\E i \in DOMAIN inq : inq[i] = r
      BY <1>4, <2>3 DEF ToSet
    <3>2. hand' = r <=> hand = r
      BY <2>3
    <3> QED
      BY <1>1, <3>1, <3>2 DEF Placed
  <2> QED
    BY <2>1, <2>2, <2>3
<1> QED
    BY <1>4, <1>6, <1>7 DEF NothingAnswered

LEMMA DispReturnsStep ==
    ASSUME IInv, DispShutdown \/ DispReplyFails
    PROVE  IInv' /\ NothingAnswered
<1> USE NotRequests DEF DispShutdown, DispReplyFails, connVars
<1>1. /\ Ordered' /\ Placed' /\ NothingAnswered
      /\ fate' \in [Requests -> {"unsent", "inside", "answered", "ignored",
                                 "lost", "dropped"}]
  <2>1. CASE DispShutdown
    <3> DEFINE gone == {}
    <3>1. gone \in SUBSET Requests /\ gone = {} /\ ToSet(inq) \cup gone = ToSet(inq)
      OBVIOUS
    <3> HIDE DEF gone
    <3>2. /\ inq' = <<>> /\ Ends(ToSet(inq) \cup gone, "dropped")
          /\ hand' = hand /\ UNCHANGED <<outq, held>>
      BY <2>1, <3>1
    <3> QED
      BY <3>1, <3>2, InboundDrops
  <2>2. CASE DispReplyFails
    <3> DEFINE gone == {hand}
    <3>1. gone \in SUBSET Requests /\ gone = {hand}
      BY <2>2 DEF IInv, Control
    <3>2. Ends(ToSet(inq) \cup gone, "dropped")
      BY <2>2
    <3> HIDE DEF gone
    <3>3. /\ inq' = <<>> /\ hand' = NoRequest /\ UNCHANGED <<outq, held>>
      BY <2>2
    <3> QED
      BY <3>1, <3>2, <3>3, InboundDrops
  <2> QED
    BY <2>1, <2>2
<1>2. inq' \in Seq(Requests) /\ Len(inq') <= InCap
  <2>1. inq' = <<>>
    OBVIOUS
  <2> QED
    BY <2>1, CapAssumption
<1>3. TypeOK'
    BY <1>1, <1>2 DEF IInv, TypeOK
<1>4. Control' /\ Tracks'
    BY DEF IInv, TypeOK, Control, Tracks
<1> QED
    BY <1>1, <1>3, <1>4 DEF IInv

LEMMA DispTakeStep ==
    ASSUME IInv, DispTake
    PROVE  IInv' /\ NothingAnswered
<1> USE NotRequests DEF DispTake, connVars
<1>1. TypeOK /\ Placed /\ Ordered /\ hand = NoRequest
    BY DEF IInv, TypeOK, Control
<1>2. /\ inq' \in Seq(Requests) /\ Len(inq') <= InCap
      /\ DOMAIN inq = 1..Len(inq) /\ Len(inq) \in Nat \ {0}
      /\ DOMAIN inq' = 1..(Len(inq) - 1)
      /\ \A i \in 1..(Len(inq) - 1) : inq'[i] = inq[i + 1]
      /\ hand' = inq[1] /\ hand' \in Requests
    BY <1>1, CapAssumption DEF TypeOK
<1>3. TypeOK'
    BY <1>1, <1>2 DEF TypeOK
<1>4. Control' /\ Tracks'
    BY <1>2 DEF IInv, Control, Tracks
<1>5. Placed'
  <2> SUFFICES ASSUME NEW r \in Requests
               PROVE  (hand' = r \/ \E i \in DOMAIN inq' : inq'[i] = r)
                          <=> \E i \in DOMAIN inq : inq[i] = r
    BY <1>1 DEF Placed
  <2>1. ASSUME NEW i \in DOMAIN inq, inq[i] = r, i # 1
        PROVE  \E k \in DOMAIN inq' : inq'[k] = r
    <3>1. i - 1 \in DOMAIN inq' /\ inq'[i - 1] = inq[(i - 1) + 1] /\ (i - 1) + 1 = i
      BY <1>2, <2>1
    <3> QED
      BY <2>1, <3>1
  <2>2. ASSUME NEW i \in DOMAIN inq', inq'[i] = r
        PROVE  \E k \in DOMAIN inq : inq[k] = r
    <3>1. i + 1 \in DOMAIN inq /\ inq[i + 1] = r
      BY <1>2, <2>2
    <3> QED
      BY <3>1
  <2>3. 1 \in DOMAIN inq
    BY <1>2
  <2> QED
    BY <1>2, <2>1, <2>2, <2>3
<1>6. \A i \in DOMAIN inq' : i + 1 \in DOMAIN inq /\ inq'[i] = inq[i + 1]
    BY <1>2
<1>7. 1 \in DOMAIN inq /\ \A i \in DOMAIN inq' : 1 < i + 1
    BY <1>2
<1>8. InOrder'
  <2> SUFFICES ASSUME NEW i \in DOMAIN inq', NEW j \in DOMAIN inq', i < j
               PROVE  inq'[i] < inq'[j]
    BY DEF InOrder
  <2>1. i + 1 < j + 1
    BY <1>2
  <2> QED
    BY <1>1, <1>6, <2>1 DEF Ordered, InOrder
<1>9. OutOrder' /\ OutFirst'
    BY <1>1, <1>2, <1>6, <1>7 DEF Ordered, OutOrder, OutFirst
<1>10. HandNext' /\ HeldLast' /\ UnsentLast'
    BY <1>1, <1>2, <1>6, <1>7 DEF Ordered, InOrder, HandNext, HeldLast, UnsentLast
<1> QED
    BY <1>3, <1>4, <1>5, <1>8, <1>9, <1>10 DEF IInv, Ordered, NothingAnswered

LEMMA DispHandledStep ==
    ASSUME IInv, DispHandled
    PROVE  IInv' /\ NothingAnswered
<1> USE NotRequests DEF DispHandled, connVars
<1>1. TypeOK /\ Placed /\ Ordered /\ Control /\ hand \in Requests
    BY DEF IInv, Control
<1>2. CASE disp' = "replying" /\ UNCHANGED <<hand, fate>>
  <2>1. TypeOK' /\ Control' /\ Tracks'
    BY <1>2 DEF IInv, TypeOK, Control, Tracks
  <2>2. Placed' /\ Ordered'
    BY <1>1, <1>2 DEF Placed, Ordered, InOrder, OutOrder, OutFirst, HandNext,
                      HeldLast, UnsentLast
  <2> QED
    BY <1>2, <2>1, <2>2 DEF IInv, NothingAnswered
<1>3. CASE disp' = "idle" /\ hand' = NoRequest /\ Ends({hand}, "ignored")
  <2>1. "ignored" \in Over
    BY DEF Over
  <2>2. /\ fate' \in [Requests -> {"unsent", "inside", "answered", "ignored",
                                   "lost", "dropped"}]
        /\ fate'[hand] = "ignored"
        /\ \A r \in Requests : r # hand => fate'[r] = fate[r]
    BY <1>1, <1>3, <2>1, EndsFacts
  <2>3. TypeOK' /\ Control' /\ Tracks'
    BY <1>3, <2>2 DEF IInv, TypeOK, Control, Tracks
  <2>4. fate[hand] = "inside"
    BY <1>1 DEF Placed
  <2>5. Ordered'
    <3>1. \A r \in Requests : fate'[r] = "unsent" <=> fate[r] = "unsent"
      BY <2>2, <2>4
    <3>2. inq' \in {inq, <<>>} /\ outq' \in {outq, <<>>}
      OBVIOUS
    <3>3. held' \in {held, NoRequest} /\ hand' \in {hand, NoRequest}
      BY <1>3
    <3> QED
      BY <1>1, <3>1, <3>2, <3>3, OrderWhenTakenAway
  <2>6. Placed'
    <3> SUFFICES ASSUME NEW r \in Requests
                 PROVE  fate'[r] = "inside" <=>
                            \/ held = r
                            \/ \E i \in DOMAIN inq : inq[i] = r
                            \/ \E i \in DOMAIN outq : outq[i] = r
      BY <1>3 DEF Placed
    <3>1. CASE r = hand
      <4>1. held # r /\ ~\E i \in DOMAIN inq : inq[i] = r
        BY <1>1, <3>1 DEF Ordered, HandNext, Requests
      <4>2. ~\E i \in DOMAIN outq : outq[i] = r
        BY <1>1, <3>1 DEF Ordered, OutFirst, Requests
      <4> QED
        BY <2>2, <3>1, <4>1, <4>2
    <3>2. CASE r # hand
      BY <1>1, <2>2, <3>2 DEF Placed
    <3> QED
      BY <3>1, <3>2
  <2> QED
    BY <2>2, <2>3, <2>5, <2>6 DEF IInv, NothingAnswered
<1> QED
    BY <1>2, <1>3

\* A message at the end of the outbound channel.
LEMMA OutAppend ==
    ASSUME TypeOK, NEW m \in Requests \cup {Metrics}, Len(outq) < OutCap
    PROVE  /\ Append(outq, m) \in Seq(Requests \cup {Metrics})
           /\ Len(Append(outq, m)) <= OutCap
           /\ Len(outq) \in Nat
           /\ DOMAIN outq = 1..Len(outq)
           /\ DOMAIN Append(outq, m) = 1..(Len(outq) + 1)
           /\ \A i \in DOMAIN outq : Append(outq, m)[i] = outq[i]
           /\ Append(outq, m)[Len(outq) + 1] = m
BY CapAssumption DEF TypeOK

LEMMA DispReplyStep ==
    ASSUME IInv, DispReply
    PROVE  IInv' /\ NothingAnswered
<1> USE NotRequests DEF DispReply, connVars
<1>1. TypeOK /\ Placed /\ Ordered /\ Control /\ hand \in Requests
    BY DEF IInv, Control
<1>2. /\ outq' \in Seq(Requests \cup {Metrics}) /\ Len(outq') <= OutCap
      /\ Len(outq) \in Nat /\ DOMAIN outq = 1..Len(outq)
      /\ DOMAIN outq' = 1..(Len(outq) + 1)
      /\ \A i \in DOMAIN outq : outq'[i] = outq[i]
      /\ outq'[Len(outq) + 1] = hand
    BY <1>1, OutAppend
<1>3. TypeOK' /\ Control' /\ Tracks'
    BY <1>2 DEF IInv, TypeOK, Control, Tracks
<1>4. \A i \in DOMAIN outq' : i \in DOMAIN outq \/ i = Len(outq) + 1
    BY <1>2
<1>5. DOMAIN outq \subseteq DOMAIN outq' /\ Len(outq) + 1 \in DOMAIN outq'
    BY <1>2
<1>6. Placed'
    BY <1>1, <1>2, <1>4, <1>5 DEF Placed
<1>7. InOrder' /\ HeldLast' /\ UnsentLast' /\ HandNext'
    BY <1>1 DEF Ordered, InOrder, HeldLast, UnsentLast, HandNext
<1>8. OutFirst'
    BY <1>1, <1>2, <1>4 DEF Ordered, OutFirst, HandNext
<1>9. OutOrder'
    BY <1>1, <1>2, <1>4 DEF Ordered, OutOrder, OutFirst
<1> QED
    BY <1>3, <1>6, <1>7, <1>8, <1>9 DEF IInv, Ordered, NothingAnswered

LEMMA CollSendStep ==
    ASSUME IInv, CollSend
    PROVE  IInv' /\ NothingAnswered
<1> USE NotRequests DEF CollSend, connVars
<1>1. TypeOK /\ Placed /\ Ordered /\ Control
    BY DEF IInv
<1>2. CASE conn = "done"
  <2>1. UNCHANGED <<held, hand, inq, outq, fate, disp, conn, backoff, attempt>>
    BY <1>2
  <2>2. TypeOK' /\ Control' /\ Tracks'
    BY <1>2 DEF IInv, TypeOK, Control, Tracks
  <2>3. Placed' /\ Ordered'
    BY <1>1, <2>1 DEF Placed, Ordered, InOrder, OutOrder, OutFirst, HandNext,
                      HeldLast, UnsentLast
  <2> QED
    BY <2>1, <2>2, <2>3 DEF IInv, NothingAnswered
<1>3. CASE conn # "done"
  <2>1. /\ outq' \in Seq(Requests \cup {Metrics}) /\ Len(outq') <= OutCap
        /\ Len(outq) \in Nat /\ DOMAIN outq = 1..Len(outq)
        /\ DOMAIN outq' = 1..(Len(outq) + 1)
        /\ \A i \in DOMAIN outq : outq'[i] = outq[i]
        /\ outq'[Len(outq) + 1] = Metrics
    BY <1>1, <1>3, OutAppend
  <2>2. TypeOK' /\ Control' /\ Tracks'
    BY <1>3, <2>1 DEF IInv, TypeOK, Control, Tracks
  <2>3. \A i \in DOMAIN outq' : i \in DOMAIN outq \/ outq'[i] = Metrics
    BY <2>1
  <2>4. DOMAIN outq \subseteq DOMAIN outq'
    BY <2>1
  <2>5. Placed'
    BY <1>1, <2>1, <2>3, <2>4 DEF Placed
  <2>6. InOrder' /\ HeldLast' /\ UnsentLast' /\ HandNext'
    BY <1>1 DEF Ordered, InOrder, HeldLast, UnsentLast, HandNext
  <2>7. OutFirst' /\ OutOrder'
    BY <1>1, <2>1, <2>3 DEF Ordered, OutFirst, OutOrder
  <2> QED
    BY <2>2, <2>5, <2>6, <2>7 DEF IInv, Ordered, NothingAnswered
<1> QED
    BY <1>2, <1>3

-----------------------------------------------------------------------------
(* The theorems *)

LEMMA NextIInv ==
    ASSUME IInv, [Next]_vars
    PROVE  IInv' /\ AnsweredFirst
<1>1. NothingAnswered => AnsweredFirst
    BY DEF NothingAnswered, AnsweredFirst
<1>2. CASE Signal \/ Join \/ Stopped \/ CollShutdown \/ CollTick \/ Proceed
    BY <1>1, <1>2, QuietStep
<1>3. CASE ConnectFails \/ SessionEnds \/ ConnShutdown
    BY <1>1, <1>3, LeaveStep
<1>4. CASE WakeUp
    BY <1>1, <1>4, WakeUpStep
<1>5. CASE Forward \/ ForwardFails
    BY <1>1, <1>5, ForwardStep, ForwardFailsStep
<1>6. CASE SendNext \/ SendNextFails
    BY <1>1, <1>6, SendNextStep, SendNextFailsStep
<1>7. CASE \E r \in Requests : Receive(r)
    BY <1>1, <1>7, ReceiveStep
<1>8. CASE DispShutdown \/ DispReplyFails
    BY <1>1, <1>8, DispReturnsStep
<1>9. CASE DispTake \/ DispHandled \/ DispReply
    BY <1>1, <1>9, DispTakeStep, DispHandledStep, DispReplyStep
<1>10. CASE CollSend
    BY <1>1, <1>10, CollSendStep
<1>11. CASE UNCHANGED vars
    BY <1>1, <1>11, QuietStep DEF Stopped, vars, IInv, TypeOK, Control, Placed, Ordered,
       InOrder, OutOrder, OutFirst, HandNext, HeldLast, UnsentLast, Tracks,
       NothingAnswered
<1> QED
    BY <1>2, <1>3, <1>4, <1>5, <1>6, <1>7, <1>8, <1>9, <1>10, <1>11
    DEF Next, Connection, Dispatch, Collect

\* The invariant holds in every reachable state of the tasks.
THEOREM Invariance == Spec => []IInv
<1>1. Init => IInv
    BY InitIInv
<1>2. IInv /\ [Next]_vars => IInv'
    BY NextIInv
<1> QED
    BY <1>1, <1>2, PTL DEF Spec

\* The variables keep their types; in particular neither channel ever holds more
\* than its capacity, whoever sends.
THEOREM TypeCorrect == Spec => []TypeOK
<1>1. IInv => TypeOK
    BY DEF IInv
<1> QED
    BY <1>1, Invariance, PTL

\* In a channel whose requests are in order one is in one place at most.
LEMMA OneIndex ==
    ASSUME NEW q, NEW r, IsFiniteSet(DOMAIN q),
           \A i, j \in DOMAIN q : q[i] = r /\ q[j] = r => i = j
    PROVE  Cardinality({i \in DOMAIN q : q[i] = r})
               = IF \E i \in DOMAIN q : q[i] = r THEN 1 ELSE 0
<1>1. CASE \E i \in DOMAIN q : q[i] = r
  <2>1. PICK i \in DOMAIN q : q[i] = r
    BY <1>1
  <2>2. {k \in DOMAIN q : q[k] = r} = {i}
    BY <2>1
  <2>3. Cardinality({i}) = 1
    BY FS_Singleton
  <2> QED
    BY <1>1, <2>2, <2>3
<1>2. CASE ~\E i \in DOMAIN q : q[i] = r
  <2>1. {k \in DOMAIN q : q[k] = r} = {}
    BY <1>2
  <2> QED
    BY <1>2, <2>1, FS_EmptySet
<1> QED
    BY <1>1, <1>2

LEMMA PlacesAreOne == IInv => Conserved
<1> SUFFICES ASSUME IInv, NEW r \in Requests
             PROVE  Places(r) = IF fate[r] = "inside" THEN 1 ELSE 0
    BY DEF Conserved
<1> DEFINE InIn == \E i \in DOMAIN inq : inq[i] = r
           InOut == \E i \in DOMAIN outq : outq[i] = r
<1>1. /\ TypeOK /\ Placed /\ InOrder /\ OutOrder /\ OutFirst /\ HandNext /\ HeldLast
    BY DEF IInv, Ordered
<1>2. /\ DOMAIN inq = 1..Len(inq) /\ Len(inq) \in Nat
      /\ DOMAIN outq = 1..Len(outq) /\ Len(outq) \in Nat
    BY <1>1 DEF TypeOK
<1>3. IsFiniteSet(DOMAIN inq) /\ IsFiniteSet(DOMAIN outq)
    BY <1>2, FS_Interval
<1>4. r \in Nat
    BY DEF Requests
<1>5. \A i, j \in DOMAIN inq : inq[i] = r /\ inq[j] = r => i = j
    BY <1>1, <1>2, <1>4 DEF InOrder
<1>6. \A i, j \in DOMAIN outq : outq[i] = r /\ outq[j] = r => i = j
    BY <1>1, <1>2, <1>4 DEF OutOrder
<1>7. Cardinality({i \in DOMAIN inq : inq[i] = r}) = IF InIn THEN 1 ELSE 0
    BY <1>3, <1>5, OneIndex
<1>8. Cardinality({i \in DOMAIN outq : outq[i] = r}) = IF InOut THEN 1 ELSE 0
    BY <1>3, <1>6, OneIndex
<1>9. /\ ~(held = r /\ hand = r) /\ ~(held = r /\ InIn) /\ ~(held = r /\ InOut)
      /\ ~(hand = r /\ InIn) /\ ~(hand = r /\ InOut)
    BY <1>1, <1>4 DEF HandNext, HeldLast, OutFirst
<1>10. ~(InIn /\ InOut)
    BY <1>1, <1>4 DEF OutFirst
<1>11. fate[r] = "inside" <=> held = r \/ hand = r \/ InIn \/ InOut
    BY <1>1 DEF Placed
<1>12. Places(r) = (IF held = r THEN 1 ELSE 0) + (IF hand = r THEN 1 ELSE 0)
                   + (IF InIn THEN 1 ELSE 0) + (IF InOut THEN 1 ELSE 0)
    BY <1>7, <1>8 DEF Places
<1> HIDE DEF InIn, InOut
<1> QED
    BY <1>9, <1>10, <1>11, <1>12

\* Whatever the capacities: a request the agent has accepted is in exactly one
\* place until it ends, and in none after.
THEOREM NothingDoubledOrForgotten == Spec => []Conserved
    BY PlacesAreOne, Invariance, PTL

\* Whatever the maximum: while the connection pauses, the pause is the power of
\* two that its attempts ask for, or the maximum.
THEOREM PausesDouble == Spec => []BackoffTracksAttempts
<1>1. IInv => BackoffTracksAttempts
    BY DEF IInv, Tracks, BackoffTracksAttempts
<1> QED
    BY <1>1, Invariance, PTL

\* Answers leave in the order the requests came in: when one leaves, nothing
\* received before it is still inside.
THEOREM AnswersInOrder == Spec => AnsweredInOrder
<1>1. IInv /\ [Next]_vars =>
          [\A i, j \in Requests :
              i < j /\ fate[j] # "answered" /\ fate'[j] = "answered"
                 => fate[i] # "inside"]_vars
    BY NextIInv DEF AnsweredFirst
<1> QED
    BY <1>1, Invariance, PTL DEF Spec, AnsweredInOrder

-----------------------------------------------------------------------------
(* Full channels.  What is inside is held, in hand or in a channel, and      *)
(* nowhere twice, so the places bound it and full places count it.           *)

Held == {held} \cap Requests
Hand == {hand} \cap Requests
Inbound == {inq[i] : i \in DOMAIN inq}
Outbound == {outq[i] : i \in DOMAIN outq} \cap Requests

\* What a sequence holds: as many as it is long, if nothing is in it twice.
LEMMA RangeSize ==
    ASSUME NEW S, NEW q \in Seq(S)
    PROVE  LET R == {q[i] : i \in DOMAIN q}
           IN  /\ IsFiniteSet(R) /\ Cardinality(R) <= Len(q)
               /\ (\A i, j \in DOMAIN q : q[i] = q[j] => i = j)
                      => Cardinality(R) = Len(q)
<1> DEFINE R == {q[i] : i \in DOMAIN q}
           f == [i \in 1..Len(q) |-> q[i]]
<1>1. Len(q) \in Nat /\ DOMAIN q = 1..Len(q)
    OBVIOUS
<1>2. IsFiniteSet(1..Len(q)) /\ Cardinality(1..Len(q)) = Len(q)
    BY <1>1, FS_Interval
<1>3. f \in Surjection(1..Len(q), R)
    BY <1>1 DEF Surjection
<1>4. (\A i, j \in DOMAIN q : q[i] = q[j] => i = j) =>
          f \in Injection(1..Len(q), R)
    BY <1>1 DEF Injection, IsInjective
<1> HIDE DEF f, R
<1>5. /\ IsFiniteSet(R) /\ Cardinality(R) <= Len(q)
      /\ Cardinality(R) = Len(q) <=> f \in Injection(1..Len(q), R)
    BY <1>2, <1>3, FS_Surjection
<1> QED
    BY <1>4, <1>5 DEF R

LEMMA AtMostOne ==
    ASSUME NEW x, NEW S
    PROVE  /\ IsFiniteSet({x} \cap S)
           /\ Cardinality({x} \cap S) = IF x \in S THEN 1 ELSE 0
<1>1. CASE x \in S
    <2>1. {x} \cap S = {x}
        BY <1>1
    <2> QED
        BY <1>1, <2>1, FS_Singleton
<1>2. CASE x \notin S
    <2>1. {x} \cap S = {}
        BY <1>2
    <2> QED
        BY <1>2, <2>1, FS_EmptySet
<1> QED
    BY <1>1, <1>2

LEMMA DisjointUnion ==
    ASSUME NEW S, NEW T, IsFiniteSet(S), IsFiniteSet(T), S \cap T = {}
    PROVE  /\ IsFiniteSet(S \cup T)
           /\ Cardinality(S \cup T) = Cardinality(S) + Cardinality(T)
<1>1. Cardinality(S) \in Nat /\ Cardinality(T) \in Nat
    BY FS_CardinalityType
<1> QED
    BY <1>1, FS_Union, FS_EmptySet

\* The places of a request, counted.
LEMMA InsideCounted ==
    ASSUME IInv
    PROVE  /\ IsFiniteSet(Inside) /\ Cardinality(Inside) \in Nat
           /\ \E o \in 0..Len(outq) :
                  Cardinality(Inside) =
                      (IF held \in Requests THEN 1 ELSE 0)
                      + (IF hand \in Requests THEN 1 ELSE 0) + Len(inq) + o
<1>1. /\ TypeOK /\ Placed /\ InOrder /\ OutOrder /\ OutFirst /\ HandNext /\ HeldLast
    BY DEF IInv, Ordered
<1>2. /\ inq \in Seq(Requests) /\ outq \in Seq(Requests \cup {Metrics})
      /\ Len(inq) \in Nat /\ Len(outq) \in Nat
      /\ \A i \in DOMAIN inq : inq[i] \in Requests
    BY <1>1 DEF TypeOK
<1>3. Requests \subseteq Nat
    BY DEF Requests
<1>4. /\ IsFiniteSet(Held) /\ Cardinality(Held) = IF held \in Requests THEN 1 ELSE 0
      /\ IsFiniteSet(Hand) /\ Cardinality(Hand) = IF hand \in Requests THEN 1 ELSE 0
    BY AtMostOne DEF Held, Hand
<1>5. IsFiniteSet(Inbound) /\ Cardinality(Inbound) = Len(inq)
    <2>1. \A i, j \in DOMAIN inq : inq[i] = inq[j] => i = j
        <3>1. DOMAIN inq = 1..Len(inq)
            BY <1>2
        <3>2. ASSUME NEW i \in DOMAIN inq, NEW j \in DOMAIN inq, i < j
              PROVE  inq[i] # inq[j]
            <4>1. inq[i] < inq[j] /\ inq[i] \in Nat /\ inq[j] \in Nat
                BY <1>1, <1>2, <1>3, <3>2 DEF InOrder
            <4> QED
                BY <4>1
        <3>3. ASSUME NEW i \in DOMAIN inq, NEW j \in DOMAIN inq, i # j
              PROVE  i < j \/ j < i
            BY <1>2, <3>1, <3>3
        <3> QED
            BY <3>2, <3>3
    <2> QED
        BY <1>2, <2>1, RangeSize DEF Inbound
<1>6. IsFiniteSet(Outbound) /\ Cardinality(Outbound) \in 0..Len(outq)
    <2> DEFINE R == {outq[i] : i \in DOMAIN outq}
    <2>1. IsFiniteSet(R) /\ Cardinality(R) <= Len(outq)
        BY <1>2, RangeSize
    <2>2. Outbound \in SUBSET R
        BY DEF Outbound
    <2> HIDE DEF R
    <2>3. /\ IsFiniteSet(Outbound) /\ Cardinality(Outbound) <= Cardinality(R)
        BY <2>1, <2>2, FS_Subset
    <2>4. Cardinality(Outbound) \in Nat /\ Cardinality(R) \in Nat
        BY <2>1, <2>3, FS_CardinalityType
    <2> QED
        BY <1>2, <2>1, <2>3, <2>4
<1>7. Inside = ((Held \cup Hand) \cup Inbound) \cup Outbound
    BY <1>1, <1>2 DEF Inside, Placed, Held, Hand, Inbound, Outbound
<1>8. /\ Held \cap Hand = {} /\ (Held \cup Hand) \cap Inbound = {}
      /\ ((Held \cup Hand) \cup Inbound) \cap Outbound = {}
    <2>1. \A r \in Requests : ~(r < r)
        BY <1>3
    <2>2. Held \cap Hand = {}
        BY <1>1, <2>1 DEF Held, Hand, HandNext
    <2>3. Held \cap Inbound = {} /\ Hand \cap Inbound = {}
        BY <1>1, <1>2, <2>1 DEF Held, Hand, Inbound, HandNext, HeldLast
    <2>4. ASSUME NEW r \in Outbound
          PROVE  r \notin Held /\ r \notin Hand /\ r \notin Inbound
        BY <1>1, <1>2, <2>1 DEF Held, Hand, Inbound, Outbound, OutFirst
    <2> QED
        BY <2>2, <2>3, <2>4
<1>9. /\ IsFiniteSet(Held \cup Hand)
      /\ Cardinality(Held \cup Hand) = Cardinality(Held) + Cardinality(Hand)
    BY <1>4, <1>8, DisjointUnion
<1>10. /\ IsFiniteSet((Held \cup Hand) \cup Inbound)
       /\ Cardinality((Held \cup Hand) \cup Inbound)
              = Cardinality(Held \cup Hand) + Cardinality(Inbound)
    BY <1>5, <1>8, <1>9, DisjointUnion
<1>11. /\ IsFiniteSet(Inside)
       /\ Cardinality(Inside)
              = Cardinality((Held \cup Hand) \cup Inbound) + Cardinality(Outbound)
    BY <1>6, <1>7, <1>8, <1>10, DisjointUnion
<1>12. Cardinality(Inside) =
           (IF held \in Requests THEN 1 ELSE 0)
           + (IF hand \in Requests THEN 1 ELSE 0) + Len(inq) + Cardinality(Outbound)
    BY <1>4, <1>5, <1>9, <1>10, <1>11
<1>13. Cardinality(Inside) \in Nat
    BY <1>11, FS_CardinalityType
<1> QED
    BY <1>6, <1>11, <1>12, <1>13

\* In a circle both hands and the inbound channel are full, of InCap + 2
\* requests.
LEMMA CircleIsFull == IInv => NoCircularWait
<1> SUFFICES ASSUME IInv, CircularWait, Cardinality(Inside) <= InCap + 1
             PROVE  FALSE
    BY DEF NoCircularWait
<1>1. held \in Requests /\ hand \in Requests /\ Len(inq) = InCap
    BY DEF IInv, Control, CircularWait
<1>2. PICK o \in 0..Len(outq) : Cardinality(Inside) = 1 + 1 + Len(inq) + o
    BY <1>1, InsideCounted
<1>3. o \in Nat /\ InCap \in Nat
    BY CapAssumption DEF IInv, TypeOK
<1> QED
    BY <1>1, <1>2, <1>3

\* Whatever the capacities, and however the metrics fill the outbound channel:
\* connection and dispatcher cannot wait for each other until InCap + 2 requests
\* are unfinished.
THEOREM TheCircleNeedsRequests == Spec => []NoCircularWait
BY CircleIsFull, Invariance, PTL

\* The agent never has more unfinished requests than its channels hold and two:
\* the rest stays in the socket.
THEOREM Backpressure == Spec => [](Cardinality(Inside) <= InCap + OutCap + 2)
<1>1. ASSUME IInv PROVE Cardinality(Inside) <= InCap + OutCap + 2
    <2>1. PICK o \in 0..Len(outq) :
              Cardinality(Inside) = (IF held \in Requests THEN 1 ELSE 0)
                  + (IF hand \in Requests THEN 1 ELSE 0) + Len(inq) + o
        BY <1>1, InsideCounted
    <2>2. /\ Len(inq) \in Nat /\ Len(inq) <= InCap /\ InCap \in Nat
          /\ Len(outq) \in Nat /\ Len(outq) <= OutCap /\ OutCap \in Nat
        BY <1>1, CapAssumption DEF IInv, TypeOK
    <2> QED
        BY <2>1, <2>2
<1> QED
    BY <1>1, Invariance, PTL

-----------------------------------------------------------------------------
(* After the signal.  A task moves unless it waits for room in a channel     *)
(* whose reader is still there.                                              *)

ConnMoves ==
    \/ conn \in {"connecting", "auth", "running", "sleeping"}
    \/ conn = "forwarding" /\ (disp = "done" \/ Len(inq) < InCap)
DispMoves ==
    \/ disp \in {"idle", "handling"}
    \/ disp = "replying" /\ (conn = "done" \/ Len(outq) < OutCap)
CollMoves ==
    \/ coll = "waiting"
    \/ coll = "sending" /\ (conn = "done" \/ Len(outq) < OutCap)
AllDone == conn = "done" /\ disp = "done" /\ coll = "done"

\* Nothing but the circle keeps the agent from stopping: once the signal is
\* there, a task can move or all have returned, unless connection and dispatcher
\* wait for each other, which InCap + 1 unfinished requests are too few for.
THEOREM OnlyTheCircleStops ==
    Spec => [](main = "joining" =>
                  \/ ConnMoves \/ DispMoves \/ CollMoves \/ AllDone
                  \/ CircularWait /\ Cardinality(Inside) > InCap + 1)
<1>1. ASSUME IInv, ~ConnMoves, ~DispMoves, ~CollMoves, ~AllDone
      PROVE  CircularWait
    <2>1. /\ Len(inq) \in Nat /\ Len(inq) <= InCap /\ InCap \in Nat
          /\ Len(outq) \in Nat /\ Len(outq) <= OutCap /\ OutCap \in Nat
        BY <1>1, CapAssumption DEF IInv, TypeOK
    <2>2. conn \in {"forwarding", "done"}
        BY <1>1 DEF IInv, TypeOK, ConnMoves
    <2>3. disp \in {"replying", "done"} /\ coll \in {"sending", "done"}
        BY <1>1 DEF IInv, TypeOK, DispMoves, CollMoves
    <2>4. conn # "done"
        BY <1>1, <2>3 DEF DispMoves, CollMoves, AllDone
    <2>5. conn = "forwarding" /\ disp = "replying"
        BY <1>1, <2>2, <2>3, <2>4 DEF ConnMoves
    <2> QED
        BY <1>1, <2>1, <2>5 DEF ConnMoves, DispMoves, CircularWait
<1>2. ASSUME IInv, CircularWait
      PROVE  Cardinality(Inside) > InCap + 1
    BY <1>2, CircleIsFull, InsideCounted, CapAssumption DEF NoCircularWait
<1>3. IInv => (main = "joining" =>
                  \/ ConnMoves \/ DispMoves \/ CollMoves \/ AllDone
                  \/ CircularWait /\ Cardinality(Inside) > InCap + 1)
    BY <1>1, <1>2
<1> QED
    BY <1>3, Invariance, PTL

=============================================================================
