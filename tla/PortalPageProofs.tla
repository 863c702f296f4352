-------------------------- MODULE PortalPageProofs --------------------------
(***************************************************************************)
(* What holds of a page of the portal for any pages, devices, saves and    *)
(* bounds.  The inductive invariant adds to the properties what a page     *)
(* that is not loaded has forgotten (Forgotten), that two answers on their *)
(* way are known to overlap (Overlapping), that only an open form has a    *)
(* draft (Drafts) and that a save which was applied is not ahead of the    *)
(* server, nor of what its refetch may bring (SavesKnown).                 *)
(***************************************************************************)
EXTENDS Portal, SequenceTheorems, TLAPS

\* Before the component is mounted nothing is under way.
Forgotten ==
    ~loaded =>
        /\ timer = 0 /\ ~noticed /\ ~asked /\ ~form.dirty /\ ~form.open
        /\ flights = << >> /\ \A s \in Save : save[s].pc = "idle"

\* Two requests in flight at once, of either kind, are an overlap.
Overlapping ==
    /\ Len(flights) > 1 => overlap
    /\ flights # << >> /\ Refetching # {} => overlap
    /\ \A s, t \in Refetching : s # t => overlap

Drafts == form.dirty => form.open \/ page.opens = "always"

\* What a save has applied, the server has; what its refetch may bring is not
\* older, if it is for the same device.
SavesKnown ==
    ~page.mock =>
        \A s \in Save :
            /\ save[s].pc = "applied" =>
                   save[s].to \in Device /\ save[s].ver <= server[save[s].to]
            /\ save[s].pc = "refetch" /\ save[s].key = save[s].to =>
                   save[s].ver <= save[s].from

IInv ==
    /\ TypeOK /\ Forgotten /\ Overlapping /\ Drafts /\ SavesKnown
    /\ PollsOnlyOnScreen /\ LoadingTold
-----------------------------------------------------------------------------
(* Requests in flight *)

Flight == [key : Key, from : Version]

LEMMA RemoveAtFacts ==
    ASSUME NEW S, NEW q \in Seq(S), NEW i \in DOMAIN q
    PROVE  /\ RemoveAt(q, i) \in Seq(S)
           /\ Len(RemoveAt(q, i)) = Len(q) - 1
<1> DEFINE a == SubSeq(q, 1, i - 1)  b == SubSeq(q, i + 1, Len(q))
<1>1. DOMAIN q = 1..Len(q) /\ Len(q) \in Nat /\ i \in 1..Len(q)
    BY LenProperties
<1>2. \A j \in 1..Len(q) : q[j] \in S
    BY ElementOfSeq
<1>3. a \in Seq(S) /\ Len(a) = i - 1
  <2>1. \A j \in 1..(i - 1) : q[j] \in S
    BY <1>1, <1>2
  <2>2. 1 \in Int /\ i - 1 \in Int
    BY <1>1
  <2>3. /\ a \in Seq(S)
        /\ Len(a) = IF 1 <= i - 1 THEN (i - 1) - 1 + 1 ELSE 0
    BY <2>1, <2>2, SubSeqProperties
  <2> QED
    BY <1>1, <2>3
<1>4. b \in Seq(S) /\ Len(b) = Len(q) - i
  <2>1. \A j \in (i + 1)..Len(q) : q[j] \in S
    BY <1>1, <1>2
  <2>2. i + 1 \in Int /\ Len(q) \in Int
    BY <1>1
  <2>3. /\ b \in Seq(S)
        /\ Len(b) = IF i + 1 <= Len(q) THEN Len(q) - (i + 1) + 1 ELSE 0
    BY <2>1, <2>2, SubSeqProperties
  <2> QED
    BY <1>1, <2>3
<1>5. RemoveAt(q, i) = a \o b
    BY DEF RemoveAt
<1> HIDE DEF a, b
<1>6. a \o b \in Seq(S) /\ Len(a \o b) = Len(a) + Len(b)
    BY <1>3, <1>4, ConcatProperties
<1> QED
    BY <1>1, <1>3, <1>4, <1>5, <1>6

\* n copies of a request after those already in flight.
LEMMA FlightsSent ==
    ASSUME NEW q \in Seq(Flight), NEW n \in {1, 2}, NEW a \in Flight
    PROVE  /\ q \o [i \in 1..n |-> a] \in Seq(Flight)
           /\ Len(q \o [i \in 1..n |-> a]) = Len(q) + n
           /\ q \o [i \in 1..n |-> a] # << >>
<1> DEFINE m == [i \in 1..n |-> a]
<1>1. m \in Seq(Flight) /\ Len(m) = n
    OBVIOUS
<1> HIDE DEF m
<1>2. q \o m \in Seq(Flight) /\ Len(q \o m) = Len(q) + Len(m)
    BY <1>1, ConcatProperties
<1>3. Len(q) \in Nat
    BY LenProperties
<1>4. Len(q \o m) # 0
    BY <1>1, <1>2, <1>3
<1>5. q \o m # << >>
    BY <1>4, EmptySeq
<1> QED
    BY <1>1, <1>2, <1>5 DEF m

LEMMA AskType == TypeOK => Ask \in Flight
BY DEF TypeOK, Ask, Key, Flight

LEMMA VersionFacts ==
    /\ \A v \in Version : v \in Nat /\ v <= MaxVersion
    /\ \A v \in Version : \A w \in v..MaxVersion : w \in Version
    /\ \A v \in Version : v < MaxVersion => v + 1 \in Version
    /\ 0 \in Version
BY BoundsAssumption DEF Version

LEMMA PageFacts ==
    TypeOK => page.guard \in BOOLEAN /\ page.mock \in BOOLEAN /\ page.local \in BOOLEAN
BY PagesAssumption DEF TypeOK, PageType

\* TypeOK in two parts, the switches and the rest: each suits another prover.
Switches ==
    /\ loaded \in BOOLEAN /\ hidden \in BOOLEAN /\ listed \in BOOLEAN
    /\ polling \in BOOLEAN /\ noticed \in BOOLEAN /\ busy \in BOOLEAN
    /\ loading \in BOOLEAN /\ error \in BOOLEAN
    /\ asked \in BOOLEAN /\ overlap \in BOOLEAN
DataTypes ==
    /\ page \in Pages
    /\ sel \in Key
    /\ timer \in Nat
    /\ flights \in Seq(Flight)
    /\ Len(flights) <= MaxFlights
    /\ save \in [Save -> SaveType]
    /\ form \in [open : BOOLEAN, dirty : BOOLEAN, to : Key \cup {Later}]
    /\ shown \in [key : Key, ver : Version] \cup {Nothing}
    /\ server \in [Key -> Version]

LEMMA TypeParts == TypeOK <=> Switches /\ DataTypes
BY DEF TypeOK, Switches, DataTypes, Flight

-----------------------------------------------------------------------------
(* The initial state *)

LEMMA InitIInv == Init => IInv
<1> SUFFICES ASSUME Init PROVE IInv
    OBVIOUS
<1> USE DEF Init
<1>1. << >> \in Seq([key : Key, from : Version]) /\ Len(<< >>) = 0
    OBVIOUS
<1>2. Idle \in SaveType
    BY VersionFacts DEF Idle, SaveType, Key
<1>3. sel \in Key
    BY DEF Key
<1>4. TypeOK
  <2>1. form \in [open : BOOLEAN, dirty : BOOLEAN, to : Key \cup {Later}]
    BY DEF Closed, Key
  <2>2. DataTypes
    BY <1>1, <1>2, <1>3, <2>1, VersionFacts, BoundsAssumption DEF DataTypes, Flight, Key
  <2>3. Switches
    BY DEF Switches
  <2> QED
    BY <2>2, <2>3, TypeParts
<1>5. \A s \in Save : save[s].pc = "idle"
    BY DEF Idle
<1>6. Refetching = {}
    BY <1>5 DEF Refetching
<1>7. Forgotten /\ Overlapping /\ Drafts /\ SavesKnown
    BY <1>1, <1>5, <1>6 DEF Forgotten, Overlapping, Drafts, SavesKnown, Closed
<1>8. PollsOnlyOnScreen /\ LoadingTold
    BY <1>6 DEF PollsOnlyOnScreen, LoadingTold
<1> QED
    BY <1>4, <1>7, <1>8 DEF IInv

-----------------------------------------------------------------------------
(* Steps that send one or two fetches *)

\* What Send leaves behind, whatever it is part of.
LEMMA SendFacts ==
    ASSUME IInv, NEW n \in {1, 2}, Send(n)
    PROVE  /\ flights' \in Seq(Flight) /\ Len(flights') <= MaxFlights
           /\ loading' \in BOOLEAN /\ error' \in BOOLEAN
           /\ asked' \in BOOLEAN /\ overlap' \in BOOLEAN
           /\ UNCHANGED <<save, busy, shown>>
           /\ Refetching' = Refetching
           /\ Overlapping'
           /\ \/ UNCHANGED <<flights, loading, error, asked, overlap>>
              \/ flights' # << >> /\ loading'
<1> USE DEF Send
<1>1. /\ flights \in Seq(Flight) /\ Len(flights) \in Nat /\ TypeOK
      /\ Len(flights) <= MaxFlights
      /\ loading \in BOOLEAN /\ error \in BOOLEAN
      /\ asked \in BOOLEAN /\ overlap \in BOOLEAN
    BY DEF IInv, TypeOK, Flight
<1>2. Refetching' = Refetching
    BY DEF Refetching
<1>3. CASE CanAsk
  <2>1. /\ flights' = flights \o [i \in 1..n |-> Ask]
        /\ loading' = TRUE /\ error' = FALSE /\ asked' = TRUE
        /\ overlap' = (overlap \/ flights # << >> \/ n > 1 \/ Refetching # {})
        /\ Len(flights) + n <= MaxFlights
    BY <1>3 DEF Room
  <2>2. /\ flights' \in Seq(Flight) /\ Len(flights') = Len(flights) + n
        /\ flights' # << >>
    BY <1>1, <2>1, AskType, FlightsSent
  <2>3. Len(flights') > 1 => overlap'
    <3>1. CASE n = 2
      <4>1. n > 1
        BY <3>1
      <4> QED
        BY <2>1, <4>1
    <3>2. CASE n = 1
      <4>1. Len(flights') > 1 => Len(flights) # 0
        BY <1>1, <2>2, <3>2
      <4>2. Len(flights) # 0 => flights # << >>
        BY EmptySeq
      <4> QED
        BY <2>1, <4>1, <4>2
    <3> QED
      BY <3>1, <3>2
  <2>4. Overlapping'
    BY <1>2, <2>1, <2>3 DEF Overlapping
  <2> QED
    BY <1>2, <2>1, <2>2, <2>4
<1>4. CASE ~CanAsk
  <2>1. UNCHANGED <<flights, loading, error, asked, overlap>>
    BY <1>4
  <2>2. Overlapping'
    BY <1>2, <2>1 DEF IInv, Overlapping
  <2> QED
    BY <1>1, <1>2, <2>1, <2>2
<1> QED
    BY <1>3, <1>4

LEMMA LoadStep ==
    ASSUME IInv, Load
    PROVE  IInv'
<1> USE DEF Load
<1>1. Send(2) /\ 2 \in {1, 2}
    OBVIOUS
<1>2. /\ flights' \in Seq(Flight) /\ Len(flights') <= MaxFlights
      /\ loading' \in BOOLEAN /\ error' \in BOOLEAN
      /\ asked' \in BOOLEAN /\ overlap' \in BOOLEAN
      /\ UNCHANGED <<save, busy, shown>>
      /\ Refetching' = Refetching
      /\ Overlapping'
      /\ \/ UNCHANGED <<flights, loading, error, asked, overlap>>
         \/ flights' # << >> /\ loading'
    BY <1>1, SendFacts
<1>3. sel' \in Key
    BY DEF IInv, TypeOK, Key
<1>4. timer = 0 /\ timer' = 1 /\ polling' = TRUE /\ ~noticed
      /\ ~asked /\ \A s \in Save : save[s].pc = "idle"
    BY DEF IInv, Forgotten
<1>5. form' \in [open : BOOLEAN, dirty : BOOLEAN, to : Key \cup {Later}] /\ ~form'.dirty
    BY DEF Start, Closed, Key
<1>6. TypeOK'
    BY <1>2, <1>3, <1>4, <1>5 DEF IInv, TypeOK, Flight
<1>7. Forgotten' /\ Drafts' /\ SavesKnown' /\ PollsOnlyOnScreen'
    BY <1>2, <1>4, <1>5 DEF Forgotten, Drafts, SavesKnown, PollsOnlyOnScreen
<1>8. LoadingTold'
    BY <1>2, <1>4 DEF IInv, LoadingTold
<1> QED
    BY <1>2, <1>6, <1>7, <1>8 DEF IInv

LEMMA PollOrRefreshStep ==
    ASSUME IInv, PollTick \/ Refresh
    PROVE  IInv'
<1> USE DEF PollTick, Refresh, clock
<1>1. Send(1) /\ 1 \in {1, 2}
    OBVIOUS
<1>2. /\ flights' \in Seq(Flight) /\ Len(flights') <= MaxFlights
      /\ loading' \in BOOLEAN /\ error' \in BOOLEAN
      /\ asked' \in BOOLEAN /\ overlap' \in BOOLEAN
      /\ UNCHANGED <<save, busy, shown>>
      /\ Refetching' = Refetching
      /\ Overlapping'
      /\ \/ UNCHANGED <<flights, loading, error, asked, overlap>>
         \/ flights' # << >> /\ loading'
    BY <1>1, SendFacts
<1>3. loaded
    BY DEF IInv, Forgotten, TypeOK
<1>4. TypeOK'
    BY <1>2 DEF IInv, TypeOK, Flight
<1>8. UNCHANGED <<loaded, hidden, timer, polling, noticed>>
    OBVIOUS
<1>9. PollsOnlyOnScreen'
    BY <1>8 DEF IInv, PollsOnlyOnScreen
<1>5. Forgotten' /\ PollsOnlyOnScreen'
    BY <1>3, <1>8, <1>9 DEF Forgotten
<1>6. Drafts' /\ SavesKnown'
    BY <1>2 DEF IInv, Drafts, SavesKnown
<1>7. LoadingTold'
    BY <1>2 DEF IInv, LoadingTold
<1> QED
    BY <1>2, <1>4, <1>5, <1>6, <1>7 DEF IInv

-----------------------------------------------------------------------------
(* The tab is hidden and shown; the rest of the page's life *)

LEMMA HideStep ==
    ASSUME IInv, Hide
    PROVE  IInv'
<1> USE DEF Hide, view
<1>1. /\ timer \in {0, 1} /\ polling \in BOOLEAN /\ (polling <=> timer = 1)
    BY DEF IInv, TypeOK, PollsOnlyOnScreen
<1>2. timer' = 0 /\ polling' = FALSE
    BY <1>1
<1>5. Switches'
    BY <1>2 DEF IInv, TypeOK, Switches
<1>6. DataTypes'
    BY <1>2 DEF IInv, TypeOK, DataTypes, Flight
<1>3. TypeOK'
    BY <1>5, <1>6 DEF TypeOK, Switches, DataTypes, Flight
<1>4. /\ Forgotten' /\ Overlapping' /\ Drafts' /\ SavesKnown'
      /\ PollsOnlyOnScreen' /\ LoadingTold'
    BY <1>2 DEF IInv, Forgotten, Overlapping, Drafts, SavesKnown, PollsOnlyOnScreen,
                LoadingTold, Refetching
<1> QED
    BY <1>3, <1>4 DEF IInv

LEMMA UnhideStep ==
    ASSUME IInv, Unhide
    PROVE  IInv'
<1> USE DEF Unhide
<1>1. timer \in {0, 1} /\ (polling <=> timer = 1)
    BY DEF IInv, TypeOK, PollsOnlyOnScreen
<1>2. timer' = 1 /\ polling' = TRUE
    BY <1>1 DEF IInv, TypeOK
<1>3. CASE polling
  <2>1. TypeOK'
    BY <1>2, <1>3 DEF IInv, TypeOK, view
  <2>2. /\ Forgotten' /\ Overlapping' /\ Drafts' /\ SavesKnown'
        /\ PollsOnlyOnScreen' /\ LoadingTold'
    BY <1>2, <1>3 DEF view, IInv, Forgotten, Overlapping, Drafts, SavesKnown,
                      PollsOnlyOnScreen, LoadingTold, Refetching
  <2> QED
    BY <2>1, <2>2 DEF IInv
<1>4. CASE ~polling
  <2>1. Send(1) /\ 1 \in {1, 2} /\ form' = form
    BY <1>4
  <2>2. /\ flights' \in Seq(Flight) /\ Len(flights') <= MaxFlights
        /\ loading' \in BOOLEAN /\ error' \in BOOLEAN
        /\ asked' \in BOOLEAN /\ overlap' \in BOOLEAN
        /\ UNCHANGED <<save, busy, shown>>
        /\ Refetching' = Refetching
        /\ Overlapping'
        /\ \/ UNCHANGED <<flights, loading, error, asked, overlap>>
           \/ flights' # << >> /\ loading'
    BY <2>1, SendFacts
  <2>3. TypeOK'
    BY <1>2, <2>1, <2>2 DEF IInv, TypeOK, Flight
  <2>4. Forgotten' /\ Drafts' /\ SavesKnown' /\ PollsOnlyOnScreen'
    BY <1>2, <2>1, <2>2 DEF IInv, Forgotten, Drafts, SavesKnown, PollsOnlyOnScreen
  <2>5. LoadingTold'
    BY <2>2 DEF IInv, LoadingTold
  <2> QED
    BY <2>2, <2>3, <2>4, <2>5 DEF IInv
<1> QED
    BY <1>3, <1>4

\* Leaving forgets everything.
LEMMA LeaveStep ==
    ASSUME IInv, Leave
    PROVE  IInv'
<1> USE DEF Leave
<1>1. << >> \in Seq([key : Key, from : Version]) /\ Len(<< >>) = 0
    OBVIOUS
<1>2. Idle \in SaveType
    BY VersionFacts DEF Idle, SaveType, Key
<1>3. sel' \in Key
    BY DEF IInv, TypeOK, Key
<1>4. form' \in [open : BOOLEAN, dirty : BOOLEAN, to : Key \cup {Later}]
    BY DEF Closed, Key
<1>10. server \in [Key -> Version] /\ page \in Pages /\ hidden \in BOOLEAN
    BY DEF IInv, TypeOK
<1>11. DataTypes'
    BY <1>1, <1>2, <1>3, <1>4, <1>10, BoundsAssumption DEF DataTypes, Flight
<1>12. Switches'
    BY <1>10 DEF Switches
<1>5. TypeOK'
    BY <1>11, <1>12, TypeParts DEF TypeOK, Switches, DataTypes, Flight
<1>6. \A s \in Save : save'[s].pc = "idle"
    BY DEF Idle
<1>7. Refetching' = {}
    BY <1>6 DEF Refetching
<1>8. Forgotten' /\ Overlapping' /\ Drafts' /\ SavesKnown'
    BY <1>1, <1>6, <1>7 DEF Forgotten, Overlapping, Drafts, SavesKnown, Closed
<1>9. PollsOnlyOnScreen' /\ LoadingTold'
    BY <1>7 DEF PollsOnlyOnScreen, LoadingTold
<1> QED
    BY <1>5, <1>8, <1>9 DEF IInv

-----------------------------------------------------------------------------
(* Answers, selections and changes of the server *)

\* A version between one that was sent for and what the server has now.
LEMMA AnswerType ==
    ASSUME TypeOK, NEW k \in Key, NEW f \in Version, NEW v \in f..server[k]
    PROVE  v \in Version /\ v >= f
<1>1. server[k] \in Version
    BY DEF TypeOK
<1> QED
    BY <1>1, BoundsAssumption DEF Version

LEMMA LandsStep ==
    ASSUME IInv, NEW i, NEW ok \in BOOLEAN, Lands(i, ok)
    PROVE  IInv'
<1> USE DEF Lands
<1>1. TypeOK /\ flights \in Seq(Flight) /\ flights[i] \in Flight /\ i \in DOMAIN flights
  <2>1. TypeOK /\ flights \in Seq(Flight)
    BY DEF IInv, TypeOK, Flight
  <2>2. i \in 1..Len(flights)
    BY <2>1, LenProperties
  <2> QED
    BY <2>1, <2>2, ElementOfSeq
<1>2. PICK v \in flights[i].from .. server[flights[i].key] : Answer(flights[i].key, ok, v)
    OBVIOUS
<1>3. v \in Version
    BY <1>1, <1>2, AnswerType DEF Flight
<1>4. /\ loading' = FALSE /\ error' \in BOOLEAN
      /\ shown' \in [key : Key, ver : Version] \cup {Nothing}
    BY <1>1, <1>2, <1>3 DEF Answer, Flight, TypeOK
<1>5. /\ flights' \in Seq(Flight) /\ Len(flights') = Len(flights) - 1
      /\ Len(flights) \in Nat /\ Len(flights) <= MaxFlights
  <2>1. flights' \in Seq(Flight) /\ Len(flights') = Len(flights) - 1
    BY <1>1, RemoveAtFacts
  <2> QED
    BY <1>1, <2>1, LenProperties DEF TypeOK
<1>6. /\ UNCHANGED <<page, loaded, hidden, sel, listed, timer, polling, noticed, save, busy,
                     asked, server>>
      /\ overlap' = (overlap /\ (Len(flights) > 1 \/ Refetching # {}))
      /\ Refetching' = Refetching
    BY DEF clock, Refetching
<1>7. /\ form' \in [open : BOOLEAN, dirty : BOOLEAN, to : Key \cup {Later}]
      /\ form'.dirty => form.dirty
      /\ form'.open = form.open
    BY <1>1 DEF TypeOK
<1>8. loaded
  <2>1. flights # << >>
    BY <1>1
  <2> QED
    BY <2>1 DEF IInv, Forgotten
<1>9. TypeOK'
  <2>1. DataTypes'
    BY <1>1, <1>4, <1>5, <1>6, <1>7, BoundsAssumption DEF TypeOK, DataTypes, Flight
  <2>2. overlap' \in BOOLEAN
    BY <1>6
  <2>3. Switches'
    BY <1>1, <1>4, <1>6, <2>2 DEF TypeOK, Switches
  <2> QED
    BY <2>1, <2>3 DEF TypeOK, Switches, DataTypes, Flight
<1>10. Forgotten' /\ PollsOnlyOnScreen'
  <2>1. Forgotten'
    BY <1>6, <1>8 DEF Forgotten
  <2>2. PollsOnlyOnScreen'
    BY <1>6 DEF IInv, PollsOnlyOnScreen
  <2> QED
    BY <2>1, <2>2
<1>11. Drafts' /\ SavesKnown'
    BY <1>6, <1>7 DEF IInv, Drafts, SavesKnown
<1>12. /\ Len(flights') > 1 => Len(flights) > 1
       /\ flights' # << >> => Len(flights) > 1
       /\ flights # << >>
  <2>1. flights' # << >> => Len(flights') \in Nat \ {0}
    BY <1>5, EmptySeq
  <2> QED
    BY <1>1, <1>5, <2>1
<1>13. Overlapping'
  <2>1. Len(flights') > 1 => overlap'
    BY <1>6, <1>12 DEF IInv, Overlapping
  <2>2. Refetching' # {} => overlap'
    BY <1>6, <1>12 DEF IInv, Overlapping
  <2>3. \A s, t \in Refetching' : s # t => overlap'
    BY <2>2
  <2> QED
    BY <2>1, <2>2, <2>3 DEF Overlapping
<1>14. LoadingTold'
  <2>1. flights' # << >> \/ Refetching' # {} => overlap'
    BY <1>6, <1>12 DEF IInv, Overlapping
  <2> QED
    BY <1>4, <2>1 DEF LoadingTold
<1> QED
    BY <1>9, <1>10, <1>11, <1>13, <1>14 DEF IInv

LEMMA SelectStep ==
    ASSUME IInv, NEW d \in Device, Select(d)
    PROVE  IInv'
<1> USE DEF Select, clock
<1>1. TypeOK /\ flights \in Seq(Flight) /\ Len(flights) \in Nat
    BY DEF IInv, TypeOK, Flight
<1>2. sel' \in Key /\ loaded /\ loaded'
    BY DEF Key
<1>3. UNCHANGED <<page, loaded, hidden, listed, timer, polling, noticed, server>>
    OBVIOUS
<1>4. PollsOnlyOnScreen' /\ Forgotten'
    BY <1>2, <1>3 DEF IInv, PollsOnlyOnScreen, Forgotten
<1>5. CASE UNCHANGED view
  <2>1. UNCHANGED <<flights, save, busy, form, shown, loading, error, asked, overlap>>
    BY <1>5 DEF view
  <2>2. TypeOK'
    BY <1>1, <1>2, <1>3, <2>1 DEF TypeOK
  <2>3. Refetching' = Refetching
    BY <2>1 DEF Refetching
  <2>4. Overlapping' /\ Drafts' /\ SavesKnown' /\ LoadingTold'
    BY <1>3, <2>1, <2>3 DEF IInv, Overlapping, Drafts, SavesKnown, LoadingTold
  <2> QED
    BY <1>4, <2>2, <2>4 DEF IInv
<1>6. CASE /\ Len(flights) < MaxFlights
           /\ flights' = Append(flights, [key |-> d, from |-> server[d]])
           /\ loading' = TRUE /\ error' = FALSE /\ asked' = TRUE
           /\ overlap' = (overlap \/ flights # << >> \/ Refetching # {})
           /\ UNCHANGED <<save, busy, form, shown>>
  <2>1. [key |-> d, from |-> server[d]] \in Flight
    BY <1>1 DEF TypeOK, Key, Flight
  <2>2. /\ flights' \in Seq(Flight) /\ Len(flights') = Len(flights) + 1
        /\ flights' # << >> /\ (Len(flights') > 1 => flights # << >>)
    BY <1>1, <1>6, <2>1
  <2>3. Refetching' = Refetching
    BY <1>6 DEF Refetching
  <2>4. DataTypes'
    BY <1>1, <1>2, <1>3, <1>6, <2>2, BoundsAssumption DEF TypeOK, DataTypes, Flight
  <2>5. Switches'
    BY <1>1, <1>3, <1>6 DEF TypeOK, Switches
  <2>6. TypeOK'
    BY <2>4, <2>5 DEF TypeOK, Switches, DataTypes, Flight
  <2>7. Overlapping'
    BY <1>6, <2>2, <2>3 DEF IInv, Overlapping
  <2>8. LoadingTold'
    BY <1>6, <2>2 DEF LoadingTold
  <2>9. Drafts' /\ SavesKnown'
    BY <1>3, <1>6 DEF IInv, Drafts, SavesKnown
  <2> QED
    BY <1>4, <2>6, <2>7, <2>8, <2>9 DEF IInv
<1> QED
    BY <1>5, <1>6

\* Only the server, or what useDevices has listed, changes.
LEMMA AsideStep ==
    ASSUME IInv, DevicesListed \/ \E d \in Device \cup {NoDevice} : ServerChanges(d)
    PROVE  IInv'
<1> USE DEF DevicesListed, ServerChanges, clock, view
<1>1. /\ UNCHANGED <<page, loaded, hidden, sel, timer, polling, noticed, flights, save, busy,
                     form, shown, loading, error, asked, overlap>>
      /\ TypeOK
    BY DEF IInv
<1>2. /\ listed' \in BOOLEAN
      /\ server' \in [Key -> Version]
      /\ \A k \in Key : server'[k] >= server[k]
  <2>1. CASE DevicesListed
    BY <1>1, <2>1, VersionFacts DEF TypeOK
  <2>2. CASE \E d \in Device \cup {NoDevice} : ServerChanges(d)
    <3>1. PICK d \in Key : /\ server[d] < MaxVersion /\ UNCHANGED listed
                           /\ server' = [server EXCEPT ![d] = @ + 1]
      BY <2>2 DEF Key
    <3>2. \A k \in Key : server[k] \in Version /\ server[k] \in Nat
      BY <1>1, VersionFacts DEF TypeOK
    <3>3. server[d] + 1 \in Version
      BY <3>1, <3>2, VersionFacts
    <3> QED
      BY <1>1, <3>1, <3>2, <3>3 DEF TypeOK
  <2> QED
    BY <2>1, <2>2
<1>3. TypeOK'
    BY <1>1, <1>2 DEF TypeOK
<1>4. Refetching' = Refetching
    BY <1>1 DEF Refetching
<1>5. Forgotten' /\ Overlapping' /\ Drafts' /\ LoadingTold'
    BY <1>1, <1>4 DEF IInv, Forgotten, Overlapping, Drafts, LoadingTold
<1>6. PollsOnlyOnScreen'
    BY <1>1 DEF IInv, PollsOnlyOnScreen
<1>7. SavesKnown'
  <2> SUFFICES ASSUME ~page.mock, NEW s \in Save,
                      save[s].pc = "applied", save[s].to \in Device
               PROVE  save[s].ver <= server[save[s].to]
                          => save[s].ver <= server'[save[s].to]
    BY <1>1 DEF IInv, SavesKnown
  <2>1. save[s].to \in Key /\ save[s].ver \in Nat
    BY <1>1, VersionFacts DEF Key, TypeOK, SaveType
  <2>2. server[save[s].to] \in Nat /\ server'[save[s].to] \in Nat
    BY <1>1, <1>2, <2>1, VersionFacts DEF TypeOK
  <2> QED
    BY <1>2, <2>1, <2>2
<1> QED
    BY <1>3, <1>5, <1>6, <1>7 DEF IInv

-----------------------------------------------------------------------------
(* Forms and saves *)

\* What the actions of this part leave alone.
LEMMA KeptByForms ==
    ASSUME IInv, KeepAllBut, loaded
    PROVE  /\ UNCHANGED <<page, loaded, hidden, sel, listed, timer, polling, noticed>>
           /\ Forgotten' /\ PollsOnlyOnScreen'
<1>1. UNCHANGED <<page, loaded, hidden, sel, listed, timer, polling, noticed>>
    BY DEF KeepAllBut, clock
<1>2. Forgotten'
    BY <1>1 DEF Forgotten
<1>3. PollsOnlyOnScreen'
    BY <1>1 DEF IInv, PollsOnlyOnScreen
<1> QED
    BY <1>1, <1>2, <1>3

\* Without an open form or a loaded page there is no form to reach.
LEMMA FormNeedsPage == IInv /\ FormThere => loaded /\ (form.open \/ page.opens = "always")
<1> SUFFICES ASSUME IInv, FormThere
             PROVE  loaded /\ (form.open \/ page.opens = "always")
    OBVIOUS
<1>1. \/ page.opens = "modal" /\ form.open
      \/ page.opens = "card" /\ form.open /\ Content
      \/ page.opens = "always" /\ Content
    BY DEF FormThere
<1> QED
    BY <1>1 DEF Content, IInv, Forgotten

LEMMA SaveNeedsPage ==
    ASSUME IInv, NEW s \in Save, save[s].pc # "idle"
    PROVE  loaded
BY DEF IInv, Forgotten

LEMMA FormStep ==
    ASSUME IInv, OpenForm \/ Edit \/ Cancel
    PROVE  IInv'
<1>1. TypeOK
    BY DEF IInv
<1>2. /\ loaded /\ KeepAllBut
      /\ UNCHANGED <<flights, save, busy, shown, loading, error, asked, overlap, server>>
    BY FormNeedsPage DEF OpenForm, Edit, Cancel, Content
<1>3. /\ UNCHANGED <<page, loaded, hidden, sel, listed, timer, polling, noticed>>
      /\ Forgotten' /\ PollsOnlyOnScreen'
    BY <1>2, KeptByForms
<1>4. form' \in [open : BOOLEAN, dirty : BOOLEAN, to : Key \cup {Later}]
  <2>1. CASE OpenForm
    <3>1. PICK op \in page.form :
              /\ op # "create" => shown # Nothing
              /\ form' = [open |-> TRUE, dirty |-> FALSE,
                          to |-> CASE op = "update" -> shown.key
                                   [] op = "create" /\ page.then -> sel
                                   [] OTHER -> Later]
      BY <2>1 DEF OpenForm
    <3>2. op = "update" => shown.key \in Key
      BY <1>1, <3>1 DEF TypeOK
    <3>3. form'.to \in Key \cup {Later}
      BY <1>1, <3>1, <3>2 DEF TypeOK
    <3> QED
      BY <3>1, <3>3
  <2>2. CASE Edit
    BY <1>1, <2>2 DEF Edit, TypeOK
  <2>3. CASE Cancel
    BY <2>3 DEF Cancel, Closed, Key
  <2> QED
    BY <2>1, <2>2, <2>3
<1>5. Drafts'
  <2>1. CASE OpenForm
    BY <2>1 DEF OpenForm, Drafts
  <2>2. CASE Edit
    <3>1. form'.open = form.open
      BY <1>1, <2>2 DEF Edit, TypeOK
    <3> QED
      BY <1>3, <2>2, <3>1, FormNeedsPage DEF Edit, Drafts
  <2>3. CASE Cancel
    BY <2>3 DEF Cancel, Closed, Drafts
  <2> QED
    BY <2>1, <2>2, <2>3
<1>6. TypeOK'
    BY <1>1, <1>2, <1>3, <1>4 DEF TypeOK
<1>7. Refetching' = Refetching
    BY <1>2 DEF Refetching
<1>8. Overlapping' /\ SavesKnown' /\ LoadingTold'
    BY <1>2, <1>3, <1>7 DEF IInv, Overlapping, SavesKnown, LoadingTold
<1> QED
    BY <1>3, <1>5, <1>6, <1>8 DEF IInv

LEMMA BeginStep ==
    ASSUME IInv, NEW s \in Save, Submit(s) \/ Press(s)
    PROVE  IInv'
<1>1. TypeOK
    BY DEF IInv
<1>2. PICK isForm \in BOOLEAN, writes \in BOOLEAN, to \in Key : Begin(s, isForm, writes, to)
  <2>1. CASE Submit(s)
    <3>1. (IF form.to = Later THEN sel ELSE form.to) \in Key
      BY <1>1 DEF TypeOK
    <3>2. (page.form \cap page.uses.writes # {}) \in BOOLEAN
      OBVIOUS
    <3> QED
      BY <2>1, <3>1, <3>2 DEF Submit
  <2>2. CASE Press(s)
    <3>1. shown.key \in Key
      BY <1>1, <2>2 DEF Press, TypeOK
    <3> QED
      BY <2>2, <3>1 DEF Press
  <2> QED
    BY <2>1, <2>2
<1>3. loaded
    BY FormNeedsPage DEF Submit, Press, Content
<1>4. busy' \in BOOLEAN
    BY <1>1, PageFacts DEF Submit, Press, TypeOK
<1>5. /\ KeepAllBut /\ error' = FALSE /\ save[s].pc = "idle"
      /\ UNCHANGED <<flights, form, shown, loading, asked, overlap, server>>
    BY <1>2 DEF Begin
<1>6. /\ UNCHANGED <<page, loaded, hidden, sel, listed, timer, polling, noticed>>
      /\ Forgotten' /\ PollsOnlyOnScreen'
    BY <1>3, <1>5, KeptByForms
<1> DEFINE new == [Idle EXCEPT !.pc = "sent", !.form = isForm, !.writes = writes, !.to = to]
<1>7. save' = [save EXCEPT ![s] = new]
    BY <1>2 DEF Begin
<1>8. new \in SaveType /\ new.pc = "sent"
    BY VersionFacts DEF Idle, SaveType, Key
<1> HIDE DEF new
<1>9. /\ save' \in [Save -> SaveType]
      /\ save'[s].pc = "sent"
      /\ \A t \in Save : t # s => save'[t] = save[t]
    BY <1>1, <1>7, <1>8 DEF TypeOK
<1>10. Refetching' = Refetching
    BY <1>5, <1>9 DEF Refetching
<1>11. TypeOK'
  <2>1. /\ UNCHANGED <<page, loaded, hidden, listed, polling, noticed, loading>>
        /\ UNCHANGED <<asked, overlap, sel, timer, flights, form, shown, server>>
    BY <1>5, <1>6
  <2>2. save' \in [Save -> SaveType] /\ busy' \in BOOLEAN /\ error' \in BOOLEAN
    BY <1>4, <1>5, <1>9
  <2> QED
    BY <1>1, <2>1, <2>2 DEF TypeOK
<1>12. Overlapping' /\ Drafts' /\ LoadingTold'
    BY <1>5, <1>6, <1>10 DEF IInv, Overlapping, Drafts, LoadingTold
<1>13. SavesKnown'
    BY <1>5, <1>6, <1>9 DEF IInv, SavesKnown
<1> QED
    BY <1>6, <1>11, <1>12, <1>13 DEF IInv

LEMMA AppliedStep ==
    ASSUME IInv, NEW s \in Save, Applied(s)
    PROVE  IInv'
<1> USE DEF Applied
<1>1. TypeOK /\ save[s] \in SaveType /\ save[s].to \in Key /\ save[s].pc = "sent"
    BY DEF IInv, TypeOK, SaveType
<1>2. loaded
    BY SaveNeedsPage
<1>3. /\ UNCHANGED <<page, loaded, hidden, sel, listed, timer, polling, noticed>>
      /\ Forgotten' /\ PollsOnlyOnScreen'
    BY <1>2, KeptByForms
<1>4. UNCHANGED <<flights, busy, form, shown, loading, error, asked, overlap>>
    OBVIOUS
<1>5. /\ server' \in [Key -> Version]
      /\ \A k \in Key : server[k] \in Nat /\ server'[k] \in Nat /\ server'[k] >= server[k]
      /\ page.mock \/ save[s].to \in Device
  <2>0. \A k \in Key : server[k] \in Version /\ server[k] \in Nat
    BY <1>1, VersionFacts DEF TypeOK
  <2>1. CASE page.mock
    BY <1>1, <2>0, <2>1 DEF TypeOK
  <2>2. CASE ~page.mock
    <3>1. server[save[s].to] + 1 \in Version
      BY <1>1, <2>0, <2>2, VersionFacts
    <3>2. server' = [server EXCEPT ![save[s].to] = @ + 1] /\ save[s].to \in Device
      BY <2>2
    <3>3. server' \in [Key -> Version]
      BY <1>1, <3>1, <3>2 DEF TypeOK
    <3> QED
      BY <1>1, <2>0, <3>2, <3>3 DEF TypeOK
  <2> QED
    BY <2>1, <2>2
<1>6. server'[save[s].to] \in Version
    BY <1>1, <1>5
<1> DEFINE new == [save[s] EXCEPT !.pc = "applied", !.ver = server'[save[s].to]]
<1>7. save' = [save EXCEPT ![s] = new]
    BY <1>1 DEF TypeOK, SaveType
<1>8. /\ new \in SaveType /\ new.pc = "applied" /\ new.to = save[s].to
      /\ new.ver = server'[save[s].to]
    BY <1>1, <1>6 DEF SaveType
<1> HIDE DEF new
<1>9. /\ save' \in [Save -> SaveType]
      /\ save'[s] = new
      /\ \A t \in Save : t # s => save'[t] = save[t]
    BY <1>1, <1>7, <1>8 DEF TypeOK
<1>10. Refetching' = Refetching
    BY <1>1, <1>8, <1>9 DEF Refetching
<1>11. TypeOK'
    BY <1>1, <1>3, <1>4, <1>5, <1>9 DEF TypeOK
<1>12. Overlapping' /\ Drafts' /\ LoadingTold'
    BY <1>3, <1>4, <1>10 DEF IInv, Overlapping, Drafts, LoadingTold
<1>13. SavesKnown'
  <2> SUFFICES ASSUME ~page.mock, NEW t \in Save
               PROVE  /\ save'[t].pc = "applied" =>
                             save'[t].to \in Device /\ save'[t].ver <= server'[save'[t].to]
                      /\ save'[t].pc = "refetch" /\ save'[t].key = save'[t].to =>
                             save'[t].ver <= save'[t].from
    BY <1>3 DEF SavesKnown
  <2>1. CASE t = s
    BY <1>5, <1>6, <1>8, <1>9, <2>1, VersionFacts DEF Key
  <2>2. CASE t # s
    <3>1. save'[t] = save[t] /\ save[t].to \in Key /\ save[t].ver \in Nat
      BY <1>1, <1>9, <2>2, VersionFacts DEF TypeOK, SaveType
    <3>2. server'[save[t].to] >= server[save[t].to]
          /\ server[save[t].to] \in Nat /\ server'[save[t].to] \in Nat
      BY <1>5, <3>1
    <3> QED
      BY <3>1, <3>2 DEF IInv, SavesKnown
  <2> QED
    BY <2>1, <2>2
<1> QED
    BY <1>3, <1>11, <1>12, <1>13 DEF IInv

LEMMA AnsweredStep ==
    ASSUME IInv, NEW s \in Save, Answered(s)
    PROVE  IInv'
<1> USE DEF Answered
<1>1. /\ TypeOK /\ save[s] \in SaveType /\ save[s].to \in Key /\ save[s].ver \in Version
      /\ save[s].pc = "applied"
    BY DEF IInv, TypeOK, SaveType
<1>2. loaded
    BY SaveNeedsPage
<1>3. /\ UNCHANGED <<page, loaded, hidden, sel, listed, timer, polling, noticed>>
      /\ Forgotten' /\ PollsOnlyOnScreen'
    BY <1>2, KeptByForms
<1>4. UNCHANGED <<flights, server>> /\ flights \in Seq(Flight)
    BY <1>1 DEF TypeOK, Flight
<1>5. Ask.key \in Key /\ Ask.from \in Version /\ Ask.from = server[Ask.key]
    BY <1>1, AskType DEF Ask, Flight
<1>6. shown' \in [key : Key, ver : Version] \cup {Nothing}
    BY <1>1 DEF TypeOK
<1>7. /\ form' \in [open : BOOLEAN, dirty : BOOLEAN, to : Key \cup {Later}]
      /\ form' = form \/ ~form'.dirty
  <2>1. form' = form \/ form' = Closed
    BY DEF CloseForm
  <2>2. /\ Closed \in [open : BOOLEAN, dirty : BOOLEAN, to : Key \cup {Later}]
        /\ ~Closed.dirty
    BY DEF Closed, Key
  <2> QED
    BY <1>1, <2>1, <2>2 DEF TypeOK
<1>8. Drafts'
    BY <1>3, <1>7 DEF IInv, Drafts
<1> DEFINE new == IF CanAsk THEN [save[s] EXCEPT !.pc = "refetch", !.key = Ask.key,
                                                !.from = Ask.from]
                  ELSE Idle
<1>9. save' = [save EXCEPT ![s] = new]
    BY <1>1 DEF TypeOK
<1>10. /\ new \in SaveType
       /\ CanAsk => /\ new.pc = "refetch" /\ new.key = Ask.key /\ new.from = Ask.from
                    /\ new.to = save[s].to /\ new.ver = save[s].ver
       /\ ~CanAsk => new.pc = "idle"
  <2>1. CASE CanAsk
    BY <1>1, <1>5, <2>1 DEF SaveType
  <2>2. CASE ~CanAsk
    BY <2>2, VersionFacts DEF Idle, SaveType, Key
  <2> QED
    BY <2>1, <2>2
<1> HIDE DEF new
<1>11. /\ save' \in [Save -> SaveType]
       /\ save'[s] = new
       /\ \A t \in Save : t # s => save'[t] = save[t]
    BY <1>1, <1>9, <1>10 DEF TypeOK
<1>12. Refetching' = IF CanAsk THEN Refetching \cup {s} ELSE Refetching
    BY <1>1, <1>10, <1>11 DEF Refetching
<1>13. /\ CanAsk => /\ loading' = TRUE /\ error' = FALSE /\ asked' = TRUE
                    /\ overlap' = (overlap \/ flights # << >> \/ Refetching # {})
       /\ ~CanAsk => UNCHANGED <<loading, error, asked, overlap>>
    OBVIOUS
<1>14. TypeOK'
  <2>1. busy' \in BOOLEAN
    OBVIOUS
  <2>2. Switches'
    BY <1>1, <1>3, <1>13, <2>1 DEF TypeOK, Switches
  <2>3. DataTypes'
    BY <1>1, <1>3, <1>4, <1>6, <1>7, <1>11 DEF TypeOK, DataTypes, Flight
  <2> QED
    BY <2>2, <2>3 DEF TypeOK, Switches, DataTypes, Flight
<1>15. Overlapping'
  <2>1. CASE CanAsk
    <3>1. Len(flights) > 1 => flights # << >>
      BY EmptySeq
    <3>2. \A t, u \in Refetching' : t # u => Refetching # {}
      BY <1>12
    <3> QED
      BY <1>4, <1>13, <2>1, <3>1, <3>2 DEF Overlapping
  <2>2. CASE ~CanAsk
    BY <1>4, <1>12, <1>13, <2>2 DEF IInv, Overlapping
  <2> QED
    BY <2>1, <2>2
<1>16. LoadingTold'
  <2>1. CASE CanAsk
    <3>1. Refetching' # {}
      BY <1>12, <2>1
    <3> QED
      BY <1>13, <2>1, <3>1 DEF LoadingTold
  <2>2. CASE ~CanAsk
    BY <1>3, <1>4, <1>12, <1>13, <2>2 DEF IInv, LoadingTold
  <2> QED
    BY <2>1, <2>2
<1>17. SavesKnown'
  <2> SUFFICES ASSUME ~page.mock, NEW t \in Save
               PROVE  /\ save'[t].pc = "applied" =>
                             save'[t].to \in Device /\ save'[t].ver <= server'[save'[t].to]
                      /\ save'[t].pc = "refetch" /\ save'[t].key = save'[t].to =>
                             save'[t].ver <= save'[t].from
    BY <1>3 DEF SavesKnown
  <2>1. CASE t = s
    BY <1>1, <1>5, <1>10, <1>11, <2>1 DEF IInv, SavesKnown
  <2>2. CASE t # s
    BY <1>4, <1>11, <2>2 DEF IInv, SavesKnown
  <2> QED
    BY <2>1, <2>2
<1> QED
    BY <1>3, <1>8, <1>14, <1>15, <1>16, <1>17 DEF IInv

LEMMA SaveFailsStep ==
    ASSUME IInv, NEW s \in Save, SaveFails(s)
    PROVE  IInv'
<1> USE DEF SaveFails
<1>1. TypeOK /\ save[s].pc \in {"sent", "applied"}
    BY DEF IInv
<1>2. loaded
    BY <1>1, SaveNeedsPage
<1>3. /\ UNCHANGED <<page, loaded, hidden, sel, listed, timer, polling, noticed>>
      /\ Forgotten' /\ PollsOnlyOnScreen'
    BY <1>2, KeptByForms
<1>4. UNCHANGED <<flights, form, shown, loading, asked, overlap, server>>
    OBVIOUS
<1>5. Idle \in SaveType /\ Idle.pc = "idle"
    BY VersionFacts DEF Idle, SaveType, Key
<1>6. /\ save' \in [Save -> SaveType]
      /\ save'[s].pc = "idle"
      /\ \A t \in Save : t # s => save'[t] = save[t]
    BY <1>1, <1>5 DEF TypeOK
<1>7. Refetching' = Refetching
    BY <1>1, <1>6 DEF Refetching
<1>8. error' = TRUE /\ busy' \in BOOLEAN
    OBVIOUS
<1>9. TypeOK'
    BY <1>1, <1>3, <1>4, <1>6, <1>8 DEF TypeOK
<1>10. Overlapping' /\ Drafts' /\ LoadingTold'
    BY <1>3, <1>4, <1>7 DEF IInv, Overlapping, Drafts, LoadingTold
<1>11. SavesKnown'
    BY <1>3, <1>4, <1>6 DEF IInv, SavesKnown
<1> QED
    BY <1>3, <1>9, <1>10, <1>11 DEF IInv

LEMMA RefetchedStep ==
    ASSUME IInv, NEW s \in Save, NEW ok \in BOOLEAN, Refetched(s, ok)
    PROVE  IInv'
<1> USE DEF Refetched
<1>1. /\ TypeOK /\ save[s].pc = "refetch" /\ s \in Refetching
      /\ save[s].key \in Key /\ save[s].from \in Version
    BY DEF IInv, TypeOK, SaveType, Refetching
<1>2. loaded
    BY <1>1, SaveNeedsPage
<1>3. /\ UNCHANGED <<page, loaded, hidden, sel, listed, timer, polling, noticed>>
      /\ Forgotten' /\ PollsOnlyOnScreen'
    BY <1>2, KeptByForms
<1>4. UNCHANGED <<flights, asked, server>>
    OBVIOUS
<1>5. PICK v \in save[s].from .. server[save[s].key] : Answer(save[s].key, ok, v)
    OBVIOUS
<1>6. v \in Version
    BY <1>1, <1>5, AnswerType
<1>7. /\ loading' = FALSE /\ error' \in BOOLEAN
      /\ shown' \in [key : Key, ver : Version] \cup {Nothing}
    BY <1>1, <1>5, <1>6 DEF Answer, TypeOK
<1>8. /\ form' \in [open : BOOLEAN, dirty : BOOLEAN, to : Key \cup {Later}]
      /\ ~form'.dirty \/ form' = form
  <2>1. \/ form' = [form EXCEPT !.dirty = FALSE]
        \/ form' = Closed
        \/ form' = form
    OBVIOUS
  <2> QED
    BY <1>1, <2>1 DEF TypeOK, Closed, Key
<1>9. Idle \in SaveType /\ Idle.pc = "idle"
    BY VersionFacts DEF Idle, SaveType, Key
<1>10. /\ save' \in [Save -> SaveType]
       /\ save'[s].pc = "idle"
       /\ \A t \in Save : t # s => save'[t] = save[t]
    BY <1>1, <1>9 DEF TypeOK
<1>11. Refetching' = Refetching \ {s}
    BY <1>1, <1>10 DEF Refetching
<1>12. overlap' = (overlap /\ (flights # << >> \/ Refetching # {s})) /\ busy' \in BOOLEAN
    OBVIOUS
<1>13. TypeOK'
  <2>1. Switches'
    BY <1>1, <1>3, <1>4, <1>7, <1>12 DEF TypeOK, Switches
  <2>2. DataTypes'
    BY <1>1, <1>3, <1>4, <1>7, <1>8, <1>10 DEF TypeOK, DataTypes, Flight
  <2> QED
    BY <2>1, <2>2 DEF TypeOK, Switches, DataTypes, Flight
<1>14. flights # << >> \/ Refetching' # {} => overlap'
  <2>1. CASE flights # << >>
    BY <1>1, <1>12, <2>1 DEF IInv, Overlapping
  <2>2. CASE Refetching' # {}
    <3>1. PICK t \in Refetching : t # s
      BY <1>11, <2>2
    <3> QED
      BY <1>1, <1>12, <3>1 DEF IInv, Overlapping
  <2> QED
    BY <2>1, <2>2
<1>15. Overlapping'
  <2>1. Len(flights) > 1 => flights # << >>
    BY EmptySeq
  <2>2. \A t, u \in Refetching' : t # u => Refetching' # {}
    OBVIOUS
  <2> QED
    BY <1>4, <1>14, <2>1, <2>2 DEF Overlapping
<1>16. LoadingTold'
    BY <1>4, <1>7, <1>14 DEF LoadingTold
<1>17. Drafts' /\ SavesKnown'
  <2>1. Drafts'
    BY <1>3, <1>8 DEF IInv, Drafts
  <2>2. SavesKnown'
    BY <1>3, <1>4, <1>10 DEF IInv, SavesKnown
  <2> QED
    BY <2>1, <2>2
<1> QED
    BY <1>3, <1>13, <1>15, <1>16, <1>17 DEF IInv

-----------------------------------------------------------------------------
(* The theorems *)

LEMMA NextIInv ==
    ASSUME IInv, Next
    PROVE  IInv'
<1>1. CASE Load \/ PollTick \/ Refresh
    BY <1>1, LoadStep, PollOrRefreshStep
<1>2. CASE Hide \/ Unhide \/ Leave
    BY <1>2, HideStep, UnhideStep, LeaveStep
<1>3. CASE \E i \in 1..MaxFlights, ok \in BOOLEAN : Lands(i, ok)
    BY <1>3, LandsStep
<1>4. CASE \E d \in Device : Select(d)
    BY <1>4, SelectStep
<1>5. CASE DevicesListed \/ \E d \in Device \cup {NoDevice} : ServerChanges(d)
    BY <1>5, AsideStep
<1>6. CASE OpenForm \/ Edit \/ Cancel
    BY <1>6, FormStep
<1>7. CASE \E s \in Save : Submit(s) \/ Press(s)
    BY <1>7, BeginStep
<1>8. CASE \E s \in Save : Applied(s) \/ Answered(s) \/ SaveFails(s)
    BY <1>8, AppliedStep, AnsweredStep, SaveFailsStep
<1>9. CASE \E s \in Save : \E ok \in BOOLEAN : Refetched(s, ok)
    BY <1>9, RefetchedStep
<1> QED
    BY <1>1, <1>2, <1>3, <1>4, <1>5, <1>6, <1>7, <1>8, <1>9 DEF Next

LEMMA StutterIInv ==
    ASSUME IInv, UNCHANGED vars
    PROVE  IInv'
<1>1. UNCHANGED <<page, loaded, hidden, sel, listed, timer, polling, noticed, flights, save,
                  busy, form, shown, loading, error, asked, overlap, server>>
    BY DEF vars, clock, view
<1>2. Refetching' = Refetching
    BY <1>1 DEF Refetching
<1>3. TypeOK' /\ Forgotten' /\ Overlapping' /\ Drafts' /\ SavesKnown'
    BY <1>1, <1>2 DEF IInv, TypeOK, Forgotten, Overlapping, Drafts, SavesKnown
<1>4. PollsOnlyOnScreen' /\ LoadingTold'
    BY <1>1, <1>2 DEF IInv, PollsOnlyOnScreen, LoadingTold
<1> QED
    BY <1>3, <1>4 DEF IInv

\* A step of the tab is one of the page, or leaves the page alone.
LEMMA TabSteps == [TabNext]_tabVars => [Next]_vars
BY DEF TabNext, OnPage, tabVars

\* The invariant holds in every reachable state of a tab.
THEOREM PageInvariance == TabSpec => []IInv
<1>1. TabInit => IInv
    BY InitIInv DEF TabInit
<1>2. IInv /\ [TabNext]_tabVars => IInv'
    BY TabSteps, NextIInv, StutterIInv
<1> QED
    BY <1>1, <1>2, PTL DEF TabSpec

\* What a page, its fetches and its saves hold is of its type, for any page.
THEOREM PageTypes == TabSpec => []TypeOK
<1>1. IInv => TypeOK
    BY DEF IInv
<1> QED
    BY <1>1, PageInvariance, PTL

\* Whatever pages there are, and however often the tab is hidden, shown, left and
\* loaded: one interval at most, and only on screen once that is known.
THEOREM PollingStaysOnScreen == TabSpec => []PollsOnlyOnScreen
<1>1. IInv => PollsOnlyOnScreen
    BY DEF IInv
<1> QED
    BY <1>1, PageInvariance, PTL

\* Whatever is in flight: the spinner stands for it unless fetches overlapped, and
\* it stays for good only where nothing was ever asked.
THEOREM SpinnerTellsTheTruth == TabSpec => []LoadingTold
<1>1. IInv => LoadingTold
    BY DEF IInv
<1> QED
    BY <1>1, PageInvariance, PTL

\* A refetch that succeeds brings the save it follows, or another device's list.
LEMMA RefetchShows ==
    ASSUME IInv, NEW s \in Save, Refetched(s, TRUE), ~page.mock, shown'.key = save[s].to
    PROVE  shown'.ver >= save[s].ver
<1>1. /\ TypeOK /\ save[s].pc = "refetch" /\ save[s].key \in Key
      /\ save[s].from \in Version /\ save[s].ver \in Version
    BY DEF IInv, TypeOK, SaveType, Refetched
<1>2. PICK v \in save[s].from .. server[save[s].key] : Answer(save[s].key, TRUE, v)
    BY DEF Refetched
<1>3. v \in Version /\ v >= save[s].from
    BY <1>1, <1>2, AnswerType
<1>4. shown' = [key |-> save[s].key, ver |-> v]
    BY <1>2 DEF Answer
<1>5. save[s].ver <= save[s].from
    BY <1>1, <1>4 DEF IInv, SavesKnown
<1> QED
    BY <1>1, <1>3, <1>4, <1>5, VersionFacts

\* When the refetch after a save succeeds the page shows what was saved, or the
\* list of another device, whatever else is in flight.
THEOREM SavesAreShown == TabSpec => SaveIsShown
<1>1. IInv /\ [TabNext]_tabVars =>
          [\A s \in Save : Refetched(s, TRUE) =>
              \/ page.mock
              \/ shown'.key # save[s].to
              \/ shown'.ver >= save[s].ver]_vars
    BY RefetchShows
<1> QED
    BY <1>1, PageInvariance, PTL DEF TabSpec, SaveIsShown

\* The steps after which a draft may be gone.
DraftMayGo ==
    \/ Cancel \/ Leave \/ page.mock
    \/ \E s \in Save : save[s].form /\ save[s] # save'[s]

LEMMA DraftOnlyGoes ==
    ASSUME IInv, Next, form.dirty, ~form'.dirty
    PROVE  DraftMayGo
<1>1. TypeOK /\ (form.open \/ page.opens = "always") /\ loaded
    BY DEF IInv, Drafts, Forgotten
<1>2. form' # form
    OBVIOUS
<1>3. ~Load /\ ~OpenForm /\ ~Edit
    BY <1>1 DEF Load, OpenForm, Edit, TypeOK
<1>4. CASE \/ DevicesListed \/ PollTick \/ Hide \/ Unhide \/ Refresh
           \/ \E d \in Device : Select(d)
           \/ \E d \in Device \cup {NoDevice} : ServerChanges(d)
           \/ \E s \in Save : Submit(s) \/ Press(s) \/ Applied(s) \/ SaveFails(s)
    BY <1>2, <1>4 DEF DevicesListed, PollTick, Hide, Unhide, Refresh, Select, ServerChanges,
                      Submit, Press, Begin, Applied, SaveFails, view
<1>5. CASE \E i \in 1..MaxFlights, ok \in BOOLEAN : Lands(i, ok)
    BY <1>2, <1>5 DEF Lands, DraftMayGo
<1>6. CASE Leave \/ Cancel
    BY <1>6 DEF DraftMayGo
<1>7. ASSUME NEW s \in Save, Answered(s)
      PROVE  DraftMayGo
  <2>1. save[s].form
    BY <1>2, <1>7 DEF Answered
  <2>2. save'[s].pc # "applied" /\ save[s].pc = "applied"
    BY <1>1, <1>7 DEF Answered, TypeOK, SaveType, Idle
  <2> QED
    BY <2>1, <2>2 DEF DraftMayGo
<1>8. ASSUME NEW s \in Save, NEW ok \in BOOLEAN, Refetched(s, ok)
      PROVE  DraftMayGo
  <2>1. page.mock \/ save[s].form
    BY <1>2, <1>8 DEF Refetched
  <2>2. save'[s].pc # "refetch" /\ save[s].pc = "refetch"
    BY <1>1, <1>8 DEF Refetched, TypeOK, Idle
  <2> QED
    BY <2>1, <2>2 DEF DraftMayGo
<1> QED
    BY <1>3, <1>4, <1>5, <1>6, <1>7, <1>8 DEF Next

\* A draft is lost to its user, to the end of a save, or where the page has no
\* backend; to a poll or another fetch never, whatever lands when.
THEOREM DraftsAreKept == TabSpec => DraftKept
<1>1. IInv /\ [TabNext]_tabVars =>
          [form.dirty /\ ~form'.dirty =>
              \/ Cancel \/ Leave \/ page.mock
              \/ \E s \in Save : save[s].form /\ save[s] # save'[s]]_vars
    BY TabSteps, DraftOnlyGoes DEF DraftMayGo
<1> QED
    BY <1>1, PageInvariance, PTL DEF TabSpec, DraftKept

=============================================================================
