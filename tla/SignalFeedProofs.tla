------------------------- MODULE SignalFeedProofs --------------------------
(***************************************************************************)
(* Proofs about SignalFeed, for any engines and symbols and any number of  *)
(* frames on their way, and about SignalRouting, the other half of the     *)
(* service: where a signal goes that the feed delivers.  What a sequence   *)
(* of frames comes to is stated by the last one that speaks of a topic,    *)
(* not by a fold over all of them.                                         *)
(***************************************************************************)
EXTENDS SignalFeed, SignalRouting, WellFoundedInduction, TLAPS

-----------------------------------------------------------------------------
(* Frames.                                                                 *)

\* A topic is the set of the frames that speak of it.
Topic(y) == {f \in Frame : y \in f.symbols}

MetricTopic == {f \in Frame : f.action \in {"subscribe_metrics", "unsubscribe_metrics"}}

Subscribes(f) == f.action \in {"subscribe", "subscribe_metrics"}

\* With now the state of the topic T before the frames of w are read, b is
\* the one after.
Settles(w, T, now, b) ==
    IF \E i \in DOMAIN w : w[i] \in T
      THEN \E i \in DOMAIN w :
              /\ w[i] \in T /\ (Subscribes(w[i]) <=> b)
              /\ \A j \in DOMAIN w : w[j] \in T => j <= i
      ELSE now <=> b

\* Frames that do not speak of the topic.
LEMMA SettlesQuiet ==
    ASSUME NEW w \in Seq(Frame), NEW g \in Seq(Frame), NEW T, NEW now, NEW b,
           Settles(w, T, now, b), \A k \in DOMAIN g : g[k] \notin T
    PROVE  Settles(w \o g, T, now, b)
<1> DEFINE v == w \o g
<1>1. /\ Len(w) \in Nat /\ DOMAIN w = 1..Len(w) /\ DOMAIN v = 1..(Len(w) + Len(g))
      /\ Len(g) \in Nat /\ DOMAIN g = 1..Len(g)
      /\ \A i \in 1..Len(w) : v[i] = w[i]
      /\ \A i \in DOMAIN v : i > Len(w) => i - Len(w) \in DOMAIN g /\ v[i] = g[i - Len(w)]
  OBVIOUS
<1> HIDE DEF v
<1>2. \A i \in DOMAIN v : v[i] \in T => i \in DOMAIN w /\ w[i] \in T
  BY <1>1
<1>3. \A i \in DOMAIN w : i \in DOMAIN v /\ v[i] = w[i]
  BY <1>1
<1> QED BY <1>2, <1>3 DEF Settles, v

\* The last frame that speaks of the topic is new.
LEMMA SettlesSpoken ==
    ASSUME NEW w \in Seq(Frame), NEW g \in Seq(Frame), NEW T, NEW now, NEW b,
           NEW k \in DOMAIN g, g[k] \in T, Subscribes(g[k]) <=> b,
           \A j \in DOMAIN g : g[j] \in T => j <= k
    PROVE  Settles(w \o g, T, now, b)
<1> DEFINE v == w \o g
<1>1. /\ Len(w) \in Nat /\ DOMAIN v = 1..(Len(w) + Len(g))
      /\ Len(g) \in Nat /\ DOMAIN g = 1..Len(g)
      /\ \A i \in DOMAIN v : i > Len(w) => i - Len(w) \in DOMAIN g /\ v[i] = g[i - Len(w)]
  OBVIOUS
<1> HIDE DEF v
<1>2. k + Len(w) \in DOMAIN v /\ v[k + Len(w)] = g[k]
  BY <1>1
<1>3. ASSUME NEW j \in DOMAIN v, v[j] \in T PROVE j <= k + Len(w)
  <2>1. CASE j > Len(w)
    BY <1>1, <1>3, <2>1
  <2>2. CASE ~(j > Len(w))
    BY <1>1, <2>2
  <2> QED BY <2>1, <2>2
<1> QED BY <1>2, <1>3 DEF Settles, v

\* The first frame is read.
LEMMA SettlesRead ==
    ASSUME NEW w \in Seq(Frame), NEW T, NEW now, NEW b, Settles(w, T, now, b), w # <<>>,
           NEW then, then <=> IF Head(w) \in T THEN Subscribes(Head(w)) ELSE now
    PROVE  Settles(Tail(w), T, then, b)
<1> DEFINE v == Tail(w)
<1>1. /\ Len(w) \in Nat /\ Len(w) > 0 /\ DOMAIN w = 1..Len(w) /\ DOMAIN v = 1..(Len(w) - 1)
      /\ Head(w) = w[1]
      /\ \A i \in DOMAIN v : v[i] = w[i + 1]
  OBVIOUS
<1> HIDE DEF v
<1>2. CASE \E i \in DOMAIN w : w[i] \in T
  <2>1. PICK i \in DOMAIN w : /\ w[i] \in T /\ (Subscribes(w[i]) <=> b)
                              /\ \A j \in DOMAIN w : w[j] \in T => j <= i
    BY <1>2 DEF Settles
  <2>2. CASE i = 1
    <3>1. \A j \in DOMAIN v : v[j] \notin T
      BY <1>1, <2>1, <2>2
    <3>2. then <=> b
      BY <1>1, <2>1, <2>2
    <3> QED BY <3>1, <3>2 DEF Settles, v
  <2>3. CASE i # 1
    <3>1. i - 1 \in DOMAIN v /\ v[i - 1] = w[i]
      BY <1>1, <2>1, <2>3
    <3>2. \A j \in DOMAIN v : v[j] \in T => j <= i - 1
      BY <1>1, <2>1
    <3> QED BY <2>1, <3>1, <3>2 DEF Settles, v
  <2> QED BY <2>2, <2>3
<1>3. CASE ~ \E i \in DOMAIN w : w[i] \in T
  <2>1. \A j \in DOMAIN v : v[j] \notin T
    BY <1>1, <1>3
  <2>2. (now <=> b) /\ Head(w) \notin T
    BY <1>1, <1>3 DEF Settles
  <2> QED BY <2>1, <2>2 DEF Settles, v
<1> QED BY <1>2, <1>3

-----------------------------------------------------------------------------
(* What is sent.                                                           *)

LEMMA FramesType ==
    /\ \A Y \in SUBSET Symbols : Y # {} =>
          /\ [action |-> "subscribe", symbols |-> Y] \in Frame
          /\ [action |-> "unsubscribe", symbols |-> Y] \in Frame
    /\ [action |-> "subscribe_metrics", symbols |-> {}] \in Frame
    /\ [action |-> "unsubscribe_metrics", symbols |-> {}] \in Frame
<1>1. ASSUME NEW Y \in SUBSET Symbols, Y # {}, NEW action \in {"subscribe", "unsubscribe"}
      PROVE  [action |-> action, symbols |-> Y] \in Frame
  <2>1. Y \in (SUBSET Symbols) \ {{}}
    BY <1>1
  <2> QED BY <2>1 DEF Frame
<1>2. ASSUME NEW action \in {"subscribe_metrics", "unsubscribe_metrics"}
      PROVE  [action |-> action, symbols |-> {}] \in Frame
  BY DEF Frame
<1> QED BY <1>1, <1>2

\* At most two frames, the additions before the removals.
LEMMA SymbolFramesForm ==
    ASSUME NEW s \in SUBSET Symbols, NEW d \in SUBSET Symbols
    PROVE  LET sub == [action |-> "subscribe", symbols |-> d \ s]
               uns == [action |-> "unsubscribe", symbols |-> s \ d]
           IN  /\ d \ s = {} /\ s \ d = {} => SymbolFrames(s, d) = <<>>
               /\ d \ s # {} /\ s \ d = {} => SymbolFrames(s, d) = <<sub>>
               /\ d \ s = {} /\ s \ d # {} => SymbolFrames(s, d) = <<uns>>
               /\ d \ s # {} /\ s \ d # {} => SymbolFrames(s, d) = <<sub, uns>>
<1> DEFINE sub == [action |-> "subscribe", symbols |-> d \ s]
           uns == [action |-> "unsubscribe", symbols |-> s \ d]
<1>1. SymbolFrames(s, d) = (IF d \ s = {} THEN <<>> ELSE <<sub>>)
                             \o (IF s \ d = {} THEN <<>> ELSE <<uns>>)
  BY DEF SymbolFrames
<1> HIDE DEF sub, uns
<1>2. <<>> \o <<>> = <<>> /\ <<sub>> \o <<>> = <<sub>> /\ <<>> \o <<uns>> = <<uns>>
  OBVIOUS
<1>3. <<sub>> \o <<uns>> = <<sub, uns>>
  <2> DEFINE both == <<sub>> \o <<uns>>
  <2>1. both \in Seq({sub, uns}) /\ Len(both) = 2 /\ both[1] = sub /\ both[2] = uns
    OBVIOUS
  <2> HIDE DEF both
  <2>2. both = <<sub, uns>>
    BY <2>1
  <2> QED BY <2>2 DEF both
<1>4. /\ d \ s = {} /\ s \ d = {} => SymbolFrames(s, d) = <<>>
      /\ d \ s # {} /\ s \ d = {} => SymbolFrames(s, d) = <<sub>>
      /\ d \ s = {} /\ s \ d # {} => SymbolFrames(s, d) = <<uns>>
      /\ d \ s # {} /\ s \ d # {} => SymbolFrames(s, d) = <<sub, uns>>
  BY <1>1, <1>2, <1>3
<1> QED BY <1>4 DEF sub, uns

LEMMA SymbolFramesType ==
    ASSUME NEW s \in SUBSET Symbols, NEW d \in SUBSET Symbols
    PROVE  SymbolFrames(s, d) \in Seq(Frame)
<1> DEFINE sub == [action |-> "subscribe", symbols |-> d \ s]
           uns == [action |-> "unsubscribe", symbols |-> s \ d]
           g   == SymbolFrames(s, d)
<1> SUFFICES g \in Seq(Frame)
  OBVIOUS
<1>1. (d \ s # {} => sub \in Frame) /\ (s \ d # {} => uns \in Frame)
  BY FramesType
<1>2. /\ d \ s = {} /\ s \ d = {} => g = <<>>
      /\ d \ s # {} /\ s \ d = {} => g = <<sub>>
      /\ d \ s = {} /\ s \ d # {} => g = <<uns>>
      /\ d \ s # {} /\ s \ d # {} => g = <<sub, uns>>
  BY SymbolFramesForm
<1> HIDE DEF sub, uns, g
<1>3. <<>> \in Seq(Frame)
  OBVIOUS
<1>4. ASSUME NEW f \in Frame PROVE <<f>> \in Seq(Frame)
  OBVIOUS
<1>5. ASSUME NEW f \in Frame, NEW h \in Frame PROVE <<f, h>> \in Seq(Frame)
  OBVIOUS
<1>6. CASE d \ s = {} /\ s \ d = {}
  BY <1>2, <1>3, <1>6, Zenon
<1>7. CASE d \ s # {} /\ s \ d = {}
  BY <1>1, <1>2, <1>4, <1>7, Zenon
<1>8. CASE d \ s = {} /\ s \ d # {}
  BY <1>1, <1>2, <1>4, <1>8, Zenon
<1>9. CASE d \ s # {} /\ s \ d # {}
  BY <1>1, <1>2, <1>5, <1>9, Zenon
<1> QED BY <1>6, <1>7, <1>8, <1>9

LEMMA MetricFramesType ==
    ASSUME NEW s \in BOOLEAN, NEW d \in BOOLEAN
    PROVE  MetricFrames(s, d) \in Seq(Frame)
BY FramesType DEF MetricFrames

\* The frames say of each symbol what has become of it.
LEMMA SymbolFramesSettle ==
    ASSUME NEW w \in Seq(Frame), NEW s \in SUBSET Symbols, NEW d \in SUBSET Symbols,
           NEW y \in Symbols, NEW now, Settles(w, Topic(y), now, y \in s)
    PROVE  Settles(w \o SymbolFrames(s, d), Topic(y), now, y \in d)
<1> DEFINE g   == SymbolFrames(s, d)
           sub == [action |-> "subscribe", symbols |-> d \ s]
           uns == [action |-> "unsubscribe", symbols |-> s \ d]
<1>0. g \in Seq(Frame)
  BY SymbolFramesType
<1>1. /\ d \ s = {} /\ s \ d = {} => g = <<>>
      /\ d \ s # {} /\ s \ d = {} => g = <<sub>>
      /\ d \ s = {} /\ s \ d # {} => g = <<uns>>
      /\ d \ s # {} /\ s \ d # {} => g = <<sub, uns>>
  BY SymbolFramesForm
<1>2. /\ sub \in Topic(y) <=> y \in d /\ y \notin s
      /\ uns \in Topic(y) <=> y \in s /\ y \notin d
      /\ Subscribes(sub) /\ ~Subscribes(uns)
  BY FramesType DEF Topic, Subscribes
<1> HIDE DEF g, sub, uns
<1>3. CASE y \in d <=> y \in s
  <2>1. \A k \in DOMAIN g : g[k] \notin Topic(y)
    BY <1>1, <1>2, <1>3
  <2> QED BY <1>0, <1>3, <2>1, SettlesQuiet DEF g
<1>4. CASE y \in d /\ y \notin s
  <2>1. 1 \in DOMAIN g /\ g[1] = sub /\ \A k \in DOMAIN g : g[k] \in Topic(y) => k <= 1
    BY <1>1, <1>2, <1>4
  <2> QED BY <1>0, <1>2, <1>4, <2>1, SettlesSpoken DEF g
<1>5. CASE y \in s /\ y \notin d
  <2>1. PICK k \in DOMAIN g : g[k] = uns /\ \A j \in DOMAIN g : j <= k
    <3>1. CASE d \ s = {}
      BY <1>1, <1>5, <3>1
    <3>2. CASE d \ s # {}
      BY <1>1, <1>5, <3>2
    <3> QED BY <3>1, <3>2
  <2> QED BY <1>0, <1>2, <1>5, <2>1, SettlesSpoken DEF g
<1> QED BY <1>3, <1>4, <1>5

\* They say nothing of the metrics.
LEMMA SymbolFramesQuiet ==
    ASSUME NEW w \in Seq(Frame), NEW s \in SUBSET Symbols, NEW d \in SUBSET Symbols,
           NEW now, NEW b, Settles(w, MetricTopic, now, b)
    PROVE  Settles(w \o SymbolFrames(s, d), MetricTopic, now, b)
<1> DEFINE g   == SymbolFrames(s, d)
           sub == [action |-> "subscribe", symbols |-> d \ s]
           uns == [action |-> "unsubscribe", symbols |-> s \ d]
<1>0. g \in Seq(Frame)
  BY SymbolFramesType
<1>1. g \in {<<>>, <<sub>>, <<uns>>, <<sub, uns>>}
  BY SymbolFramesForm
<1>2. sub \notin MetricTopic /\ uns \notin MetricTopic
  BY DEF MetricTopic
<1> HIDE DEF g, sub, uns
<1>3. \A k \in DOMAIN g : g[k] \notin MetricTopic
  BY <1>1, <1>2
<1> QED BY <1>0, <1>3, SettlesQuiet DEF g

LEMMA MetricFramesSettle ==
    ASSUME NEW w \in Seq(Frame), NEW s \in BOOLEAN, NEW d \in BOOLEAN,
           NEW now, Settles(w, MetricTopic, now, s)
    PROVE  Settles(w \o MetricFrames(s, d), MetricTopic, now, d)
<1> DEFINE g == MetricFrames(s, d)
<1>0. g \in Seq(Frame)
  BY MetricFramesType
<1>1. CASE s = d
  BY <1>0, <1>1, SettlesQuiet DEF MetricFrames
<1>2. CASE s # d
  <2> DEFINE f == [action  |-> IF d THEN "subscribe_metrics" ELSE "unsubscribe_metrics",
                   symbols |-> {}]
  <2>1. g = <<f>>
    BY <1>2 DEF MetricFrames
  <2>2. f \in MetricTopic /\ (Subscribes(f) <=> d)
    BY FramesType DEF MetricTopic, Subscribes
  <2> HIDE DEF f, g
  <2>3. 1 \in DOMAIN g /\ (\A k \in DOMAIN g : k <= 1) /\ g[1] = f
    BY <2>1
  <2> QED BY <1>0, <2>2, <2>3, SettlesSpoken DEF g
<1> QED BY <1>1, <1>2

\* They say nothing of a symbol.
LEMMA MetricFramesQuiet ==
    ASSUME NEW w \in Seq(Frame), NEW s \in BOOLEAN, NEW d \in BOOLEAN,
           NEW y, NEW now, NEW b, Settles(w, Topic(y), now, b)
    PROVE  Settles(w \o MetricFrames(s, d), Topic(y), now, b)
<1>1. \A k \in DOMAIN MetricFrames(s, d) : MetricFrames(s, d)[k].symbols = {}
  BY DEF MetricFrames
<1> QED BY <1>1, MetricFramesType, SettlesQuiet DEF Topic

-----------------------------------------------------------------------------
(* Types.                                                                  *)

\* What the types of the rest do not depend on.
OthersOK ==
    /\ room \in [Symbols -> SUBSET Engines]
    /\ desiredSymbols \subseteq Symbols /\ subscribedSymbols \subseteq Symbols
    /\ metricsDesired \in BOOLEAN /\ metricsSubscribed \in BOOLEAN
    /\ socket \in {"connecting", "open", "lost", "closed"}
    /\ reconnectTimer \in BOOLEAN /\ stopping \in BOOLEAN
    /\ hung \in BOOLEAN

UpstreamType == [symbols : SUBSET Symbols, metrics : BOOLEAN]

LEMMA TypeParts ==
    TypeOK <=> OthersOK /\ upstream \in UpstreamType /\ wire \in Seq(Frame)
BY DEF TypeOK, OthersOK, UpstreamType

LEMMA TypePartsNext ==
    TypeOK' <=> OthersOK' /\ upstream' \in UpstreamType /\ wire' \in Seq(Frame)
BY DEF TypeOK, OthersOK, UpstreamType

LEMMA NothingType == Nothing \in UpstreamType
BY DEF Nothing, UpstreamType

\* A change of the rooms, whichever it is.
LEMMA RoomStep ==
    ASSUME TypeOK,
           \/ \E e \in Engines, Y \in SUBSET Symbols : Join(e, Y) \/ Leave(e, Y)
           \/ \E D \in SUBSET (Symbols \X Engines) : EvictExpired(D)
    PROVE  RoomsOnly /\ \E r \in [Symbols -> SUBSET Engines] : RoomsBecome(r)
<1>0. room \in [Symbols -> SUBSET Engines]
  BY TypeParts DEF OthersOK
<1>1. ASSUME NEW e \in Engines, NEW Y \in SUBSET Symbols, Join(e, Y)
      PROVE  \E r \in [Symbols -> SUBSET Engines] : RoomsBecome(r)
  <2> DEFINE r == [y \in Symbols |-> IF y \in Y THEN room[y] \cup {e} ELSE room[y]]
  <2>1. r \in [Symbols -> SUBSET Engines]
    BY <1>0
  <2> QED BY <1>1, <2>1 DEF Join
<1>2. ASSUME NEW e \in Engines, NEW Y \in SUBSET Symbols, Leave(e, Y)
      PROVE  \E r \in [Symbols -> SUBSET Engines] : RoomsBecome(r)
  <2> DEFINE r == [y \in Symbols |-> IF y \in Y THEN room[y] \ {e} ELSE room[y]]
  <2>1. r \in [Symbols -> SUBSET Engines]
    BY <1>0
  <2> QED BY <1>2, <2>1 DEF Leave
<1>3. ASSUME NEW D \in SUBSET (Symbols \X Engines), EvictExpired(D)
      PROVE  \E r \in [Symbols -> SUBSET Engines] : RoomsBecome(r)
  <2> DEFINE r == [y \in Symbols |-> {e \in room[y] : <<y, e>> \notin D}]
  <2>1. r \in [Symbols -> SUBSET Engines]
    BY <1>0
  <2> QED BY <1>3, <2>1 DEF EvictExpired
<1> QED BY <1>1, <1>2, <1>3 DEF Join, Leave, EvictExpired

LEMMA FeedTypeStep ==
    ASSUME TypeOK, [Next]_vars
    PROVE  TypeOK'
<1>0. OthersOK /\ upstream \in UpstreamType /\ wire \in Seq(Frame)
  BY TypeParts
<1>1. ASSUME \/ \E e \in Engines, Y \in SUBSET Symbols : Join(e, Y) \/ Leave(e, Y)
             \/ \E D \in SUBSET (Symbols \X Engines) : EvictExpired(D)
      PROVE  TypeOK'
  <2>1. RoomsOnly
    BY <1>1, RoomStep
  <2>2. PICK r \in [Symbols -> SUBSET Engines] : RoomsBecome(r)
    BY <1>1, RoomStep
  <2>3. Rooms(r) \in SUBSET Symbols
    BY DEF Rooms
  <2>4. SymbolFrames(subscribedSymbols, Rooms(r)) \in Seq(Frame)
    BY <1>0, <2>3, SymbolFramesType DEF OthersOK
  <2>5. wire' \in Seq(Frame)
    <3>1. wire \o SymbolFrames(subscribedSymbols, Rooms(r)) \in Seq(Frame)
      BY <1>0, <2>4
    <3> QED BY <1>0, <2>2, <3>1, Zenon DEF RoomsBecome, SyncSubscriptions
  <2>6. OthersOK'
    BY <1>0, <2>1, <2>2, <2>3 DEF RoomsBecome, SyncSubscriptions, RoomsOnly, OthersOK
  <2> QED BY <1>0, <2>1, <2>5, <2>6, TypePartsNext DEF RoomsOnly
<1>2. ASSUME NEW d \in BOOLEAN, MetricDemand(d) PROVE TypeOK'
  <2>1. MetricFrames(metricsSubscribed, d) \in Seq(Frame)
    BY <1>0, MetricFramesType DEF OthersOK
  <2>2. wire' \in Seq(Frame)
    <3>1. wire \o MetricFrames(metricsSubscribed, d) \in Seq(Frame)
      BY <1>0, <2>1
    <3> QED BY <1>0, <1>2, <3>1, Zenon DEF MetricDemand, SyncMetricSubscription
  <2> QED BY <1>0, <1>2, <2>2, TypePartsNext
          DEF MetricDemand, SyncMetricSubscription, OthersOK
<1>3. CASE Opened
  <2>1. SymbolFrames({}, desiredSymbols) \in Seq(Frame)
    BY <1>0, SymbolFramesType DEF OthersOK
  <2>2. MetricFrames(FALSE, metricsDesired) \in Seq(Frame)
    BY <1>0, MetricFramesType DEF OthersOK
  <2>3. wire' \in Seq(Frame)
    <3>1. ASSUME NEW f \in Seq(Frame), NEW g \in Seq(Frame) PROVE f \o g \in Seq(Frame)
      OBVIOUS
    <3> QED BY <1>3, <2>1, <2>2, <3>1, Zenon DEF Opened
  <2> QED BY <1>0, <1>3, <2>3, NothingType, TypePartsNext DEF Opened, OthersOK, wanted
<1>4. CASE Lost \/ Reconnect \/ Stop \/ Hang
  BY <1>0, <1>4, TypePartsNext DEF Lost, Reconnect, Stop, Hang, OthersOK, wanted, sent
<1>5. CASE Closed
  <2>1. wire' = <<>> /\ <<>> \in Seq(Frame)
    BY <1>5 DEF Closed
  <2> QED BY <1>0, <1>5, <2>1, NothingType, TypePartsNext DEF Closed, OthersOK, wanted
<1>6. CASE Reads
  <2>1. Head(wire) \in Frame /\ wire' \in Seq(Frame)
    BY <1>0, <1>6 DEF Reads
  <2>2. Apply(upstream, Head(wire)) \in UpstreamType
    BY <1>0, <2>1 DEF Apply, UpstreamType, Frame
  <2> QED BY <1>0, <1>6, <2>1, <2>2, TypePartsNext DEF Reads, OthersOK, wanted
<1>7. CASE UNCHANGED vars
  BY <1>0, <1>7, TypePartsNext DEF vars, OthersOK, wanted, sent
<1> QED BY <1>1, <1>2, <1>3, <1>4, <1>5, <1>6, <1>7 DEF Next

LEMMA FeedTypeInitially == Init => TypeOK
<1> SUFFICES ASSUME Init PROVE TypeOK
  OBVIOUS
<1>1. wire = <<>> /\ <<>> \in Seq(Frame)
  BY DEF Init
<1> QED BY <1>1, NothingType, TypeParts DEF Init, OthersOK

(* Every variable keeps its type; in particular no frame on its way is      *)
(* without a symbol.                                                        *)
THEOREM FeedTypeCorrect == Spec => []TypeOK
<1>1. TypeOK /\ [Next]_vars => TypeOK'
  BY FeedTypeStep
<1> QED BY FeedTypeInitially, <1>1, PTL DEF Spec

-----------------------------------------------------------------------------
(* The socket.                                                             *)

(* The gateway is never left without a connection and without an attempt at *)
(* one: a closed socket has a reconnection pending until the service stops, *)
(* and none is pending beside a socket that lives or after the stop.        *)
NeverStranded == reconnectTimer <=> socket = "closed" /\ ~stopping

\* A service that stops lets go of its socket and its timer.
SocketInv ==
    /\ NeverStranded
    /\ stopping => socket \in {"lost", "closed"}

LEMMA SocketStep ==
    ASSUME TypeOK, SocketInv, [Next]_vars
    PROVE  SocketInv'
<1>0. OthersOK
  BY TypeParts
<1>1. ASSUME \/ \E e \in Engines, Y \in SUBSET Symbols : Join(e, Y) \/ Leave(e, Y)
             \/ \E D \in SUBSET (Symbols \X Engines) : EvictExpired(D)
      PROVE  SocketInv'
  BY <1>1, RoomStep DEF RoomsOnly, SocketInv, NeverStranded
<1>2. ASSUME NEW d \in BOOLEAN, MetricDemand(d) PROVE SocketInv'
  BY <1>2 DEF MetricDemand, SocketInv, NeverStranded
<1>3. CASE Opened \/ Lost \/ Closed \/ Reconnect \/ Stop \/ Reads \/ Hang
  <2>1. CASE Opened
    BY <1>0, <2>1 DEF Opened, SocketInv, NeverStranded, OthersOK
  <2>5. CASE Lost
    BY <1>0, <2>5 DEF Lost, SocketInv, NeverStranded, OthersOK
  <2>2. CASE Closed \/ Reconnect
    <3>1. ASSUME Closed PROVE SocketInv'
      <4>1. socket' = "closed" /\ stopping' = stopping /\ (reconnectTimer' <=> ~stopping)
        BY <3>1, Zenon DEF Closed
      <4> QED BY <4>1 DEF SocketInv, NeverStranded
    <3>2. ASSUME Reconnect PROVE SocketInv'
      BY <3>2 DEF Reconnect, SocketInv, NeverStranded
    <3> QED BY <2>2, <3>1, <3>2
  <2>3. CASE Stop
    BY <1>0, <2>3 DEF Stop, SocketInv, NeverStranded, OthersOK
  <2>4. CASE Reads \/ Hang
    BY <2>4 DEF Reads, Hang, SocketInv, NeverStranded
  <2> QED BY <1>3, <2>1, <2>2, <2>3, <2>4, <2>5
<1>4. CASE UNCHANGED vars
  BY <1>4 DEF vars, SocketInv, NeverStranded
<1> QED BY <1>1, <1>2, <1>3, <1>4 DEF Next

(* The gateway has one socket to the Signal Engine: another is opened only  *)
(* after 'close' of the last, and none once the service is stopping.        *)
THEOREM OneSubscriber == Spec => SoleSubscriber
<1>1. Init => SocketInv
  BY DEF Init, SocketInv, NeverStranded
<1>2. ASSUME SocketInv, [Next]_vars
      PROVE  [socket' = "connecting" => socket = "closed" /\ ~stopping]_<<socket>>
  <2>1. ASSUME \/ \E e \in Engines, Y \in SUBSET Symbols : Join(e, Y) \/ Leave(e, Y)
               \/ \E D \in SUBSET (Symbols \X Engines) : EvictExpired(D)
        PROVE  socket' = socket
    BY <2>1 DEF Join, Leave, EvictExpired, RoomsOnly
  <2>2. ASSUME NEW d \in BOOLEAN, MetricDemand(d) PROVE socket' = socket
    BY <2>2 DEF MetricDemand
  <2>3. ASSUME Opened \/ Lost \/ Closed \/ Reads \/ Hang \/ UNCHANGED vars
        PROVE  socket' = socket \/ socket' # "connecting"
    BY <2>3 DEF Opened, Lost, Closed, Reads, Hang, vars
  <2>4. ASSUME Stop PROVE socket' = socket \/ socket' # "connecting"
    BY <2>4 DEF Stop
  <2>5. ASSUME Reconnect PROVE socket = "closed" /\ ~stopping
    BY <1>2, <2>5 DEF Reconnect, SocketInv, NeverStranded
  <2> QED BY <1>2, <2>1, <2>2, <2>3, <2>4, <2>5 DEF Next
<1> QED BY <1>1, <1>2, FeedTypeInitially, FeedTypeStep, SocketStep, PTL
        DEF Spec, SoleSubscriber

(* A closed socket has a reconnection pending until the service stops, and  *)
(* none is pending beside a socket that lives or after the stop.            *)
THEOREM FeedNeverStranded == Spec => []NeverStranded
<1>1. Init => SocketInv
  BY DEF Init, SocketInv, NeverStranded
<1>2. SocketInv => NeverStranded
  BY DEF SocketInv
<1> QED BY <1>1, <1>2, FeedTypeInitially, FeedTypeStep, SocketStep, PTL DEF Spec

-----------------------------------------------------------------------------
(* What the Signal Engine will be subscribed to.                           *)

\* While it is connected, what was subscribed is what is desired; and while
\* the service runs, what is desired is the rooms.
SyncInv ==
    /\ ~stopping => desiredSymbols = Rooms(room)
    /\ socket = "open" =>
          subscribedSymbols = desiredSymbols /\ metricsSubscribed = metricsDesired

\* The frames on their way bring the Signal Engine to what was subscribed.
WireInv ==
    socket = "open" =>
        /\ \A y \in Symbols :
              Settles(wire, Topic(y), y \in upstream.symbols, y \in subscribedSymbols)
        /\ Settles(wire, MetricTopic, upstream.metrics, metricsSubscribed)

FeedInv == TypeOK /\ SocketInv /\ SyncInv /\ WireInv

LEMMA SyncStep ==
    ASSUME FeedInv, [Next]_vars
    PROVE  SyncInv'
<1>0. OthersOK
  BY TypeParts DEF FeedInv
<1> USE DEF FeedInv
<1>1. ASSUME \/ \E e \in Engines, Y \in SUBSET Symbols : Join(e, Y) \/ Leave(e, Y)
             \/ \E D \in SUBSET (Symbols \X Engines) : EvictExpired(D)
      PROVE  SyncInv'
  <2>1. PICK r \in [Symbols -> SUBSET Engines] : RoomsBecome(r)
    BY <1>1, RoomStep
  <2>2. RoomsOnly
    BY <1>1, RoomStep
  <2>3. CASE Rooms(r) = Rooms(room) \/ stopping
    <3>1. /\ UNCHANGED <<desiredSymbols, subscribedSymbols, socket, stopping,
                         metricsDesired, metricsSubscribed>>
          /\ room' = r
      BY <2>1, <2>2, <2>3 DEF RoomsBecome, RoomsOnly
    <3>2. ~stopping => Rooms(room)' = Rooms(room)
      BY <2>3, <3>1 DEF Rooms
    <3> QED BY <3>1, <3>2 DEF SyncInv
  <2>4. CASE ~(Rooms(r) = Rooms(room) \/ stopping)
    <3>1. room' = r /\ desiredSymbols' = Rooms(r) /\ SyncSubscriptions(Rooms(r))
      BY <2>1, <2>4 DEF RoomsBecome
    <3>2. Rooms(room)' = Rooms(r)
      BY <3>1 DEF Rooms
    <3>3. UNCHANGED <<socket, stopping, metricsDesired, metricsSubscribed>>
      BY <2>2 DEF RoomsOnly
    <3> QED BY <3>1, <3>2, <3>3 DEF SyncInv, SyncSubscriptions
  <2> QED BY <2>3, <2>4
<1>2. ASSUME NEW d \in BOOLEAN, MetricDemand(d) PROVE SyncInv'
  <2>1. Rooms(room)' = Rooms(room)
    BY <1>2 DEF MetricDemand, Rooms
  <2> QED BY <1>2, <2>1 DEF MetricDemand, SyncMetricSubscription, SyncInv
<1>3. ASSUME Opened \/ Lost \/ Closed \/ Reconnect \/ Stop \/ Reads \/ Hang \/ UNCHANGED vars
      PROVE  SyncInv'
  <2>1. Rooms(room)' = Rooms(room) /\ desiredSymbols' = desiredSymbols
        /\ (stopping' \/ stopping' = stopping)
    BY <1>3 DEF Opened, Lost, Closed, Reconnect, Stop, Reads, Hang, vars, wanted, Rooms
  <2>2. socket' = "open" =>
          subscribedSymbols' = desiredSymbols' /\ metricsSubscribed' = metricsDesired'
    <3>1. CASE Opened
      BY <3>1 DEF Opened, wanted
    <3>2. CASE Lost \/ Closed \/ Reconnect
      BY <3>2 DEF Lost, Closed, Reconnect
    <3>3. CASE Stop \/ Reads \/ Hang \/ UNCHANGED vars
      BY <1>0, <3>3 DEF Stop, Reads, Hang, vars, wanted, sent, SyncInv, OthersOK
    <3> QED BY <1>3, <3>1, <3>2, <3>3
  <2> QED BY <1>0, <2>1, <2>2 DEF SyncInv, OthersOK
<1> QED BY <1>1, <1>2, <1>3 DEF Next

LEMMA WireStep ==
    ASSUME FeedInv, [Next]_vars
    PROVE  WireInv'
<1>0. /\ OthersOK /\ upstream \in UpstreamType /\ wire \in Seq(Frame)
      /\ SocketInv /\ SyncInv /\ WireInv
  BY TypeParts DEF FeedInv
<1>1. ASSUME \/ \E e \in Engines, Y \in SUBSET Symbols : Join(e, Y) \/ Leave(e, Y)
             \/ \E D \in SUBSET (Symbols \X Engines) : EvictExpired(D)
      PROVE  WireInv'
  <2>1. PICK r \in [Symbols -> SUBSET Engines] : RoomsBecome(r)
    BY <1>1, RoomStep DEF FeedInv
  <2>2. UNCHANGED <<socket, upstream, metricsSubscribed>>
    BY <1>1, RoomStep DEF RoomsOnly, FeedInv
  <2>3. CASE UNCHANGED <<subscribedSymbols, wire>>
    BY <1>0, <2>2, <2>3 DEF WireInv
  <2>4. CASE ~UNCHANGED <<subscribedSymbols, wire>>
    <3>1. socket = "open" /\ subscribedSymbols' = Rooms(r)
          /\ wire' = wire \o SymbolFrames(subscribedSymbols, Rooms(r))
      BY <2>1, <2>4 DEF RoomsBecome, SyncSubscriptions
    <3>2. Rooms(r) \in SUBSET Symbols /\ subscribedSymbols \in SUBSET Symbols
      BY <1>0 DEF Rooms, OthersOK
    <3>3. ASSUME NEW y \in Symbols
          PROVE  Settles(wire', Topic(y), y \in upstream'.symbols, y \in subscribedSymbols')
      <4>1. Settles(wire, Topic(y), y \in upstream.symbols, y \in subscribedSymbols)
        BY <1>0, <3>1 DEF WireInv
      <4>2. Settles(wire \o SymbolFrames(subscribedSymbols, Rooms(r)), Topic(y),
                    y \in upstream.symbols, y \in Rooms(r))
        BY <1>0, <3>2, <4>1, SymbolFramesSettle
      <4> QED BY <2>2, <3>1, <4>2
    <3>4. Settles(wire', MetricTopic, upstream'.metrics, metricsSubscribed')
      <4>1. Settles(wire, MetricTopic, upstream.metrics, metricsSubscribed)
        BY <1>0, <3>1 DEF WireInv
      <4>2. Settles(wire \o SymbolFrames(subscribedSymbols, Rooms(r)), MetricTopic,
                    upstream.metrics, metricsSubscribed)
        BY <1>0, <3>2, <4>1, SymbolFramesQuiet
      <4> QED BY <2>2, <3>1, <4>2
    <3> QED BY <3>3, <3>4 DEF WireInv
  <2> QED BY <2>3, <2>4
<1>2. ASSUME NEW d \in BOOLEAN, MetricDemand(d) PROVE WireInv'
  <2>1. UNCHANGED <<socket, upstream, subscribedSymbols>>
    BY <1>2 DEF MetricDemand
  <2>2. CASE UNCHANGED <<metricsSubscribed, wire>>
    BY <1>0, <2>1, <2>2 DEF WireInv
  <2>3. CASE ~UNCHANGED <<metricsSubscribed, wire>>
    <3>1. socket = "open" /\ metricsSubscribed' = d
          /\ wire' = wire \o MetricFrames(metricsSubscribed, d)
      BY <1>2, <2>3 DEF MetricDemand, SyncMetricSubscription
    <3>2. metricsSubscribed \in BOOLEAN
      BY <1>0 DEF OthersOK
    <3>3. ASSUME NEW y \in Symbols
          PROVE  Settles(wire', Topic(y), y \in upstream'.symbols, y \in subscribedSymbols')
      <4>1. Settles(wire, Topic(y), y \in upstream.symbols, y \in subscribedSymbols)
        BY <1>0, <3>1 DEF WireInv
      <4>2. Settles(wire \o MetricFrames(metricsSubscribed, d), Topic(y),
                    y \in upstream.symbols, y \in subscribedSymbols)
        BY <1>0, <3>2, <4>1, MetricFramesQuiet
      <4> QED BY <2>1, <3>1, <4>2
    <3>4. Settles(wire', MetricTopic, upstream'.metrics, metricsSubscribed')
      <4>1. Settles(wire, MetricTopic, upstream.metrics, metricsSubscribed)
        BY <1>0, <3>1 DEF WireInv
      <4>2. Settles(wire \o MetricFrames(metricsSubscribed, d), MetricTopic,
                    upstream.metrics, d)
        BY <1>0, <3>2, <4>1, MetricFramesSettle
      <4> QED BY <2>1, <3>1, <4>2
    <3> QED BY <3>3, <3>4 DEF WireInv
  <2> QED BY <2>2, <2>3
\* A new connection starts with nothing, and is sent everything.
<1>3. CASE Opened
  <2>1. /\ subscribedSymbols' = desiredSymbols /\ metricsSubscribed' = metricsDesired
        /\ wire' = SymbolFrames({}, desiredSymbols) \o MetricFrames(FALSE, metricsDesired)
        /\ upstream'.symbols = {} /\ upstream'.metrics = FALSE
    BY <1>3 DEF Opened, Nothing
  <2>2. desiredSymbols \in SUBSET Symbols /\ metricsDesired \in BOOLEAN
    BY <1>0 DEF OthersOK
  <2> DEFINE f == SymbolFrames({}, desiredSymbols)
  <2>3. f \in Seq(Frame) /\ <<>> \in Seq(Frame)
    BY <2>2, SymbolFramesType
  <2>4. <<>> \o f = f
    <3> HIDE DEF f
    <3> QED BY <2>3
  <2>5. ASSUME NEW y \in Symbols
        PROVE  Settles(wire', Topic(y), y \in upstream'.symbols, y \in subscribedSymbols')
    <3>1. Settles(<<>>, Topic(y), FALSE, y \in {})
      BY DEF Settles
    <3>2. Settles(<<>> \o f, Topic(y), FALSE, y \in desiredSymbols)
      BY <2>2, <2>3, <3>1, SymbolFramesSettle
    <3>3. Settles(f, Topic(y), FALSE, y \in desiredSymbols)
      BY <2>4, <3>2
    <3>4. Settles(f \o MetricFrames(FALSE, metricsDesired), Topic(y), FALSE,
                  y \in desiredSymbols)
      BY <2>2, <2>3, <3>3, MetricFramesQuiet
    <3> QED BY <2>1, <3>4 DEF Settles
  <2>6. Settles(wire', MetricTopic, upstream'.metrics, metricsSubscribed')
    <3>1. Settles(<<>>, MetricTopic, FALSE, FALSE)
      BY DEF Settles
    <3>2. Settles(<<>> \o f, MetricTopic, FALSE, FALSE)
      BY <2>2, <2>3, <3>1, SymbolFramesQuiet
    <3>3. Settles(f, MetricTopic, FALSE, FALSE)
      BY <2>4, <3>2
    <3>4. Settles(f \o MetricFrames(FALSE, metricsDesired), MetricTopic, FALSE,
                  metricsDesired)
      BY <2>2, <2>3, <3>3, MetricFramesSettle
    <3> QED BY <2>1, <3>4, Zenon
  <2> QED BY <2>5, <2>6 DEF WireInv
<1>4. CASE Reads
  <2>1. /\ wire # <<>> /\ socket = "open" /\ wire' = Tail(wire)
        /\ upstream' = Apply(upstream, Head(wire))
        /\ UNCHANGED <<subscribedSymbols, metricsSubscribed>>
    BY <1>4 DEF Reads
  <2> DEFINE f == Head(wire)
  <2>2. f \in Frame
    BY <1>0, <2>1
  <2> HIDE DEF f
  <2>3. ASSUME NEW y \in Symbols
        PROVE  Settles(wire', Topic(y), y \in upstream'.symbols, y \in subscribedSymbols')
    <3>1. Settles(wire, Topic(y), y \in upstream.symbols, y \in subscribedSymbols)
      BY <1>0, <2>1 DEF WireInv
    <3>2. y \in Apply(upstream, f).symbols
            <=> IF f \in Topic(y) THEN Subscribes(f) ELSE y \in upstream.symbols
      BY <1>0, <2>2 DEF Apply, Topic, Subscribes, Frame, UpstreamType
    <3> DEFINE then == IF f \in Topic(y) THEN Subscribes(f) ELSE y \in upstream.symbols
    <3>3. Settles(Tail(wire), Topic(y), then, y \in subscribedSymbols)
      BY <1>0, <2>1, <3>1, SettlesRead DEF f
    <3> QED BY <2>1, <3>2, <3>3 DEF f, Settles
  <2>4. Settles(wire', MetricTopic, upstream'.metrics, metricsSubscribed')
    <3>1. Settles(wire, MetricTopic, upstream.metrics, metricsSubscribed)
      BY <1>0, <2>1 DEF WireInv
    <3>2. Apply(upstream, f).metrics
            <=> IF f \in MetricTopic THEN Subscribes(f) ELSE upstream.metrics
      BY <1>0, <2>2 DEF Apply, MetricTopic, Subscribes, Frame, UpstreamType
    <3>3. Settles(Tail(wire), MetricTopic, Apply(upstream, f).metrics, metricsSubscribed)
      BY <1>0, <2>1, <3>1, <3>2, SettlesRead DEF f
    <3> QED BY <2>1, <3>3 DEF f
  <2> QED BY <2>3, <2>4 DEF WireInv
<1>5. CASE Lost \/ Closed \/ Reconnect
  BY <1>5 DEF Lost, Closed, Reconnect, WireInv
<1>6. CASE Stop
  BY <1>0, <1>6 DEF Stop, WireInv, SocketInv, NeverStranded, OthersOK
<1>7. CASE Hang \/ UNCHANGED vars
  BY <1>0, <1>7 DEF Hang, WireInv, vars, sent
<1> QED BY <1>1, <1>2, <1>3, <1>4, <1>5, <1>6, <1>7 DEF Next

\* What the frames come to is their last word.
LEMMA SettlesIsLastWord ==
    ASSUME TypeOK, WireInv, socket = "open"
    PROVE  /\ \A y \in Symbols :
                 LastWord(About(y), "subscribe", y \in upstream.symbols)
                   <=> y \in subscribedSymbols
           /\ LastWord(AboutMetrics, "subscribe_metrics", upstream.metrics)
                <=> metricsSubscribed
<1>0. wire \in Seq(Frame) /\ \A i \in DOMAIN wire : i \in Nat /\ wire[i] \in Frame
  BY TypeParts
<1>1. ASSUME NEW y \in Symbols
      PROVE  LastWord(About(y), "subscribe", y \in upstream.symbols)
               <=> y \in subscribedSymbols
  <2>1. Settles(wire, Topic(y), y \in upstream.symbols, y \in subscribedSymbols)
    BY DEF WireInv
  <2>2. \A i \in DOMAIN wire : wire[i] \in Topic(y) <=> i \in About(y)
    BY <1>0 DEF Topic, About
  <2>3. \A i \in About(y) : Subscribes(wire[i]) <=> wire[i].action = "subscribe"
    BY <1>0 DEF Subscribes, About, Frame
  <2>4. About(y) \subseteq DOMAIN wire /\ About(y) \subseteq Nat
    BY <1>0 DEF About
  <2> QED BY <2>1, <2>2, <2>3, <2>4 DEF Settles, LastWord
<1>2. LastWord(AboutMetrics, "subscribe_metrics", upstream.metrics) <=> metricsSubscribed
  <2>1. Settles(wire, MetricTopic, upstream.metrics, metricsSubscribed)
    BY DEF WireInv
  <2>2. \A i \in DOMAIN wire : wire[i] \in MetricTopic <=> i \in AboutMetrics
    BY <1>0 DEF MetricTopic, AboutMetrics
  <2>3. \A i \in AboutMetrics : Subscribes(wire[i]) <=> wire[i].action = "subscribe_metrics"
    BY <1>0 DEF Subscribes, AboutMetrics, Frame
  <2>4. AboutMetrics \subseteq DOMAIN wire /\ AboutMetrics \subseteq Nat
    BY <1>0 DEF AboutMetrics
  <2> QED BY <2>1, <2>2, <2>3, <2>4 DEF Settles, LastWord
<1> QED BY <1>1, <1>2

(* What the Signal Engine is subscribed to, once it has read what is on its *)
(* way, is the rooms there are and the demand there is, after any number of *)
(* changes, losses and reconnections.                                       *)
THEOREM FeedFollowsRooms == Spec => []FeedMatchesRooms
<1>1. Init => FeedInv
  BY FeedTypeInitially DEF Init, FeedInv, SocketInv, NeverStranded, SyncInv, WireInv, Rooms
<1>2. FeedInv /\ [Next]_vars => FeedInv'
  BY FeedTypeStep, SocketStep, SyncStep, WireStep DEF FeedInv
<1>3. FeedInv => FeedMatchesRooms
  <2>1. ASSUME FeedInv, socket = "open"
        PROVE  subscribedSymbols = Rooms(room) /\ metricsSubscribed = metricsDesired
    BY <2>1, TypeParts DEF FeedInv, SocketInv, NeverStranded, SyncInv, OthersOK
  <2> QED BY <2>1, SettlesIsLastWord DEF FeedInv, FeedMatchesRooms
<1> QED BY <1>1, <1>2, <1>3, PTL DEF Spec

-----------------------------------------------------------------------------
(* Where a signal goes.                                                    *)

LEMMA EntryType ==
    ASSUME NEW old \in Entry, NEW key \in BOOLEAN, NEW server \in BOOLEAN, NEW h \in Health
    PROVE  /\ [key |-> key, server |-> server, health |-> h] \in Entry
           /\ [old EXCEPT !.health = h] \in Entry
           /\ [old EXCEPT !.server = server, !.health = h] \in Entry
           /\ [old EXCEPT !.key = key, !.health = h] \in Entry
BY DEF Entry

LEMMA PutType ==
    ASSUME RoutingTypeOK, NEW e \in Engines, NEW value \in Entry, Put(e, value)
    PROVE  RoutingTypeOK'
<1>1. order' \in Seq(Engines)
  BY DEF RoutingTypeOK, Put, PlaceOf
<1>2. entry' \in [Engines -> Entry]
  BY DEF RoutingTypeOK, Put
<1>3. reachable' \subseteq Engines
  BY DEF RoutingTypeOK, Put
<1> QED BY <1>1, <1>2, <1>3 DEF RoutingTypeOK

LEMMA RoutingTypeInit == RoutingInit => RoutingTypeOK
<1> SUFFICES ASSUME RoutingInit PROVE RoutingTypeOK
  OBVIOUS
<1>1. <<>> \in Seq(Engines)
  OBVIOUS
<1>2. Unmatched \in Entry
  BY DEF Unmatched, Entry, Health
<1> QED BY <1>1, <1>2 DEF RoutingInit, RoutingTypeOK

LEMMA RoutingTypeStep == RoutingTypeOK /\ [RoutingNext]_routingVars => RoutingTypeOK'
<1> SUFFICES ASSUME RoutingTypeOK, [RoutingNext]_routingVars PROVE RoutingTypeOK'
  OBVIOUS
<1> USE DEF RoutingTypeOK
<1>0. Health = {"online", "degraded", "offline"}
  BY DEF Health
<1>1. ASSUME NEW e \in Engines, NEW server \in BOOLEAN, Register(e, server) PROVE RoutingTypeOK'
  BY <1>0, <1>1, EntryType, PutType DEF Register
<1>2. ASSUME NEW e \in Engines, NEW key \in BOOLEAN, NEW server \in BOOLEAN,
             NEW health \in Health, UpsertManagedSource(e, key, server, health)
      PROVE  RoutingTypeOK'
  BY <1>2, EntryType, PutType DEF UpsertManagedSource
<1>3. ASSUME NEW e \in Engines, NEW key \in BOOLEAN, NEW failed \in BOOLEAN,
             UpdateAwareness(e, key, failed)
      PROVE  RoutingTypeOK'
  <2>1. entry[e] \in Entry /\ entry[e].health \in Health
    BY DEF Entry
  <2> DEFINE h == IF failed THEN "degraded" ELSE entry[e].health
  <2>2. h \in Health
    BY <1>0, <2>1
  <2>3. Put(e, [entry[e] EXCEPT !.key = key, !.health = h])
    BY <1>3 DEF UpdateAwareness
  <2> HIDE DEF h
  <2> QED BY <2>1, <2>2, <2>3, EntryType, PutType
<1>4. ASSUME NEW e \in Engines, Heartbeat(e) \/ SweepStale(e) \/ Offline(e) PROVE RoutingTypeOK'
  BY <1>0, <1>4, EntryType, PutType DEF Heartbeat, SweepStale, Offline
<1>5. ASSUME NEW e \in Engines, Reach(e) PROVE RoutingTypeOK'
  BY <1>5 DEF Reach
<1>6. CASE UNCHANGED routingVars
  BY <1>6 DEF routingVars
<1> QED BY <1>1, <1>2, <1>3, <1>4, <1>5, <1>6 DEF RoutingNext

(* The entries have the types the registry gives them, in every reachable  *)
(* state: a key in the order is an engine's, and an entry is online, stale *)
(* or in error, or offline, never in a state pass() does not know.         *)
THEOREM RoutingTypeCorrect == RoutingSpec => []RoutingTypeOK
BY RoutingTypeInit, RoutingTypeStep, PTL DEF RoutingSpec

LEMMA LeastExists ==
    ASSUME NEW I \in SUBSET Nat, I # {}
    PROVE  Min(I) \in I
<1>1. \E x \in I : \A y \in I : ~ (<<y, x>> \in OpToRel(<, Nat))
  BY NatLessThanWellFounded, WFMin
<1>2. PICK x \in I : \A y \in I : ~ (<<y, x>> \in OpToRel(<, Nat))
  BY <1>1
<1>3. ASSUME NEW y \in I PROVE x =< y
  <2>1. x \in Nat /\ y \in Nat /\ <<y, x>> \in Nat \X Nat
    OBVIOUS
  <2>2. ~ (<<y, x>>[1] < <<y, x>>[2])
    BY <1>2, <2>1 DEF OpToRel
  <2>3. ~ (y < x)
    BY <2>2
  <2> QED BY <2>1, <2>3
<1> QED BY <1>3 DEF Min

\* The pass finds a member of a set of registered engines, if it has one.
LEMMA FirstOfFinds ==
    ASSUME RoutingTypeOK, NEW S \in SUBSET Known
    PROVE  /\ S = {} => FirstOf(S) = None
           /\ S # {} => FirstOf(S) \in S
<1> DEFINE I == {i \in 1..Len(order) : order[i] \in S}
<1>1. FirstOf(S) = IF (IF I # {} THEN Min(I) ELSE 0) = 0
                     THEN None ELSE order[IF I # {} THEN Min(I) ELSE 0]
  BY DEF FirstOf, SelectInSeq
<1>2. Len(order) \in Nat /\ I \subseteq Nat /\ \A i \in I : i # 0 /\ order[i] \in S
  BY DEF RoutingTypeOK
<1>3. CASE S = {}
  BY <1>1, <1>2, <1>3
<1>4. CASE S # {}
  <2>1. PICK e \in S : TRUE
    BY <1>4
  <2>2. PICK i \in DOMAIN order : order[i] = e
    BY <2>1 DEF Known, Range
  <2>3. i \in I
    BY <2>2 DEF RoutingTypeOK
  <2>4. Min(I) \in I
    BY <1>2, <2>3, LeastExists
  <2> QED BY <1>1, <1>2, <1>4, <2>3, <2>4
<1> QED BY <1>3, <1>4

(* The only online engine to report the broker's source key, reachable in   *)
(* the room, gets the signal: any number of entries, in any order, of any   *)
(* matches and states, do not take it from the engine.                      *)
THEOREM KeyHolderIsServed == RoutingSpec => []OnlyKeyHolderServed
<1>1. RoutingTypeOK => OnlyKeyHolderServed
  <2> SUFFICES ASSUME RoutingTypeOK, NEW e \in reachable, ByKey \cap Online = {e}
               PROVE  Route = {e}
    BY DEF OnlyKeyHolderServed
  <2>1. e \in Engines /\ e # None /\ e \in Online
    BY RoutingAssumption DEF RoutingTypeOK
  <2>2. {e} \subseteq Known
    BY <2>1 DEF Online
  <2>3. FirstOf(ByKey \cap Online) = e
    BY <2>2, FirstOfFinds
  <2>4. FindByBroker = e
    BY <2>1, <2>3 DEF FindByBroker, OrElse
  <2> QED BY <2>1, <2>4 DEF Route
<1> QED BY <1>1, RoutingTypeInit, RoutingTypeStep, PTL DEF RoutingSpec
(* What findByBroker returns, whatever the order of the entries: an engine  *)
(* that reports the broker's key if there is one, else one whose server     *)
(* matches, and of those an online one if there is one.  A key that is only *)
(* reported by engines that are not online hides every server.              *)
LEMMA FindByBrokerFinds ==
    ASSUME RoutingTypeOK
    PROVE  /\ ByKey \cap Online # {} => FindByBroker \in ByKey \cap Online
           /\ ByKey # {} => FindByBroker \in ByKey
           /\ ByKey = {} /\ ByServer \cap Online # {} =>
                 FindByBroker \in ByServer \cap Online
           /\ ByKey = {} /\ ByServer # {} => FindByBroker \in ByServer
           /\ ByKey \cup ByServer = {} => FindByBroker = None
<1>1. /\ ByKey \subseteq Known /\ ByServer \subseteq Known
      /\ ByKey \cap Online \subseteq Known /\ ByServer \cap Online \subseteq Known
  BY DEF ByKey, ByServer
<1>2. None \notin Known
  BY RoutingAssumption DEF Known, Range, RoutingTypeOK
<1>3. \A S \in SUBSET Known : IF S = {} THEN FirstOf(S) = None
                             ELSE FirstOf(S) \in S /\ FirstOf(S) # None
  BY <1>2, FirstOfFinds
<1> QED BY <1>1, <1>3 DEF FindByBroker, OrElse

\* Whoever is served without being a manager matches the broker, is online and
\* can be reached.
NoStrangerServed ==
    Route \subseteq reachable \cap (Managers \cup ((ByKey \cup ByServer) \cap Online))

(* A signal never goes to an engine that matches its broker in no way, nor  *)
(* to one that is not online: what does not find such an engine in the room *)
(* goes to a manager or to nobody.                                          *)
THEOREM NoSignalAstray == RoutingSpec => []NoStrangerServed
<1>1. RoutingTypeOK => NoStrangerServed
  <2> SUFFICES ASSUME RoutingTypeOK PROVE NoStrangerServed
    OBVIOUS
  <2>1. None \notin reachable
    BY RoutingAssumption DEF RoutingTypeOK
  <2>2. FindByBroker \in reachable => FindByBroker \in ByKey \cup ByServer
    BY <2>1, FindByBrokerFinds
  <2> QED BY <2>2 DEF NoStrangerServed, Route, ManagerRoute
<1> QED BY <1>1, RoutingTypeInit, RoutingTypeStep, PTL DEF RoutingSpec

-----------------------------------------------------------------------------
(* The rooms of the gateway.                                               *)

RoomsHeard == INSTANCE SymbolRooms

LEMMA RoomsHeardStep ==
    ASSUME TypeOK, [Next]_vars
    PROVE  [RoomsHeard!Next]_room
<1>1. ASSUME NEW e \in Engines, NEW Y \in SUBSET Symbols, Join(e, Y)
      PROVE  RoomsHeard!Next
  BY <1>1 DEF Join, RoomsBecome, RoomsHeard!Join, RoomsHeard!Next
<1>2. ASSUME NEW D \in SUBSET (Symbols \X Engines), EvictExpired(D)
      PROVE  RoomsHeard!Next
  BY <1>2 DEF EvictExpired, RoomsBecome, RoomsHeard!End, RoomsHeard!Next
<1>3. ASSUME NEW e \in Engines, NEW Y \in SUBSET Symbols, Leave(e, Y)
      PROVE  RoomsHeard!Next
  <2> DEFINE D == {p \in Symbols \X Engines : p[1] \in Y /\ p[2] = e /\ e \in room[p[1]]}
  <2>1. \A p \in D : p[2] \in room[p[1]]
    OBVIOUS
  <2>2. \A y \in Symbols :
          (IF y \in Y THEN room[y] \ {e} ELSE room[y]) = {f \in room[y] : <<y, f>> \notin D}
    BY DEF TypeOK
  <2>3. room' = [y \in Symbols |-> {f \in room[y] : <<y, f>> \notin D}]
    BY <1>3, <2>2 DEF Leave, RoomsBecome
  <2>4. D \in SUBSET (Symbols \X Engines)
    OBVIOUS
  <2> QED BY <2>1, <2>3, <2>4 DEF RoomsHeard!End, RoomsHeard!Next
<1>4. ASSUME NEW d \in BOOLEAN, MetricDemand(d) PROVE UNCHANGED room
  BY <1>4 DEF MetricDemand
<1>5. CASE Opened \/ Lost \/ Closed \/ Reconnect \/ Stop \/ Reads \/ Hang
  BY <1>5 DEF Opened, Lost, Closed, Reconnect, Stop, Reads, Hang
<1>6. CASE UNCHANGED vars
  BY <1>6 DEF vars
<1> QED BY <1>1, <1>2, <1>3, <1>4, <1>5, <1>6 DEF Next

(* The rooms of SignalFeed are SymbolRooms, as those of EngineGateway are   *)
(* (GatewayMovesRooms in EngineGatewayProofs) ...                           *)
THEOREM FeedKeepsRooms == Spec => RoomsHeard!Spec
<1>1. Init => RoomsHeard!Init
  BY DEF Init, RoomsHeard!Init
<1>2. TypeOK /\ [Next]_vars => [RoomsHeard!Next]_room
  BY RoomsHeardStep
<1> QED BY <1>1, <1>2, FeedTypeCorrect, PTL DEF Spec, RoomsHeard!Spec

(* ... and it leaves none of their steps out: whatever SymbolRooms lets     *)
(* happen, with the listener called as RoomRegistryService calls it and the *)
(* bound on the wire observed, is a step of SignalFeed.  What is proved of  *)
(* the subscriber, for every bound, is therefore true behind the gateway.   *)
THEOREM FeedHearsRooms ==
    ASSUME TypeOK, RoomsHeard!Next, RoomsBecome(room'), RoomsOnly
    PROVE  [Next]_vars
<1>1. ASSUME NEW e \in Engines, NEW Y \in SUBSET Symbols, RoomsHeard!Join(e, Y)
      PROVE  Next
  BY <1>1 DEF RoomsHeard!Join, Join, Next
<1>2. ASSUME NEW D \in SUBSET (Symbols \X Engines), RoomsHeard!End(D), D # {}
      PROVE  Next
  BY <1>2 DEF RoomsHeard!End, EvictExpired, Next
<1>3. ASSUME RoomsHeard!End({}) PROVE UNCHANGED vars
  <2>1. room' = room
    BY <1>3 DEF RoomsHeard!End, TypeOK
  <2>2. UNCHANGED <<desiredSymbols, subscribedSymbols, wire>>
    BY <2>1 DEF RoomsBecome
  <2> QED BY <2>1, <2>2 DEF RoomsOnly, vars, wanted, sent
<1> QED BY <1>1, <1>2, <1>3 DEF RoomsHeard!Next
=============================================================================
