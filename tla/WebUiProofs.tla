---------------------------- MODULE WebUiProofs -----------------------------
(***************************************************************************)
(* Proofs about the web head: its types; that the header follows the       *)
(* agent; and that the timeline is the room, however loads and events      *)
(* interleave.  The invariants account for what is on its way: the last    *)
(* event of a kind in the queue is what the tab will know (HeaderInv), and *)
(* an item is in the timeline or in the queue (TimelineInv).               *)
(***************************************************************************)
EXTENDS WebUi, FiniteSetTheorems, SequenceTheorems, TLAPS

-----------------------------------------------------------------------------
(* The invariants.                                                         *)

\* A response holds what the room had, the newest of it at least.
AnswersMatch ==
  \A s \in Slots : loads[s].stage = "answered" =>
    /\ loads[s].items \subseteq loads[s].known
    /\ loads[s].known \subseteq InRoom(loads[s].room)
    /\ loads[s].known \cap Newest(loads[s].room) \subseteq loads[s].items

\* Event n of queue q is the last one of these types.
Final(q, types, n) ==
  /\ n \in 1..Len(q) /\ q[n].t \in types
  /\ \A m \in 1..Len(q) : m > n => q[m].t \notin types

None(q, types) == \A n \in 1..Len(q) : q[n].t \notin types

LinkTypes == {"open", "status"}

DotAhead ==
  stream => /\ \A n \in 1..Len(queue) : Final(queue, LinkTypes, n) =>
                 queue[n].t = "status" /\ queue[n].status = status
            /\ None(queue, LinkTypes) => dot = DotOf(status)

RosterAhead ==
  /\ \A n \in 1..Len(queue) : Final(queue, {"presence"}, n) => queue[n].online = online
  /\ None(queue, {"presence"}) /\ ~blind => roster = online

HeaderInv == DotAhead /\ RosterAhead

\* The event n of q brings item i.
Brings(q, n, i) == q[n].t = "item" /\ q[n].item = i
OnItsWay(q, i) == \E n \in 1..Len(q) : Brings(q, n, i)
AtMostOnce(q, i) == \A m, n \in 1..Len(q) : Brings(q, m, i) /\ Brings(q, n, i) => m = n

QueueStored == \A i \in Items : OnItsWay(queue, i) => i \in stored

RoomShown ==
  fresh => /\ InFlight = {} /\ open # NoRoom /\ screen = KindOf(open)
           /\ \A i \in Items : RoomOf[i] # open => arr[KindOf(open)][i] = 0

\* An item of the open room is in the timeline or on its way.
Loaded(i) ==
  /\ AtMostOnce(queue, i)
  /\ OnItsWay(queue, i) \/ i \notin stored => arr[KindOf(open)][i] = 0
  /\ arr[KindOf(open)][i] \in 0..1
  /\ i \in Newest(open) /\ ~OnItsWay(queue, i) => arr[KindOf(open)][i] = 1

ItemsShown == fresh => \A i \in Items \ raced : RoomOf[i] = open => Loaded(i)

TimelineInv == QueueStored /\ RoomShown /\ ItemsShown

-----------------------------------------------------------------------------
(* Events on their way: what joins the queue and what leaves it.           *)

LEMMA AppendIs ==
  ASSUME NEW q \in Seq(Events), NEW e \in Events
  PROVE  /\ Append(q, e) \in Seq(Events) /\ Len(Append(q, e)) = Len(q) + 1 /\ Len(q) \in Nat
         /\ Append(q, e)[Len(q) + 1] = e /\ \A n \in 1..Len(q) : Append(q, e)[n] = q[n]
  BY AppendProperties, LenProperties

LEMMA TailIs ==
  ASSUME NEW q \in Seq(Events), q # <<>>
  PROVE  /\ Tail(q) \in Seq(Events) /\ Len(Tail(q)) = Len(q) - 1 /\ Len(q) \in Nat /\ Len(q) >= 1
         /\ \A n \in 1..(Len(q) - 1) : Tail(q)[n] = q[n + 1]
         /\ Head(q) = q[1] /\ q[1] \in Events
  <1>1. Len(q) \in Nat /\ Len(q) >= 1
    BY EmptySeq, LenProperties
  <1>2. q[1] \in Events
    BY <1>1, ElementOfSeq
  <1> QED BY <1>1, <1>2, HeadTailProperties

LEMMA FinalAppend ==
  ASSUME NEW q \in Seq(Events), NEW e \in Events, NEW types
  PROVE  /\ \A n : Final(Append(q, e), types, n) =>
                     IF e.t \in types THEN n = Len(q) + 1 ELSE Final(q, types, n)
         /\ None(Append(q, e), types) <=> e.t \notin types /\ None(q, types)
  <1> DEFINE longer == Append(q, e)
  <1>1. /\ Len(longer) = Len(q) + 1 /\ Len(q) \in Nat
        /\ longer[Len(q) + 1] = e /\ \A n \in 1..Len(q) : longer[n] = q[n]
    BY AppendIs
  <1> HIDE DEF longer
  <1>2. ASSUME NEW n, Final(longer, types, n)
        PROVE  IF e.t \in types THEN n = Len(q) + 1 ELSE Final(q, types, n)
    <2>1. n \in 1..(Len(q) + 1) /\ longer[n].t \in types
      BY <1>1, <1>2 DEF Final
    <2>2. CASE e.t \in types
      <3>1. ~(Len(q) + 1 > n)
        BY <1>1, <1>2, <2>2 DEF Final
      <3> QED BY <1>1, <2>1, <2>2, <3>1
    <2>3. CASE e.t \notin types
      <3>1. n \in 1..Len(q)
        BY <1>1, <2>1, <2>3
      <3>2. \A m \in 1..Len(q) : m \in 1..Len(longer)
        BY <1>1
      <3> QED BY <1>1, <1>2, <2>3, <3>1, <3>2 DEF Final
    <2> QED BY <2>2, <2>3
  <1>3. 1..Len(longer) = (1..Len(q)) \cup {Len(q) + 1}
    BY <1>1
  <1>4. None(longer, types) <=> e.t \notin types /\ None(q, types)
    BY <1>1, <1>3 DEF None
  <1> QED BY <1>2, <1>4 DEF longer

LEMMA FinalTail ==
  ASSUME NEW q \in Seq(Events), q # <<>>, NEW types
  PROVE  /\ \A n \in 1..Len(Tail(q)) : Final(Tail(q), types, n) =>
              Final(q, types, n + 1) /\ n + 1 \in 1..Len(q) /\ Tail(q)[n] = q[n + 1]
         /\ None(Tail(q), types) =>
              IF Head(q).t \in types THEN Final(q, types, 1) ELSE None(q, types)
  <1> DEFINE rest == Tail(q)
  <1>1. /\ Len(rest) = Len(q) - 1 /\ Len(q) \in Nat /\ Len(q) >= 1
        /\ \A n \in 1..(Len(q) - 1) : rest[n] = q[n + 1]
        /\ Head(q) = q[1]
    BY TailIs
  <1> HIDE DEF rest
  <1>2. \A m \in 1..Len(q) : m = 1 \/ (m - 1 \in 1..Len(rest) /\ q[m] = rest[m - 1])
    <2> TAKE m \in 1..Len(q)
    <2>1. m = 1 \/ m - 1 \in 1..(Len(q) - 1)
      BY <1>1
    <2>2. (m - 1) + 1 = m
      BY <1>1
    <2> QED BY <1>1, <2>1, <2>2
  <1>3. ASSUME NEW n \in 1..Len(rest), Final(rest, types, n)
        PROVE  Final(q, types, n + 1) /\ n + 1 \in 1..Len(q) /\ rest[n] = q[n + 1]
    <2>1. n + 1 \in 1..Len(q) /\ rest[n] = q[n + 1] /\ n \in Nat /\ n >= 1
      BY <1>1
    <2>2. ASSUME NEW m \in 1..Len(q), m > n + 1
          PROVE  q[m].t \notin types
      <3>1. m # 1 /\ m - 1 > n
        BY <2>1, <2>2
      <3> QED BY <1>2, <1>3, <3>1 DEF Final
    <2> QED BY <1>3, <2>1, <2>2 DEF Final
  <1>4. ASSUME None(rest, types)
        PROVE  IF Head(q).t \in types THEN Final(q, types, 1) ELSE None(q, types)
    <2>1. \A m \in 1..Len(q) : m = 1 \/ q[m].t \notin types
      BY <1>2, <1>4 DEF None
    <2>2. 1 \in 1..Len(q)
      BY <1>1
    <2> QED BY <1>1, <2>1, <2>2 DEF Final, None
  <1> QED BY <1>3, <1>4 DEF rest

LEMMA OnItsWayAppend ==
  ASSUME NEW q \in Seq(Events), NEW e \in Events, NEW i
  PROVE  /\ OnItsWay(Append(q, e), i) <=> OnItsWay(q, i) \/ (e.t = "item" /\ e.item = i)
         /\ AtMostOnce(q, i) /\ ~(OnItsWay(q, i) /\ e.t = "item" /\ e.item = i) =>
              AtMostOnce(Append(q, e), i)
  <1> DEFINE longer == Append(q, e)
  <1>1. /\ Len(longer) = Len(q) + 1 /\ Len(q) \in Nat
        /\ longer[Len(q) + 1] = e /\ \A n \in 1..Len(q) : longer[n] = q[n]
    BY AppendIs
  <1> HIDE DEF longer
  <1>2. 1..Len(longer) = (1..Len(q)) \cup {Len(q) + 1}
    BY <1>1
  <1>3. \A n \in 1..Len(q) : Brings(longer, n, i) <=> Brings(q, n, i)
    BY <1>1 DEF Brings
  <1>4. Brings(longer, Len(q) + 1, i) <=> e.t = "item" /\ e.item = i
    BY <1>1 DEF Brings
  <1> QED BY <1>2, <1>3, <1>4 DEF OnItsWay, AtMostOnce, longer

LEMMA OnItsWayTail ==
  ASSUME NEW q \in Seq(Events), q # <<>>, NEW i
  PROVE  /\ OnItsWay(q, i) <=> OnItsWay(Tail(q), i) \/ (Head(q).t = "item" /\ Head(q).item = i)
         /\ AtMostOnce(q, i) => AtMostOnce(Tail(q), i)
         /\ AtMostOnce(q, i) /\ Head(q).t = "item" /\ Head(q).item = i => ~OnItsWay(Tail(q), i)
  <1> DEFINE rest == Tail(q)
  <1>1. /\ Len(rest) = Len(q) - 1 /\ Len(q) \in Nat /\ Len(q) >= 1
        /\ \A n \in 1..(Len(q) - 1) : rest[n] = q[n + 1]
        /\ Head(q) = q[1]
    BY TailIs
  <1> HIDE DEF rest
  <1>2. \A n \in 1..Len(rest) :
          n \in Nat /\ n + 1 \in 1..Len(q) /\ n + 1 # 1 /\ (Brings(rest, n, i) <=> Brings(q, n + 1, i))
    BY <1>1 DEF Brings
  <1>3. \A m \in 1..Len(q) : m = 1 \/ (m - 1 \in 1..Len(rest) /\ (m - 1) + 1 = m)
    BY <1>1
  <1>4. 1 \in 1..Len(q) /\ (Brings(q, 1, i) <=> Head(q).t = "item" /\ Head(q).item = i)
    BY <1>1 DEF Brings
  <1>5. OnItsWay(q, i) <=> OnItsWay(rest, i) \/ Brings(q, 1, i)
    <2>1. OnItsWay(q, i) => OnItsWay(rest, i) \/ Brings(q, 1, i)
      <3> SUFFICES ASSUME NEW m \in 1..Len(q), Brings(q, m, i), ~Brings(q, 1, i)
                   PROVE  OnItsWay(rest, i)
        BY DEF OnItsWay
      <3>1. m - 1 \in 1..Len(rest) /\ (m - 1) + 1 = m
        BY <1>3
      <3> QED BY <1>2, <3>1 DEF OnItsWay
    <2>2. OnItsWay(rest, i) => OnItsWay(q, i)
      BY <1>2 DEF OnItsWay
    <2> QED BY <1>4, <2>1, <2>2 DEF OnItsWay
  <1>6. ASSUME AtMostOnce(q, i) PROVE AtMostOnce(rest, i)
    <2> SUFFICES ASSUME NEW m \in 1..Len(rest), NEW n \in 1..Len(rest),
                        Brings(rest, m, i), Brings(rest, n, i)
                 PROVE  m = n
      BY DEF AtMostOnce
    <2>1. m + 1 = n + 1
      BY <1>2, <1>6 DEF AtMostOnce
    <2>2. m \in Nat /\ n \in Nat
      BY <1>2
    <2> QED BY <2>1, <2>2
  <1>7. AtMostOnce(q, i) /\ Brings(q, 1, i) => ~OnItsWay(rest, i)
    BY <1>2, <1>4 DEF AtMostOnce, OnItsWay
  <1> QED BY <1>4, <1>5, <1>6, <1>7 DEF rest

LEMMA ItemsOfIs ==
  ASSUME NEW q \in Seq(Events), NEW i
  PROVE  i \in ItemsOf(q) <=> OnItsWay(q, i)
  <1>1. DOMAIN q = 1..Len(q)
    BY LenProperties
  <1> QED BY <1>1 DEF ItemsOf, OnItsWay, Brings

LEMMA RepeatedIs ==
  ASSUME NEW q \in Seq(Events), NEW i \in Items, i \notin Repeated(q)
  PROVE  AtMostOnce(q, i)
  <1>1. DOMAIN q = 1..Len(q) /\ Len(q) \in Nat
    BY LenProperties
  <1>2. ASSUME NEW n \in 1..Len(q), Brings(q, n, i)
        PROVE  q[n] = [t |-> "item", item |-> i]
    <2>1. q[n] \in Events /\ q[n].t = "item" /\ q[n].item = i
      BY <1>2, ElementOfSeq DEF Brings
    <2> QED BY <2>1 DEF Events
  <1> SUFFICES ASSUME NEW m \in 1..Len(q), NEW n \in 1..Len(q), Brings(q, m, i), Brings(q, n, i),
                      m # n
               PROVE  FALSE
    BY DEF AtMostOnce
  <1>3. q[m] = [t |-> "item", item |-> i] /\ q[n] = [t |-> "item", item |-> i]
    BY <1>2
  <1>4. m < n \/ n < m
    OBVIOUS
  <1> QED BY <1>1, <1>3, <1>4 DEF Repeated

LEMMA PresenceInIs ==
  ASSUME NEW q \in Seq(Events)
  PROVE  PresenceIn(q) <=> ~None(q, {"presence"})
  <1>1. DOMAIN q = 1..Len(q)
    BY LenProperties
  <1> QED BY <1>1 DEF PresenceIn, None

LEMMA EmptyQueue ==
  /\ <<>> \in Seq(Events)
  /\ \A types : None(<<>>, types) /\ \A n : ~Final(<<>>, types, n)
  /\ \A i : ~OnItsWay(<<>>, i) /\ AtMostOnce(<<>>, i)
  <1>1. 1..Len(<<>>) = {}
    BY EmptySeq
  <1>2. <<>> \in Seq(Events)
    BY EmptySeq
  <1> QED BY <1>1, <1>2 DEF None, Final, OnItsWay, AtMostOnce

\* The newest of a room only ever lose items: newer ones push them out.
LEMMA NewestShrinks ==
  ASSUME stored \subseteq stored', stored' \subseteq Items, NEW r, NEW i \in stored,
         i \in Newest(r)'
  PROVE  i \in Newest(r)
  <1> DEFINE old == {j \in InRoom(r) : j > i}
             new == {j \in stored' : RoomOf[j] = r /\ j > i}
  <1>1. old \subseteq new /\ IsFiniteSet(new)
    BY ItemsAssumption, FS_Subset DEF InRoom
  <1>2. Cardinality(old) <= Cardinality(new) /\ Cardinality(old) \in Nat /\ Cardinality(new) \in Nat
    BY <1>1, FS_Subset, FS_CardinalityType
  <1>3. /\ i \in stored' /\ RoomOf[i] = r
        /\ Cardinality({j \in {k \in stored' : RoomOf[k] = r} : j > i}) < PageLimit
    BY DEF Newest, InRoom
  <1>4. {j \in {k \in stored' : RoomOf[k] = r} : j > i} = new
    OBVIOUS
  <1>5. Cardinality(new) < PageLimit
    BY <1>3, <1>4
  <1> HIDE DEF old, new
  <1>6. Cardinality(old) < PageLimit
    BY <1>2, <1>5, BoundsAssumption
  <1> QED BY <1>3, <1>6 DEF Newest, InRoom, old

\* What the stream begins with, and what is appended to it.
LEMMA OpeningIs ==
  ASSUME status \in Statuses
  PROVE  /\ Opening \in Seq(Events) /\ Len(Opening) = 2
         /\ Opening[1] = [t |-> "open"] /\ Opening[2] = [t |-> "status", status |-> status]
  BY DEF Opening, Events

LEMMA EventsDiffer ==
  ASSUME NEW e \in Events
  PROVE  /\ e.t \in {"open", "status", "presence", "item"}
         /\ e.t = "status" => e.status \in Statuses
         /\ e.t = "presence" => e.online \in BOOLEAN
         /\ e.t = "item" => e.item \in Items
  BY DEF Events

-----------------------------------------------------------------------------
(* Types.                                                                  *)

LEMMA ResponsesDiffer ==
  ASSUME NEW l \in Responses
  PROVE  /\ l.stage = "free" <=> l = Free
         /\ l.stage \in {"free", "asked", "answered"}
         /\ l # Free => l.room \in Rooms
         /\ l.stage = "answered" => l.items \in SUBSET Items /\ l.known \in SUBSET Items
  BY DEF Responses, Free, Asked, Answered

LEMMA SlotFreed == Free \in Responses
  BY DEF Responses

LEMMA KindOfIs == \A r : KindOf(r) \in Kinds
  BY DEF KindOf, Kinds

QueueTypes == queue \in Seq(Events) /\ (~stream => queue = <<>>)
DaemonTypes ==
  stored \subseteq Items /\ status \in Statuses /\ online \in BOOLEAN /\ stream \in BOOLEAN
TimelineTypes ==
  /\ arr \in [Kinds -> [Items -> 0..Many]]
  /\ \A k \in Kinds, i \in Items : arr[k][i] > 0 => KindOf(RoomOf[i]) = k
  /\ screen \in Kinds \cup {NoRoom}
TabTypes ==
  /\ loads \in [Slots -> Responses] /\ open \in Rooms \cup {NoRoom}
  /\ dot \in {"", "live", "down"} /\ roster \in BOOLEAN
HistoryTypes == fresh \in BOOLEAN /\ raced \subseteq Items /\ blind \in BOOLEAN

LEMMA TypeParts ==
  TypeOK <=> QueueTypes /\ DaemonTypes /\ TimelineTypes /\ TabTypes /\ HistoryTypes
  BY DEF TypeOK, QueueTypes, DaemonTypes, TimelineTypes, TabTypes, HistoryTypes

LEMMA TypePartsNext ==
  TypeOK' <=> QueueTypes' /\ DaemonTypes' /\ TimelineTypes' /\ TabTypes' /\ HistoryTypes'
  BY DEF TypeOK, QueueTypes, DaemonTypes, TimelineTypes, TabTypes, HistoryTypes

LEMMA InitType == Init => TypeOK
  <1> SUFFICES ASSUME Init PROVE TypeOK
    OBVIOUS
  <1>1. QueueTypes /\ DaemonTypes /\ HistoryTypes
    BY EmptyQueue DEF Init, QueueTypes, DaemonTypes, HistoryTypes, Statuses
  <1>2. TimelineTypes
    <2>1. Empty \in [Items -> 0..Many] /\ \A i \in Items : ~(Empty[i] > 0)
      BY DEF Empty, Many
    <2> QED BY <2>1 DEF Init, TimelineTypes
  <1>3. TabTypes
    BY SlotFreed DEF Init, TabTypes
  <1> QED BY <1>1, <1>2, <1>3, TypeParts

LEMMA EmitIs ==
  ASSUME QueueTypes, NEW e \in Events, Emit(e), stream' = stream
  PROVE  /\ QueueTypes'
         /\ queue' = queue \/ (stream /\ queue' = Append(queue, e))
         /\ ~stream => queue' = queue /\ queue = <<>>
  BY AppendIs DEF Emit, QueueTypes

\* A kind's array is replaced by the items listed in a response, or by none.
LEMMA Replaced ==
  ASSUME TimelineTypes, NEW k \in Kinds, NEW items \in SUBSET Items,
         \A i \in items : KindOf(RoomOf[i]) = k,
         arr' = [arr EXCEPT ![k] = Listed(items)], screen' = k
  PROVE  TimelineTypes'
  <1>1. Listed(items) \in [Items -> 0..Many]
    BY DEF Listed, Many
  <1>2. \A i \in Items : Listed(items)[i] > 0 => i \in items
    BY DEF Listed
  <1>3. arr' \in [Kinds -> [Items -> 0..Many]]
    BY <1>1 DEF TimelineTypes
  <1>4. ASSUME NEW j \in Kinds, NEW i \in Items, arr'[j][i] > 0
        PROVE  KindOf(RoomOf[i]) = j
    <2>1. CASE j = k
      BY <1>2, <1>4, <2>1 DEF TimelineTypes
    <2>2. CASE j # k
      BY <1>4, <2>2 DEF TimelineTypes
    <2> QED BY <2>1, <2>2
  <1> QED BY <1>3, <1>4 DEF TimelineTypes

LEMMA EmptyIsListed == Empty = Listed({})
  BY DEF Empty, Listed

LEMMA UnshiftType ==
  ASSUME TimelineTypes, NEW i \in Items, Unshift(i)
  PROVE  TimelineTypes'
  <1> DEFINE k == KindOf(RoomOf[i])
             n == IF arr[k][i] = Many THEN Many ELSE arr[k][i] + 1
  <1>1. CASE Shows(i)
    <2>1. k \in Kinds
      BY KindOfIs
    <2>2. arr' = [arr EXCEPT ![k] = [arr[k] EXCEPT ![i] = n]] /\ screen' = k
      BY <1>1 DEF Unshift, ArrayOf
    <2>3. arr[k] \in [Items -> 0..Many] /\ arr[k][i] \in 0..Many
      BY <2>1 DEF TimelineTypes
    <2>4. n \in 0..Many
      BY <2>3 DEF Many
    <2> DEFINE a == [arr[k] EXCEPT ![i] = n]
    <2>5. a \in [Items -> 0..Many] /\ \A j \in Items : j # i => a[j] = arr[k][j]
      <3> HIDE DEF n, k
      <3> QED BY <2>3, <2>4
    <2> HIDE DEF a, n
    <2>6. arr' = [arr EXCEPT ![k] = a]
      BY <2>2 DEF a
    <2>7. arr' \in [Kinds -> [Items -> 0..Many]]
      BY <2>1, <2>5, <2>6 DEF TimelineTypes
    <2>8. ASSUME NEW j \in Kinds, NEW m \in Items, arr'[j][m] > 0
          PROVE  KindOf(RoomOf[m]) = j
      <3>1. CASE j = k /\ m = i
        BY <3>1
      <3>2. CASE j # k
        <4>1. arr'[j] = arr[j]
          BY <2>6, <3>2 DEF TimelineTypes
        <4> QED BY <2>8, <4>1 DEF TimelineTypes
      <3>3. CASE j = k /\ m # i
        <4>1. arr'[j][m] = arr[j][m]
          BY <2>1, <2>5, <2>6, <3>3 DEF TimelineTypes
        <4> QED BY <2>8, <4>1 DEF TimelineTypes
      <3> QED BY <3>1, <3>2, <3>3
    <2> QED BY <2>1, <2>2, <2>7, <2>8 DEF TimelineTypes
  <1>2. CASE ~Shows(i)
    BY <1>2 DEF Unshift, TimelineTypes
  <1> QED BY <1>1, <1>2

\* Every step keeps the types; a response must not bring items of another kind.
LEMMA NextType == TypeOK /\ AnswersMatch /\ [Next]_vars => TypeOK'
  <1> SUFFICES ASSUME TypeOK, AnswersMatch, [Next]_vars PROVE TypeOK'
    OBVIOUS
  <1> USE DEF daemonVars, tabVars, headerVars, raceVars
  <1>a. QueueTypes /\ DaemonTypes /\ TimelineTypes /\ TabTypes /\ HistoryTypes
    BY TypeParts
  <1>b. UNCHANGED <<queue, stream>> => QueueTypes'
    BY <1>a DEF QueueTypes
  <1>c. UNCHANGED <<stored, status, online, stream>> => DaemonTypes'
    BY <1>a DEF DaemonTypes
  <1>d. UNCHANGED <<arr, screen>> => TimelineTypes'
    BY <1>a DEF TimelineTypes
  <1>e. UNCHANGED <<loads, open, dot, roster>> => TabTypes'
    BY <1>a DEF TabTypes
  <1>f. UNCHANGED <<fresh, raced, blind>> => HistoryTypes'
    BY <1>a DEF HistoryTypes
  <1>g. \A i \in ItemsOf(queue) : i \in Items
    <2> SUFFICES ASSUME NEW i \in ItemsOf(queue) PROVE i \in Items
      OBVIOUS
    <2>1. OnItsWay(queue, i)
      BY <1>a, ItemsOfIs DEF QueueTypes
    <2>2. PICK n \in 1..Len(queue) : Brings(queue, n, i)
      BY <2>1 DEF OnItsWay
    <2>3. queue[n] \in Events
      BY <1>a, ElementOfSeq DEF QueueTypes
    <2> QED BY <2>2, <2>3, EventsDiffer DEF Brings
  <1>h. \A items : items \subseteq Items => Race(items) \subseteq Items
    BY <1>a DEF Race, HistoryTypes
  <1>i. ASSUME NEW s \in Slots, NEW items, NEW known, Returned(s, items, known)
        PROVE  fresh' \in BOOLEAN /\ raced' \subseteq Items /\ loads' \in [Slots -> Responses]
    <2>1. fresh' \in BOOLEAN /\ (raced' = {} \/ raced' = Overtaken(open, items, known))
      BY <1>i DEF Returned
    <2>2. loads' = [loads EXCEPT ![s] = Free]
      BY <1>i DEF Returned
    <2>3. Overtaken(open, items, known) \subseteq Items
      BY <1>a DEF Overtaken, InRoom, DaemonTypes
    <2> QED BY <1>a, <2>1, <2>2, <2>3, SlotFreed DEF TabTypes
  <1>1. ASSUME NEW i \in Items, Arrive(i) PROVE TypeOK'
    <2>1. QueueTypes'
      <3>1. [t |-> "item", item |-> i] \in Events
        BY DEF Events
      <3> QED BY <1>1, <3>1, <1>a, EmitIs DEF Arrive
    <2>2. DaemonTypes' /\ HistoryTypes'
      BY <1>1, <1>a, <1>h DEF Arrive, DaemonTypes, HistoryTypes
    <2> QED BY <1>1, <2>1, <2>2, <1>d, <1>e, TypePartsNext DEF Arrive
  <1>2. ASSUME NEW i \in Items, Write(i) PROVE TypeOK'
    <2>1. DaemonTypes' /\ HistoryTypes'
      BY <1>2, <1>a, <1>h DEF Write, DaemonTypes, HistoryTypes
    <2> QED BY <1>2, <2>1, <1>b, <1>d, <1>e, TypePartsNext DEF Write
  <1>3. ASSUME NEW s \in Statuses, StatusChanges(s) PROVE TypeOK'
    <2>1. QueueTypes'
      <3>1. [t |-> "status", status |-> s] \in Events
        BY DEF Events
      <3> QED BY <1>3, <3>1, <1>a, EmitIs DEF StatusChanges
    <2>2. DaemonTypes'
      BY <1>3, <1>a DEF StatusChanges, DaemonTypes
    <2> QED BY <1>3, <2>1, <2>2, <1>d, <1>e, <1>f, TypePartsNext DEF StatusChanges
  <1>4. CASE PresenceChanges
    <2>1. QueueTypes'
      <3>1. [t |-> "presence", online |-> ~online] \in Events
        BY DEF Events
      <3> QED BY <1>4, <3>1, <1>a, EmitIs DEF PresenceChanges
    <2>2. DaemonTypes'
      BY <1>4, <1>a DEF PresenceChanges, DaemonTypes
    <2>3. HistoryTypes'
      BY <1>4, <1>a DEF PresenceChanges, HistoryTypes
    <2> QED BY <1>4, <2>1, <2>2, <2>3, <1>d, <1>e, TypePartsNext DEF PresenceChanges
  <1>5. CASE StreamOpens
    <2>1. QueueTypes'
      BY <1>5, <1>a, OpeningIs DEF StreamOpens, QueueTypes, DaemonTypes
    <2>2. DaemonTypes'
      BY <1>5, <1>a DEF StreamOpens, DaemonTypes
    <2> QED BY <1>5, <2>1, <2>2, <1>d, <1>e, <1>f, TypePartsNext DEF StreamOpens
  <1>6. CASE StreamLost
    <2>1. QueueTypes'
      BY <1>6, EmptyQueue DEF StreamLost, QueueTypes
    <2>2. DaemonTypes'
      BY <1>6, <1>a DEF StreamLost, DaemonTypes
    <2>3. TabTypes'
      BY <1>6, <1>a DEF StreamLost, TabTypes
    <2>4. HistoryTypes'
      <3>1. raced' \subseteq Items /\ fresh' \in BOOLEAN
        BY <1>6, <1>a, <1>g, <1>h DEF StreamLost, HistoryTypes
      <3>2. blind' \in BOOLEAN
        BY <1>6 DEF StreamLost
      <3> QED BY <3>1, <3>2 DEF HistoryTypes
    <2> QED BY <1>6, <2>1, <2>2, <2>3, <2>4, <1>d, TypePartsNext DEF StreamLost
  <1>7. CASE Back
    <2>1. TabTypes'
      BY <1>7, <1>a DEF Back, TabTypes
    <2>2. HistoryTypes'
      BY <1>7, <1>a DEF Back, HistoryTypes
    <2> QED BY <1>7, <2>1, <2>2, <1>b, <1>c, <1>d, TypePartsNext DEF Back
  <1>8. CASE Hear
    <2>1. queue # <<>> /\ queue \in Seq(Events) /\ queue' = Tail(queue)
      BY <1>8, <1>a DEF Hear, QueueTypes
    <2>2. Head(queue) \in Events /\ Tail(queue) \in Seq(Events)
      BY <2>1, TailIs
    <2>3. QueueTypes'
      BY <1>8, <1>a, <2>1, <2>2 DEF Hear, QueueTypes
    <2>4. TimelineTypes'
      <3>1. CASE Head(queue).t = "item"
        BY <1>8, <1>a, <2>2, <3>1, EventsDiffer, UnshiftType DEF Hear
      <3>2. CASE Head(queue).t # "item"
        BY <1>8, <1>d, <3>2 DEF Hear
      <3> QED BY <3>1, <3>2
    <2>5. roster' \in BOOLEAN /\ blind' \in BOOLEAN
      BY <1>8, <1>a, <2>2, EventsDiffer DEF Hear, TabTypes, HistoryTypes
    <2>6. dot' \in {"", "live", "down"}
      BY <1>8, <1>a DEF Hear, TabTypes, DotOf
    <2>7. TabTypes'
      BY <1>8, <1>a, <2>5, <2>6 DEF Hear, TabTypes
    <2>8. HistoryTypes'
      BY <1>8, <1>a, <2>5 DEF Hear, HistoryTypes
    <2> QED BY <1>8, <2>3, <2>4, <2>7, <2>8, <1>c, TypePartsNext DEF Hear
  <1>9. ASSUME NEW r \in Rooms, Open(r) PROVE TypeOK'
    <2>1. TabTypes'
      <3>1. Asked(r) \in Responses
        BY DEF Responses
      <3> QED BY <1>9, <1>a, <3>1 DEF Open, TabTypes
    <2>2. HistoryTypes'
      BY <1>9, <1>a DEF Open, HistoryTypes
    <2> QED BY <1>9, <2>1, <2>2, <1>b, <1>c, <1>d, TypePartsNext DEF Open
  <1>10. ASSUME NEW s \in Slots, AnswerLoad(s) PROVE TypeOK'
    <2>1. TabTypes'
      <3> DEFINE r == loads[s].room
                 answer == Answered(r, Newest(r), InRoom(r))
      <3>1. loads[s] \in Responses /\ loads[s].stage = "asked"
        BY <1>10, <1>a DEF AnswerLoad, TabTypes
      <3>2. loads[s].room \in Rooms
        BY <3>1, ResponsesDiffer
      <3>a. Newest(r) \in SUBSET Items /\ InRoom(r) \in SUBSET Items
        BY <1>a DEF DaemonTypes, Newest, InRoom
      <3>3. answer \in Responses
        BY <3>2, <3>a DEF Responses
      <3>4. loads' = [loads EXCEPT ![s] = answer]
        BY <1>10 DEF AnswerLoad
      <3> HIDE DEF answer
      <3> QED BY <1>10, <1>a, <3>3, <3>4 DEF AnswerLoad, TabTypes
    <2> QED BY <1>10, <2>1, <1>b, <1>c, <1>d, <1>f, TypePartsNext DEF AnswerLoad
  <1>11. ASSUME NEW s \in Slots, Load(s) PROVE TypeOK'
    <2>1. loads[s] \in Responses /\ loads[s].stage = "answered"
      BY <1>11, <1>a DEF Load, TabTypes
    <2>2. loads[s].items \in SUBSET Items
      BY <2>1, ResponsesDiffer
    <2>3. \A i \in loads[s].items : KindOf(RoomOf[i]) = KindOf(loads[s].room)
      BY <2>1 DEF AnswersMatch, InRoom
    <2>4. TimelineTypes'
      BY <1>11, <1>a, <2>2, <2>3, KindOfIs, Replaced DEF Load
    <2>5. TabTypes' /\ HistoryTypes'
      BY <1>11, <1>a, <1>i DEF Load, TabTypes, HistoryTypes
    <2> QED BY <1>11, <2>4, <2>5, <1>b, <1>c, TypePartsNext DEF Load
  <1>12. ASSUME NEW s \in Slots, LoadFails(s) PROVE TypeOK'
    <2>1. TimelineTypes'
      <3> DEFINE k == KindOf(loads[s].room)
      <3>1. k \in Kinds /\ arr' = [arr EXCEPT ![k] = Listed({})] /\ screen' = k
        BY <1>12, KindOfIs, EmptyIsListed DEF LoadFails
      <3> HIDE DEF k
      <3> DEFINE items == {}
      <3>2. items \in SUBSET Items /\ \A i \in items : KindOf(RoomOf[i]) = k
        OBVIOUS
      <3>3. arr' = [arr EXCEPT ![k] = Listed(items)]
        BY <3>1
      <3> HIDE DEF items
      <3> QED BY <1>a, <3>1, <3>2, <3>3, Replaced
    <2>2. TabTypes' /\ HistoryTypes'
      BY <1>12, <1>a, <1>i DEF LoadFails, TabTypes, HistoryTypes
    <2> QED BY <1>12, <2>1, <2>2, <1>b, <1>c, TypePartsNext DEF LoadFails
  <1>13. CASE UNCHANGED vars
    BY <1>13, <1>b, <1>c, <1>d, <1>e, <1>f, TypePartsNext DEF vars
  <1> QED
    BY <1>1, <1>2, <1>3, <1>4, <1>5, <1>6, <1>7, <1>8, <1>9, <1>10, <1>11, <1>12, <1>13
       DEF Next

\* A slot's response while more is stored: the newest of a room only lose items.
AnswerMatches(l) ==
  l.stage = "answered" =>
    /\ l.items \subseteq l.known /\ l.known \subseteq InRoom(l.room)
    /\ l.known \cap Newest(l.room) \subseteq l.items

LEMMA AnswerKept ==
  ASSUME NEW l, AnswerMatches(l), stored \subseteq stored', stored' \subseteq Items
  PROVE  AnswerMatches(l)'
  <1> DEFINE r == l.room
  <1>1. InRoom(r) \subseteq InRoom(r)'
    BY DEF InRoom
  <1>2. \A i \in stored : i \in Newest(r)' => i \in Newest(r)
    BY NewestShrinks
  <1>3. InRoom(r) \subseteq stored
    BY DEF InRoom
  <1> QED BY <1>1, <1>2, <1>3 DEF AnswerMatches

LEMMA NextAnswers == TypeOK /\ AnswersMatch /\ [Next]_vars => AnswersMatch'
  <1> SUFFICES ASSUME TypeOK, AnswersMatch, [Next]_vars PROVE AnswersMatch'
    OBVIOUS
  <1>a. loads \in [Slots -> Responses] /\ stored \subseteq Items
    BY DEF TypeOK
  <1>b. \A s \in Slots : AnswerMatches(loads[s])
    BY DEF AnswersMatch, AnswerMatches
  <1>c. (\A s \in Slots : \E l : l = loads'[s] /\ AnswerMatches(l)') => AnswersMatch'
    BY DEF AnswersMatch, AnswerMatches
  <1>1. ASSUME loads' = loads, stored \subseteq stored', stored' \subseteq Items
        PROVE  AnswersMatch'
    <2>1. ASSUME NEW s \in Slots PROVE \E l : l = loads'[s] /\ AnswerMatches(l)'
      <3>1. PICK l : l = loads[s]
        OBVIOUS
      <3> QED BY <1>1, <1>b, <3>1, AnswerKept
    <2> QED BY <1>c, <2>1
  <1>2. ASSUME NEW s \in Slots, \E l : loads' = [loads EXCEPT ![s] = l] /\ AnswerMatches(l),
               stored' = stored
        PROVE  AnswersMatch'
    <2>1. PICK l : loads' = [loads EXCEPT ![s] = l] /\ AnswerMatches(l)
      BY <1>2
    <2>2. ASSUME NEW t \in Slots PROVE \E m : m = loads'[t] /\ AnswerMatches(m)'
      <3>1. PICK m : m = IF t = s THEN l ELSE loads[t]
        OBVIOUS
      <3>2. AnswerMatches(m) /\ m = loads'[t]
        BY <1>a, <1>b, <2>1, <3>1
      <3> QED BY <1>a, <1>2, <3>2, AnswerKept
    <2> QED BY <1>c, <2>2
  <1>3. Free.stage = "free" /\ \A r : Asked(r).stage = "asked"
    BY DEF Free, Asked
  <1>4. ASSUME NEW s \in Slots, AnswerLoad(s) PROVE AnswersMatch'
    <2> DEFINE r == loads[s].room
               l == Answered(r, Newest(r), InRoom(r))
    <2>1. loads' = [loads EXCEPT ![s] = l] /\ stored' = stored
      BY <1>4 DEF AnswerLoad, daemonVars
    <2>2. AnswerMatches(l)
      BY DEF Answered, AnswerMatches, Newest
    <2> HIDE DEF l
    <2> QED BY <1>2, <2>1, <2>2
  <1>5. ASSUME NEW r \in Rooms, Open(r) PROVE AnswersMatch'
    <2>1. PICK s \in Slots \ InFlight : loads' = [loads EXCEPT ![s] = Asked(r)]
      BY <1>5 DEF Open
    <2>2. AnswerMatches(Asked(r)) /\ stored' = stored
      BY <1>3, <1>5 DEF AnswerMatches, Open, daemonVars
    <2> QED BY <1>2, <2>1, <2>2
  <1>6. ASSUME NEW s \in Slots, Load(s) \/ LoadFails(s) PROVE AnswersMatch'
    <2>1. loads' = [loads EXCEPT ![s] = Free] /\ stored' = stored
      BY <1>6 DEF Load, LoadFails, Returned, daemonVars
    <2>2. AnswerMatches(Free)
      BY <1>3 DEF AnswerMatches
    <2> QED BY <1>2, <2>1, <2>2
  <1>7. CASE \/ \E i \in Items : Arrive(i) \/ Write(i)
             \/ \E s \in Statuses : StatusChanges(s)
             \/ PresenceChanges \/ StreamOpens \/ StreamLost \/ Back \/ Hear
    BY <1>1, <1>7, <1>a DEF Arrive, Write, StatusChanges, PresenceChanges, StreamOpens,
                            StreamLost, Back, Hear, daemonVars
  <1>8. CASE UNCHANGED vars
    BY <1>1, <1>8, <1>a DEF vars, daemonVars
  <1> QED BY <1>4, <1>5, <1>6, <1>7, <1>8 DEF Next

LEMMA TypeInvariant == Spec => [](TypeOK /\ AnswersMatch)
  <1>1. Init => AnswersMatch
    <2>1. Free.stage # "answered"
      BY DEF Free
    <2> QED BY <2>1 DEF Init, AnswersMatch
  <1> QED BY <1>1, InitType, NextType, NextAnswers, PTL DEF Spec

\* Every variable keeps its type; a kind's array never holds an item of the other kind.
THEOREM TypeCorrect == Spec => []TypeOK
  BY TypeInvariant, PTL

-----------------------------------------------------------------------------
(* The header: the dot and the roster.                                     *)

LEMMA DotKept ==
  ASSUME DotAhead, UNCHANGED <<stream, queue, status, dot>>
  PROVE  DotAhead'
  BY DEF DotAhead

LEMMA RosterKept ==
  ASSUME RosterAhead, UNCHANGED <<queue, online, roster, blind>>
  PROVE  RosterAhead'
  BY DEF RosterAhead

LEMMA DotEmit ==
  ASSUME QueueTypes, DotAhead, NEW e \in Events, Emit(e), UNCHANGED <<stream, dot>>,
         IF e.t = "status" THEN status' = e.status ELSE e.t # "open" /\ status' = status
  PROVE  DotAhead'
  <1> SUFFICES ASSUME stream
               PROVE  /\ \A n \in 1..Len(queue') : Final(queue', LinkTypes, n) =>
                           queue'[n].t = "status" /\ queue'[n].status = status'
                      /\ None(queue', LinkTypes) => dot' = DotOf(status')
    BY DEF DotAhead
  <1>1. queue' = Append(queue, e) /\ queue \in Seq(Events)
    BY DEF Emit, QueueTypes
  <1>2. /\ Append(queue, e)[Len(queue) + 1] = e
        /\ \A n \in 1..Len(queue) : Append(queue, e)[n] = queue[n]
    BY <1>1, AppendIs
  <1>3. /\ \A n : Final(queue', LinkTypes, n) =>
                    IF e.t \in LinkTypes THEN n = Len(queue) + 1 ELSE Final(queue, LinkTypes, n)
        /\ None(queue', LinkTypes) <=> e.t \notin LinkTypes /\ None(queue, LinkTypes)
    BY <1>1, FinalAppend
  <1>4. ASSUME NEW n, Final(queue', LinkTypes, n)
        PROVE  queue'[n].t = "status" /\ queue'[n].status = status'
    <2>1. CASE e.t = "status"
      <3>1. n = Len(queue) + 1
        BY <1>3, <1>4, <2>1 DEF LinkTypes
      <3> QED BY <1>1, <1>2, <2>1, <3>1
    <2>2. CASE e.t # "status"
      <3>1. e.t \notin LinkTypes /\ status' = status
        BY <2>2 DEF LinkTypes
      <3>2. Final(queue, LinkTypes, n)
        BY <1>3, <1>4, <3>1
      <3>3. n \in 1..Len(queue)
        BY <3>2 DEF Final
      <3> QED BY <1>1, <1>2, <3>1, <3>2, <3>3 DEF DotAhead
    <2> QED BY <2>1, <2>2
  <1>5. None(queue', LinkTypes) => dot' = DotOf(status')
    BY <1>3 DEF DotAhead, LinkTypes
  <1> QED BY <1>4, <1>5

LEMMA RosterEmit ==
  ASSUME QueueTypes, RosterAhead, NEW e \in Events, Emit(e), UNCHANGED <<stream, roster>>,
         IF e.t = "presence" THEN online' = e.online /\ blind' = (blind \/ ~stream)
         ELSE online' = online /\ blind' = blind
  PROVE  RosterAhead'
  <1> DEFINE types == {"presence"}
  <1>1. queue \in Seq(Events) /\ (~stream => queue = <<>>)
    BY DEF QueueTypes
  <1>2. CASE stream
    <2>1. queue' = Append(queue, e)
      BY <1>2 DEF Emit
    <2>2. /\ Append(queue, e)[Len(queue) + 1] = e
          /\ \A n \in 1..Len(queue) : Append(queue, e)[n] = queue[n]
      BY <1>1, AppendIs
    <2>3. /\ \A n : Final(queue', types, n) =>
                      IF e.t \in types THEN n = Len(queue) + 1 ELSE Final(queue, types, n)
          /\ None(queue', types) <=> e.t \notin types /\ None(queue, types)
      BY <1>1, <2>1, FinalAppend
    <2>4. ASSUME NEW n, Final(queue', types, n)
          PROVE  queue'[n].online = online'
      <3>1. CASE e.t = "presence"
        <4>1. n = Len(queue) + 1
          BY <2>3, <2>4, <3>1
        <4> QED BY <2>1, <2>2, <3>1, <4>1
      <3>2. CASE e.t # "presence"
        <4>1. Final(queue, types, n)
          BY <2>3, <2>4, <3>2
        <4>2. n \in 1..Len(queue)
          BY <4>1 DEF Final
        <4> QED BY <2>1, <2>2, <3>2, <4>1, <4>2 DEF RosterAhead
      <3> QED BY <3>1, <3>2
    <2>5. None(queue', types) /\ ~blind' => roster' = online'
      BY <2>3 DEF RosterAhead
    <2> QED BY <2>4, <2>5 DEF RosterAhead
  <1>3. CASE ~stream
    <2>1. queue' = queue /\ queue = <<>>
      BY <1>1, <1>3 DEF Emit
    <2>2. \A n : ~Final(queue', types, n)
      BY <2>1, EmptyQueue
    <2>3. ~blind' => ~blind /\ online' = online
      BY <1>3
    <2> QED BY <2>1, <2>2, <2>3 DEF RosterAhead
  <1> QED BY <1>2, <1>3

LEMMA DotHears ==
  ASSUME QueueTypes, DotAhead, Hear
  PROVE  DotAhead'
  <1> SUFFICES ASSUME stream
               PROVE  /\ \A n \in 1..Len(queue') : Final(queue', LinkTypes, n) =>
                           queue'[n].t = "status" /\ queue'[n].status = status'
                      /\ None(queue', LinkTypes) => dot' = DotOf(status')
    BY DEF DotAhead, Hear, daemonVars
  <1>1. queue # <<>> /\ queue' = Tail(queue) /\ queue \in Seq(Events) /\ status' = status
    BY DEF Hear, QueueTypes, daemonVars
  <1>2. /\ \A n \in 1..Len(Tail(queue)) : Final(Tail(queue), LinkTypes, n) =>
             /\ Final(queue, LinkTypes, n + 1) /\ n + 1 \in 1..Len(queue)
             /\ Tail(queue)[n] = queue[n + 1]
        /\ None(Tail(queue), LinkTypes) =>
             IF Head(queue).t \in LinkTypes THEN Final(queue, LinkTypes, 1)
             ELSE None(queue, LinkTypes)
    BY <1>1, FinalTail
  <1>h. Head(queue) = queue[1] /\ 1 \in 1..Len(queue)
    BY <1>1, TailIs
  <1>3. \A n \in 1..Len(queue') : Final(queue', LinkTypes, n) =>
          queue'[n].t = "status" /\ queue'[n].status = status'
    BY <1>1, <1>2 DEF DotAhead
  <1>4. ASSUME None(queue', LinkTypes) PROVE dot' = DotOf(status')
    <2>1. dot' = IF Head(queue).t = "open" THEN "live"
                 ELSE IF Head(queue).t = "status" THEN DotOf(Head(queue).status) ELSE dot
      BY DEF Hear
    <2>2. CASE Head(queue).t \in LinkTypes
      <3>1. Head(queue).t = "status" /\ Head(queue).status = status
        BY <1>1, <1>2, <1>4, <1>h, <2>2 DEF DotAhead
      <3> QED BY <1>1, <2>1, <3>1
    <2>3. CASE Head(queue).t \notin LinkTypes
      <3>1. dot = DotOf(status) /\ dot' = dot
        BY <1>1, <1>2, <1>4, <1>h, <2>1, <2>3 DEF DotAhead, LinkTypes
      <3> QED BY <1>1, <3>1
    <2> QED BY <2>2, <2>3
  <1> QED BY <1>3, <1>4

LEMMA RosterHears ==
  ASSUME QueueTypes, RosterAhead, Hear
  PROVE  RosterAhead'
  <1> DEFINE types == {"presence"}
  <1>1. queue # <<>> /\ queue' = Tail(queue) /\ queue \in Seq(Events) /\ online' = online
    BY DEF Hear, QueueTypes, daemonVars
  <1>2. /\ \A n \in 1..Len(Tail(queue)) : Final(Tail(queue), types, n) =>
             /\ Final(queue, types, n + 1) /\ n + 1 \in 1..Len(queue)
             /\ Tail(queue)[n] = queue[n + 1]
        /\ None(Tail(queue), types) =>
             IF Head(queue).t \in types THEN Final(queue, types, 1) ELSE None(queue, types)
    BY <1>1, FinalTail
  <1>h. Head(queue) = queue[1] /\ 1 \in 1..Len(queue)
    BY <1>1, TailIs
  <1>3. \A n \in 1..Len(queue') : Final(queue', types, n) => queue'[n].online = online'
    BY <1>1, <1>2 DEF RosterAhead
  <1>4. ASSUME None(queue', types), ~blind' PROVE roster' = online'
    <2>1. CASE Head(queue).t = "presence"
      <3>1. Head(queue).online = online
        BY <1>1, <1>2, <1>4, <1>h, <2>1 DEF RosterAhead
      <3>2. roster' = Head(queue).online
        BY <2>1 DEF Hear
      <3> QED BY <1>1, <3>1, <3>2
    <2>2. CASE Head(queue).t # "presence"
      <3>1. roster' = roster /\ blind' = blind
        BY <2>2 DEF Hear
      <3>2. None(queue, types)
        BY <1>1, <1>2, <1>4, <1>h, <2>2
      <3> QED BY <1>1, <1>4, <3>1, <3>2 DEF RosterAhead
    <2> QED BY <2>1, <2>2
  <1> QED BY <1>3, <1>4 DEF RosterAhead

LEMMA StreamHeader ==
  ASSUME TypeOK, RosterAhead, StreamOpens \/ StreamLost
  PROVE  DotAhead' /\ RosterAhead'
  <1>1. queue \in Seq(Events) /\ (~stream => queue = <<>>) /\ status \in Statuses
    BY DEF TypeOK
  <1>2. CASE StreamOpens
    <2>1. /\ queue' = Opening /\ queue = <<>>
          /\ UNCHANGED <<status, online, dot, roster, blind>>
      BY <1>1, <1>2 DEF StreamOpens, headerVars
    <2>2. /\ Len(queue') = 2 /\ queue'[1] = [t |-> "open"]
          /\ queue'[2] = [t |-> "status", status |-> status]
      BY <1>1, <2>1, OpeningIs
    <2>3. DotAhead'
      <3>1. ASSUME NEW n, Final(queue', LinkTypes, n)
            PROVE  queue'[n].t = "status" /\ queue'[n].status = status'
        <4>1. n \in {1, 2} /\ 2 \in 1..Len(queue')
          BY <2>2, <3>1 DEF Final
        <4>2. n # 1
          BY <2>2, <3>1, <4>1 DEF Final, LinkTypes
        <4> QED BY <2>1, <2>2, <4>1, <4>2
      <3>2. ~None(queue', LinkTypes)
        <4>1. 2 \in 1..Len(queue') /\ queue'[2].t = "status"
          BY <2>2
        <4> QED BY <4>1 DEF None, LinkTypes
      <3> QED BY <3>1, <3>2 DEF DotAhead
    <2>4. RosterAhead'
      <3>1. \A n \in 1..Len(queue') : queue'[n].t \notin {"presence"}
        BY <2>2
      <3>2. None(queue, {"presence"})
        BY <2>1, EmptyQueue
      <3> QED BY <2>1, <3>1, <3>2 DEF RosterAhead, Final
    <2> QED BY <2>3, <2>4
  <1>3. CASE StreamLost
    <2>1. queue' = <<>> /\ ~stream' /\ UNCHANGED <<online, roster>>
          /\ blind' = (blind \/ PresenceIn(queue))
      BY <1>3 DEF StreamLost
    <2>2. ~blind' => None(queue, {"presence"}) /\ ~blind
      BY <1>1, <2>1, PresenceInIs
    <2> QED BY <2>1, <2>2, EmptyQueue DEF DotAhead, RosterAhead
  <1> QED BY <1>2, <1>3

LEMMA NextHeader == TypeOK /\ HeaderInv /\ [Next]_vars => HeaderInv'
  <1> SUFFICES ASSUME TypeOK, DotAhead, RosterAhead, [Next]_vars PROVE DotAhead' /\ RosterAhead'
    BY DEF HeaderInv
  <1> USE DEF daemonVars, headerVars
  <1>a. QueueTypes
    BY TypeParts
  <1>1. ASSUME NEW i \in Items, Arrive(i) PROVE DotAhead' /\ RosterAhead'
    <2> DEFINE e == [t |-> "item", item |-> i]
    <2>1. e \in Events /\ e.t = "item"
      BY DEF Events
    <2>2. Emit(e) /\ UNCHANGED <<status, online, stream, dot, roster, blind>>
      BY <1>1 DEF Arrive
    <2> HIDE DEF e
    <2> QED BY <1>a, <2>1, <2>2, DotEmit, RosterEmit
  <1>2. ASSUME NEW s \in Statuses, StatusChanges(s) PROVE DotAhead' /\ RosterAhead'
    <2> DEFINE e == [t |-> "status", status |-> s]
    <2>1. e \in Events /\ e.t = "status" /\ e.status = s
      BY DEF Events
    <2>2. Emit(e) /\ status' = s /\ UNCHANGED <<online, stream, dot, roster, blind>>
      BY <1>2 DEF StatusChanges
    <2> HIDE DEF e
    <2> QED BY <1>a, <2>1, <2>2, DotEmit, RosterEmit
  <1>3. CASE PresenceChanges
    <2> DEFINE e == [t |-> "presence", online |-> ~online]
    <2>1. e \in Events /\ e.t = "presence" /\ e.online = ~online
      BY DEF Events
    <2>2. /\ Emit(e) /\ online' = ~online /\ UNCHANGED <<status, stream, dot, roster>>
          /\ blind' = (blind \/ ~stream)
      BY <1>3 DEF PresenceChanges
    <2>3. online' = e.online
      BY <2>1, <2>2
    <2> HIDE DEF e
    <2> QED BY <1>a, <2>1, <2>2, <2>3, DotEmit, RosterEmit
  <1>4. CASE StreamOpens \/ StreamLost
    BY <1>4, StreamHeader
  <1>5. CASE Hear
    BY <1>5, <1>a, DotHears, RosterHears
  <1>6. CASE \/ \E i \in Items : Write(i)
             \/ Back \/ \E r \in Rooms : Open(r)
             \/ \E s \in Slots : AnswerLoad(s) \/ Load(s) \/ LoadFails(s)
    BY <1>6, DotKept, RosterKept DEF Write, Back, Open, AnswerLoad, Load, LoadFails
  <1>7. CASE UNCHANGED vars
    BY <1>7, DotKept, RosterKept DEF vars
  <1> QED BY <1>1, <1>2, <1>3, <1>4, <1>5, <1>6, <1>7 DEF Next

\* When everything sent to the tab has been heard, the dot is the link's status and the
\* roster who is online, through any losses of the stream: the frame that app.ts writes
\* first brings the status, and only a coming or going brings the roster.
THEOREM HeaderFollows == Spec => []HeaderFollowsAgent
  <1>1. Init => HeaderInv
    BY EmptyQueue DEF Init, HeaderInv, DotAhead, RosterAhead
  <1>2. HeaderInv => HeaderFollowsAgent
    BY EmptyQueue DEF HeaderInv, DotAhead, RosterAhead, HeaderFollowsAgent, Settled
  <1> QED BY <1>1, <1>2, NextHeader, TypeInvariant, PTL DEF Spec

-----------------------------------------------------------------------------
(* The timeline.                                                           *)

\* Nothing of the tab's rooms changes, and what is known of an item stays true.
LEMMA TimelineKept ==
  ASSUME TimelineInv, UNCHANGED <<loads, open, arr, screen, fresh>>, QueueStored',
         fresh => raced \subseteq raced',
         \A i \in Items \ raced' : fresh /\ RoomOf[i] = open /\ Loaded(i) => Loaded(i)'
  PROVE  TimelineInv'
  <1>1. RoomShown'
    BY DEF TimelineInv, RoomShown, InFlight, KindOf
  <1>2. ItemsShown'
    BY DEF TimelineInv, ItemsShown
  <1> QED BY <1>1, <1>2 DEF TimelineInv

\* An item stored or not, and on its way or not, as before.
LEMMA SameItem ==
  ASSUME TypeOK, NEW i \in Items, UNCHANGED <<open, arr>>,
         stored \subseteq stored', stored' \subseteq Items, i \in stored' <=> i \in stored,
         OnItsWay(queue', i) <=> OnItsWay(queue, i),
         AtMostOnce(queue, i) => AtMostOnce(queue', i), Loaded(i)
  PROVE  Loaded(i)'
  <1> DEFINE r == open
  <1>1. PICK room : room = r
    OBVIOUS
  <1>2. Newest(r)' = Newest(room)'
    BY <1>1 DEF Newest, InRoom
  <1>3. i \in Newest(room)' => i \in stored'
    BY DEF Newest, InRoom
  <1>4. i \in Newest(r)' => i \in Newest(r)
    BY <1>1, <1>2, <1>3, NewestShrinks
  <1>5. KindOf(open') = KindOf(open)
    BY DEF KindOf
  <1> QED BY <1>4, <1>5 DEF Loaded

LEMMA SameTimeline ==
  ASSUME TypeOK, TimelineInv, UNCHANGED <<queue, stored, loads, open, arr, screen, fresh, raced>>
  PROVE  TimelineInv'
  <1>1. stored \subseteq Items
    BY DEF TypeOK
  <1>2. QueueStored'
    BY DEF TimelineInv, QueueStored
  <1> QED BY <1>1, <1>2, SameItem, TimelineKept

LEMMA OtherEvents ==
  ASSUME TypeOK, TimelineInv, NEW e \in Events, e.t # "item", Emit(e),
         UNCHANGED <<stream, stored, loads, open, arr, screen, fresh, raced>>
  PROVE  TimelineInv'
  <1>1. queue \in Seq(Events) /\ stored \subseteq Items
    BY DEF TypeOK
  <1>2. queue' = queue \/ queue' = Append(queue, e)
    BY DEF Emit
  <1>3. ASSUME NEW i
        PROVE  /\ OnItsWay(queue', i) <=> OnItsWay(queue, i)
               /\ AtMostOnce(queue, i) => AtMostOnce(queue', i)
    <2>1. CASE queue' = queue
      BY <2>1
    <2>2. CASE queue' = Append(queue, e)
      <3>1. /\ OnItsWay(Append(queue, e), i) <=> OnItsWay(queue, i)
            /\ AtMostOnce(queue, i) => AtMostOnce(Append(queue, e), i)
        BY <1>1, OnItsWayAppend
      <3> QED BY <2>2, <3>1
    <2> QED BY <1>2, <2>1, <2>2
  <1>4. QueueStored'
    BY <1>3 DEF TimelineInv, QueueStored
  <1>5. \A i \in Items : Loaded(i) => Loaded(i)'
    BY <1>1, <1>3, SameItem
  <1> QED BY <1>4, <1>5, TimelineKept

LEMMA TimelineArrives ==
  ASSUME TypeOK, TimelineInv, NEW j \in Items, Arrive(j)
  PROVE  TimelineInv'
  <1> DEFINE e == [t |-> "item", item |-> j]
  <1>1. e \in Events /\ e.t = "item" /\ e.item = j
    BY DEF Events
  <1>2. /\ Emit(e) /\ stored' = stored \cup {j} /\ queue \in Seq(Events) /\ stored \subseteq Items
        /\ UNCHANGED <<stream, loads, open, arr, screen, fresh>>
        /\ raced' = IF j \in stored \/ ~stream THEN Race({j}) ELSE raced
    BY DEF Arrive, TypeOK, tabVars
  <1> HIDE DEF e
  <1>3. queue' = IF stream THEN Append(queue, e) ELSE queue
    BY <1>2 DEF Emit
  <1>4. \A i : /\ OnItsWay(queue', i) => OnItsWay(queue, i) \/ i = j
               /\ i # j => /\ OnItsWay(queue', i) <=> OnItsWay(queue, i)
                           /\ AtMostOnce(queue, i) => AtMostOnce(queue', i)
    BY <1>1, <1>2, <1>3, OnItsWayAppend
  <1>5. QueueStored'
    BY <1>2, <1>4 DEF TimelineInv, QueueStored
  <1>6. fresh => raced \subseteq raced' /\ (RoomOf[j] = open /\ j \notin raced' => j \notin stored /\ stream)
    BY <1>2 DEF Race
  <1>7. ASSUME NEW i \in Items \ raced', fresh, RoomOf[i] = open, Loaded(i)
        PROVE  Loaded(i)'
    <2>1. CASE i # j
      BY <1>2, <1>4, <1>7, <2>1, SameItem
    <2>2. CASE i = j
      <3>1. i \notin stored /\ stream /\ ~OnItsWay(queue, i)
        BY <1>6, <1>7, <2>2 DEF TimelineInv, QueueStored
      <3>2. OnItsWay(queue', i) /\ AtMostOnce(queue', i)
        BY <1>1, <1>2, <1>3, <1>7, <2>2, <3>1, OnItsWayAppend DEF Loaded
      <3>3. arr'[KindOf(open')][i] = 0
        <4>1. KindOf(open') = KindOf(open)
          BY <1>2 DEF KindOf
        <4> QED BY <1>2, <1>7, <3>1, <4>1 DEF Loaded
      <3> QED BY <3>2, <3>3 DEF Loaded
    <2> QED BY <2>1, <2>2
  <1> QED BY <1>2, <1>5, <1>6, <1>7, TimelineKept

LEMMA TimelineWrites ==
  ASSUME TypeOK, TimelineInv, NEW j \in Items, Write(j)
  PROVE  TimelineInv'
  <1>1. /\ stored' = stored \cup {j} /\ raced' = Race({j}) /\ stored \subseteq Items
        /\ UNCHANGED <<queue, loads, open, arr, screen, fresh>>
    BY DEF Write, TypeOK, tabVars
  <1>2. fresh => raced \subseteq raced' /\ (RoomOf[j] = open => j \in raced')
    BY <1>1 DEF Race
  <1>3. ASSUME NEW i \in Items \ raced', fresh, RoomOf[i] = open, Loaded(i)
        PROVE  Loaded(i)'
    <2>1. i # j
      BY <1>2, <1>3
    <2> QED BY <1>1, <1>3, <2>1, SameItem
  <1>4. QueueStored'
    BY <1>1 DEF TimelineInv, QueueStored
  <1> QED BY <1>1, <1>2, <1>3, <1>4, TimelineKept

LEMMA TimelineStreams ==
  ASSUME TypeOK, TimelineInv, StreamOpens \/ StreamLost
  PROVE  TimelineInv'
  <1>1. /\ queue \in Seq(Events) /\ (~stream => queue = <<>>) /\ status \in Statuses
        /\ stored \subseteq Items
    BY DEF TypeOK
  <1>2. /\ UNCHANGED <<stored, loads, open, arr, screen, fresh>>
        /\ raced' = raced \/ raced' = Race(ItemsOf(queue))
    BY DEF StreamOpens, StreamLost, tabVars, raceVars
  <1>3. fresh => raced \subseteq raced'
    BY <1>2 DEF Race
  <1>4. \A i : ~OnItsWay(queue', i) /\ AtMostOnce(queue', i)
    <2>1. CASE StreamOpens
      <3>1. Opening[1].t # "item" /\ Opening[2].t # "item" /\ Len(Opening) = 2
        BY <1>1, OpeningIs
      <3>2. \A n \in 1..Len(Opening) : Opening[n].t # "item"
        BY <3>1
      <3>3. queue' = Opening
        BY <2>1 DEF StreamOpens
      <3> QED BY <3>2, <3>3 DEF OnItsWay, AtMostOnce, Brings
    <2>2. CASE StreamLost
      BY <2>2, EmptyQueue DEF StreamLost
    <2> QED BY <2>1, <2>2
  <1>5. ASSUME NEW i \in Items \ raced', fresh, RoomOf[i] = open, Loaded(i)
        PROVE  Loaded(i)'
    <2>1. ~OnItsWay(queue, i)
      <3>1. CASE StreamOpens
        BY <1>1, <3>1, EmptyQueue DEF StreamOpens
      <3>2. CASE StreamLost
        <4>1. raced' = Race(ItemsOf(queue))
          BY <3>2 DEF StreamLost
        <4>2. i \notin ItemsOf(queue)
          BY <1>5, <4>1 DEF Race
        <4> QED BY <1>1, <4>2, ItemsOfIs
      <3> QED BY <3>1, <3>2
    <2> QED BY <1>1, <1>2, <1>4, <1>5, <2>1, SameItem
  <1>6. QueueStored'
    BY <1>4 DEF QueueStored
  <1> QED BY <1>2, <1>3, <1>5, <1>6, TimelineKept

\* No load of the open room has returned, or another is in flight.
LEMMA TimelineStale ==
  ASSUME TimelineInv, ~fresh', UNCHANGED <<queue, stored>>
  PROVE  TimelineInv'
  BY DEF TimelineInv, QueueStored, RoomShown, ItemsShown

LEMMA TimelineAnswers ==
  ASSUME TypeOK, TimelineInv, NEW s \in Slots, AnswerLoad(s)
  PROVE  TimelineInv'
  <1>1. s \in InFlight
    BY DEF AnswerLoad, InFlight, Free
  <1>2. ~fresh
    BY <1>1 DEF TimelineInv, RoomShown
  <1> QED BY <1>2, TimelineStale DEF AnswerLoad, daemonVars, raceVars

\* The room's response, or the empty timeline of its failure, replaces what was shown.
LEMMA TimelineLoads ==
  ASSUME TypeOK, AnswersMatch, TimelineInv, NEW s \in Slots, Load(s) \/ LoadFails(s)
  PROVE  TimelineInv'
  <1> DEFINE k == KindOf(loads[s].room)
             items == IF Load(s) THEN loads[s].items ELSE {}
             known == IF Load(s) THEN loads[s].known ELSE {}
  <1>1. /\ loads \in [Slots -> Responses] /\ queue \in Seq(Events) /\ stored \subseteq Items
        /\ UNCHANGED <<stored, queue, open>> /\ screen' = k
    BY DEF Load, LoadFails, TypeOK, daemonVars
  <1>2. Returned(s, items, known) /\ arr' = [arr EXCEPT ![k] = Listed(items)]
    BY EmptyIsListed DEF Load, LoadFails
  <1>3. loads[s].room \in Rooms
    BY <1>1, ResponsesDiffer DEF Load, LoadFails, Free
  <1>4. /\ items \subseteq known /\ known \subseteq InRoom(loads[s].room)
        /\ known \cap Newest(loads[s].room) \subseteq items
    <2>1. Load(s) => loads[s].stage = "answered"
      BY DEF Load
    <2> QED BY <2>1 DEF AnswersMatch
  <1>5. arr'[k] = Listed(items)
    BY <1>2, KindOfIs DEF TypeOK
  <1> HIDE DEF items, known
  <1>6. \A i \in Items : arr'[k][i] = IF i \in items THEN 1 ELSE 0
    BY <1>5 DEF Listed
  <1> SUFFICES ASSUME fresh' PROVE TimelineInv'
    BY <1>1, TimelineStale
  <1>7. /\ InFlight = {s} /\ loads[s].room = open /\ loads' = [loads EXCEPT ![s] = Free]
        /\ raced' = Overtaken(open, items, known)
    BY <1>2 DEF Returned
  <1>8. InFlight' = {}
    BY <1>1, <1>7 DEF InFlight
  <1>9. open' # NoRoom /\ KindOf(open') = k
    BY <1>1, <1>3, <1>7, RoomsAssumption
  <1>10. RoomShown'
    <2>1. \A i \in items : RoomOf[i] = open
      BY <1>4, <1>7 DEF InRoom
    <2> QED BY <1>1, <1>6, <1>8, <1>9, <2>1 DEF RoomShown
  <1>11. QueueStored'
    BY <1>1 DEF TimelineInv, QueueStored
  <1>12. ASSUME NEW i \in Items \ raced', RoomOf[i] = open'
         PROVE  Loaded(i)'
    <2>1. /\ OnItsWay(queue, i) <=> i \in ItemsOf(queue)
          /\ i \in items \/ i \in Newest(open) \/ OnItsWay(queue, i) => i \in InRoom(open)
      <3>1. OnItsWay(queue, i) => i \in stored
        BY DEF TimelineInv, QueueStored
      <3> QED BY <1>1, <1>4, <1>7, <1>12, <3>1, ItemsOfIs DEF Newest, InRoom
    <2>2. i \in InRoom(open) => /\ ~(i \in items /\ i \in ItemsOf(queue)) /\ i \notin Repeated(queue)
                                /\ i \in known \/ i \in ItemsOf(queue)
      BY <1>7, <1>12 DEF Overtaken
    <2>3. AtMostOnce(queue', i)
      <3>1. CASE i \in InRoom(open)
        BY <1>1, <2>2, <3>1, RepeatedIs
      <3>2. CASE i \notin InRoom(open)
        BY <1>1, <2>1, <3>2 DEF OnItsWay, AtMostOnce
      <3> QED BY <3>1, <3>2
    <2>4. arr'[KindOf(open')][i] = IF i \in items THEN 1 ELSE 0
      BY <1>6, <1>9
    <2>5. OnItsWay(queue', i) \/ i \notin stored' => i \notin items
      BY <1>1, <1>4, <1>7, <2>1, <2>2 DEF InRoom
    <2>6. i \in Newest(open') /\ ~OnItsWay(queue', i) => i \in items
      <3> SUFFICES ASSUME i \in Newest(open'), ~OnItsWay(queue', i) PROVE i \in items
        OBVIOUS
      <3>1. i \in Newest(open)
        BY <1>1
      <3>2. i \in known
        BY <1>1, <2>1, <2>2, <3>1
      <3> QED BY <1>4, <1>7, <3>1, <3>2
    <2>7. i \in Newest(open)' => i \in Newest(open')
      BY <1>1 DEF Newest, InRoom
    <2> QED BY <2>3, <2>4, <2>5, <2>6, <2>7 DEF Loaded
  <1> QED BY <1>10, <1>11, <1>12 DEF TimelineInv, ItemsShown

LEMMA TimelineHears ==
  ASSUME TypeOK, TimelineInv, Hear
  PROVE  TimelineInv'
  <1> DEFINE e == Head(queue)
  <1>1. /\ queue # <<>> /\ queue' = Tail(queue) /\ queue \in Seq(Events) /\ stored \subseteq Items
        /\ UNCHANGED <<stored, loads, open, raced, fresh>>
        /\ IF e.t = "item" THEN Unshift(e.item) ELSE UNCHANGED <<arr, screen>>
        /\ arr \in [Kinds -> [Items -> 0..Many]]
    BY DEF Hear, TypeOK, daemonVars, raceVars
  <1>2. e \in Events
    BY <1>1, TailIs
  <1>3. \A i : /\ OnItsWay(queue, i) <=> OnItsWay(queue', i) \/ (e.t = "item" /\ e.item = i)
               /\ AtMostOnce(queue, i) => AtMostOnce(queue', i)
               /\ AtMostOnce(queue, i) /\ e.t = "item" /\ e.item = i => ~OnItsWay(queue', i)
    BY <1>1, OnItsWayTail
  <1>4. QueueStored'
    BY <1>1, <1>3 DEF TimelineInv, QueueStored
  <1>5. CASE e.t # "item" \/ open # RoomOf[e.item]
    <2>1. UNCHANGED <<arr, screen>>
      BY <1>1, <1>5 DEF Unshift, Shows
    <2>2. ASSUME NEW i \in Items \ raced', RoomOf[i] = open, Loaded(i)
          PROVE  Loaded(i)'
      <3>1. ~(e.t = "item" /\ e.item = i)
        BY <1>5, <2>2
      <3> QED BY <1>1, <1>3, <2>1, <2>2, <3>1, SameItem
    <2> QED BY <1>1, <1>4, <2>1, <2>2, TimelineKept
  <1>6. CASE e.t = "item" /\ open = RoomOf[e.item]
    <2> DEFINE j == e.item
               k == KindOf(open)
               n == IF arr[k][j] = Many THEN Many ELSE arr[k][j] + 1
    <2>1. j \in Items /\ k \in Kinds
      BY <1>2, <1>6, EventsDiffer, KindOfIs
    <2>2. arr' = [arr EXCEPT ![k] = [arr[k] EXCEPT ![j] = n]] /\ screen' = k
      BY <1>1, <1>6 DEF Unshift, Shows, ArrayOf
    <2>3. arr'[k][j] = n /\ \A i \in Items : i # j => arr'[k][i] = arr[k][i]
      <3>1. arr[k] \in [Items -> 0..Many]
        BY <1>1, <2>1
      <3> HIDE DEF n, k, e
      <3> QED BY <1>1, <2>1, <2>2, <3>1
    <2>4. InFlight' = InFlight /\ KindOf(open') = k
      BY <1>1 DEF InFlight, KindOf
    <2> HIDE DEF k
    <2>5. RoomShown'
      <3>1. \A i \in Items : RoomOf[i] # open => i # j
        BY <1>6
      <3>2. fresh => InFlight = {} /\ open # NoRoom /\ \A i \in Items : RoomOf[i] # open => arr[k][i] = 0
        BY DEF TimelineInv, RoomShown, k
      <3> QED BY <1>1, <2>2, <2>3, <2>4, <3>1, <3>2 DEF RoomShown
    <2>6. ASSUME NEW i \in Items, Loaded(i) PROVE Loaded(i)'
      <3>1. AtMostOnce(queue', i)
        BY <1>3, <2>6 DEF Loaded
      <3>2. /\ OnItsWay(queue, i) \/ i \notin stored => arr[k][i] = 0
            /\ arr[k][i] \in 0..1 /\ (i \in Newest(open) /\ ~OnItsWay(queue, i) => arr[k][i] = 1)
        BY <2>6 DEF Loaded, k
      <3>3. Newest(open)' = Newest(open)
        BY <1>1 DEF Newest, InRoom
      <3>4. CASE i # j
        <4>1. arr'[k][i] = arr[k][i] /\ (OnItsWay(queue', i) <=> OnItsWay(queue, i))
          BY <1>3, <2>3, <3>4
        <4> QED BY <1>1, <2>4, <3>1, <3>2, <3>3, <4>1 DEF Loaded
      <3>5. CASE i = j
        <4>1. OnItsWay(queue, i) /\ ~OnItsWay(queue', i) /\ i \in stored
          BY <1>3, <1>6, <2>6, <3>5 DEF Loaded, TimelineInv, QueueStored
        <4>2. arr'[k][i] = 1
          BY <2>3, <3>2, <3>5, <4>1 DEF Many
        <4> QED BY <1>1, <2>4, <3>1, <4>1, <4>2 DEF Loaded
      <3> QED BY <3>4, <3>5
    <2>7. ItemsShown'
      BY <1>1, <2>6 DEF TimelineInv, ItemsShown
    <2> QED BY <1>4, <2>5, <2>7 DEF TimelineInv
  <1> QED BY <1>5, <1>6

LEMMA NextTimeline == TypeOK /\ AnswersMatch /\ TimelineInv /\ [Next]_vars => TimelineInv'
  <1> SUFFICES ASSUME TypeOK, AnswersMatch, TimelineInv, [Next]_vars PROVE TimelineInv'
    OBVIOUS
  <1> USE DEF daemonVars, tabVars, raceVars
  <1>a. QueueTypes
    BY TypeParts
  <1>1. ASSUME NEW i \in Items, Arrive(i) \/ Write(i) PROVE TimelineInv'
    BY <1>1, TimelineArrives, TimelineWrites
  <1>2. ASSUME NEW s \in Statuses, StatusChanges(s) PROVE TimelineInv'
    <2> DEFINE e == [t |-> "status", status |-> s]
    <2>1. e \in Events /\ e.t # "item"
      BY DEF Events
    <2>2. Emit(e) /\ UNCHANGED <<stream, stored, loads, open, arr, screen, fresh, raced>>
      BY <1>2 DEF StatusChanges
    <2> HIDE DEF e
    <2> QED BY <1>a, <2>1, <2>2, OtherEvents
  <1>3. CASE PresenceChanges
    <2> DEFINE e == [t |-> "presence", online |-> ~online]
    <2>1. e \in Events /\ e.t # "item"
      BY DEF Events
    <2>2. Emit(e) /\ UNCHANGED <<stream, stored, loads, open, arr, screen, fresh, raced>>
      BY <1>3 DEF PresenceChanges
    <2> HIDE DEF e
    <2> QED BY <1>a, <2>1, <2>2, OtherEvents
  <1>4. CASE StreamOpens \/ StreamLost
    BY <1>4, TimelineStreams
  <1>5. CASE Back
    BY <1>5 DEF Back, TimelineInv, QueueStored, RoomShown, ItemsShown
  <1>6. CASE Hear
    BY <1>6, TimelineHears
  <1>7. ASSUME NEW r \in Rooms, Open(r) PROVE TimelineInv'
    BY <1>7, TimelineStale DEF Open
  <1>8. ASSUME NEW s \in Slots, AnswerLoad(s) \/ Load(s) \/ LoadFails(s) PROVE TimelineInv'
    BY <1>8, TimelineAnswers, TimelineLoads
  <1>9. CASE UNCHANGED vars
    BY <1>9, SameTimeline DEF vars
  <1> QED BY <1>1, <1>2, <1>3, <1>4, <1>5, <1>6, <1>7, <1>8, <1>9 DEF Next

\* When the open room's load was the last to return, the timeline is the room's, the newest
\* items once each: a load replaces what came before it, an event that comes alone is shown
\* in the open room only, and just the items whose event and load overtook each other, or
\* that were received again or without a stream, or written here, may differ.
THEOREM TimelineShows == Spec => []TimelineIsRoom
  <1>1. Init => TimelineInv
    BY EmptyQueue DEF Init, TimelineInv, QueueStored, RoomShown, ItemsShown
  <1>2. ASSUME TypeOK, TimelineInv PROVE TimelineIsRoom
    <2> SUFFICES ASSUME Settled, fresh
                 PROVE  /\ screen = KindOf(open)
                        /\ \A i \in Items :
                             /\ RoomOf[i] # open => Timeline[i] = 0
                             /\ RoomOf[i] = open /\ i \notin raced =>
                                  /\ Timeline[i] <= Listed(stored)[i]
                                  /\ i \in Newest(open) => Timeline[i] = 1
      BY DEF TimelineIsRoom
    <2>1. /\ screen = KindOf(open)
          /\ \A i \in Items : RoomOf[i] # open => arr[KindOf(open)][i] = 0
      BY <1>2 DEF TimelineInv, RoomShown
    <2>2. screen # NoRoom
      BY <2>1 DEF KindOf, NoRoom
    <2>3. Timeline = arr[KindOf(open)]
      BY <2>1, <2>2 DEF Timeline
    <2>4. ASSUME NEW i \in Items \ raced, RoomOf[i] = open
          PROVE  /\ Timeline[i] <= Listed(stored)[i]
                 /\ i \in Newest(open) => Timeline[i] = 1
      <3>1. Loaded(i) /\ ~OnItsWay(queue, i)
        BY <1>2, <2>4, EmptyQueue DEF TimelineInv, ItemsShown, Settled
      <3>2. Listed(stored)[i] = IF i \in stored THEN 1 ELSE 0
        BY DEF Listed
      <3> QED BY <2>3, <3>1, <3>2 DEF Loaded
    <2> QED BY <2>1, <2>3, <2>4
  <1>3. TypeOK /\ TimelineInv => TimelineIsRoom
    BY <1>2
  <1> QED BY <1>1, <1>3, NextTimeline, TypeInvariant, PTL DEF Spec
=============================================================================
