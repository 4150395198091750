------------------------------- MODULE WebUi --------------------------------
(***************************************************************************)
(* The web head: one browser tab (the script of heads/web/ui.ts), the GETs *)
(* it loads a room with and the event stream it keeps open                 *)
(* (heads/web/app.ts), against the daemon's store and the agent's events.  *)
(*                                                                         *)
(* Loads and the stream use connections of their own, so that responses    *)
(* and events arrive in any order between them; one stream's events keep   *)
(* theirs.  A room is a channel or a peer; an item is a post or a direct   *)
(* message, its number is its timestamp.  Of a timeline only how often it  *)
(* shows each item is kept.                                                *)
(***************************************************************************)
EXTENDS Integers, Sequences, FiniteSets

CONSTANTS
  Channels, Peers,
  Items,     \* timestamps
  RoomOf,    \* the room of each item
  Own,       \* items this station writes; the others are received
  PageLimit, \* items a load returns at most
  Slots,     \* bound: loads in flight
  MaxQueue   \* bound: events on their way to the tab

Rooms == Channels \cup Peers
NoRoom == "none"
Kinds == {"channel", "dm"}
KindOf(r) == IF r \in Channels THEN "channel" ELSE "dm"

ASSUME RoomsAssumption == Channels \cap Peers = {} /\ NoRoom \notin Rooms
ASSUME ItemsAssumption == Items \subseteq Nat /\ IsFiniteSet(Items) /\ Own \subseteq Items
ASSUME RoomOfAssumption == RoomOf \in [Items -> Rooms]
ASSUME BoundsAssumption == PageLimit \in Nat \ {0} /\ MaxQueue \in Nat

VARIABLES
  stored,  \* daemon: items in the store
  status,  \* daemon: the agent's status
  online,  \* daemon: somebody is online
  stream,  \* daemon: the tab's event stream is open
  queue,   \* events on their way to the tab
  loads,   \* requests for a room's items, by slot
  open,    \* tab: state.open
  arr,     \* tab: state.posts and state.dms, how often each item is in them
  screen,  \* tab: the one of them the timeline was rendered from
  dot,     \* tab: the link dot
  roster,  \* tab: state.online
  fresh,   \* history: the last load to return was the open room's, and none is in flight
  raced,   \* history: its items that load and event did not bring in turn, see below
  blind    \* history: the roster missed a coming or going

daemonVars == <<stored, status, online, stream>>
tabVars == <<open, arr, screen>>
headerVars == <<dot, roster, blind>>
raceVars == <<fresh, raced>>
vars == <<daemonVars, queue, loads, tabVars, headerVars, raceVars>>

\* The other statuses before "running" look the same on the page, and "stopped" is the
\* end of the process.
Statuses == {"connecting", "running"}
Free == [stage |-> "free"]
Asked(r) == [stage |-> "asked", room |-> r]
\* What the room had by then is history.
Answered(r, items, known) ==
  [stage |-> "answered", room |-> r, items |-> items, known |-> known]
Responses == {Free} \cup {Asked(r) : r \in Rooms}
             \cup {Answered(r, s, k) : r \in Rooms, s \in SUBSET Items, k \in SUBSET Items}
Events == [t : {"open"}] \cup [t : {"status"}, status : Statuses]
          \cup [t : {"presence"}, online : BOOLEAN] \cup [t : {"item"}, item : Items]

Many == 2   \* shown twice or more
Empty == [i \in Items |-> 0]
Listed(items) == [i \in Items |-> IF i \in items THEN 1 ELSE 0]

\* State shape; an array holds only items of its own kind.
TypeOK ==
  /\ stored \subseteq Items /\ status \in Statuses
  /\ online \in BOOLEAN /\ stream \in BOOLEAN
  /\ queue \in Seq(Events) /\ (~stream => queue = <<>>)
  /\ loads \in [Slots -> Responses]
  /\ open \in Rooms \cup {NoRoom}
  /\ arr \in [Kinds -> [Items -> 0..Many]]
  /\ \A k \in Kinds, i \in Items : arr[k][i] > 0 => KindOf(RoomOf[i]) = k
  /\ screen \in Kinds \cup {NoRoom}
  /\ dot \in {"", "live", "down"} /\ roster \in BOOLEAN
  /\ fresh \in BOOLEAN /\ raced \subseteq Items /\ blind \in BOOLEAN

\* The page has booted and is about to open its stream.
Init ==
  /\ stored = {} /\ status = "connecting" /\ online = FALSE /\ stream = FALSE
  /\ queue = <<>> /\ loads = [s \in Slots |-> Free]
  /\ open = NoRoom /\ arr = [k \in Kinds |-> Empty] /\ screen = NoRoom
  /\ dot = "" /\ roster = FALSE
  /\ fresh = FALSE /\ raced = {} /\ blind = FALSE

InFlight == {s \in Slots : loads[s] # Free}
\* renderTimeline(): what the user sees.
Timeline == IF screen = NoRoom THEN Empty ELSE arr[screen]
ItemsOf(q) == {q[n].item : n \in {k \in DOMAIN q : q[k].t = "item"}}
Repeated(q) ==
  {i \in Items : \E m, n \in DOMAIN q : m < n /\ \A k \in {m, n} : q[k] = [t |-> "item", item |-> i]}
Race(items) == IF fresh THEN raced \cup {i \in items : RoomOf[i] = open} ELSE {}
PresenceIn(q) == \E n \in DOMAIN q : q[n].t = "presence"

-----------------------------------------------------------------------------
(* The daemon's events and the stream that carries them (app.ts).          *)

\* The listeners of api/events write to the stream while it is open.
Emit(event) ==
  /\ Len(queue) < MaxQueue
  /\ queue' = IF stream THEN Append(queue, event) ELSE queue

\* dispatch() stores an item and emits it, also one it held already.
Arrive(i) ==
  /\ i \notin Own
  /\ stored' = stored \cup {i}
  /\ Emit([t |-> "item", item |-> i])
  /\ raced' = IF i \in stored \/ ~stream THEN Race({i}) ELSE raced
  /\ UNCHANGED <<status, online, stream, loads, tabVars, headerVars, fresh>>

\* The composer's POST, or another head's send: stored, and no event.
Write(i) ==
  /\ i \in Own \ stored
  /\ stored' = stored \cup {i}
  /\ raced' = Race({i})
  /\ UNCHANGED <<status, online, stream, queue, loads, tabVars, headerVars, fresh>>

StatusChanges(s) ==
  /\ s # status /\ status' = s
  /\ Emit([t |-> "status", status |-> s])
  /\ UNCHANGED <<stored, online, stream, loads, tabVars, headerVars, raceVars>>

\* The event carries the whole list.
PresenceChanges ==
  /\ online' = ~online
  /\ Emit([t |-> "presence", online |-> ~online])
  /\ blind' = (blind \/ ~stream)
  /\ UNCHANGED <<stored, status, stream, loads, tabVars, dot, roster, raceVars>>

\* Variant of Opening: no frame of its own.
OnlyOpen == <<[t |-> "open"]>>
\* The browser's "open", then the frame that says how the link is.
Opening == <<[t |-> "open"], [t |-> "status", status |-> status]>>

\* GET api/events, by the page or by the EventSource that reconnects.
StreamOpens ==
  /\ ~stream /\ stream' = TRUE
  /\ queue' = Opening
  /\ UNCHANGED <<stored, status, online, loads, tabVars, headerVars, raceVars>>

\* The connection is lost, and what it carried; the page does not load again.
StreamLost ==
  /\ stream /\ stream' = FALSE
  /\ queue' = <<>> /\ dot' = "down"
  /\ raced' = Race(ItemsOf(queue))
  /\ blind' = (blind \/ PresenceIn(queue))
  /\ UNCHANGED <<stored, status, online, loads, tabVars, roster, fresh>>

-----------------------------------------------------------------------------
(* The tab's rooms.                                                        *)

\* openChannel() and openDm() up to their await.
Open(r) ==
  /\ open' = r
  /\ \E s \in Slots \ InFlight : loads' = [loads EXCEPT ![s] = Asked(r)]
  /\ fresh' = FALSE /\ raced' = {}
  /\ UNCHANGED <<daemonVars, queue, arr, screen, headerVars>>

\* The newest of a room: the limit the store's two lists default to.
InRoom(r) == {i \in stored : RoomOf[i] = r}
Newest(r) == {i \in InRoom(r) : Cardinality({j \in InRoom(r) : j > i}) < PageLimit}

\* GET channels/:cid/posts or conversations/:peer/messages.
AnswerLoad(s) ==
  /\ loads[s].stage = "asked"
  /\ LET r == loads[s].room IN loads' = [loads EXCEPT ![s] = Answered(r, Newest(r), InRoom(r))]
  /\ UNCHANGED <<daemonVars, queue, tabVars, headerVars, raceVars>>

\* The items of a room that its load, answered with `items` when it had `known`, and their
\* events do not bring in turn: the event is still to come, or to come twice; or it was
\* heard before the load, or there was none.
Overtaken(r, items, known) ==
  {i \in InRoom(r) : \/ i \in items \cap ItemsOf(queue) \/ i \in Repeated(queue)
                     \/ i \notin known \cup ItemsOf(queue)}

Returned(s, items, known) ==
  /\ loads' = [loads EXCEPT ![s] = Free]
  /\ fresh' = (InFlight = {s} /\ loads[s].room = open)
  /\ raced' = IF fresh' THEN Overtaken(open, items, known) ELSE {}

\* The rest of openChannel() or openDm(), which do not ask what is open by then.
Load(s) ==
  /\ loads[s].stage = "answered"
  /\ LET k == KindOf(loads[s].room) IN
     arr' = [arr EXCEPT ![k] = Listed(loads[s].items)] /\ screen' = k
  /\ Returned(s, loads[s].items, loads[s].known)
  /\ UNCHANGED <<daemonVars, queue, open, headerVars>>

\* The catch: an empty timeline.
LoadFails(s) ==
  /\ loads[s] # Free
  /\ LET k == KindOf(loads[s].room) IN
     arr' = [arr EXCEPT ![k] = Empty] /\ screen' = k
  /\ Returned(s, {}, {})
  /\ UNCHANGED <<daemonVars, queue, open, headerVars>>

Back ==
  /\ open' = NoRoom /\ fresh' = FALSE /\ raced' = {}
  /\ UNCHANGED <<daemonVars, queue, loads, arr, screen, headerVars>>

-----------------------------------------------------------------------------
(* The tab's stream.                                                       *)

DotOf(s) == IF s = "running" THEN "live" ELSE ""

\* Variant of Shows: an item is shown in any room of its kind.
ShowsKind(i) == open # NoRoom /\ KindOf(open) = KindOf(RoomOf[i])
Shows(i) == open = RoomOf[i]

\* Variant of ArrayOf: a message goes where the posts are.
PostsArray(i) == "channel"
ArrayOf(i) == KindOf(RoomOf[i])

\* Put before the others whether or not it is among them.
Unshift(i) ==
  LET k == ArrayOf(i) IN
  IF Shows(i)
  THEN arr' = [arr EXCEPT ![k][i] = IF @ = Many THEN Many ELSE @ + 1] /\ screen' = k
  ELSE UNCHANGED <<arr, screen>>

\* One event's listener.
Hear ==
  /\ queue # <<>> /\ queue' = Tail(queue)
  /\ LET e == Head(queue) IN
     /\ dot' = IF e.t = "open" THEN "live" ELSE IF e.t = "status" THEN DotOf(e.status) ELSE dot
     /\ IF e.t = "presence" THEN roster' = e.online /\ blind' = FALSE ELSE UNCHANGED <<roster, blind>>
     /\ IF e.t = "item" THEN Unshift(e.item) ELSE UNCHANGED <<arr, screen>>
  /\ UNCHANGED <<daemonVars, loads, open, raceVars>>

Next ==
  \/ \E i \in Items : Arrive(i) \/ Write(i)
  \/ \E s \in Statuses : StatusChanges(s)
  \/ PresenceChanges \/ StreamOpens \/ StreamLost \/ Back \/ Hear
  \/ \E r \in Rooms : Open(r)
  \/ \E s \in Slots : AnswerLoad(s) \/ Load(s) \/ LoadFails(s)

Spec == Init /\ [][Next]_vars

-----------------------------------------------------------------------------
(* Properties.                                                             *)

\* Everything sent to the tab has been heard.
Settled == stream /\ queue = <<>>

\* The dot says how the link is, and the roster who is online, whenever the stream
\* went down and came back in between; but the roster waits for the next coming or
\* going when it missed one.
HeaderFollowsAgent ==
  Settled => dot = DotOf(status) /\ (~blind => roster = online)

\* When the open room's load was the last to return, however many returned before it
\* and whatever they were for, the timeline is the open room's: the newest items once, an
\* older one at most once, no other; but for the items of raced, of which the last load
\* and the event overtook each other, or that were since received again, received
\* without a stream or written here.
TimelineIsRoom ==
  Settled /\ fresh =>
    /\ screen = KindOf(open)
    /\ \A i \in Items :
         /\ RoomOf[i] # open => Timeline[i] = 0
         /\ RoomOf[i] = open /\ i \notin raced =>
              /\ Timeline[i] <= Listed(stored)[i]
              /\ i \in Newest(open) => Timeline[i] = 1

-----------------------------------------------------------------------------
(* What the repository says and the code does not do.                      *)

\* "Stream: the open channel/DM timeline": when every load is done it shows nothing
\* of another room.
ShowsOpenRoom ==
  InFlight = {} /\ open # NoRoom =>
    \A i \in Items : RoomOf[i] # open => Timeline[i] = 0
=============================================================================
