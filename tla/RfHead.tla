------------------------------- MODULE RfHead -------------------------------
(***************************************************************************)
(* The RF terminal head (heads/rf/server.ts and heads/rf/session.ts): each *)
(* connection pdn makes to the socket is one user, with a connect header,  *)
(* command lines, a view, and at most one live subscription to the agent's *)
(* events (util/emitter.ts).                                               *)
(*                                                                         *)
(* A room is a channel or a DM peer; an item is a post or a direct message *)
(* and its number is its timestamp.  The agent and the store are shared:   *)
(* the agent stores an item it receives, whether or not it held it, and    *)
(* emits its event in the same step; an own item it stores when it sends   *)
(* it, without an event.                                                   *)
(***************************************************************************)
EXTENDS Integers, Sequences, FiniteSets

CONSTANTS
  Users,         \* connections
  Channels,      \* channel ids, ordered as numbers
  Peers,         \* callsigns
  Items,         \* timestamps
  RoomOf,        \* the room of each item
  Mine,          \* items whose sender is the daemon's callsign
  FirstKnown,    \* channels in the store to begin with
  HistoryLimit,  \* items shown when a room is opened
  HeaderLines,   \* lines of the connect header before its blank line
  MaxLines       \* bound: commands a user types

Rooms == Channels \cup Peers
NoRoom == 0      \* the view is the menu

ASSUME ChannelsAssumption == Channels \subseteq Nat \ {0} /\ IsFiniteSet(Channels)
ASSUME PeersAssumption == Channels \cap Peers = {} /\ NoRoom \notin Rooms
ASSUME ItemsAssumption == Items \subseteq Nat /\ IsFiniteSet(Items) /\ Mine \subseteq Items
ASSUME RoomOfAssumption ==
  RoomOf \in [Items -> Rooms] /\ \A r \in Rooms : \E i \in Mine : RoomOf[i] = r
ASSUME KnownAssumption == FirstKnown \subseteq Channels
ASSUME BoundsAssumption == /\ HistoryLimit \in Nat \ {0} /\ MaxLines \in Nat
                           /\ HeaderLines \in Nat

Newline == [verb |-> "\n"]
HeaderText == [verb |-> "header"]
Commands == [verb : {"M", "CH", "P", "S", "other"}]
            \cup [verb : {"O"}, n : 1..Cardinality(Channels)]
            \cup [verb : {"T"}, peer : Peers]
Tokens == Commands \cup {Newline, HeaderText}
Sends == {"P", "S"}
Many == 2        \* copies of an item are told apart up to here

VARIABLES
  known,     \* channels in the store
  stored,    \* items in the store
  closing,   \* the head's close() was called
  sock,      \* each connection: "none", "open", "destroyed", "closed"
  wire,      \* text on its way from the user
  typed,     \* commands typed so far
  buffer,    \* text received and not consumed
  session,   \* "none" until the header is complete, "live", "disposed"
  view,      \* NoRoom or a room
  index,     \* channelIndex
  live,      \* rooms this session has an event listener for
  shown,     \* how often each item was written in the current view: 0, 1 or Many
  again,     \* history: items of the view's room received again while it is open
  fed,       \* commands executed so far
  listed     \* the numbered list the user saw last

storeVars == <<known, stored>>
inputVars == <<wire, typed, buffer, fed>>
vars == <<storeVars, closing, sock, inputVars, session, view, index, live,
          shown, again, listed>>

\* State shape.
TypeOK ==
  /\ known \subseteq Channels /\ stored \subseteq Items /\ closing \in BOOLEAN
  /\ sock \in [Users -> {"none", "open", "destroyed", "closed"}]
  /\ wire \in [Users -> Seq(Tokens)] /\ buffer \in [Users -> Seq(Tokens)]
  /\ typed \in [Users -> 0..MaxLines]
  /\ session \in [Users -> {"none", "live", "disposed"}]
  /\ view \in [Users -> Rooms \cup {NoRoom}]
  /\ index \in [Users -> Seq(Channels)] /\ listed \in [Users -> Seq(Channels)]
  /\ live \in [Users -> SUBSET Rooms]
  /\ shown \in [Users -> [Items -> 0..Many]] /\ again \in [Users -> SUBSET Items]
  /\ fed \in [Users -> 0..MaxLines]

NothingShown == [i \in Items |-> 0]

Init ==
  /\ known = FirstKnown /\ stored = {} /\ closing = FALSE
  /\ sock = [u \in Users |-> "none"]
  /\ wire = [u \in Users |-> <<>>] /\ buffer = [u \in Users |-> <<>>]
  /\ typed = [u \in Users |-> 0]
  /\ session = [u \in Users |-> "none"]
  /\ view = [u \in Users |-> NoRoom]
  /\ index = [u \in Users |-> <<>>] /\ listed = [u \in Users |-> <<>>]
  /\ live = [u \in Users |-> {}]
  /\ shown = [u \in Users |-> NothingShown] /\ again = [u \in Users |-> {}]
  /\ fed = [u \in Users |-> 0]

-----------------------------------------------------------------------------
(* The user's side of the socket: external.                                *)

\* pdn connects and writes the header.
Connect(u) ==
  /\ ~closing /\ sock[u] = "none"
  /\ sock' = [sock EXCEPT ![u] = "open"]
  /\ wire' = [wire EXCEPT ![u] =
       [k \in 1..(2 * HeaderLines) |-> IF k % 2 = 1 THEN HeaderText ELSE Newline]
       \o <<Newline>>]
  /\ UNCHANGED <<storeVars, closing, typed, buffer, fed, session, view, index, live,
                 shown, again, listed>>

Type(u, cmd) ==
  /\ sock[u] = "open" /\ typed[u] < MaxLines
  /\ typed' = [typed EXCEPT ![u] = @ + 1]
  /\ wire' = [wire EXCEPT ![u] = @ \o <<cmd, Newline>>]
  /\ UNCHANGED <<storeVars, closing, sock, buffer, fed, session, view, index, live,
                 shown, again, listed>>

\* An empty line; bound: typed only when nothing is on its way.
TypeEmpty(u) ==
  /\ sock[u] = "open" /\ wire[u] = <<>>
  /\ wire' = [wire EXCEPT ![u] = <<Newline>>]
  /\ UNCHANGED <<storeVars, closing, sock, typed, buffer, fed, session, view, index,
                 live, shown, again, listed>>

-----------------------------------------------------------------------------
(* handleConnection().                                                     *)

Breaks(b) == {k \in 1..Len(b) : b[k] = Newline}
First(ks) == CHOOSE k \in ks : \A j \in ks : k <= j
After(b, k) == SubSeq(b, k + 1, Len(b))

\* The chunk just read still has lines for the session.  (They are fed one
\* action each; the chunk's handler has nothing else to do in between.)
Ready(u) == session[u] = "live" /\ Breaks(buffer[u]) # {}

\* Variant of Received: each chunk replaces what was buffered.
ReceivedOnly(u, k) == SubSeq(wire[u], 1, k)
Received(u, k) == buffer[u] \o SubSeq(wire[u], 1, k)

\* findHeaderEnd(): an empty line *after* a line.
HeaderEnds(b) == {k \in Breaks(b) : k < Len(b) /\ b[k + 1] = Newline}

\* Data while the header is incomplete; with its end the session greets.
ReadHeader(u, k) ==
  /\ sock[u] = "open" /\ session[u] = "none" /\ k \in 1..Len(wire[u])
  /\ wire' = [wire EXCEPT ![u] = After(@, k)]
  /\ LET b == Received(u, k)
         ends == HeaderEnds(b)
     IN  IF ends = {}
         THEN /\ buffer' = [buffer EXCEPT ![u] = b]
              /\ UNCHANGED session
         ELSE /\ buffer' = [buffer EXCEPT ![u] = After(b, First(ends) + 1)]
              /\ session' = [session EXCEPT ![u] = "live"]
  /\ UNCHANGED <<storeVars, closing, sock, typed, fed, view, index, live, shown,
                 again, listed>>

ReadLines(u, k) ==
  /\ sock[u] = "open" /\ session[u] = "live" /\ ~Ready(u) /\ k \in 1..Len(wire[u])
  /\ wire' = [wire EXCEPT ![u] = After(@, k)]
  /\ buffer' = [buffer EXCEPT ![u] = Received(u, k)]
  /\ UNCHANGED <<storeVars, closing, sock, typed, fed, session, view, index, live,
                 shown, again, listed>>

\* Variant of Unlistened: dispose() only sets its flag.
StillListened(u) == live[u]
Unlistened(u) == {}

\* finish(): the user left, the socket failed, or close() destroyed it.
Finish(u) ==
  /\ sock[u] \in {"open", "destroyed"} /\ ~Ready(u)
  /\ sock' = [sock EXCEPT ![u] = "closed"]
  /\ IF session[u] = "live"
     THEN /\ session' = [session EXCEPT ![u] = "disposed"]
          /\ live' = [live EXCEPT ![u] = Unlistened(u)]
     ELSE UNCHANGED <<session, live>>
  /\ wire' = [wire EXCEPT ![u] = <<>>] /\ buffer' = [buffer EXCEPT ![u] = <<>>]
  /\ UNCHANGED <<storeVars, closing, typed, fed, view, index, shown, again, listed>>

\* Variant of Destroyed: close() leaves the connections to their users.
Undisturbed == sock
Destroyed == [u \in Users |-> IF sock[u] = "open" THEN "destroyed" ELSE sock[u]]

\* close(): every connection is destroyed; their close events follow.
CloseHead ==
  /\ ~closing /\ closing' = TRUE /\ ~\E u \in Users : Ready(u)
  /\ sock' = Destroyed
  /\ UNCHANGED <<storeVars, inputVars, session, view, index, live, shown,
                 again, listed>>

-----------------------------------------------------------------------------
(* feedLine(): one command.                                                *)

InRoom(r) == {i \in stored : RoomOf[i] = r}
History(r) == {i \in InRoom(r) : Cardinality({j \in InRoom(r) : j > i}) < HistoryLimit}
ChannelList ==
  CHOOSE l \in [1..Cardinality(known) -> known] : \A j, k \in DOMAIN l : j < k => l[j] < l[k]

\* Variant of Line: the line stays in the buffer.
LineKept(u, cmd) ==
  /\ Ready(u) /\ buffer[u][1] = cmd
  /\ fed' = [fed EXCEPT ![u] = @ + 1]
  /\ UNCHANGED <<known, closing, sock, wire, typed, session, buffer>>

\* The next line of user u is cmd; it is taken off the buffer.
Line(u, cmd) ==
  /\ Ready(u) /\ buffer[u][1] = cmd
  /\ buffer' = [buffer EXCEPT ![u] = After(@, First(Breaks(@)))]
  /\ fed' = [fed EXCEPT ![u] = @ + 1]
  /\ UNCHANGED <<known, closing, sock, wire, typed, session>>

Blank(u) ==
  /\ Ready(u) /\ buffer[u][1] = Newline
  /\ buffer' = [buffer EXCEPT ![u] = Tail(@)]
  /\ UNCHANGED <<storeVars, closing, sock, wire, typed, fed, session, view, index,
                 live, shown, again, listed>>

\* Variant of SetView: the old subscription is not torn down.
SetViewKeepsLive(u, v, history) ==
  /\ view' = [view EXCEPT ![u] = v]
  /\ live' = [live EXCEPT ![u] = IF v = NoRoom THEN @ ELSE @ \cup {v}]
  /\ shown' = [shown EXCEPT ![u] = [i \in Items |-> IF i \in history THEN 1 ELSE 0]]
  /\ again' = [again EXCEPT ![u] = {}]

\* setView(), and the history that is shown with it.
SetView(u, v, history) ==
  /\ view' = [view EXCEPT ![u] = v]
  /\ live' = [live EXCEPT ![u] = IF v = NoRoom THEN {} ELSE {v}]
  /\ shown' = [shown EXCEPT ![u] = [i \in Items |-> IF i \in history THEN 1 ELSE 0]]
  /\ again' = [again EXCEPT ![u] = {}]

Menu(u) ==
  /\ Line(u, [verb |-> "M"]) /\ SetView(u, NoRoom, {})
  /\ UNCHANGED <<stored, index, listed>>

ListChannels(u) ==
  /\ Line(u, [verb |-> "CH"])
  /\ index' = [index EXCEPT ![u] = ChannelList]
  /\ listed' = [listed EXCEPT ![u] = ChannelList]
  /\ UNCHANGED <<stored, view, live, shown, again>>

\* Variant of Numbering: the list is read again for each O.
CurrentNumbering(u) == ChannelList
Numbering(u) == IF index[u] = <<>> THEN ChannelList ELSE index[u]

OpenChannel(u, n) ==
  /\ Line(u, [verb |-> "O", n |-> n])
  /\ index' = [index EXCEPT ![u] = Numbering(u)]
  /\ IF n <= Len(Numbering(u))
     THEN SetView(u, Numbering(u)[n], History(Numbering(u)[n]))
     ELSE UNCHANGED <<view, live, shown, again>>
  /\ UNCHANGED <<stored, listed>>

OpenDm(u, p) ==
  /\ Line(u, [verb |-> "T", peer |-> p]) /\ SetView(u, p, History(p))
  /\ UNCHANGED <<stored, index, listed>>

\* Posting and messaging store the item at once; in the wrong kind of view they only
\* complain.  What settles later is at most reported, in whatever view.
Send(u, op) ==
  /\ Line(u, [verb |-> op])
  /\ IF view[u] \in (IF op = "S" THEN Peers ELSE Channels)
     THEN \E i \in Mine : RoomOf[i] = view[u] /\ stored' = stored \cup {i}
     ELSE UNCHANGED stored
  /\ UNCHANGED <<view, live, shown, again, index, listed>>

\* Help, WHO, DM, SUB, UNSUB, Q ("73.") and unknown verbs leave the session as it is.
Answer(u) ==
  /\ Line(u, [verb |-> "other"])
  /\ UNCHANGED <<stored, view, index, live, shown, again, listed>>

Feed(u) ==
  \/ Blank(u) \/ Menu(u) \/ ListChannels(u) \/ Answer(u)
  \/ \E n \in 1..Cardinality(Channels) : OpenChannel(u, n)
  \/ \E p \in Peers : OpenDm(u, p)
  \/ \E op \in Sends : Send(u, op)

-----------------------------------------------------------------------------
(* The agent.                                                              *)

\* emit() looks at `disposed`, and write() at the socket.
Spoken(u) == session[u] = "live" /\ sock[u] = "open"

\* An item is received: stored, also over itself, then handed to each listener for its
\* room, who says nothing of an own one.
Arrive(i) ==
  /\ stored' = stored \cup {i}
  /\ LET told == {u \in Users : RoomOf[i] \in live[u] /\ i \notin Mine /\ Spoken(u)}
     IN  shown' = [u \in Users |->
           IF u \in told /\ shown[u][i] < Many THEN [shown[u] EXCEPT ![i] = @ + 1] ELSE shown[u]]
  /\ again' = [u \in Users |->
       again[u] \cup (IF i \in stored /\ RoomOf[i] = view[u] THEN {i} ELSE {})]
  /\ UNCHANGED <<known, closing, sock, inputVars, session, view, index, live, listed>>

NewChannel(c) ==
  /\ c \notin known /\ known' = known \cup {c}
  /\ UNCHANGED <<stored, closing, sock, inputVars, session, view, index, live,
                 shown, again, listed>>

Chunks == 1..(2 * (HeaderLines + MaxLines) + 2)

Next ==
  \/ CloseHead
  \/ \E i \in Items : Arrive(i)
  \/ \E c \in Channels : NewChannel(c)
  \/ \E u \in Users :
       \/ Connect(u) \/ Finish(u) \/ Feed(u) \/ TypeEmpty(u)
       \/ \E cmd \in Commands : Type(u, cmd)
       \/ \E k \in Chunks : ReadHeader(u, k) \/ ReadLines(u, k)

\* Received text is read and fed, destroyed sockets close.  Users need not leave.
Fairness ==
  \A u \in Users :
    /\ WF_vars(Feed(u))
    /\ WF_vars(\E k \in Chunks : ReadHeader(u, k) \/ ReadLines(u, k))
    /\ WF_vars(sock[u] = "destroyed" /\ Finish(u))

Spec == Init /\ [][Next]_vars
FairSpec == Spec /\ Fairness

-----------------------------------------------------------------------------
(* Properties.                                                             *)

\* Nothing a user typed is lost or run twice, however the text was cut into
\* chunks: a command is on its way, buffered or executed.
Typed(text) == Cardinality({k \in 1..Len(text) : text[k] \in Commands})
LinesConserved ==
  \A u \in Users : sock[u] = "open" =>
    typed[u] = fed[u] + Typed(buffer[u] \o wire[u])

\* A session listens for its room and for no other, and for none after its end:
\* no command, departure or close leaves a subscription behind.
LiveIsView ==
  \A u \in Users :
    live[u] = IF session[u] = "live" /\ view[u] # NoRoom THEN {view[u]} ELSE {}

\* What a user reads in a room is the room: every item of somebody else, from the
\* history or as it arrived, but for those older than the history shown; none twice
\* unless the agent received it twice while the user read; no item of another room.
ViewIsComplete ==
  \A u \in Users : sock[u] = "open" /\ session[u] = "live" =>
    /\ \A i \in Items : shown[u][i] > 0 =>
         i \in stored /\ RoomOf[i] = view[u] /\ (shown[u][i] = 1 \/ i \in again[u])
    /\ \A i \in stored \ Mine : RoomOf[i] = view[u] =>
         shown[u][i] > 0 \/ i \notin History(view[u])

\* O n opens the channel the user saw as n, also when channels were added since.
OpensListed ==
  [][\A u \in Users, n \in 1..Cardinality(Channels) :
       OpenChannel(u, n) /\ n <= Len(listed[u]) => view'[u] = listed[u][n]]_vars

\* A command that was typed is executed unless the user leaves.
CommandsRun ==
  \A u \in Users, n \in 1..MaxLines :
    typed[u] >= n ~> fed[u] >= n \/ sock[u] # "open"

\* close() ends: no connection holds up the shutdown.
HeadCloses == closing ~> \A u \in Users : sock[u] \in {"none", "closed"}
=============================================================================
