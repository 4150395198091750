-------------------------------- MODULE Sync --------------------------------
(***************************************************************************)
(* What survives the link: the store (store/store.ts), the cursors of the  *)
(* connect object, and the agent's sends, subscriptions and dispatch       *)
(* (agent/agent.ts), against the WhatsPac service.                         *)
(*                                                                         *)
(* A room is the direct messages or a channel; an item is a message or a   *)
(* post, and its number is its timestamp.  A session lasts from the        *)
(* connect object to the end of the link, which loses what is under way in *)
(* both directions (Agent and Inbound have the rest of the link's life).   *)
(* A call of a head, though, can outlive it: the replies of the RHP host   *)
(* come in any order, and after a close push the host still answers.       *)
(* The service, external, knows the items in the order of their            *)
(* timestamps and sends those newer than a cursor, oldest first.           *)
(***************************************************************************)
EXTENDS Integers, Sequences, FiniteSets, FiniteSetsExt, SequencesExt

CONSTANTS
  Channels,
  Users,        \* other users, who come and go
  MaxTime,      \* bound: timestamps, one to each item and each coming or going
  MaxQueue,     \* bound: messages under way; a backfill may exceed it
  MaxCalls      \* bound: calls that wait

Dm == "dm"
Rooms == Channels \cup {Dm}

ASSUME ChannelsAssumption == IsFiniteSet(Channels) /\ Dm \notin Channels
ASSUME UsersAssumption == IsFiniteSet(Users)
ASSUME BoundsAssumption == MaxTime \in Nat /\ MaxQueue \in Nat /\ MaxCalls \in Nat

Item(r, ts, own) == [room |-> r, ts |-> ts, own |-> own]
Items == [room : Rooms, ts : 1..MaxTime, own : BOOLEAN]
NoCursor == -1

VARIABLES
  store,       \* daemon: items in the tables messages and posts
  subscribed,  \* daemon: channels with the flag set
  online,      \* daemon: the table online
  up,          \* a session
  waiting,     \* calls whose send was not answered yet
  outdated,    \* history: channels whose flag was last set, this session, by the
               \* reply to a call that was no longer the session's last on them
  toService, toDaemon,
  log,         \* service: items it knows
  now,         \* the last timestamp
  present,     \* service: users online
  served,      \* service: has read this session's connect object
  member,      \* service: channels it pushes the posts of
  since        \* service: when it last took a cs for a channel

tableVars == <<store, subscribed, online>>
callVars == <<waiting, outdated>>
serviceVars == <<log, now, present, served, member, since>>
vars == <<tableVars, up, callVars, toService, toDaemon, serviceVars>>

UnderWay == Len(toService) + Len(toDaemon)

Cursors == 0..MaxTime
ConnectObject == [t : {"c"}, lm : Cursors, cc : UNION {[cs -> Cursors] : cs \in SUBSET Channels}]
Subscription == [t : {"cs"}, cid : Channels, s : BOOLEAN]   \* a call's, or its echo
Call == [cid : Channels, s : BOOLEAN, last : BOOLEAN]   \* last: of the session, on its channel
Backfill == [t : {"items"}, items : Seq(Items)]             \* a batch, or one pushed item
OnlineList == [t : {"o"}, users : SUBSET Users]
ComingOrGoing == [t : {"uc", "ud"}, user : Users]
ToService == ConnectObject \cup [t : {"item"}, item : Items] \cup Subscription
ToDaemon == Backfill \cup OnlineList \cup ComingOrGoing \cup Subscription

\* State shape: in particular every cursor the service is sent is a number.
TypeOK ==
  /\ store \subseteq Items /\ subscribed \subseteq Channels /\ online \subseteq Users
  /\ up \in BOOLEAN
  /\ waiting \in Seq(Call) /\ outdated \subseteq Channels
  /\ toService \in Seq(ToService) /\ toDaemon \in Seq(ToDaemon)
  /\ log \subseteq Items /\ now \in 0..MaxTime
  /\ present \subseteq Users /\ served \in BOOLEAN /\ member \subseteq Channels
  /\ since \in [Channels -> 0..MaxTime]

Init ==
  /\ store = {} /\ subscribed = {} /\ online = {}
  /\ up = FALSE /\ waiting = <<>> /\ outdated = {}
  /\ toService = <<>> /\ toDaemon = <<>>
  /\ log = {} /\ now = 0 /\ present = {} /\ served = FALSE /\ member = {}
  /\ since = [c \in Channels |-> 0]

-----------------------------------------------------------------------------
(* The daemon.                                                             *)

Newest(items) == Max({i.ts : i \in items})

\* Variant of Cursor: max(ts) of no rows is null.
CursorOrNull(r) ==
  LET seen == {i \in store : i.room = r} IN IF seen = {} THEN NoCursor ELSE Newest(seen)
\* getConnectCursors(): the newest item held, one's own included.
Cursor(r) ==
  LET seen == {i \in store : i.room = r} IN IF seen = {} THEN 0 ELSE Newest(seen)

\* sendConnectObject(), at the start of a session.
Connect ==
  /\ ~up
  /\ up' = TRUE /\ outdated' = {}
  /\ toService' = <<[t |-> "c", lm |-> Cursor(Dm), cc |-> [c \in subscribed |-> Cursor(c)]]>>
  /\ UNCHANGED <<tableVars, waiting, toDaemon, serviceVars>>

\* sendDirectMessage() and postToChannel(): stored first, then sent if there is a
\* link; without one the call fails and what it stored stays.
HeadSends(r) ==
  /\ now < MaxTime /\ UnderWay < MaxQueue /\ now' = now + 1
  /\ store' = store \cup {Item(r, now + 1, TRUE)}
  /\ toService' = IF up THEN Append(toService, [t |-> "item", item |-> Item(r, now + 1, TRUE)])
                  ELSE toService
  /\ UNCHANGED <<subscribed, online, up, callVars, toDaemon, log, present,
                 served, member, since>>

\* No call that waits is the session's last on any of cs any more.
Overtaken(cs) == [n \in DOMAIN waiting |-> [waiting[n] EXCEPT !.last = @ /\ waiting[n].cid \notin cs]]

\* subscribeChannel() and unsubscribeChannel() up to their await.  (lcp only tells the
\* service how many posts to count.)  A call without a link, or that the host does not
\* pass on, fails and changes nothing.
HeadCalls(c, s) ==
  /\ up /\ Len(waiting) < MaxCalls /\ UnderWay < MaxQueue
  /\ toService' = Append(toService, [t |-> "cs", cid |-> c, s |-> s])
  /\ waiting' = Append(Overtaken({c}), [cid |-> c, s |-> s, last |-> TRUE])
  /\ UNCHANGED <<tableVars, up, outdated, toDaemon, serviceVars>>

\* setChannelSubscribed().
Flagged(c, s) == IF s THEN subscribed \cup {c} ELSE subscribed \ {c}

\* The rest of a call, once the RHP host has said that it took the frame: of any call,
\* in this session, after it, or in a later one.
CallSucceeds(n) ==
  /\ n \in DOMAIN waiting /\ waiting' = RemoveAt(waiting, n)
  /\ subscribed' = Flagged(waiting[n].cid, waiting[n].s)
  /\ outdated' = IF waiting[n].last THEN outdated \ {waiting[n].cid}
                 ELSE outdated \cup {waiting[n].cid}
  /\ UNCHANGED <<store, online, up, toService, toDaemon, serviceVars>>

\* The host did not answer in time, though it did pass the frame on; or the transport
\* ended.
CallFails(n) ==
  /\ n \in DOMAIN waiting /\ waiting' = RemoveAt(waiting, n)
  /\ UNCHANGED <<tableVars, up, outdated, toService, toDaemon, serviceVars>>

\* Variant of OnlineNow: the table is not emptied first.
OnlineToo(users) == online \cup users
\* setOnline().
OnlineNow(users) == users

\* Variant of Echoed: any cs of the service sets the flag.
EchoSets(msg) == Flagged(msg.cid, TRUE)
Echoed(msg) == Flagged(msg.cid, msg.s)

\* Variant of Inserted: the batch is inserted newest first.
InsertedNewestFirst(items, k) == {items[j] : j \in (Len(items) - k + 1)..Len(items)}
\* The first k inserts of a batch.
Inserted(items, k) == {items[j] : j \in 1..k}

\* dispatch() of the next message; a batch is stored in one go.
Dispatch ==
  /\ toDaemon # <<>> /\ toDaemon' = Tail(toDaemon)
  /\ LET msg == Head(toDaemon) IN
     /\ store' = IF msg.t = "items" THEN store \cup Inserted(msg.items, Len(msg.items)) ELSE store
     /\ subscribed' = IF msg.t = "cs" THEN Echoed(msg) ELSE subscribed
     /\ online' = IF msg.t = "o" THEN OnlineNow(msg.users)
                  ELSE IF msg.t = "uc" THEN online \cup {msg.user}
                  ELSE IF msg.t = "ud" THEN online \ {msg.user} ELSE online
     /\ outdated' = IF msg.t = "cs" THEN outdated \ {msg.cid} ELSE outdated
  /\ UNCHANGED <<up, waiting, toService, serviceVars>>

LinkGone ==
  /\ up /\ up' = FALSE
  /\ toService' = <<>> /\ toDaemon' = <<>>
  /\ served' = FALSE /\ member' = {}
  /\ UNCHANGED <<outdated, log, now, present, since>>

\* The link ends.  After the host's close push the calls made on it wait for the host
\* as before; the end of the transport fails each of them first (CallFails).
Drop == LinkGone /\ waiting' = Overtaken(Channels) /\ UNCHANGED tableVars

\* The process dies after the first k inserts of a batch; the tables stay.
Crash(k) ==
  /\ LinkGone /\ waiting' = <<>>
  /\ toDaemon # <<>> /\ Head(toDaemon).t = "items" /\ k < Len(Head(toDaemon).items)
  /\ store' = store \cup Inserted(Head(toDaemon).items, k)
  /\ UNCHANGED <<subscribed, online>>

-----------------------------------------------------------------------------
(* The service: external.                                                  *)

Newer(r, cursor) == {i \in log : i.room = r /\ i.ts > cursor}
OldestFirst(items) ==
  CHOOSE l \in [1..Cardinality(items) -> items] : \A j, k \in DOMAIN l : j < k => l[j].ts < l[k].ts
Orders(rooms) ==
  {l \in [1..Cardinality(rooms) -> rooms] : \A r \in rooms : \E k \in DOMAIN l : l[k] = r}

\* The backfill: who is online, then a batch for each room with news, in any order.
ServiceReadsConnect(msg) ==
  /\ msg.t = "c"
  /\ served' = TRUE /\ member' = DOMAIN msg.cc
  /\ LET cursor == [r \in DOMAIN msg.cc \cup {Dm} |-> IF r = Dm THEN msg.lm ELSE msg.cc[r]]
         news == {r \in DOMAIN cursor : Newer(r, cursor[r]) # {}}
     IN  \E order \in Orders(news) :
           toDaemon' = toDaemon \o <<[t |-> "o", users |-> present]>> \o
             [k \in 1..Len(order) |->
                [t |-> "items", items |-> OldestFirst(Newer(order[k], cursor[order[k]]))]]
  /\ UNCHANGED <<log, since>>

ServiceReadsItem(msg) ==
  /\ msg.t = "item" /\ log' = log \cup {msg.item}
  /\ UNCHANGED <<toDaemon, served, member, since>>

\* From then on it pushes the channel's posts; it does not send older ones unasked.
ServiceReadsCs(msg) ==
  /\ msg.t = "cs"
  /\ member' = IF msg.s THEN member \cup {msg.cid} ELSE member \ {msg.cid}
  /\ since' = IF msg.s /\ msg.cid \notin member THEN [since EXCEPT ![msg.cid] = now] ELSE since
  /\ toDaemon' = Append(toDaemon, [t |-> "cs", cid |-> msg.cid, s |-> msg.s])
  /\ UNCHANGED <<log, served>>

ServiceReads ==
  /\ toService # <<>> /\ toService' = Tail(toService)
  /\ \/ ServiceReadsConnect(Head(toService))
     \/ ServiceReadsItem(Head(toService))
     \/ ServiceReadsCs(Head(toService))
  /\ UNCHANGED <<tableVars, up, callVars, now, present>>

Push(msgs) == toDaemon' = IF served THEN toDaemon \o msgs ELSE toDaemon

OtherSends(r) ==
  /\ now < MaxTime /\ UnderWay < MaxQueue /\ now' = now + 1
  /\ log' = log \cup {Item(r, now + 1, FALSE)}
  /\ Push(IF r \in member \cup {Dm}
          THEN <<[t |-> "items", items |-> <<Item(r, now + 1, FALSE)>>]>> ELSE <<>>)
  /\ UNCHANGED <<tableVars, up, callVars, toService, present, served, member, since>>

ComesOrGoes(u) ==
  /\ now < MaxTime /\ UnderWay < MaxQueue /\ now' = now + 1
  /\ present' = IF u \in present THEN present \ {u} ELSE present \cup {u}
  /\ Push(<<[t |-> IF u \in present THEN "ud" ELSE "uc", user |-> u]>>)
  /\ UNCHANGED <<tableVars, up, callVars, toService, log, served, member, since>>

Next ==
  \/ Connect \/ Dispatch \/ Drop \/ ServiceReads
  \/ \E n \in 1..MaxCalls : CallSucceeds(n) \/ CallFails(n)
  \/ \E k \in 0..MaxTime : Crash(k)
  \/ \E r \in Rooms : HeadSends(r) \/ OtherSends(r)
  \/ \E c \in Channels, s \in BOOLEAN : HeadCalls(c, s)
  \/ \E u \in Users : ComesOrGoes(u)

Spec == Init /\ [][Next]_vars

-----------------------------------------------------------------------------
(* Properties.                                                             *)

\* Nothing is under way between daemon and service.
Settled == served /\ toService = <<>> /\ toDaemon = <<>>

\* After the backfill the daemon has what the service has, through any sequence of
\* drops and crashes: every direct message, and in a subscribed channel every post
\* since the subscription, but for those older than something the daemon itself had
\* stored as sent in that room.
ResyncComplete ==
  Settled => \A i \in log \ store :
    i.room \in member \cup {Dm} => \/ i.room # Dm /\ i.ts <= since[i.room]
                                   \/ \E j \in store : j.own /\ j.room = i.room /\ j.ts > i.ts

\* The flag the heads show, and the next connect object is made of, is the service's
\* subscription, whatever calls failed, in whatever order replies and echoes came in,
\* this session or late; but for a channel whose flag was set last by the reply to a
\* call that another call on it, or the end of its link, had overtaken.
FlagsAgree == Settled => \A c \in Channels \ outdated : c \in subscribed <=> c \in member

\* Who is shown online is online, also after a gap.
OnlineMirrors == Settled => online = present

-----------------------------------------------------------------------------
(* What the repository says and the code does not do.                      *)

\* The cursors are "everything the connect object needs to ask the server for a delta
\* backfill": no direct message is missed.
NothingMissed == Settled => \A i \in log : i.room = Dm => i \in store
=============================================================================
