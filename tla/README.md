# A TLA+ model of whatspacd

`whatspacd` (this repository) is a daemon that holds one connected-mode link to
the WhatsPac service (WPS) through a packet node, mirrors what it hears into
SQLite, and shows it to a web head and an RF terminal head. This directory holds
its specification: TLA+ modules translated from `src/`, TLC configurations that
check them on small instances, and proofs that TLAPS checks for every instance.

- [Inventory](#inventory): the system's parts, what is hard in each, what makes each correct
- [Modules](#modules): how the modules correspond to the code
- [Runs](#runs): what each run checks, the bounds and why they are enough
- [Fairness](#fairness)
- [Proofs](#proofs)
- [Findings](#findings): where the code and what the repository says disagree
- [Plan](#plan) and [what is left out](#what-is-left-out)

## Inventory

One Node process, so one thread: a handler runs to its end or to an `await`.
Everything hard comes from what happens between an `await` and its continuation,
from TCP chunks that carry several frames, and from timers.

| Part | State | Operations | Talks to |
|---|---|---|---|
| Agent (`agent/agent.ts`) | status, `link`, `phase`, frame reader, `runner`, keepalive interval, `idleMs`, backoff, `stopping` | `start`, `stop`, `connect`, `onData`, `onClose`, the keepalive tick, four sends of the heads, `dispatch` | transport (calls, listeners), runner, store, event emitter |
| Connect-script runner (`agent/connectScript.ts`) | `hopIndex`, `text`, `finished`, timer | `start`, `feed`, `cancel` | the link, and callbacks that settle the agent's promise |
| RHP client (`rhp/client.ts`) | socket, ids, pending replies, listeners per handle, `closed` | `open`, `send`, `close`, socket events, reply timeout | RHP host (TCP), agent (listeners) |
| RHP wire (`rhp/wire.ts`) | deframer's buffer | `push`, encode, decode | RHP client |
| WPS codec (`protocol/`) | reader's buffer | `push`, `reset`, encode | agent |
| Store (`store/store.ts`) | SQLite tables | upserts, lists, `getConnectCursors` | agent, heads |
| RF session (`heads/rf/session.ts`) | view, channel index, live subscription, `disposed` | one per command, `dispose` | agent, store, emitter |
| RF server (`heads/rf/server.ts`) | header, line buffer, connections | accept, data, end, `close` | RF session |
| Web head (`heads/web/app.ts`, `server.ts`) | SSE subscriptions | HTTP handlers, `close` | agent, store, emitter |
| Web page (`heads/web/ui.ts`) | the open room, posts, messages, roster, link dot | opening rooms, listeners of the event stream, composer | web head (GET, POST, SSE) |
| Daemon (`main.ts`) | `shuttingDown` | start-up, `shutdown` | all of the above, the supervisor |
| Emitter, config, log (`util/`, `config.ts`) | listener sets | `on`, `emit` | agent, heads |

What is hard, and what makes each part correct:

- **Agent.** `connect()` suspends three times (the open, the script, the connect
  object) and `onClose`, `stop`, the timers and the next `connect()` all share its
  fields. Correct when: there is always exactly one way back to a session until
  `stop()`, never two and never none; `stop()` is final; `link` is the link whose
  end will be heard; "running" means there is one; the idle cap ends the link; a
  failed send is nobody's surprise.
- **Runner.** Its timeout is the only thing that ends a script the node leaves
  hanging. Correct when every script ends, and only its own attempt ends it.
- **RHP client.** Replies may be late, reordered or missing; a close push, a FIN
  and a reset end the link in different ways. Correct when each request is told
  its own answer, each settles, each link announces its end once, and bytes reach
  the listener in order and without gaps.
- **Wire, codec and reader.** Correct when the messages do not depend on how the bytes
  were cut into chunks, and a corrupt frame loses nothing before it.
- **Store.** Correct when the cursors sent on reconnect ask for everything the
  daemon has not seen, whatever was lost and whatever it sent itself.
- **RF session, RF server, emitter.** Correct when a user misses no item of the view
  they are in, sees none twice that was received once and none of another room, and
  an action goes to the channel that was on the screen.
- **Web head and page.** Responses to the page's requests and events of its stream
  come over different connections, in any order; the stream is lost and reopened,
  and rooms are opened meanwhile. Correct when, once all has arrived, the page shows
  the link, who is online, and each of the open room's newest items once.
- **Daemon.** It opens two servers and the agent one after the other, any of which
  may be refused; signals come at any time, more than once; a process may die and
  leave its socket behind. Correct when a process gets past what an earlier one
  left, a shutdown ends, and the exit cuts nothing short.

`PROJECT.json` lists these as hazards, each at its line of code.

## Modules

| Module | Models | Role |
|---|---|---|
| `LinkKeeper` | what the agent promises its owner | abstract: one path back, `backoff`, `dialling`, `session`, or `none` |
| `Agent` | `agent.ts`, the runner, and the RHP connection as the agent sees it | detailed; implements `LinkKeeper` |
| `RhpLink` | `rhp/transport.ts`, the seam | abstract: open fails or gives a link, sends settle once, one close |
| `RhpClient` | `rhp/client.ts` and the host | detailed; implements `RhpLink` |
| `Wire` | `rhp/wire.ts`: the length prefix and the deframer | operators, extended by `Inbound` |
| `Inbound` | the bytes of a link, from TCP chunks to messages: `wire.ts`, `client.ts`, `connectScript.ts`, `codec.ts`, and the switch between them in `agent.ts` | detailed |
| `Sync` | `store.ts`, the cursors, the agent's sends and `dispatch`, and the service | detailed, over many sessions |
| `RfHead` | `heads/rf/server.ts`, `heads/rf/session.ts`, `util/emitter.ts` | detailed |
| `WebUi` | `heads/web/ui.ts` in one tab, the loads and the event stream of `heads/web/app.ts` | detailed |
| `Daemon` | `main.ts`, the servers of both heads, their clients and the supervisor | detailed, over several processes |
| `AgentProofs`, `RhpClientProofs`, `InboundProofs`, `SyncProofs`, `RfHeadProofs`, `WebUiProofs`, `DaemonProofs` | | invariants of the module they are named after, proved; the first two also prove its refinement |
| `MCAgent`, `MCRhpClient`, `MCInbound`, `MCSync`, `MCRfHead`, `MCWebUi`, `MCDaemon` | | instances for TLC |

The views of the agent divide its work rather than nest: `Agent` has who may
run when, with data folded to what a frame makes the agent do; `Inbound` takes one
well-behaved link and asks what the bytes become; `Sync` takes whole sessions and
asks what the tables become; `RfHead` and `WebUi` take the agent's events and the
store as given; `Daemon` knows of the agent only that it was started and stopped.
Each names in its header what it leaves to which other.

Two refinements connect modules. `Agent` implements `LinkKeeper`
(`Agent!Keeper == INSTANCE LinkKeeper WITH path <- KeeperPath, ...`, the property
`KeepsLink`): `KeeperPath` reads off the attempts which of backoff, dialling and
session the agent is in. `RhpClient` implements `RhpLink` (`RhpClient!Seam`, the
property `IsLink`): `LinkState` and `SendState` read off the client's stage,
listeners and outcomes what the seam's user sees.

In every module, a definition whose comment begins "Variant of" is not part of the
specification: it is that definition with a plausible bug, used to see that a
property notices (`PROJECT.json`, "mutants").

### Agent

An *attempt* is one call of `connect()`. `pc[i]` is where attempt `i` stands:
`waiting` (its timer runs), `opening`, `script` and `sending` are the awaits of
`transport.open()`, of the script promise and of `sendConnectObject()`; `opened`,
`openFailed`, `scriptDone`, `scriptFailed`, `sent` and `sendFailed` say that the
awaited promise has settled and its continuation has not run; each `Resume...`
action is one continuation, up to the next await. The agent's fields are one
variable each (`link` and `runner` name the attempt they belong to), the
socket of attempt `i` is `conn[i]`, its listeners `heard[i]`, the requests
waiting for a reply on it `pend[i]`, counted by what they carry, because what a
failed request does depends on who awaits it.

`Job`, `Task` and `Frame` are Node's event loop. Continuations run before any
other macrotask, but a TCP chunk with several frames is read in one go, so the
frames that follow a reply in its chunk come *before* the continuation of the
request it answered. `chunk` is the socket whose chunk is being read. Leaving
this out would hide several of the findings below.

What is abstracted: bytes of the script are "this chunk completes so many hops";
WPS messages are `plain`, `corrupt` (drops the link) or `avatar` (sends an
enquiry); delays are left out, so a timer may fire at any time after it is set.
A head's failed send without a link changes nothing and is not an action.

### RhpClient

One `RhpConnection`. `pending` is `#pending`; `outcome` is how each promise
settled; `wire` holds the host's frames in order, with its FIN as the last one.
`Awaited` is the request `open()` is suspended on. A FIN, an error and a timeout
are events of their own and wait for continuations; frames do not. The host is
external and does what PWP-0222 lets it: it answers in any order or not at all,
pushes data and a close, ends. `FrameDeframer` never throws on what it is given,
so `#fail()` is not reachable and not an action.

`Agent` uses the same connection with the details folded away: `SocketEnd`,
`ClosePush`, `Reply`, `ReplyTimeout`, `OpenReply`, `OpenFails` are `RhpClient`'s
actions as the agent experiences them, and `RhpClient` implementing `RhpLink`
is why the agent may rely on them.

### Wire and Inbound

The bytes are tokens: the two halves of a hop's `val`, the two halves of a WPS
frame, a carriage return; and, on the socket, the two bytes of a length (in a base
that the constant `Base` gives, so that both bytes matter to short frames) and what
a body says before its data. What the node and the service print goes through three
cuts. The host pushes it in pieces of any size up to `MaxPush` (`Push(n)`: a recv
frame); it may not cut inside a token, so that every `val` and every frame is also
seen cut in two. TCP delivers the frames in chunks of any size (`Read(k)`: `#onData`
and the deframer), cut inside a length too, together with the reply to the connect
object. And the bodies of a chunk are handled one after the other (`HandleRecv`,
`HandleSendReply`) before any continuation runs, as in `Agent`.

`Wire` has `encodeFrame()` as `Framed`, and a turn of `push()`'s loop as `Complete`,
`Body` and `Rest`. The code takes all complete bodies of a chunk before it dispatches
the first; the model takes each when its turn comes, which nothing can tell apart, as
no event and no continuation comes in between (`Quiet`). `FeedRunner` is `feed()`: its
loop makes `Turns` turns and leaves what `Sliced` says, since the n-th `indexOf` finds
the n-th match of the text (matches of `Val` do not overlap). `Ingest` is `ingest()` with
`FrameReader.push()`, whose loop over the bytes is `Segments`, the non-empty stretches
between terminators, and `Partial`, what follows the last one; `Reset` is `reset()`.
Written so, no loop is a fold or a recursion, and all of it can be reasoned about.

A link ends in two ways. `Drop` is the end of its socket, which fails every send that
waits for a reply. `ClosePush` is the host's close push, behind everything else it
pushed: the requests stay pending (`client.ts:214`), so that the attempt which waits for
one is kept in `late` with its leftover. `LateReply` is what the code then does when the
host answers after all, in the backoff or in a later connection: `connect()` resumes and
puts its leftover into the reader that is in use by then. `LateFail` is the other
outcome: its catch cancels the runner that is in use by then. `split` remembers that a
leftover went behind the beginning of a frame, which is how a clean stream comes to look
corrupt.

Every hop waits for the same text, the hard case for a runner that must not answer a
prompt twice. Two halves of different frames that were joined make a frame that may
decode (`Forged`) or throw, as short frames carry no checksum.

### Sync

A session lasts from the connect object to the end of the link. The messages under
way are two FIFO queues; a drop or a crash loses them. `Crash(k)` stops the process
after `k` inserts of a backfill batch, as no transaction spans the batch.
`HeadSends` stores before it sends, with or without a link; `HeadCalls` and
`CallSucceeds` are the two sides of the await in `subscribeChannel()`. `waiting` has the
calls between the two: the RHP host's replies settle them by id, so in any order; a drop
keeps them, as a close push does, and they succeed or fail later, also in another
session; the end of the transport fails them all (`CallFails`, one after the other); a
crash forgets them. So the reply to a call may come after that to a later call on the
channel, or a session late, and sets the flag all the same: the history variable
`outdated` has the channels whose flag was last set so.

The service is external and modelled from what the client expects of it
(`messages.ts`, `mockWps.ts`): it knows the items in the order of their timestamps,
which are distinct, answers the connect object with who is online and what is newer
than each cursor, oldest first within a room and the rooms in any order, and pushes the
posts of subscribed channels.

### RfHead

One connection is one user. `wire` is the text pdn still has to deliver and
`ReadHeader`, `ReadLines` take any prefix of it, so that header, blank line and
commands are cut and joined in every way. The lines of a chunk are fed one action
each, and `Ready` keeps the others from coming between where it matters to the
code: the socket's events and `close()`. `Feed` is `feedLine()`, with one action per
command that changes state. What the `.then` and `.catch` of an agent call write is left
out: a line in whatever view is open by then, or nothing after the end. `Arrive` is
`dispatch()`: the item is stored, over itself if it was held, and its listeners called in
one synchronous step. `shown` counts how often each item was written in the current view,
which is what a user can complain about; the history variable `again` has the items of
the view's room that were received again meanwhile, which the code writes again.

### WebUi

One tab. `queue` is the event stream between `app.ts` and the page's listeners: a
stream keeps the order of its events, and losing it loses them. `loads` are the
GETs in flight, one to a slot, answered and returned in any order; each is answered
with the `PageLimit` newest items of its room (100 in `store.ts`). `Open` is
`openChannel()` or `openDm()` up to its await, `Load` and `LoadFails` the rest, which
show what they bring whatever room is open by then. `arr` is `state.posts`
and `state.dms`, kept as how often each item is in them, and `screen` the one that
`renderTimeline()` showed last. Three history variables say what the code does not
promise to show. `fresh`: the open room's load was the last to return, however many
other loads returned before it, and none is in flight. `raced`: the items of that room
which the last load and their events did not bring in the one order the page is made for,
those received again since or without a stream, and those written here, which no event
announces (`Overtaken` gives those of a load, `Race` those that come after it). `blind`: a
coming or going fell into a gap of the stream.

### Daemon

`main` is the await that `main()` is at; each server is `off`, `listening`,
`closing` or `closed`. `closing'` is what `Promise.allSettled` waits for. Node's
HTTP server closes when its last connection has: those that were idle are closed for
it, but one whose request was answered later may be kept (`kept`) and used again.
The supervisor may start a process whenever none runs, signal it any number of
times, and kill it during a shutdown. Only `file`, the RF socket's path, survives.

## Runs

| Run | Question | Distinct states | Result |
|---|---|---|---|
| `agent` | one path back to a session; `link` is the one heard; `stop` is final; the idle cap ends the link; a failed dial or closed link is followed by the next dial, and so is a status that lies; the agent is a `LinkKeeper` | 134,760 | holds |
| `rhp_client` | replies match, settle, and leave no gap; every `open()` settles; a local close is announced; the connection is an `RhpLink` | 68,347 | holds |
| `inbound` | prompts answered once; messages dispatched once, in order, none held back, however pushes and chunks cut them, with a corrupt frame, a reconnect, and attempts that resume late | 1,131,074 | holds, but for `split` |
| `sync` | after any drops and crashes a settled session has what the service has, the same subscriptions, the same presence | 2,601,875 | holds, but for what an own item hides, and `outdated` |
| `rf_head` | commands run once each; the session listens for its view's room only; the view is the room; `close()` ends | 248,688 | holds |
| `web_ui` | the dot, the roster and the timeline agree with the daemon once all has arrived | 3,474,060 | holds, but for `raced` and `blind`, when `fresh` |
| `daemon` | an exit is clean; a process comes up past what another left; only tabs hold a shutdown up | 959 | holds |
| `script_ends`, `keepalive_failure`, `nothing_missed`, `shows_open_room`, `shutdown_ends` | see [Findings](#findings) | | violated |

The passing runs check safety and liveness together, under the fair specification
where the module has one.

Bounds, all of them named in the modules:

- `Agent`: `MaxAttempts = 3` is two dialled attempts and one scheduled, enough for
  any race between an attempt, its successor and the timer after it (every step
  involves at most the newest attempt, an older one and the timer it sets).
  `Hops = 2` has a hop that sends and a hop that ends the script. `IdleCap = 2` has
  a tick below the cap and one at it; `idle` saturates there. `MaxPend = 1` request
  of a kind per socket: requests of a kind behave alike.
- `RhpClient`: authentication on (without it `open()` has one await less), two
  sends so that replies can be reordered, three pushes so that a gap between two
  delivered ones could show.
- `Inbound`: `Messages = 3` with the last corrupt, so that two messages precede it, in
  its push or in others, and their order can be wrong; `MaxPush = 3`, so that a push holds a whole message or parts of
  two; `Base = 3`, so that bodies of two lengths carry into the high byte; `Hops = 2`; `MaxConns = 2` for what an old connection leaves
  behind, in the reader or as an attempt that resumes late; `Tail0D`, a carriage return after the last `val`, is the harder case.
- `Sync`: one channel besides the direct messages, since rooms do not interact but
  through the queues; `MaxTime = 3` gives three items, or fewer with a coming and a
  going: one before a gap, one in it and one after; `MaxQueue = 2` messages under
  way (a backfill may exceed it), of one way or of both, so that any two can pass each
  other; `MaxCalls = 2` waiting calls, so that subscribe and unsubscribe overlap, also
  one of an earlier session with one of this.
- `RfHead`: one user, since users share only the store, which `Arrive` and
  `NewChannel` move; two commands, so that each follows each; two channels of which
  one appears later, so that numbers shift; one DM peer; two items of somebody else
  in a room with a history of one, so that one is scrolled out; every item may be
  received any number of times.
- `WebUi`: two channels and a peer, so that rooms of the same and of the other kind
  follow each other; in one channel a post is received and one is written, with
  `PageLimit = 1`, so that a load leaves one out; a message is received from the peer;
  each may be received again; two loads in flight, the least that can overtake each
  other, in slots that are symmetric (no property tells slots apart, and none is about
  liveness); two events on their way.
- `Daemon`: two tabs, so that one can leave while the other stays; one RF user; two
  processes, since a process leaves only the file behind.

Deadlock checking is off: the daemon stops after `stop()`, after a crash, and at
the bounds; a failed `open()` and a closed connection are final, as are users who
left.

## Fairness

`Agent!Fairness`: continuations run (Node drains its promise queue), timers fire
(the reconnect delay, the script's timeout, the reply timeout), a dial ends
(TCP's own timeout and the reply timeout of `auth` and `open`), and a
host that received our FIN ends its side. Nothing is assumed about the host
answering, sending, or pushing a close, about heads, or about `stop`.

`RhpClient!Fairness`: the dial ends, continuations run, arrived frames are read,
reply timers fire, and a host answers a FIN with its own.

`RfHead!Fairness`: text that arrived is read and fed, and a socket the head destroyed
emits its close. No user has to type, read or leave.

`Daemon!Fairness`: the operating system answers `listen`, promises settle, a request
is answered (the reply timeout sees to that), an idle connection times out. No
client has to leave, no signal to come, and the supervisor need not kill.

`Inbound`, `Sync` and `WebUi` claim safety only: what a settled or an idle state must look
like, not that it is reached.

## Proofs

Every safety invariant and action property of the passing runs is proved for every
value of the constants, and so are both refinements. The
assumptions are the ones the modules name for their constants (bounds are natural
numbers, sets of rooms do not overlap, the channels, users and items that are counted
are finite, a push fits into a frame whose length two bytes can say); `LinesKept` has a hypothesis of its own.

| Module | Theorem | States |
|---|---|---|
| `AgentProofs` | `TypeCorrect`, `SinglePath`, `NotStranded`, `LinkHeard` | `[]TypeOK`, `[]SingleReconnectPath`, `[]NeverStranded`, `[]LinkIsTheHeardOne` |
| | `StopHolds`, `IdleCapHolds` | `StopIsFinal`, `[]IdleCapDropsLink` |
| | `AgentKeepsLink` | `Spec => KeepsLink`: `Agent` implements `LinkKeeper` |
| `RhpClientProofs` | `TypeCorrect`, `OwnReplies`, `EndSettles`, `NothingSkipped` | `[]TypeOK`, `[]RepliesMatch`, `[]EndSettlesAll`, `[]NoGap` |
| | `ClientIsLink` | `Spec => IsLink`: `RhpClient` implements `RhpLink` |
| `InboundProofs` | `TypeCorrect`, `ScriptSteps`, `InOrder`, `NothingHeld` | `[]TypeOK`, `[]ScriptInStep`, `[]HeardInOrder`, `[]NothingHeldBack` |
| `SyncProofs` | `TypeCorrect`, `FlagsHold`, `OnlineHolds`, `ResyncHolds` | `[]TypeOK`, `[]FlagsAgree`, `[]OnlineMirrors`, `[]ResyncComplete` |
| `RfHeadProofs` | `TypeCorrect`, `LiveView`, `ViewComplete`, `Listed` | `[]TypeOK`, `[]LiveIsView`, `[]ViewIsComplete`, `OpensListed` |
| | `LinesKept` | `HeaderLines # 0`: `[]LinesConserved` |
| `WebUiProofs` | `TypeCorrect`, `HeaderFollows`, `TimelineShows` | `[]TypeOK`, `[]HeaderFollowsAgent`, `[]TimelineIsRoom` |
| `DaemonProofs` | `TypeCorrect`, `ExitIsClean` | `[]TypeOK`, `[]CleanExit` |

Almost none of these is inductive. What each needs, and why:

- **Agent.** That two attempts are never live depends on knowing that a fresh attempt
  has no socket and no listener (`Fresh`), that a waiting attempt is the one the timer
  handle names (`TimerIsHandle`), so that `stop()` clears the right one, that a heard
  link is past its open and its socket not closed (`HeardIsUp`), that `link` and the
  heard attempt coincide (`LinkIsHeard`), and that the attempt beyond the bound is
  never past `waiting` (`LastWaits`). `IInv` is their conjunction with the properties.
  Every action either leaves the set of live attempts alone (`QuietStep`) or replaces
  the live attempt by its successor, or by nothing when stopping (`PathReplaced`).
  `StopIsFinal` follows from `IInv` step by step. `IdleCapDropsLink` needs `CapInv`: an
  interval that outlived its link could hand a full idle count to the next one; it
  cannot, as its first tick without a link ends the process.
- **Agent implements LinkKeeper.** `KeeperPath` reads all attempts at once; with at
  most one live it is that one's (`PathOfAttempt`), and each action is a step of the
  keeper, or none, by what it does to that attempt.
- **RhpClient.** `IInv` says how ids are handed out (`Numbered`, `Unused`), that the
  host answers an id once (`AnsweredOnce`), that the connection is closed when its
  socket is dead and what `open()` waits for before (`Transport`), and that a link
  listens until its close is announced (`Announced`). `NoGap` speaks of bytes already
  delivered; `GapInv` adds those on their way: the pushes on the wire follow each other
  up to the host's last one, and the first follows the last one handed over.
- **RhpClient implements RhpLink.** Uses the same `IInv`: a step moves the link's state,
  or one send, or, at the end of the transport, every send that was waiting.
- **Inbound.** The properties speak of what has been read; what they need is what has
  not. The bytes on the socket and in the deframer, `Stream`, say something: `Carries`
  is the least relation that holds between frames in a row and the data of their
  pushes. Being the least, it needs no induction: to show that every carried stream
  has a property is to show that the pairs which have it are closed under a further
  frame (`CarriesHead`, `CarriesEnded`). A complete prefix begins with a frame of the row,
  so that the deframer takes a whole one off however TCP cut it (`BodyFirst`). `IInv` is
  `TypeOK`, `HeardInOrder`, what each stage of `connect()` implies (`StageInv`), and
  that some `said` is carried for which, with the host's `air` behind it, `RunnerInv`
  and `ReaderInv` hold: in the script, what is left to read is what the runner's text
  lacks of the node's answer, and nothing if it has answered; in the WPS phase, it is the service's stream
  from the token that follows the messages heard and the tokens buffered (`ReadUpTo`).
  That has a second case, which TLC showed: a leftover carriage return that is ingested
  late ends a frame before the frame's own terminator has come. An attempt that resumes
  late keeps `IInv` because its leftover is text that was read after the last `val` of a
  connection, so a terminator or nothing (`StageInv` says so of `late`): put into the
  reader it ends nothing, when no frame has begun there, and else `split` is set
  (`LeftoverInv`, used by the continuation in time and late).
- **Sync.** Each property says what holds when nothing is under way, so each invariant
  says what the queues will make of the two sides. `FlagInv`: for each channel there is
  an answer `b` that the last subscription under way, the last call that waits and the
  last echo agree on, the call only if it is still the session's last on its channel
  (`Call`'s `last`): a call that another one, or the end of its link, has overtaken says
  nothing about `b`, and if its reply comes, the channel is `outdated` until an echo or
  the reply to the last call sets the flag again. `OnlineInv`: the last message about a user is right about that
  user. `ResyncInv`: whatever the service has and a room lacks is on its way
  (`AllSent`); what is in the store, or in a message, has everything older of its room
  in the store or ahead of it (`StoreInOrder`, `SentInOrder`), so that a crash in the
  middle of a batch leaves a cursor before what is missing; and a cursor under way asks
  for all that is missing (`CursorsPast`). `Past` is the excuse `ResyncComplete` makes:
  older than an own item, or than the subscription.
- **RfHead.** `TextInv`: a user's buffered text and the text still on its way are one
  sequence, in which each command is followed by its line end, the first empty line is
  the header's, and commands count up to those typed; a chunk moves its border only.
  `LinesKept` needs a header line, which pdn always writes
  (`docs/platform-contracts.md:55`): without one a command can be taken for the header. `ViewInv`: a session's only listener is the one of
  its view; an item of its room is in the history shown on entry, was told, or is older than
  that history; and it was told when it was shown only if it was received `again`.
- **WebUi.** `HeaderInv`: the last event of a kind in the queue is what the page will
  know. `AnswersMatch`: a response holds its room's newest
  items, out of those the room had (`known`). `TimelineInv`: when `fresh`, the screen is
  the open room's (`RoomShown`), and an item that did not race is at most once in the
  queue, and then not in the timeline, or, if it is among the newest, is in the timeline
  once (`Loaded`). Nothing need be known of the loads before: the last one to return
  replaces the array, and `Overtaken` leaves out what the queue is yet to bring.
- **Daemon.** An exit asks only whether the shutdown waits for nothing. `IInv` says what
  each promise no longer waited for has left behind (`Waited`, `ClosedIsEmpty`), and
  that a signal is heeded only when two servers and an agent are up (`Staged`).

TLC checked each of these invariants on its run's instance before it was proved (that
of `Inbound` with `said` computed from the stream). The
proofs about sequences (a backfill in the order of its timestamps, the channel list in
the order of its numbers) get the sequence's existence from the finite-set and
well-foundedness theorems of the library that speak of sets: a least counterexample
instead of an induction.

Only model-checked is liveness, which needs fairness and `ENABLED`: `ComesBack`,
`StatusRecovers`, `RequestSettles`, `OpenSettles`, `LocalCloseHeard`, `CommandsRun`,
`HeadCloses`, `ComesUp`, `ExitsWithoutStreams`.

## Findings

1. **A script without a timeout** (`ScriptEnds`, `agent.ts:234`). The catch
   cancels `this.runner`, which by then may be the next attempt's: after a close
   push the old socket stays up, and the reply timeout of a hop's send on it can
   reject the old script promise while the new script runs.
2. **A failed keepalive ends the process** (`KeepaliveFailureIsHandled`,
   `agent.ts:315`). `void this.sendWps(...)` has no catch.
3. **Messages no resync brings** (`NothingMissed`, `agent.ts:364`, `store.ts:380`).
   The cursor counts the daemon's own messages, stored before they are sent; older
   ones of others that were lost with the link, or were at the service meanwhile, are
   behind it. `ResyncComplete` says that nothing else is missed.
4. **The page shows another room's items** (`ShowsOpenRoom`, `ui.ts:358`). A room
   opened while another one loads ends up with whichever response came last.
5. **A shutdown waits for the page** (`ShutdownEnds`, `server.ts:51`). An event
   stream is held until its client leaves, and so is the exit: with a page open, the
   supervisor's SIGKILL ends the process, and the store is not closed.

Also met while modelling, and in the modules as the code has it:

- The connect object's reply and a close push in one chunk: `onClose` runs, then the
  continuation sets `running` and starts the keepalive without a link
  (`agent.ts:228`). `StatusRecovers` says that it does not last.
- After a host's close push nobody ends the TCP connection (`client.ts:214`).
- The leftover of the script is ingested after the connect object's reply, so that
  half a frame which came with that reply is in the reader before it, and a clean
  stream is taken for corrupt (`agent.ts:226`). After a close push the reply may come as
  late as the next connection, in whose reader the old leftover then lands
  (`Inbound!LateReply`). `HeardInOrder` excuses both cases (`split`).
- The late failure of an old attempt's send cancels the runner of today's script
  (`Inbound!LateFail`; `ScriptEnds` is about the same line).
- Replies to subscription calls settle by id, so that the reply to an earlier call on a
  channel may come after that to a later one, or, after a close push, in the next
  session; it sets the flag all the same, against what the service was told last
  (`client.ts:178`, `agent.ts:386`; `Sync!outdated`).
- A dial under way at `stop()` still brings a session up, as `connect()` does not look
  at `stopping` after its awaits (`agent.ts:206`; `StopIsFinal` allows that dial).
- An item that is received again is emitted again, and written again in an RF view that
  is open (`agent.ts:434`, `session.ts:315`; `RfHead!again`).
- Q says "73." and goes on (`session.ts:150`).
- The RF head's bind fails after the web head is up: `main()` is rejected, which sets
  the exit code, and the web head serves on without an agent (`main.ts:71`;
  `Daemon!RfRefused`).
- A post whose event comes while its room is loading, or twice, is on the page twice
  or not at all, and the roster is not loaded again after a gap of the stream
  (`ui.ts:453`, `ui.ts:449`; `WebUi`, `raced` and `blind`).
- An item sent from the page is not shown there until the room is opened again, as no
  event announces own items (`agent.ts:364`; `WebUi!Write`).
- The answer to a subscription sets the toggle of whichever room is open by then
  (`ui.ts:403`).

- A head may send as soon as `link` is set, before the script is through, and the
  frame goes to the node's console (`Agent!HeadSend`; `agent.ts:206`, `agent.ts:329`).
- Bytes that come in the chunk of the openReply precede the data listener and are
  dropped (`client.ts:208`); the test transport keeps them (`mockWps.ts:6`).
- A corrupt frame takes the earlier messages of its chunk with it and leaves the
  reader's buffer as it was (`codec.ts:74`; `Inbound!Ingest`), so that bytes read
  before the socket ends may join a stale half frame.
- A connect header that is only its blank line is not recognised, against the comment
  that it is tolerated (`heads/rf/server.ts:175`): two line ends in a row are needed, so
  that a command is taken for the header (`RfHead!HeaderEnds`; `LinesKept` has the
  hypothesis). pdn sends no such header.

## Plan

The modules were written in the order of their weight: `Agent` with `LinkKeeper`,
`RhpClient` with `RhpLink`, `RfHead`, `Inbound` with `Wire`, `Sync`, `WebUi`, `Daemon`.
All of them, their runs and the proofs of every safety property are done. Left, in order
of importance:

1. Names and avatars (`u`, `he`, `a` messages and the enquiry they cause) in `Sync`.
2. Timestamps that collide, in `Sync`, once it is known what the service does with them.

## What is left out

- Messages that are JSON but not of their type's shape (`dispatch` would throw).
- `start()` called twice, or after `stop()`: `main.ts` calls it once.
- Formatting, logging, the length of delays, compression of frames, the Latin-1
  conversion of `wire.ts`, JSON.
- Configuration: a pure function of the environment, run once. That it may throw is
  an outcome of `Daemon!Launch`.
- Of the page: the rail's lists, the subscribe toggle, the composer's text, the
  layout; of the web head: the scope gate and the lists, which only read.
- Users, names, avatars, the conversation list; edits, receipts and reactions, which
  the agent accepts and ignores.
- Handles beyond the one `RhpTcpTransport` opens per connection.
- What the service does with items of the same second.
