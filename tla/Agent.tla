------------------------------- MODULE Agent --------------------------------
(***************************************************************************)
(* The WhatsPac agent's connection lifecycle (agent/agent.ts), with the    *)
(* connect-script runner (agent/connectScript.ts) it drives and the RHP    *)
(* connection (rhp/client.ts) as far as the agent can see it: one socket   *)
(* per attempt, replies matched to requests, pushes to listeners, a reply  *)
(* timeout, and an end that rejects everything outstanding.                *)
(*                                                                         *)
(* Each call of connect() is an "attempt": an async function that runs to  *)
(* an await, is suspended there, and is resumed after the promise settles. *)
(* pc[i] is where attempt i stands.  The event loop runs one macrotask at  *)
(* a time (a timer, a TCP chunk, an HTTP request, a signal) and drains     *)
(* every settled promise before the next; one TCP chunk can carry several  *)
(* frames, so frames of the SAME chunk do come between a promise settling  *)
(* and its continuation.                                                   *)
(***************************************************************************)
EXTENDS Integers, FiniteSets

CONSTANTS
  MaxAttempts,  \* bound: calls of connect(); the last is scheduled, never dialled
  Hops,         \* length of the connect script
  IdleCap,      \* idleCapMs in keepalive intervals
  MaxPend       \* bound: keepalives, and head sends, awaiting a reply per socket

ASSUME MaxAttemptsAssumption == MaxAttempts \in Nat /\ MaxAttempts >= 2
ASSUME HopsAssumption == Hops \in Nat \ {0}
ASSUME IdleCapAssumption == IdleCap \in Nat /\ IdleCap >= 2
ASSUME MaxPendAssumption == MaxPend \in Nat \ {0}

Attempts == 1..MaxAttempts

\* RHP requests by what rides on them: a script hop's command, the WPS connect
\* object, a keepalive tick's enquiry, and every other WPS message.
Kinds == {"hop", "c", "ka", "msg"}

VARIABLES
  status,            \* the AgentStatus shown by both heads
  stopping,
  link,              \* the attempt whose link is this.link; 0: undefined
  phase,             \* "connect": bytes feed the runner; "wps": the frame reader
  runner,            \* the attempt whose runner is this.runner; 0: none yet
  keepalive,         \* the keepalive interval is running
  idle,              \* idleMs in intervals, saturating at IdleCap
  reconnectAttempt,  \* the exponent of the backoff
  reconnectHandle,   \* the attempt the reconnect timer will start
  next,              \* the next unused attempt
  chunk,             \* the socket whose chunk is being read while promises wait
  crashed,           \* an unhandled rejection ended the process
  pc,                \* where each attempt's connect() stands
  conn,              \* each attempt's socket
  heard,             \* the link's data and close listeners are registered
  session,           \* the host holds an AX.25 session on the handle
  pend,              \* requests awaiting a reply, by kind
  armed,             \* the attempt's runner is started and not finished
  hop                \* the runner's hopIndex

agentVars == <<status, stopping, link, phase, runner, keepalive, idle,
               reconnectAttempt, reconnectHandle, next>>
attemptVars == <<pc, conn, heard, session, pend, armed, hop>>
vars == <<agentVars, attemptVars, chunk, crashed>>

Settled == {"opened", "openFailed", "scriptDone", "scriptFailed", "sent", "sendFailed"}
Points == {"idle", "waiting", "opening", "script", "sending", "done"} \cup Settled

\* State shape.  The only property of the module that merely types it.
TypeOK ==
  /\ status \in {"idle", "connecting", "running", "reconnecting", "stopped"}
  /\ stopping \in BOOLEAN
  /\ link \in 0..MaxAttempts
  /\ phase \in {"connect", "wps"}
  /\ runner \in 0..MaxAttempts
  /\ keepalive \in BOOLEAN
  /\ idle \in 0..IdleCap
  /\ reconnectAttempt \in Nat
  /\ reconnectHandle \in Nat
  /\ next \in Nat \ {0}
  /\ chunk \in 0..MaxAttempts
  /\ crashed \in BOOLEAN
  /\ pc \in [Attempts -> Points]
  /\ conn \in [Attempts -> {"none", "open", "ended", "broken", "closed"}]
  /\ heard \in [Attempts -> BOOLEAN]
  /\ session \in [Attempts -> BOOLEAN]
  /\ pend \in [Attempts -> [Kinds -> Nat]]
  /\ armed \in [Attempts -> BOOLEAN]
  /\ hop \in [Attempts -> 0..Hops]

Init ==
  /\ status = "idle" /\ stopping = FALSE
  /\ link = 0 /\ phase = "connect" /\ runner = 0
  /\ keepalive = FALSE /\ idle = 0
  /\ reconnectAttempt = 0 /\ reconnectHandle = 0 /\ next = 1
  /\ chunk = 0 /\ crashed = FALSE
  /\ pc = [i \in Attempts |-> "idle"]
  /\ conn = [i \in Attempts |-> "none"]
  /\ heard = [i \in Attempts |-> FALSE]
  /\ session = [i \in Attempts |-> FALSE]
  /\ pend = [i \in Attempts |-> [k \in Kinds |-> 0]]
  /\ armed = [i \in Attempts |-> FALSE]
  /\ hop = [i \in Attempts |-> 0]

-----------------------------------------------------------------------------
(* The event loop.                                                         *)

Pending(p) == \E i \in Attempts : p[i] \in Settled

\* A continuation: runs before any further macrotask or frame.
Job == ~crashed /\ chunk' = 0

\* A macrotask other than a TCP chunk.
Task == ~crashed /\ ~Pending(pc) /\ chunk' = 0

\* A frame read from socket i, opening a chunk or following in the same one.
Frame(i) == ~crashed /\ conn[i] \in {"open", "ended"} /\ (Pending(pc) => chunk = i)
Read(i) == chunk' = IF Pending(pc') THEN i ELSE 0

-----------------------------------------------------------------------------
(* Pieces of the handlers.                                                 *)

\* runner.cancel(): clears the connect timeout, so nothing will settle it.
Cancelled(r) == [i \in Attempts |-> armed[i] /\ i # r]

\* link.close(): a close frame and a FIN.  The socket still reads until the
\* host's FIN; closing a link that is undefined or already closed is nothing.
HungUp(l) == [i \in Attempts |-> IF i = l /\ conn[i] = "open" THEN "ended" ELSE conn[i]]

\* link.send(): n requests of kind k on attempt l's socket.
Requested(l, k, n) == [pend EXCEPT ![l][k] = @ + n]

\* A write after our FIN destroys the socket.
Written(l) == [conn EXCEPT ![l] = IF @ = "ended" THEN "broken" ELSE @]

\* Attempt i's await is rejected when the request it depends on is: a hop's
\* send rejects the script promise while it is unsettled, the connect object's
\* send rejects sendConnectObject().
Rejected(i, ks) ==
  [pc EXCEPT ![i] = IF @ = "script" /\ "hop" \in ks THEN "scriptFailed"
                    ELSE IF @ = "sending" /\ "c" \in ks THEN "sendFailed" ELSE @]

\* Nobody awaits a keepalive's send: its rejection is unhandled.
CrashedBy(ks) == crashed \/ "ka" \in ks

\* `if (!this.stopping)`, asked before every reconnect is scheduled.  (The three
\* definitions before it, and the ones named as variants below, are mistakes the
\* runs must notice; the specification uses none of them.)
RetriesAnyway == TRUE
RetriesWithLink == ~stopping /\ link # 0
RetriesWhenStopping == stopping
MayRetry == ~stopping

\* scheduleReconnect().  The delay is left out: the timer may fire at any time.
ScheduleReconnect(pcNow) ==
  /\ status' = "reconnecting"
  /\ reconnectAttempt' = reconnectAttempt + 1
  /\ reconnectHandle' = next
  /\ pc' = [i \in Attempts |-> IF i = next THEN "waiting" ELSE pcNow[i]]
  /\ next' = next + 1

NoReconnect(pcNow) ==
  pc' = pcNow /\ UNCHANGED <<status, reconnectAttempt, reconnectHandle, next>>

\* Variant of OnClose: the closed link stays in this.link.
OnCloseKeepsLink(pcNow) ==
  /\ armed' = Cancelled(runner)
  /\ keepalive' = FALSE
  /\ UNCHANGED link
  /\ IF MayRetry THEN ScheduleReconnect(pcNow) ELSE NoReconnect(pcNow)

\* onClose(): the listener every attempt registers on its link.
OnClose(pcNow) ==
  /\ armed' = Cancelled(runner)
  /\ keepalive' = FALSE
  /\ link' = 0
  /\ IF MayRetry THEN ScheduleReconnect(pcNow) ELSE NoReconnect(pcNow)

\* ingest(): frames of one chunk.  A corrupt one closes this.link, an avatar of
\* an unknown callsign sends an enquiry on it; other messages only reach the store.
Ingest(what) ==
  \/ what = "plain" /\ UNCHANGED <<conn, pend>>
  \/ what = "corrupt" /\ conn' = HungUp(link) /\ UNCHANGED pend
  \/ what = "avatar" /\ link = 0 /\ UNCHANGED <<conn, pend>>
  \/ /\ what = "avatar" /\ link # 0
     /\ pend[link]["msg"] < MaxPend
     /\ conn' = Written(link) /\ pend' = Requested(link, "msg", 1)

Traffic == {"plain", "corrupt", "avatar"}

-----------------------------------------------------------------------------
(* connect() from its call to its end.                                     *)

\* start(): called once by the daemon.
Start ==
  /\ Task /\ status = "idle"
  /\ stopping' = FALSE
  /\ status' = "connecting" /\ phase' = "connect"
  /\ pc' = [pc EXCEPT ![next] = "opening"] /\ next' = next + 1
  /\ UNCHANGED <<link, runner, keepalive, idle, reconnectAttempt, reconnectHandle,
                 conn, heard, session, pend, armed, hop, crashed>>

\* The reconnect timer calls connect(), which suspends on transport.open().
Reconnect(i) ==
  /\ Task /\ pc[i] = "waiting" /\ i < MaxAttempts
  /\ status' = "connecting" /\ phase' = "connect"
  /\ pc' = [pc EXCEPT ![i] = "opening"]
  /\ UNCHANGED <<stopping, link, runner, keepalive, idle, reconnectAttempt,
                 reconnectHandle, next, conn, heard, session, pend, armed, hop, crashed>>

\* The host's openReply.
OpenReply(i) ==
  /\ ~crashed /\ ~Pending(pc) /\ pc[i] = "opening"
  /\ pc' = [pc EXCEPT ![i] = "opened"]
  /\ conn' = [conn EXCEPT ![i] = "open"]
  /\ session' = [session EXCEPT ![i] = TRUE]
  /\ chunk' = i
  /\ UNCHANGED <<agentVars, heard, pend, armed, hop, crashed>>

\* The dial, the auth or the open fails or times out; the socket is destroyed.
OpenFails(i) ==
  /\ Task /\ pc[i] = "opening"
  /\ pc' = [pc EXCEPT ![i] = "openFailed"]
  /\ conn' = [conn EXCEPT ![i] = "closed"]
  /\ UNCHANGED <<agentVars, heard, session, pend, armed, hop, crashed>>

ResumeOpenFailed(i) ==
  /\ Job /\ pc[i] = "openFailed"
  /\ LET after == [pc EXCEPT ![i] = "done"]
     IN  IF MayRetry THEN ScheduleReconnect(after) ELSE NoReconnect(after)
  /\ UNCHANGED <<stopping, link, phase, runner, keepalive, idle,
                 conn, heard, session, pend, armed, hop, crashed>>

\* After the open: take the link, listen, start a runner.  `stopping` is not
\* looked at again.
ResumeOpened(i) ==
  /\ Job /\ pc[i] = "opened"
  /\ link' = i
  /\ heard' = [heard EXCEPT ![i] = TRUE]
  /\ runner' = i
  /\ armed' = [armed EXCEPT ![i] = TRUE]
  /\ hop' = [hop EXCEPT ![i] = 0]
  /\ pc' = [pc EXCEPT ![i] = "script"]
  /\ UNCHANGED <<status, stopping, phase, keepalive, idle, reconnectAttempt,
                 reconnectHandle, next, conn, session, pend, crashed>>

\* The hop indices one chunk of text can advance runner r to: it matches at least
\* the next val, and never reads past the last.  (OverrunHops is a variant.)
OverrunHops(r) == (hop[r] + 1)..(Hops + 1)
ReachedHops(r) == (hop[r] + 1)..Hops

\* Received text feeds this.runner.  One chunk may match several hops; each hop
\* passed but the last sends the next command, passing the last ends the script.
ScriptText(i) ==
  /\ Frame(i) /\ heard[i] /\ session[i] /\ phase = "connect"
  /\ runner # 0 /\ armed[runner]
  /\ \E h \in ReachedHops(runner) :
       LET commands == IF h = Hops THEN h - hop[runner] - 1 ELSE h - hop[runner]
       IN  /\ hop' = [hop EXCEPT ![runner] = h]
           /\ pend' = Requested(runner, "hop", commands)
           /\ conn' = IF commands > 0 THEN Written(runner) ELSE conn
           /\ armed' = [armed EXCEPT ![runner] = h < Hops]
           /\ pc' = IF h = Hops /\ pc[runner] = "script"
                    THEN [pc EXCEPT ![runner] = "scriptDone"] ELSE pc
  /\ Read(i)
  /\ UNCHANGED <<agentVars, heard, session, crashed>>

\* The runner's timeout rejects the script promise unless a send already has.
ConnectTimeout(i) ==
  /\ Task /\ armed[i]
  /\ armed' = [armed EXCEPT ![i] = FALSE]
  /\ pc' = IF pc[i] = "script" THEN [pc EXCEPT ![i] = "scriptFailed"] ELSE pc
  /\ UNCHANGED <<agentVars, conn, heard, session, pend, hop, crashed>>

\* The WPS phase begins: sendConnectObject() on this.link, or "not connected".
ResumeScriptDone(i) ==
  /\ Job /\ pc[i] = "scriptDone"
  /\ phase' = "wps"
  /\ IF link = 0
     THEN /\ pc' = [pc EXCEPT ![i] = "sendFailed"]
          /\ UNCHANGED <<conn, pend>>
     ELSE /\ pc' = [pc EXCEPT ![i] = "sending"]
          /\ conn' = Written(link) /\ pend' = Requested(link, "c", 1)
  /\ UNCHANGED <<status, stopping, link, runner, keepalive, idle, reconnectAttempt,
                 reconnectHandle, next, heard, session, armed, hop, crashed>>

\* The connect object was accepted: ingest the leftover, then go to running
\* whatever has become of the link meanwhile.
ResumeSent(i) ==
  /\ Job /\ pc[i] = "sent"
  /\ \E what \in Traffic : Ingest(what)
  /\ idle' = 0 /\ keepalive' = TRUE /\ reconnectAttempt' = 0
  /\ status' = "running"
  /\ pc' = [pc EXCEPT ![i] = "done"]
  /\ UNCHANGED <<stopping, link, phase, runner, reconnectHandle, next,
                 heard, session, armed, hop, crashed>>

\* Variant of ResumeFailed: the catch schedules the reconnect itself.
RetryInCatch(i) ==
  /\ Job /\ pc[i] \in {"scriptFailed", "sendFailed"}
  /\ armed' = Cancelled(runner)
  /\ conn' = HungUp(i)
  /\ ScheduleReconnect([pc EXCEPT ![i] = "done"])
  /\ UNCHANGED <<stopping, link, phase, runner, keepalive, idle,
                 heard, session, pend, hop, crashed>>

\* The catch: cancel this.runner, whosever it is by now, and close the own link.
\* The reconnect is left to onClose.
ResumeFailed(i) ==
  /\ Job /\ pc[i] \in {"scriptFailed", "sendFailed"}
  /\ armed' = Cancelled(runner)
  /\ conn' = HungUp(i)
  /\ pc' = [pc EXCEPT ![i] = "done"]
  /\ UNCHANGED <<agentVars, heard, session, pend, hop, crashed>>

-----------------------------------------------------------------------------
(* Events of a session.                                                    *)

\* A reply settles one request.  Every accepted send but a keepalive's is
\* followed by resetIdle(), whose restart of a running interval changes nothing
\* here.
Reply(i, k, ok) ==
  /\ Frame(i) /\ pend[i][k] > 0
  /\ pend' = [pend EXCEPT ![i][k] = @ - 1]
  /\ pc' = IF ~ok THEN Rejected(i, {k})
           ELSE IF k = "c" /\ pc[i] = "sending" THEN [pc EXCEPT ![i] = "sent"] ELSE pc
  /\ idle' = IF ok /\ k = "msg" THEN 0 ELSE idle
  /\ crashed' = (~ok /\ CrashedBy({k}))
  /\ Read(i)
  /\ UNCHANGED <<status, stopping, link, phase, runner, keepalive, reconnectAttempt,
                 reconnectHandle, next, conn, heard, session, armed, hop>>

\* No reply within the reply timeout.
ReplyTimeout(i, k) ==
  /\ Task /\ pend[i][k] > 0
  /\ pend' = [pend EXCEPT ![i][k] = @ - 1]
  /\ pc' = Rejected(i, {k})
  /\ crashed' = CrashedBy({k})
  /\ UNCHANGED <<agentVars, conn, heard, session, armed, hop>>

\* Bytes of the WPS stream.
WpsData(i) ==
  /\ Frame(i) /\ heard[i] /\ session[i] /\ phase = "wps"
  /\ \E what \in Traffic : Ingest(what)
  /\ UNCHANGED pc
  /\ Read(i)
  /\ UNCHANGED <<agentVars, heard, session, armed, hop, crashed>>

\* The host's close push ends the handle, not the socket: requests keep waiting.
\* Before the listeners are registered nobody hears it.
ClosePush(i) ==
  /\ Frame(i) /\ session[i]
  /\ session' = [session EXCEPT ![i] = FALSE]
  /\ IF heard[i]
     THEN heard' = [heard EXCEPT ![i] = FALSE] /\ OnClose(pc)
     ELSE UNCHANGED <<heard, armed, keepalive, link, pc,
                      status, reconnectAttempt, reconnectHandle, next>>
  /\ Read(i)
  /\ UNCHANGED <<stopping, phase, runner, idle, conn, pend, hop, crashed>>

\* FIN, reset or error: requests are rejected, then the close listener runs.
SocketEnd(i) ==
  /\ ~crashed /\ conn[i] \in {"open", "ended", "broken"}
  /\ Pending(pc) => conn[i] = "broken"
  /\ conn' = [conn EXCEPT ![i] = "closed"]
  /\ session' = [session EXCEPT ![i] = FALSE]
  /\ pend' = [pend EXCEPT ![i] = [k \in Kinds |-> 0]]
  /\ heard' = [heard EXCEPT ![i] = FALSE]
  /\ LET lost == {k \in Kinds : pend[i][k] > 0}
     IN  /\ crashed' = CrashedBy(lost)
         /\ IF heard[i]
            THEN OnClose(Rejected(i, lost))
            ELSE NoReconnect(Rejected(i, lost)) /\ UNCHANGED <<armed, keepalive, link>>
  /\ chunk' = 0
  /\ UNCHANGED <<stopping, phase, runner, idle, hop>>

\* (CapExceeded and TimerKept are variants.)
CapExceeded(ticks) == ticks > IdleCap
CapReached(ticks) == ticks >= IdleCap

\* The idle cap closes the link; short of it an enquiry goes out, and without a
\* link its rejection is the process's end.
KeepaliveTick ==
  /\ Task /\ keepalive
  /\ LET ticks == IF idle < IdleCap THEN idle + 1 ELSE IdleCap
     IN  /\ idle' = ticks
         /\ \/ CapReached(ticks) /\ conn' = HungUp(link) /\ UNCHANGED <<pend, crashed>>
            \/ /\ ~CapReached(ticks) /\ link # 0 /\ pend[link]["ka"] < MaxPend
               /\ conn' = Written(link) /\ pend' = Requested(link, "ka", 1)
               /\ UNCHANGED crashed
            \/ /\ ~CapReached(ticks) /\ link = 0
               /\ crashed' = TRUE /\ UNCHANGED <<conn, pend>>
  /\ UNCHANGED <<status, stopping, link, phase, runner, keepalive, reconnectAttempt,
                 reconnectHandle, next, pc, heard, session, armed, hop>>

\* A head posts, messages, subscribes or unsubscribes while a link is held.
HeadSend ==
  /\ Task /\ link # 0 /\ pend[link]["msg"] < MaxPend
  /\ conn' = Written(link) /\ pend' = Requested(link, "msg", 1)
  /\ UNCHANGED <<agentVars, pc, heard, session, armed, hop, crashed>>

TimerKept == pc
TimerCleared ==
  [i \in Attempts |-> IF i = reconnectHandle /\ pc[i] = "waiting" THEN "done" ELSE pc[i]]

\* stop() clears the reconnect timer if it has not fired, drops the runner, the
\* interval and the link.  A dial in progress is not told.
Stop ==
  /\ Task /\ status # "idle" /\ ~stopping
  /\ stopping' = TRUE
  /\ pc' = TimerCleared
  /\ armed' = Cancelled(runner)
  /\ keepalive' = FALSE
  /\ link' = 0 /\ conn' = HungUp(link)
  /\ status' = "stopped"
  /\ UNCHANGED <<phase, runner, idle, reconnectAttempt, reconnectHandle, next,
                 heard, session, pend, hop, crashed>>

-----------------------------------------------------------------------------
Resume(i) == ResumeOpened(i) \/ ResumeOpenFailed(i) \/ ResumeScriptDone(i)
             \/ ResumeSent(i) \/ ResumeFailed(i)

Next ==
  \/ Start \/ KeepaliveTick \/ HeadSend \/ Stop
  \/ \E i \in Attempts :
       \/ Reconnect(i) \/ OpenReply(i) \/ OpenFails(i) \/ Resume(i)
       \/ ScriptText(i) \/ ConnectTimeout(i) \/ WpsData(i)
       \/ ClosePush(i) \/ SocketEnd(i)
       \/ \E k \in Kinds : ReplyTimeout(i, k) \/ \E ok \in BOOLEAN : Reply(i, k, ok)

\* The event loop drains promises; timers fire; a dial ends; a host that
\* was sent a FIN ends the socket.  Nothing else has to happen.
Fairness ==
  /\ WF_vars(\E i \in Attempts : Resume(i))
  /\ \A i \in Attempts :
       /\ WF_vars(Reconnect(i))
       /\ WF_vars(OpenFails(i))
       /\ WF_vars(ConnectTimeout(i))
       /\ WF_vars(conn[i] \in {"ended", "broken"} /\ SocketEnd(i))
       /\ \A k \in Kinds : WF_vars(ReplyTimeout(i, k))

Spec == Init /\ [][Next]_vars
FairSpec == Spec /\ Fairness

-----------------------------------------------------------------------------
(* Properties.                                                             *)

\* Attempt i is a way back to a session: it will be dialled, is being dialled,
\* or its loss will be heard.
Live(i) == pc[i] \in {"waiting", "opening", "opened", "openFailed"} \/ heard[i]

\* "A single reconnect path" (agent.ts connect()): never two attempts at once,
\* however continuations, close pushes, timeouts and retries interleave.
SingleReconnectPath == \A i, j \in Attempts : Live(i) /\ Live(j) => i = j

\* The link is kept up: from start() to stop() some attempt is always live, so
\* no interleaving leaves the agent without a timer, a dial or a listener.
NeverStranded == status # "idle" /\ ~stopping => \E i \in Attempts : Live(i)

\* this.link is a link whose end will be heard, and every link that will be
\* heard is this.link until stop() lets go of it: a close never belongs to a
\* link the agent has forgotten.
LinkIsTheHeardOne ==
  /\ link # 0 => heard[link] /\ conn[link] # "closed"
  /\ \A i \in Attempts : heard[i] => link = i \/ stopping

\* stop() is final for dialling: nothing dials or waits to dial after it.
StopIsFinal ==
  [][stopping => \A i \in Attempts :
        pc'[i] \in {"waiting", "opening"} => pc[i] = "opening"]_vars

\* The idle cap is enforced: once idleMs reaches it, the link held at the time
\* is no longer open, until a send is accepted or the next session begins.
IdleCapDropsLink ==
  keepalive /\ link # 0 /\ idle = IdleCap => conn[link] # "open"

\* The agent is one link keeper.
KeeperPath ==
  IF \E i \in Attempts : heard[i] \/ pc[i] = "opened" THEN "session"
  ELSE IF \E i \in Attempts : pc[i] \in {"opening", "openFailed"} THEN "dialling"
  ELSE IF \E i \in Attempts : pc[i] = "waiting" THEN "backoff"
  ELSE "none"

Keeper == INSTANCE LinkKeeper WITH path <- KeeperPath, stopping <- stopping

KeepsLink == Keeper!Spec

\* A dial that fails and a link this client closed are both followed by another
\* dial: each attempt the timers can reach ends in an open session or gives way
\* to the next one.
ComesBack ==
  \A i \in 1..(MaxAttempts - 2) :
    (pc[i] = "opening" \/ conn[i] \in {"ended", "broken"})
      ~> \/ heard[i] /\ conn[i] = "open"
         \/ pc[i + 1] \notin {"idle", "waiting"}
         \/ stopping \/ crashed

\* A late reply to the connect object puts "running" on a link that is gone, or over
\* the dial that follows it; but not for good: the next dial says otherwise or brings
\* a link, unless the interval's first tick without one ends the process.
StatusRecovers ==
  status = "running" /\ link = 0 /\ reconnectHandle < MaxAttempts
    ~> status # "running" \/ link # 0 \/ stopping \/ crashed

-----------------------------------------------------------------------------
(* What the repository says and the code does not do.                      *)

\* The daemon "holds the WPS link continuously": no failed keepalive ends it
\* before stop() does.
KeepaliveFailureIsHandled == crashed => stopping

\* The connect-script timeout ends every script that the host leaves hanging.
ScriptEnds ==
  \A i \in Attempts :
    (pc[i] = "script" /\ link = i) ~> (pc[i] # "script" \/ link # i \/ stopping \/ crashed)
=============================================================================
