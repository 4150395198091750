------------------------------- MODULE Daemon -------------------------------
(***************************************************************************)
(* The daemon's life (main.ts): what main() opens in which order, what a   *)
(* signal shuts down, and when the process ends, with the parts of the two *)
(* heads' servers this depends on (heads/web/server.ts, heads/rf/server.ts *)
(* and the held event streams of heads/web/app.ts).                        *)
(*                                                                         *)
(* The supervisor (pdn) starts the process again after it has ended, and   *)
(* may kill it when a shutdown takes long.  Only the file of the RF head's *)
(* socket survives a process here; what the store keeps is Sync's.         *)
(***************************************************************************)
EXTENDS Integers, FiniteSets

CONSTANTS
  Tabs,      \* HTTP clients of the web head
  Users,     \* RF users
  MaxStarts  \* bound: processes

ASSUME MaxStartsAssumption == MaxStarts \in Nat \ {0}

VARIABLES
  proc,          \* "down" before the first start; "exited": process.exit(0)
  starts,
  main,          \* the await main() is at; "failed": it was rejected
  web, rf,       \* the two servers
  agent,
  store,
  streams,       \* tabs with an open event stream
  requests,      \* tabs with another request in flight
  kept,          \* tabs with an idle connection the closing server left open
  users,         \* RF users connected
  shuttingDown,
  closing,       \* promises shutdown() still waits for
  file,          \* something is at the socket's path
  refused        \* the host would not let a server listen

headVars == <<web, rf, agent, store>>
tabVars == <<streams, requests, kept>>
clientVars == <<tabVars, users>>
vars == <<proc, starts, main, headVars, clientVars, shuttingDown, closing, file, refused>>

Server == {"off", "listening", "closing", "closed"}
Parts == {"agent", "web", "rf"}

\* State shape; a shutdown has every part there to be shut down.
TypeOK ==
  /\ proc \in {"down", "running", "exited", "died"}
  /\ starts \in 0..MaxStarts
  /\ main \in {"web", "unlink", "rf", "serving", "failed"}
  /\ web \in Server /\ rf \in Server
  /\ agent \in {"idle", "on", "stopped"}
  /\ store \in {"open", "closed"}
  /\ streams \subseteq Tabs /\ requests \subseteq Tabs /\ kept \subseteq Tabs /\ users \subseteq Users
  /\ shuttingDown \in BOOLEAN /\ file \in BOOLEAN /\ refused \in BOOLEAN
  /\ closing \subseteq Parts
  /\ shuttingDown => web # "off" /\ rf # "off" /\ agent = "stopped"

Init ==
  /\ proc = "down" /\ starts = 0 /\ main = "web"
  /\ web = "off" /\ rf = "off" /\ agent = "idle" /\ store = "closed"
  /\ streams = {} /\ requests = {} /\ kept = {} /\ users = {}
  /\ shuttingDown = FALSE /\ closing = {} /\ file = FALSE /\ refused = FALSE

Running == proc = "running"

-----------------------------------------------------------------------------
(* main().                                                                 *)

\* A new process loads its configuration, opens the store, makes the agent and
\* asks for the web server; a configuration that will not load ends it at once.
Launch ==
  /\ ~Running /\ starts < MaxStarts
  /\ starts' = starts + 1
  /\ \/ proc' = "running" /\ store' = "open"
     \/ proc' = "died" /\ store' = "closed"
  /\ main' = "web" /\ web' = "off" /\ rf' = "off" /\ agent' = "idle"
  /\ streams' = {} /\ requests' = {} /\ kept' = {} /\ users' = {}
  /\ shuttingDown' = FALSE /\ closing' = {} /\ refused' = FALSE
  /\ UNCHANGED file

WebListens ==
  /\ Running /\ main = "web"
  /\ web' = "listening" /\ main' = "unlink"
  /\ UNCHANGED <<proc, starts, rf, agent, store, clientVars, shuttingDown, closing, file, refused>>

\* Nobody listens for the web server's errors: a port that is taken is an
\* uncaught exception.
WebRefused ==
  /\ Running /\ main = "web"
  /\ proc' = "died" /\ refused' = TRUE
  /\ UNCHANGED <<starts, main, headVars, clientVars, shuttingDown, closing, file>>

\* What unlink leaves at the path.  (FileStays is a variant: nothing is unlinked.)
FileStays == file
AfterUnlink == FALSE

\* A stale socket is out of the way before the RF head binds.
Unlinked ==
  /\ Running /\ main = "unlink"
  /\ file' = AfterUnlink /\ main' = "rf"
  /\ UNCHANGED <<proc, starts, headVars, clientVars, shuttingDown, closing, refused>>

\* The rest of main(): the signal handlers, then agent.start().
RfListens ==
  /\ Running /\ main = "rf" /\ ~file
  /\ rf' = "listening" /\ file' = TRUE
  /\ agent' = "on" /\ main' = "serving"
  /\ UNCHANGED <<proc, starts, web, store, clientVars, shuttingDown, closing, refused>>

\* The bind fails: over an existing path, or because the host refuses it.  main()
\* is rejected, which sets the exit code and ends nothing: the web head goes on.
RfRefused ==
  /\ Running /\ main = "rf"
  /\ main' = "failed" /\ refused' = ~file
  /\ UNCHANGED <<proc, starts, headVars, clientVars, shuttingDown, closing, file>>

-----------------------------------------------------------------------------
(* Clients of the heads.                                                   *)

\* A new connection while the server listens, or one that was kept.
Reaches(t) == /\ web = "listening" \/ t \in kept
              /\ kept' = kept \ {t}

\* GET api/events: held until the client goes.
OpenStream(t) ==
  /\ Running /\ t \notin streams /\ Reaches(t)
  /\ streams' = streams \cup {t}
  /\ UNCHANGED <<proc, starts, main, headVars, requests, users, shuttingDown, closing, file, refused>>

CloseStream(t) ==
  /\ Running /\ t \in streams
  /\ streams' = streams \ {t}
  /\ UNCHANGED <<proc, starts, main, headVars, requests, kept, users, shuttingDown, closing, file, refused>>

\* Any other request, a send among them.
Post(t) ==
  /\ Running /\ t \notin requests /\ Reaches(t)
  /\ requests' = requests \cup {t}
  /\ UNCHANGED <<proc, starts, main, headVars, streams, users, shuttingDown, closing, file, refused>>

\* The send settles, by its reply timeout at the latest.  A server that is closing
\* may leave the connection open for the next request.
Answer(t) ==
  /\ Running /\ t \in requests
  /\ requests' = requests \ {t}
  /\ \/ kept' = kept
     \/ web = "closing" /\ kept' = kept \cup {t}
  /\ UNCHANGED <<proc, starts, main, headVars, streams, users, shuttingDown, closing, file, refused>>

\* The server's keep-alive timeout, or the client.
KeptEnds(t) ==
  /\ Running /\ t \in kept
  /\ kept' = kept \ {t}
  /\ UNCHANGED <<proc, starts, main, headVars, streams, requests, users, shuttingDown, closing, file, refused>>

RfConnect(u) ==
  /\ Running /\ rf = "listening" /\ u \notin users
  /\ users' = users \cup {u}
  /\ UNCHANGED <<proc, starts, main, headVars, tabVars, shuttingDown, closing, file, refused>>

RfLeave(u) ==
  /\ Running /\ u \in users
  /\ users' = users \ {u}
  /\ UNCHANGED <<proc, starts, main, headVars, tabVars, shuttingDown, closing, file, refused>>

-----------------------------------------------------------------------------
(* Shutdown.                                                               *)

\* The handlers are the last thing main() does before it starts the agent.
\* (InstalledEarly, HeedsAll and UsersStay are variants.)
InstalledEarly == main \in {"rf", "serving"}
Installed == main = "serving"

HeedsAll == TRUE
Heeds == ~shuttingDown

UsersStay == users
UsersLeft == {}

\* What Promise.allSettled() waits for: closing a web server that is not running
\* any more is rejected, hence settled, at once.
Awaited == {"agent", "rf"} \cup (IF web = "listening" THEN {"web"} ELSE {})

\* shutdown(): the agent stops, the web server takes no more clients, the RF
\* connections are destroyed.
Shutdown ==
  /\ Running /\ Installed /\ Heeds
  /\ shuttingDown' = TRUE
  /\ agent' = "stopped"
  /\ web' = "closing" /\ rf' = "closing" /\ users' = UsersLeft
  /\ closing' = Awaited
  /\ UNCHANGED <<proc, starts, main, store, tabVars, file, refused>>

\* A signal before the handlers are installed, or after main() failed.
SignalKills ==
  /\ Running /\ ~Installed
  /\ proc' = "died"
  /\ UNCHANGED <<starts, main, headVars, clientVars, shuttingDown, closing, file, refused>>

AgentStopped ==
  /\ Running /\ "agent" \in closing
  /\ closing' = closing \ {"agent"}
  /\ UNCHANGED <<proc, starts, main, headVars, clientVars, shuttingDown, file, refused>>

\* The web server has closed when its last connection has: those that were idle
\* are closed for it, a request is answered, a stream is held.
WebClosed ==
  /\ Running /\ "web" \in closing /\ tabVars = <<{}, {}, {}>>
  /\ web' = "closed" /\ closing' = closing \ {"web"}
  /\ UNCHANGED <<proc, starts, main, rf, agent, store, clientVars, shuttingDown, file, refused>>

RfClosed ==
  /\ Running /\ "rf" \in closing /\ users = {}
  /\ rf' = "closed" /\ file' = FALSE /\ closing' = closing \ {"rf"}
  /\ UNCHANGED <<proc, starts, main, web, agent, store, clientVars, shuttingDown, refused>>

\* All settled: the store is closed and the process exits.
Exit ==
  /\ Running /\ shuttingDown /\ closing = {}
  /\ store' = "closed" /\ proc' = "exited"
  /\ UNCHANGED <<starts, main, web, rf, agent, clientVars, shuttingDown, closing, file, refused>>

\* An unhandled rejection of the agent's (Agent has the ones there are).
Crash ==
  /\ Running /\ agent = "on"
  /\ proc' = "died"
  /\ UNCHANGED <<starts, main, headVars, clientVars, shuttingDown, closing, file, refused>>

\* The supervisor's patience ends.
Kill ==
  /\ Running /\ shuttingDown
  /\ proc' = "died"
  /\ UNCHANGED <<starts, main, headVars, clientVars, shuttingDown, closing, file, refused>>

-----------------------------------------------------------------------------
Next ==
  \/ Launch \/ WebListens \/ WebRefused \/ Unlinked \/ RfListens \/ RfRefused
  \/ Shutdown \/ SignalKills \/ AgentStopped \/ WebClosed \/ RfClosed \/ Exit
  \/ Crash \/ Kill
  \/ \E t \in Tabs : OpenStream(t) \/ CloseStream(t) \/ Post(t) \/ Answer(t) \/ KeptEnds(t)
  \/ \E u \in Users : RfConnect(u) \/ RfLeave(u)

\* Promises of the operating system and of the event loop are kept.  Clients need
\* not leave, signals need not come, and the supervisor need not kill.
Fairness ==
  /\ WF_vars(WebListens \/ WebRefused)
  /\ WF_vars(Unlinked)
  /\ WF_vars(RfListens \/ RfRefused)
  /\ WF_vars(AgentStopped) /\ WF_vars(WebClosed) /\ WF_vars(RfClosed) /\ WF_vars(Exit)
  /\ \A t \in Tabs : WF_vars(Answer(t)) /\ WF_vars(KeptEnds(t))

Spec == Init /\ [][Next]_vars
FairSpec == Spec /\ Fairness

-----------------------------------------------------------------------------
(* Properties.                                                             *)

\* process.exit(0) cuts nothing short, however many signals came: the agent was
\* stopped, both servers have closed with every client gone and every POST
\* answered, the store is closed and no socket is left for the next process.
CleanExit ==
  proc = "exited" =>
    /\ agent = "stopped" /\ store = "closed"
    /\ web = "closed" /\ streams = {} /\ requests = {}
    /\ rf = "closed" /\ users = {} /\ ~file

\* A process that starts ends up serving with its agent started unless the host
\* refuses it a socket, whatever an earlier process, killed or crashed, left.
ComesUp == Running /\ main = "web" ~> main = "serving" \/ ~Running \/ refused

\* A shutdown that does not end is held up by event streams, or by a tab that asks
\* again and again: RF users who never hang up, sends in flight and idle connections
\* do not hold it up.
ExitsWithoutStreams ==
  <>[](Running /\ shuttingDown) => []<>(streams # {}) \/ []<>(requests # {})

-----------------------------------------------------------------------------
(* What the repository says and the code does not do.                      *)

\* The web head's "returned handle stops it": a shutdown ends by itself.
ShutdownEnds == Running /\ shuttingDown ~> ~Running
=============================================================================
