---------------------------- MODULE DaemonProofs ----------------------------
(***************************************************************************)
(* Proofs about Daemon, for any clients of the two heads and any number of *)
(* processes: the type invariant, and that an exit cuts nothing short.     *)
(***************************************************************************)
EXTENDS Daemon, TLAPS

(***************************************************************************)
(* CleanExit is not inductive: exit(0) only asks whether shutdown() waits  *)
(* for nothing any more.  The invariant says what each promise that it no  *)
(* longer waits for has left behind, and that a signal is heeded only once *)
(* there are two servers and an agent to stop.                             *)
(***************************************************************************)

\* How far main() got decides which servers there are, until shutdown() turns
\* both from listening to closing.
Staged ==
  /\ main = "web" => web = "off"
  /\ main \in {"web", "unlink", "rf", "failed"} => rf = "off" /\ agent = "idle" /\ ~shuttingDown
  /\ main \in {"unlink", "rf", "failed"} => web = "listening"
  /\ main = "serving" /\ ~shuttingDown => web = "listening" /\ rf = "listening" /\ agent = "on"

\* A shutdown, and nothing else, waits: for each server until it has closed.
Waited ==
  /\ ~shuttingDown => closing = {}
  /\ shuttingDown =>
       /\ main = "serving" /\ agent = "stopped"
       /\ IF "web" \in closing THEN web = "closing" ELSE web = "closed"
       /\ IF "rf" \in closing THEN rf = "closing" ELSE rf = "closed"

\* A server that has closed has no client left, and will have none: nobody can
\* reach it any more.
ClosedIsEmpty ==
  /\ web = "closed" => streams = {} /\ requests = {} /\ kept = {}
  /\ rf \in {"off", "closing", "closed"} => users = {}
  /\ rf = "closed" => ~file

\* Exit is what shutdown() ends with.
ExitIsLast == proc = "exited" => shuttingDown /\ closing = {} /\ store = "closed"

IInv == TypeOK /\ Staged /\ Waited /\ ClosedIsEmpty /\ ExitIsLast

\* Before the first start nothing runs.
LEMMA InitIInv == Init => IInv
  <1> SUFFICES ASSUME Init PROVE IInv
    OBVIOUS
  <1>1. shuttingDown \in BOOLEAN /\ file \in BOOLEAN /\ refused \in BOOLEAN
    BY DEF Init
  <1>2. starts \in 0..MaxStarts /\ ~shuttingDown
    BY MaxStartsAssumption DEF Init
  <1>3. TypeOK
    BY <1>1, <1>2 DEF Init, TypeOK, Server, Parts
  <1> QED BY <1>2, <1>3 DEF Init, IInv, Staged, Waited, ClosedIsEmpty, ExitIsLast

\* Every step keeps the types.
LEMMA NextType == IInv /\ [Next]_vars => TypeOK'
  <1> SUFFICES ASSUME IInv, [Next]_vars PROVE TypeOK'
    OBVIOUS
  <1> USE DEF IInv, TypeOK, Server, Parts, headVars, tabVars, clientVars
  <1>1. CASE Launch
    <2>1. shuttingDown' = FALSE /\ refused' = FALSE /\ file' = file
      BY <1>1 DEF Launch
    <2>2. shuttingDown' \in BOOLEAN /\ refused' \in BOOLEAN
      BY <2>1
    <2>3. starts' \in 0..MaxStarts /\ proc' \in {"running", "died"} /\ store' \in {"open", "closed"}
      BY <1>1, MaxStartsAssumption DEF Launch
    <2> QED BY <1>1, <2>1, <2>2, <2>3 DEF Launch
  <1>2. CASE WebListens
    <2>1. web' \in Server /\ main' = "unlink"
      BY <1>2 DEF WebListens
    <2>2. UNCHANGED <<proc, starts, rf, agent, store, streams, requests, kept, users,
                      shuttingDown, closing, file, refused>>
      BY <1>2 DEF WebListens
    <2>3. ~shuttingDown
      BY <1>2 DEF WebListens, Staged
    <2> QED BY <2>1, <2>2, <2>3
  <1>3. CASE WebRefused
    BY <1>3 DEF WebRefused
  <1>4. CASE Unlinked
    <2>1. file' \in BOOLEAN
      BY <1>4 DEF Unlinked, AfterUnlink
    <2> QED BY <1>4, <2>1 DEF Unlinked
  <1>5. CASE RfListens
    <2>1. file' \in BOOLEAN
      BY <1>5 DEF RfListens
    <2>2. ~shuttingDown
      BY <1>5 DEF RfListens, Staged
    <2> QED BY <1>5, <2>1, <2>2 DEF RfListens
  <1>6. CASE RfRefused
    BY <1>6 DEF RfRefused
  <1>7. CASE Shutdown
    <2>1. shuttingDown' \in BOOLEAN
      BY <1>7 DEF Shutdown
    <2>2. closing' \subseteq Parts
      BY <1>7 DEF Shutdown, Awaited
    <2>3. users' \subseteq Users
      BY <1>7 DEF Shutdown, UsersLeft
    <2> QED BY <1>7, <2>1, <2>2, <2>3 DEF Shutdown
  <1>8. CASE SignalKills
    BY <1>8 DEF SignalKills
  <1>9. CASE AgentStopped
    BY <1>9 DEF AgentStopped
  <1>10. CASE WebClosed
    BY <1>10 DEF WebClosed
  <1>11. CASE RfClosed
    BY <1>11 DEF RfClosed
  <1>12. CASE Exit
    BY <1>12 DEF Exit
  <1>13. CASE Crash
    BY <1>13 DEF Crash
  <1>14. CASE Kill
    BY <1>14 DEF Kill
  <1>15. ASSUME NEW t \in Tabs, OpenStream(t) PROVE TypeOK'
    BY <1>15 DEF OpenStream, Reaches
  <1>16. ASSUME NEW t \in Tabs, CloseStream(t) PROVE TypeOK'
    BY <1>16 DEF CloseStream
  <1>17. ASSUME NEW t \in Tabs, Post(t) PROVE TypeOK'
    BY <1>17 DEF Post, Reaches
  <1>18. ASSUME NEW t \in Tabs, Answer(t) PROVE TypeOK'
    BY <1>18 DEF Answer
  <1>19. ASSUME NEW t \in Tabs, KeptEnds(t) PROVE TypeOK'
    BY <1>19 DEF KeptEnds
  <1>20. ASSUME NEW u \in Users, RfConnect(u) PROVE TypeOK'
    BY <1>20 DEF RfConnect
  <1>21. ASSUME NEW u \in Users, RfLeave(u) PROVE TypeOK'
    BY <1>21 DEF RfLeave
  <1>22. CASE UNCHANGED vars
    BY <1>22 DEF vars
  <1> QED
    BY <1>1, <1>2, <1>3, <1>4, <1>5, <1>6, <1>7, <1>8, <1>9, <1>10, <1>11, <1>12, <1>13,
       <1>14, <1>15, <1>16, <1>17, <1>18, <1>19, <1>20, <1>21, <1>22 DEF Next

\* And everything else the invariant says.
LEMMA NextIInv == IInv /\ [Next]_vars => IInv'
  <1> SUFFICES ASSUME IInv, [Next]_vars PROVE (Staged /\ Waited /\ ClosedIsEmpty /\ ExitIsLast)'
    BY NextType DEF IInv
  <1> USE DEF IInv, Staged, Waited, ClosedIsEmpty, ExitIsLast, headVars, tabVars, clientVars
  <1>1. CASE Launch
    BY <1>1 DEF Launch, Running
  <1>2. CASE WebListens
    BY <1>2 DEF WebListens, Running
  <1>3. CASE WebRefused
    BY <1>3 DEF WebRefused, Running
  <1>4. CASE Unlinked
    BY <1>4 DEF Unlinked, Running
  <1>5. CASE RfListens
    BY <1>5 DEF RfListens, Running
  <1>6. CASE RfRefused
    BY <1>6 DEF RfRefused, Running
  <1>7. CASE Shutdown
    <2>1. main = "serving" /\ ~shuttingDown /\ web = "listening" /\ rf = "listening"
      BY <1>7 DEF Shutdown, Installed, Heeds
    <2>2. "web" \in closing' /\ "rf" \in closing' /\ shuttingDown'
      BY <1>7, <2>1 DEF Shutdown, Awaited
    <2>3. /\ main' = main /\ web' = "closing" /\ rf' = "closing" /\ users' = {}
          /\ agent' = "stopped" /\ proc' = "running"
      BY <1>7 DEF Shutdown, UsersLeft, Running
    <2> QED BY <2>1, <2>2, <2>3
  <1>8. CASE SignalKills
    BY <1>8 DEF SignalKills, Running
  <1>9. CASE AgentStopped
    BY <1>9 DEF AgentStopped, Running
  <1>10. CASE WebClosed
    <2>1. streams = {} /\ requests = {} /\ kept = {}
      BY <1>10 DEF WebClosed
    <2>2. shuttingDown
      BY <1>10 DEF WebClosed
    <2> QED BY <1>10, <2>1, <2>2 DEF WebClosed, Running
  <1>11. CASE RfClosed
    <2>1. shuttingDown
      BY <1>11 DEF RfClosed
    <2> QED BY <1>11, <2>1 DEF RfClosed, Running
  <1>12. CASE Exit
    BY <1>12 DEF Exit, Running
  <1>13. CASE Crash
    BY <1>13 DEF Crash, Running
  <1>14. CASE Kill
    BY <1>14 DEF Kill, Running
  <1>15. ASSUME NEW t \in Tabs, OpenStream(t) PROVE (Staged /\ Waited /\ ClosedIsEmpty /\ ExitIsLast)'
    BY <1>15 DEF OpenStream, Reaches
  <1>16. ASSUME NEW t \in Tabs, CloseStream(t) PROVE (Staged /\ Waited /\ ClosedIsEmpty /\ ExitIsLast)'
    BY <1>16 DEF CloseStream, Running
  <1>17. ASSUME NEW t \in Tabs, Post(t) PROVE (Staged /\ Waited /\ ClosedIsEmpty /\ ExitIsLast)'
    BY <1>17 DEF Post, Reaches
  <1>18. ASSUME NEW t \in Tabs, Answer(t) PROVE (Staged /\ Waited /\ ClosedIsEmpty /\ ExitIsLast)'
    BY <1>18 DEF Answer, Running
  <1>19. ASSUME NEW t \in Tabs, KeptEnds(t) PROVE (Staged /\ Waited /\ ClosedIsEmpty /\ ExitIsLast)'
    BY <1>19 DEF KeptEnds, Running
  <1>20. ASSUME NEW u \in Users, RfConnect(u) PROVE (Staged /\ Waited /\ ClosedIsEmpty /\ ExitIsLast)'
    BY <1>20 DEF RfConnect, Running
  <1>21. ASSUME NEW u \in Users, RfLeave(u) PROVE (Staged /\ Waited /\ ClosedIsEmpty /\ ExitIsLast)'
    BY <1>21 DEF RfLeave, Running
  <1>22. CASE UNCHANGED vars
    BY <1>22 DEF vars
  <1> QED
    BY <1>1, <1>2, <1>3, <1>4, <1>5, <1>6, <1>7, <1>8, <1>9, <1>10, <1>11, <1>12, <1>13,
       <1>14, <1>15, <1>16, <1>17, <1>18, <1>19, <1>20, <1>21, <1>22 DEF Next

\* IInv is an invariant.
LEMMA IInvHolds == Spec => []IInv
  <1> QED BY InitIInv, NextIInv, PTL DEF Spec

\* The daemon's state is well typed, and a shutdown finds both servers and a
\* started agent to shut down, whatever signals come and whatever fails.
THEOREM TypeCorrect == Spec => []TypeOK
  <1>1. IInv => TypeOK
    BY DEF IInv
  <1> QED BY <1>1, IInvHolds, PTL

\* process.exit(0) cuts nothing short: agent stopped, servers closed and empty,
\* store closed, no socket file left, in any number of processes and clients.
THEOREM ExitIsClean == Spec => []CleanExit
  <1>1. IInv => CleanExit
    BY DEF IInv, Waited, ClosedIsEmpty, ExitIsLast, CleanExit
  <1> QED BY <1>1, IInvHolds, PTL
=============================================================================
