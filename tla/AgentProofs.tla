----------------------------- MODULE AgentProofs -----------------------------
(***************************************************************************)
(* Proofs about Agent, for every number of attempts, every script length   *)
(* and every bound: the type invariant, that there is exactly one          *)
(* reconnect path, that stop() is final, that the idle cap drops the link  *)
(* it was armed for, and that Agent implements LinkKeeper.                 *)
(***************************************************************************)
EXTENDS Agent, TLAPS

\* Type correctness of the agent's state: Spec => []TypeOK.
LEMMA InitType == Init => TypeOK
  <1> SUFFICES ASSUME Init PROVE TypeOK
    OBVIOUS
  <1>1. /\ status \in {"idle", "connecting", "running", "reconnecting", "stopped"}
        /\ phase \in {"connect", "wps"}
    BY DEF Init
  <1>5. stopping \in BOOLEAN /\ keepalive \in BOOLEAN /\ crashed \in BOOLEAN
    BY DEF Init
  <1>6. link = 0 /\ runner = 0 /\ chunk = 0 /\ idle = 0
    BY DEF Init
  <1>7. /\ link \in 0..MaxAttempts
        /\ runner \in 0..MaxAttempts
        /\ chunk \in 0..MaxAttempts
        /\ idle \in 0..IdleCap
    BY <1>6, MaxAttemptsAssumption, IdleCapAssumption
  <1>8. /\ reconnectAttempt \in Nat
        /\ reconnectHandle \in Nat
        /\ next \in Nat \ {0}
    BY DEF Init
  <1>2. /\ pc \in [Attempts -> Points]
        /\ conn \in [Attempts -> {"none", "open", "ended", "broken", "closed"}]
        /\ heard \in [Attempts -> BOOLEAN]
        /\ session \in [Attempts -> BOOLEAN]
        /\ armed \in [Attempts -> BOOLEAN]
    BY DEF Init, Points
  <1>3. pend \in [Attempts -> [Kinds -> Nat]]
    BY DEF Init
  <1>4. hop \in [Attempts -> 0..Hops]
    BY HopsAssumption DEF Init
  <1> QED BY <1>1, <1>2, <1>3, <1>4, <1>5, <1>7, <1>8 DEF TypeOK

\* What the shared pieces of the handlers return and set keeps its type.
LEMMA PiecesType ==
  ASSUME TypeOK
  PROVE  /\ \A r : Cancelled(r) \in [Attempts -> BOOLEAN]
         /\ \A l : HungUp(l) \in [Attempts -> {"none", "open", "ended", "broken", "closed"}]
         /\ \A l : Written(l) \in [Attempts -> {"none", "open", "ended", "broken", "closed"}]
         /\ \A l, k, n : n \in Nat => Requested(l, k, n) \in [Attempts -> [Kinds -> Nat]]
         /\ \A i, ks : Rejected(i, ks) \in [Attempts -> Points]
  <1>1. \A r : Cancelled(r) \in [Attempts -> BOOLEAN]
    BY DEF TypeOK, Cancelled
  <1>2. \A l : HungUp(l) \in [Attempts -> {"none", "open", "ended", "broken", "closed"}]
    BY DEF TypeOK, HungUp
  <1>3. \A l : Written(l) \in [Attempts -> {"none", "open", "ended", "broken", "closed"}]
    BY DEF TypeOK, Written
  <1>4. \A l, k, n : n \in Nat => Requested(l, k, n) \in [Attempts -> [Kinds -> Nat]]
    <2> SUFFICES ASSUME NEW l, NEW k, NEW n \in Nat
                 PROVE  Requested(l, k, n) \in [Attempts -> [Kinds -> Nat]]
      OBVIOUS
    <2>1. pend \in [Attempts -> [Kinds -> Nat]]
      BY DEF TypeOK
    <2>2. CASE l \in Attempts /\ k \in Kinds
      BY <2>1, <2>2 DEF Requested
    <2>3. CASE l \in Attempts /\ k \notin Kinds
      BY <2>1, <2>3 DEF Requested
    <2>4. CASE l \notin Attempts
      BY <2>1, <2>4 DEF Requested
    <2> QED BY <2>2, <2>3, <2>4
  <1>5. \A i, ks : Rejected(i, ks) \in [Attempts -> Points]
    BY DEF TypeOK, Rejected, Points, Settled
  <1> QED BY <1>1, <1>2, <1>3, <1>4, <1>5

\* The agent fields a scheduled, or a withheld, reconnect writes keep their type.
LEMMA ReconnectType ==
  ASSUME TypeOK, NEW pcNow \in [Attempts -> Points],
         ScheduleReconnect(pcNow) \/ NoReconnect(pcNow)
  PROVE  /\ status' \in {"idle", "connecting", "running", "reconnecting", "stopped"}
         /\ reconnectAttempt' \in Nat
         /\ reconnectHandle' \in Nat
         /\ next' \in Nat \ {0}
         /\ pc' \in [Attempts -> Points]
  BY DEF TypeOK, ScheduleReconnect, NoReconnect, Points

\* So do the ones onClose() writes.
LEMMA OnCloseType ==
  ASSUME TypeOK, NEW pcNow \in [Attempts -> Points], OnClose(pcNow)
  PROVE  /\ status' \in {"idle", "connecting", "running", "reconnecting", "stopped"}
         /\ reconnectAttempt' \in Nat
         /\ reconnectHandle' \in Nat
         /\ next' \in Nat \ {0}
         /\ pc' \in [Attempts -> Points]
         /\ armed' \in [Attempts -> BOOLEAN]
         /\ keepalive' \in BOOLEAN
         /\ link' \in 0..MaxAttempts
  <1>1. ScheduleReconnect(pcNow) \/ NoReconnect(pcNow)
    BY DEF OnClose
  <1>2. armed' \in [Attempts -> BOOLEAN]
    BY PiecesType DEF OnClose
  <1>3. keepalive' \in BOOLEAN
    BY DEF OnClose
  <1>4. link' \in 0..MaxAttempts
    BY MaxAttemptsAssumption DEF OnClose
  <1> QED BY <1>1, <1>2, <1>3, <1>4, ReconnectType

\* And the socket and the requests ingest() touches.
LEMMA IngestType ==
  ASSUME TypeOK, NEW what \in Traffic, Ingest(what)
  PROVE  /\ conn' \in [Attempts -> {"none", "open", "ended", "broken", "closed"}]
         /\ pend' \in [Attempts -> [Kinds -> Nat]]
  BY PiecesType DEF TypeOK, Ingest

\* Every step keeps the types, action by action.
LEMMA NextType == TypeOK /\ [Next]_vars => TypeOK'
  <1> SUFFICES ASSUME TypeOK, [Next]_vars PROVE TypeOK'
    OBVIOUS
  <1> USE MaxAttemptsAssumption
  <1>0. chunk \in 0..MaxAttempts /\ \A i \in Attempts : i \in 0..MaxAttempts
    BY DEF TypeOK, Attempts
  <1>1. CASE Start
    <2>1. stopping' \in BOOLEAN
      BY <1>1 DEF Start
    <2>2. pc' \in [Attempts -> Points]
      BY <1>1 DEF Start, TypeOK, Points
    <2> QED BY <1>1, <2>1, <2>2 DEF TypeOK, Start, Task
  <1>2. CASE KeepaliveTick
    <2>1. crashed' \in BOOLEAN
      BY <1>2 DEF TypeOK, KeepaliveTick
    <2>2. idle' \in 0..IdleCap
      BY <1>2, IdleCapAssumption DEF TypeOK, KeepaliveTick
    <2>3. /\ conn' \in [Attempts -> {"none", "open", "ended", "broken", "closed"}]
          /\ pend' \in [Attempts -> [Kinds -> Nat]]
      BY <1>2, PiecesType DEF TypeOK, KeepaliveTick
    <2>4. chunk' \in 0..MaxAttempts
      BY <1>2 DEF KeepaliveTick, Task
    <2> QED BY <1>2, <2>1, <2>2, <2>3, <2>4 DEF TypeOK, KeepaliveTick
  <1>3. CASE HeadSend
    BY <1>3, PiecesType DEF TypeOK, HeadSend, Task, agentVars
  <1>4. CASE Stop
    <2>1. stopping' \in BOOLEAN /\ keepalive' \in BOOLEAN
      BY <1>4 DEF Stop
    <2>2. pc' \in [Attempts -> Points]
      BY <1>4 DEF Stop, TimerCleared, TypeOK, Points
    <2>3. /\ conn' \in [Attempts -> {"none", "open", "ended", "broken", "closed"}]
          /\ armed' \in [Attempts -> BOOLEAN]
      BY <1>4, PiecesType DEF Stop
    <2>4. chunk' \in 0..MaxAttempts /\ link' \in 0..MaxAttempts /\ status' = "stopped"
      BY <1>4 DEF Stop, Task
    <2> QED BY <1>4, <2>1, <2>2, <2>3, <2>4 DEF TypeOK, Stop
  <1>5. ASSUME NEW i \in Attempts, Reconnect(i) PROVE TypeOK'
    BY <1>5 DEF TypeOK, Reconnect, Task, Points
  <1>6. ASSUME NEW i \in Attempts, OpenReply(i) PROVE TypeOK'
    BY <1>6, <1>0 DEF TypeOK, OpenReply, Points, Settled, agentVars
  <1>7. ASSUME NEW i \in Attempts, OpenFails(i) PROVE TypeOK'
    BY <1>7 DEF TypeOK, OpenFails, Task, Points, Settled, agentVars
  <1>8. ASSUME NEW i \in Attempts, ResumeOpened(i) PROVE TypeOK'
    BY <1>8, <1>0, HopsAssumption DEF TypeOK, ResumeOpened, Job, Points
  <1>9. ASSUME NEW i \in Attempts, ResumeOpenFailed(i) PROVE TypeOK'
    <2>1. [pc EXCEPT ![i] = "done"] \in [Attempts -> Points]
      BY DEF TypeOK, Points
    <2>2. ScheduleReconnect([pc EXCEPT ![i] = "done"]) \/ NoReconnect([pc EXCEPT ![i] = "done"])
      BY <1>9 DEF ResumeOpenFailed
    <2>3. /\ status' \in {"idle", "connecting", "running", "reconnecting", "stopped"}
          /\ reconnectAttempt' \in Nat
          /\ reconnectHandle' \in Nat
          /\ next' \in Nat \ {0}
          /\ pc' \in [Attempts -> Points]
      BY <2>1, <2>2, ReconnectType
    <2> QED BY <1>9, <2>3 DEF TypeOK, ResumeOpenFailed, Job
  <1>10. ASSUME NEW i \in Attempts, ResumeScriptDone(i) PROVE TypeOK'
    <2>1. pc' \in [Attempts -> Points]
      BY <1>10 DEF TypeOK, ResumeScriptDone, Points, Settled
    <2>2. /\ conn' \in [Attempts -> {"none", "open", "ended", "broken", "closed"}]
          /\ pend' \in [Attempts -> [Kinds -> Nat]]
      <3>1. \/ conn' = conn /\ pend' = pend
            \/ conn' = Written(link) /\ pend' = Requested(link, "c", 1)
        <4>1. CASE link = 0
          BY <1>10, <4>1 DEF ResumeScriptDone
        <4>2. CASE link # 0
          BY <1>10, <4>2 DEF ResumeScriptDone
        <4> QED BY <4>1, <4>2
      <3>2. /\ conn \in [Attempts -> {"none", "open", "ended", "broken", "closed"}]
            /\ pend \in [Attempts -> [Kinds -> Nat]]
        BY DEF TypeOK
      <3> QED BY <3>1, <3>2, PiecesType
    <2> QED BY <1>10, <2>1, <2>2 DEF TypeOK, ResumeScriptDone, Job
  <1>11. ASSUME NEW i \in Attempts, ResumeSent(i) PROVE TypeOK'
    BY <1>11, IngestType, IdleCapAssumption DEF TypeOK, ResumeSent, Job, Points
  <1>12. ASSUME NEW i \in Attempts, ResumeFailed(i) PROVE TypeOK'
    BY <1>12, PiecesType DEF TypeOK, ResumeFailed, Job, Points, agentVars
  <1>13. ASSUME NEW i \in Attempts, ScriptText(i) PROVE TypeOK'
    <2>1. PICK h \in ReachedHops(runner) :
            /\ hop' = [hop EXCEPT ![runner] = h]
            /\ pend' = Requested(runner, "hop",
                         IF h = Hops THEN h - hop[runner] - 1 ELSE h - hop[runner])
            /\ conn' = Written(runner) \/ conn' = conn
            /\ armed' = [armed EXCEPT ![runner] = h < Hops]
            /\ pc' = [pc EXCEPT ![runner] = "scriptDone"] \/ pc' = pc
      BY <1>13 DEF ScriptText
    <2>2. runner \in Attempts
      BY <1>13 DEF TypeOK, ScriptText, Attempts
    <2>3. h \in 0..Hops /\ h > hop[runner] /\ hop[runner] \in 0..Hops
      BY <2>2, HopsAssumption DEF TypeOK, ReachedHops
    <2>4. hop' \in [Attempts -> 0..Hops]
      BY <2>1, <2>3 DEF TypeOK
    <2>5. (IF h = Hops THEN h - hop[runner] - 1 ELSE h - hop[runner]) \in Nat
      BY <2>3, HopsAssumption
    <2>6. pend' \in [Attempts -> [Kinds -> Nat]]
      BY <2>1, <2>5, PiecesType
    <2>7. conn' \in [Attempts -> {"none", "open", "ended", "broken", "closed"}]
      BY <2>1, PiecesType DEF TypeOK
    <2>8. (h < Hops) \in BOOLEAN
      OBVIOUS
    <2>9. armed' \in [Attempts -> BOOLEAN]
      <3> armed \in [Attempts -> BOOLEAN]
        BY DEF TypeOK
      <3> QED BY <2>1, <2>8, Zenon
    <2>10. pc' \in [Attempts -> Points]
      BY <2>1 DEF TypeOK, Points, Settled
    <2>11. chunk' \in 0..MaxAttempts
      BY <1>13, <1>0 DEF ScriptText, Read
    <2> QED BY <1>13, <2>4, <2>6, <2>7, <2>9, <2>10, <2>11
            DEF TypeOK, ScriptText, agentVars
  <1>14. ASSUME NEW i \in Attempts, ConnectTimeout(i) PROVE TypeOK'
    BY <1>14 DEF TypeOK, ConnectTimeout, Task, Points, Settled, agentVars
  <1>15. ASSUME NEW i \in Attempts, WpsData(i) PROVE TypeOK'
    BY <1>15, <1>0, IngestType DEF TypeOK, WpsData, Frame, Read, agentVars
  <1>16. ASSUME NEW i \in Attempts, ClosePush(i) PROVE TypeOK'
    <2>1. chunk' \in 0..MaxAttempts
      BY <1>16, <1>0 DEF ClosePush, Read
    <2>2. session' \in [Attempts -> BOOLEAN]
      BY <1>16 DEF TypeOK, ClosePush
    <2>3. CASE heard[i]
      <3>1. heard' \in [Attempts -> BOOLEAN] /\ OnClose(pc)
        BY <1>16, <2>3 DEF TypeOK, ClosePush
      <3>2. pc \in [Attempts -> Points]
        BY DEF TypeOK
      <3>3. /\ status' \in {"idle", "connecting", "running", "reconnecting", "stopped"}
            /\ reconnectAttempt' \in Nat
            /\ reconnectHandle' \in Nat
            /\ next' \in Nat \ {0}
            /\ pc' \in [Attempts -> Points]
            /\ armed' \in [Attempts -> BOOLEAN]
            /\ keepalive' \in BOOLEAN
            /\ link' \in 0..MaxAttempts
        BY <3>1, <3>2, OnCloseType
      <3> QED BY <1>16, <2>1, <2>2, <3>1, <3>3 DEF TypeOK, ClosePush
    <2>4. CASE ~heard[i]
      BY <1>16, <2>1, <2>2, <2>4 DEF TypeOK, ClosePush
    <2> QED BY <2>3, <2>4
  <1>17. ASSUME NEW i \in Attempts, SocketEnd(i) PROVE TypeOK'
    BY <1>17, PiecesType, OnCloseType, ReconnectType
    DEF TypeOK, SocketEnd, CrashedBy
  <1>18. ASSUME NEW i \in Attempts, NEW k \in Kinds, ReplyTimeout(i, k) PROVE TypeOK'
    BY <1>18, PiecesType DEF TypeOK, ReplyTimeout, Task, CrashedBy, agentVars
  <1>19. ASSUME NEW i \in Attempts, NEW k \in Kinds, NEW ok \in BOOLEAN, Reply(i, k, ok)
         PROVE TypeOK'
    BY <1>19, <1>0, PiecesType, IdleCapAssumption
    DEF TypeOK, Reply, Frame, Read, CrashedBy, Points, Settled
  <1>20. CASE UNCHANGED vars
    BY <1>20 DEF TypeOK, vars, agentVars, attemptVars
  <1> QED
    BY <1>1, <1>2, <1>3, <1>4, <1>5, <1>6, <1>7, <1>8, <1>9, <1>10, <1>11, <1>12,
       <1>13, <1>14, <1>15, <1>16, <1>17, <1>18, <1>19, <1>20 DEF Next, Resume

\* The agent's state is well typed in every behaviour.
THEOREM TypeCorrect == Spec => []TypeOK
  <1> QED BY InitType, NextType, PTL DEF Spec

-----------------------------------------------------------------------------
(***************************************************************************)
(* One reconnect path.  SingleReconnectPath and NeverStranded are not      *)
(* inductive: nothing in them says that the id a retry takes is unused,    *)
(* that a link that is heard has left the dial behind, or which timer      *)
(* stop() will clear.  IInv adds that.                                     *)
(***************************************************************************)
Inside == {"script", "scriptDone", "scriptFailed", "sending", "sent", "sendFailed", "done"}
Up == {"open", "ended", "broken"}

\* Ids from next on are unused; before start() all are.
Fresh ==
  /\ \A i \in Attempts : i >= next => pc[i] = "idle"
  /\ status = "idle" => next = 1 /\ ~stopping

\* A waiting attempt is the one whose timer stop() would clear.
TimerIsHandle == \A i \in Attempts : pc[i] = "waiting" => i = reconnectHandle /\ ~stopping

\* A link that is heard is past its dial and its socket has not ended; a dial
\* that was answered leaves an open socket.
HeardIsUp ==
  \A i \in Attempts :
    /\ heard[i] => pc[i] \in Inside /\ conn[i] \in Up
    /\ pc[i] = "opened" => conn[i] = "open"

LinkIsHeard ==
  /\ link # 0 => heard[link]
  /\ \A i \in Attempts : heard[i] => link = i \/ stopping

\* The last attempt waits, so the bound is never what stops a retry.
LastWaits ==
  /\ next <= MaxAttempts + 1
  /\ pc[MaxAttempts] \in {"idle", "waiting", "done"} /\ ~heard[MaxAttempts]
  /\ next = MaxAttempts + 1 /\ ~stopping => pc[MaxAttempts] = "waiting"

IInv == Fresh /\ TimerIsHandle /\ HeardIsUp /\ LinkIsHeard /\ LastWaits
        /\ SingleReconnectPath /\ NeverStranded

\* IInv holds before start().
LEMMA InitIInv == Init => IInv
  <1> SUFFICES ASSUME Init PROVE IInv
    OBVIOUS
  <1>1. \A i \in Attempts : pc[i] = "idle" /\ ~heard[i]
    BY DEF Init
  <1>2. MaxAttempts \in Attempts
    BY MaxAttemptsAssumption DEF Attempts
  <1>3. next = 1 /\ link = 0 /\ status = "idle" /\ stopping = FALSE
    BY DEF Init
  <1>4. Fresh /\ TimerIsHandle /\ HeardIsUp /\ LinkIsHeard
    BY <1>1, <1>3 DEF Fresh, TimerIsHandle, HeardIsUp, LinkIsHeard
  <1>5. LastWaits
    BY <1>1, <1>2, <1>3, MaxAttemptsAssumption DEF LastWaits
  <1>6. SingleReconnectPath /\ NeverStranded
    BY <1>1, <1>3 DEF SingleReconnectPath, NeverStranded, Live
  <1> QED BY <1>4, <1>5, <1>6 DEF IInv

\* A step that moves attempts only among the points after the dial, and sockets
\* only between the states of one that has not ended, changes no path.
LEMMA QuietStep ==
  ASSUME TypeOK, IInv,
         UNCHANGED <<heard, link, stopping, next, reconnectHandle>>,
         status' = "idle" <=> status = "idle",
         \A i \in Attempts : \/ pc'[i] = pc[i]
                             \/ pc[i] \in Inside \ {"done"} /\ pc'[i] \in Inside,
         \A i \in Attempts : /\ pc[i] = "opened" => conn'[i] = conn[i]
                             /\ heard[i] /\ conn[i] \in Up => conn'[i] \in Up
  PROVE  IInv'
  <1>1. MaxAttempts \in Attempts
    BY MaxAttemptsAssumption DEF Attempts
  <1>2. \A i \in Attempts : Live(i)' <=> Live(i)
    BY DEF Live, Inside
  <1>3. Fresh'
    BY DEF IInv, Fresh, Inside
  <1>4. TimerIsHandle'
    BY DEF IInv, TimerIsHandle, Inside
  <1>5. HeardIsUp'
    BY DEF IInv, HeardIsUp, Inside
  <1>6. LinkIsHeard'
    BY DEF IInv, LinkIsHeard
  <1>7. pc'[MaxAttempts] = pc[MaxAttempts]
    BY <1>1 DEF IInv, LastWaits, Inside
  <1>8. LastWaits'
    BY <1>7 DEF IInv, LastWaits
  <1>9. SingleReconnectPath'
    BY <1>2 DEF IInv, SingleReconnectPath
  <1>10. NeverStranded'
    BY <1>2 DEF IInv, NeverStranded
  <1> QED BY <1>3, <1>4, <1>5, <1>6, <1>8, <1>9, <1>10 DEF IInv

\* When the one live attempt ends, the reconnect scheduled in its place, or
\* withheld after stop(), leaves one path or none.
LEMMA PathReplaced ==
  ASSUME TypeOK, IInv, NEW i \in Attempts, Live(i), pc[i] # "waiting",
         NEW pcNow \in [Attempts -> Points], pcNow[i] \in Inside,
         \A j \in Attempts : j # i => pcNow[j] = pc[j],
         heard' = [heard EXCEPT ![i] = FALSE], link' = 0, stopping' = stopping,
         \A j \in Attempts : j # i => conn'[j] = conn[j],
         IF MayRetry THEN ScheduleReconnect(pcNow) ELSE NoReconnect(pcNow)
  PROVE  IInv'
  <1> USE DEF IInv
  <1>1. MaxAttempts \in Attempts /\ Attempts \subseteq Nat
    BY MaxAttemptsAssumption DEF Attempts
  <1>2. \A j \in Attempts : j # i => ~Live(j)
    BY DEF SingleReconnectPath
  <1>3. i # MaxAttempts
    BY DEF LastWaits, Live
  <1>4. \A j \in Attempts : j >= next => j # i
    BY DEF Fresh, Live, HeardIsUp, Inside
  <1>5. status # "idle"
    BY <1>1, <1>4 DEF Fresh, TypeOK, Attempts
  <1>6. CASE ~stopping
    <2>1. ScheduleReconnect(pcNow)
      BY <1>6 DEF MayRetry
    <2>2. next \in Attempts /\ next # i
      <3>1. pc[MaxAttempts] # "waiting"
        BY <1>1, <1>2, <1>3, <1>6 DEF Live
      <3>2. next # MaxAttempts + 1
        BY <3>1, <1>6 DEF LastWaits
      <3>3. next \in Attempts
        BY <3>2, MaxAttemptsAssumption DEF LastWaits, TypeOK, Attempts
      <3> QED BY <3>3, <1>1, <1>4
    <2>3. /\ \A j \in Attempts : pc'[j] = IF j = next THEN "waiting" ELSE pcNow[j]
          /\ next' = next + 1 /\ reconnectHandle' = next /\ status' = "reconnecting"
      BY <2>1 DEF ScheduleReconnect
    <2>4. \A j \in Attempts : j # i /\ j # next => pc'[j] = pc[j]
      BY <2>3
    <2>5. pc'[next] = "waiting" /\ pc'[i] \in Inside
      BY <2>2, <2>3
    <2>6. \A j \in Attempts : heard'[j] = (heard[j] /\ j # i)
      BY DEF TypeOK
    <2>7. \A j \in Attempts : ~heard'[j]
      BY <2>6, <1>2 DEF Live
    <2>8. \A j \in Attempts : Live(j)' <=> j = next
      BY <1>2, <2>4, <2>5, <2>7 DEF Live, Inside
    <2>9. Fresh'
      BY <1>1, <2>2, <2>3, <2>4, <1>4 DEF Fresh, TypeOK
    <2>10. TimerIsHandle'
      BY <2>3, <2>5, <2>4, <1>2, <1>6 DEF TimerIsHandle, Live, Inside
    <2>11. HeardIsUp'
      BY <2>7, <2>4, <2>5, <1>2 DEF HeardIsUp, Live, Inside
    <2>12. LinkIsHeard'
      BY <2>7 DEF LinkIsHeard
    <2>13. LastWaits'
      <3>1. CASE next = MaxAttempts
        BY <3>1, <2>3, <2>5, <2>7, <1>1, MaxAttemptsAssumption DEF LastWaits
      <3>2. CASE next # MaxAttempts
        <4>1. pc'[MaxAttempts] = pc[MaxAttempts]
          BY <3>2, <1>1, <1>3, <1>6, <2>4
        <4> QED BY <4>1, <3>2, <2>2, <2>3, <2>7, <1>1, MaxAttemptsAssumption DEF LastWaits, Attempts
      <3> QED BY <3>1, <3>2
    <2>14. SingleReconnectPath' /\ NeverStranded'
      BY <2>2, <2>8 DEF SingleReconnectPath, NeverStranded
    <2> QED BY <2>9, <2>10, <2>11, <2>12, <2>13, <2>14
  <1>7. CASE stopping
    <2>1. pc' = pcNow /\ UNCHANGED <<status, reconnectHandle, next>>
      BY <1>7 DEF MayRetry, NoReconnect
    <2>2. \A j \in Attempts : ~heard'[j]
      BY <1>2 DEF TypeOK, Live
    <2>3. \A j \in Attempts : ~Live(j)'
      BY <1>2, <2>1, <2>2 DEF Live, Inside
    <2>4. Fresh'
      BY <2>1, <1>4, <1>5 DEF Fresh
    <2>5. TimerIsHandle'
      BY <2>3 DEF TimerIsHandle, Live
    <2>6. HeardIsUp'
      BY <2>2, <2>3 DEF HeardIsUp, Live
    <2>7. LinkIsHeard'
      BY <2>2 DEF LinkIsHeard
    <2>8. LastWaits'
      <3>1. pc'[MaxAttempts] \in {"idle", "waiting", "done"}
        BY <1>1, <1>3, <2>1 DEF LastWaits
      <3> QED BY <3>1, <1>1, <2>1, <2>2, <1>7 DEF LastWaits
    <2>9. SingleReconnectPath' /\ NeverStranded'
      BY <2>3, <1>7 DEF SingleReconnectPath, NeverStranded
    <2> QED BY <2>4, <2>5, <2>6, <2>7, <2>8, <2>9
  <1> QED BY <1>6, <1>7

\* Every step keeps IInv.  The steps that only move a session along are quiet;
\* the others are taken one by one.
LEMMA NextIInv == TypeOK /\ IInv /\ [Next]_vars => IInv'
  <1> SUFFICES ASSUME TypeOK, IInv, [Next]_vars PROVE IInv'
    OBVIOUS
  <1> USE MaxAttemptsAssumption
  <1>0. /\ MaxAttempts \in Attempts /\ Attempts \subseteq Nat
        /\ \A i \in Attempts : i # 0
    BY DEF Attempts
  <1>a. \A i \in Attempts : pc[i] # "idle" => status # "idle"
    BY <1>0 DEF IInv, Fresh, TypeOK, Attempts
  <1>b. link # 0 => pc[link] \in Inside
    BY DEF IInv, LinkIsHeard, HeardIsUp, TypeOK, Attempts
  <1>c. \A l : \A i \in Attempts : /\ pc[i] = "opened" => Written(l)[i] = conn[i]
                                   /\ conn[i] \in Up => Written(l)[i] \in Up
    BY DEF Written, Up, IInv, HeardIsUp, TypeOK
  <1>d. \A l : l = 0 \/ pc[l] \in Inside =>
          \A i \in Attempts : /\ pc[i] = "opened" => HungUp(l)[i] = conn[i]
                              /\ conn[i] \in Up => HungUp(l)[i] \in Up
    BY <1>0 DEF HungUp, Up, Inside
  <1>e. ASSUME NEW what, Ingest(what)
        PROVE  \A i \in Attempts : /\ pc[i] = "opened" => conn'[i] = conn[i]
                                   /\ conn[i] \in Up => conn'[i] \in Up
    BY <1>e, <1>b, <1>c, <1>d DEF Ingest
  <1>1. CASE Start
    <2>1. next = 1 /\ status = "idle"
      BY <1>1 DEF Start, IInv, Fresh
    <2>2. \A i \in Attempts : pc[i] = "idle" /\ ~heard[i]
      BY <2>1, <1>0 DEF IInv, Fresh, HeardIsUp, Inside, Attempts
    <2>3. /\ 1 \in Attempts /\ next' = 2 /\ stopping' = FALSE /\ status' = "connecting"
          /\ pc' = [pc EXCEPT ![1] = "opening"]
      BY <1>1, <2>1 DEF Start, Attempts
    <2>4. UNCHANGED <<link, heard, conn, reconnectHandle>>
      BY <1>1 DEF Start
    <2>5. pc'[1] = "opening" /\ \A i \in Attempts : i # 1 => pc'[i] = "idle"
      BY <2>2, <2>3 DEF TypeOK
    <2>6. Fresh' /\ TimerIsHandle' /\ HeardIsUp' /\ LinkIsHeard'
      BY <2>2, <2>3, <2>4, <2>5, <1>0
      DEF IInv, Fresh, TimerIsHandle, HeardIsUp, LinkIsHeard
    <2>7. LastWaits'
      BY <2>2, <2>3, <2>4, <2>5, <1>0 DEF LastWaits
    <2>8. SingleReconnectPath' /\ NeverStranded'
      BY <2>2, <2>3, <2>4, <2>5 DEF SingleReconnectPath, NeverStranded, Live
    <2> QED BY <2>6, <2>7, <2>8 DEF IInv
  <1>2. CASE KeepaliveTick
    <2>1. conn' = HungUp(link) \/ conn' = Written(link) \/ conn' = conn
      BY <1>2 DEF KeepaliveTick
    <2>2. \A i \in Attempts : /\ pc[i] = "opened" => conn'[i] = conn[i]
                              /\ conn[i] \in Up => conn'[i] \in Up
      BY <2>1, <1>b, <1>c, <1>d
    <2> QED BY <1>2, <2>2, QuietStep DEF KeepaliveTick
  <1>3. CASE HeadSend
    BY <1>3, <1>c, QuietStep DEF HeadSend, agentVars
  <1>4. CASE Stop
    <2>1. /\ UNCHANGED <<heard, next, reconnectHandle>> /\ stopping' = TRUE /\ link' = 0
          /\ status' = "stopped" /\ conn' = HungUp(link)
      BY <1>4 DEF Stop
    <2>2. \A i \in Attempts : pc'[i] = IF pc[i] = "waiting" THEN "done" ELSE pc[i]
      BY <1>4 DEF Stop, TimerCleared, IInv, TimerIsHandle
    <2>3. \A i \in Attempts : /\ pc[i] = "opened" => conn'[i] = conn[i]
                              /\ conn[i] \in Up => conn'[i] \in Up
      BY <2>1, <1>b, <1>d
    <2>4. Fresh' /\ TimerIsHandle' /\ LinkIsHeard'
      BY <2>1, <2>2 DEF IInv, Fresh, TimerIsHandle, LinkIsHeard
    <2>5. HeardIsUp'
      BY <2>1, <2>2, <2>3 DEF IInv, HeardIsUp, Inside
    <2>6. LastWaits'
      BY <2>1, <2>2, <1>0 DEF IInv, LastWaits
    <2>7. SingleReconnectPath' /\ NeverStranded'
      BY <2>1, <2>2 DEF IInv, SingleReconnectPath, NeverStranded, Live
    <2> QED BY <2>4, <2>5, <2>6, <2>7 DEF IInv
  <1>5. ASSUME NEW i \in Attempts, Reconnect(i) PROVE IInv'
    <2>1. /\ pc[i] = "waiting" /\ i < MaxAttempts /\ status' = "connecting"
          /\ pc' = [pc EXCEPT ![i] = "opening"]
          /\ UNCHANGED <<stopping, link, next, reconnectHandle, heard, conn>>
      BY <1>5 DEF Reconnect
    <2>2. pc'[i] = "opening" /\ \A j \in Attempts : j # i => pc'[j] = pc[j]
      BY <2>1 DEF TypeOK
    <2>3. Fresh' /\ TimerIsHandle' /\ HeardIsUp' /\ LinkIsHeard'
      BY <2>1, <2>2 DEF IInv, Fresh, TimerIsHandle, HeardIsUp, LinkIsHeard, Inside
    <2>4. LastWaits'
      BY <2>1, <2>2, <1>0 DEF IInv, LastWaits
    <2>5. SingleReconnectPath' /\ NeverStranded'
      BY <2>1, <2>2, <1>a DEF IInv, SingleReconnectPath, NeverStranded, Live
    <2> QED BY <2>3, <2>4, <2>5 DEF IInv
  <1>6. ASSUME NEW i \in Attempts, OpenReply(i) PROVE IInv'
    <2>1. /\ pc[i] = "opening" /\ pc' = [pc EXCEPT ![i] = "opened"]
          /\ conn' = [conn EXCEPT ![i] = "open"]
          /\ UNCHANGED <<status, stopping, link, next, reconnectHandle, heard>>
      BY <1>6 DEF OpenReply, agentVars
    <2>2. /\ pc'[i] = "opened" /\ conn'[i] = "open"
          /\ \A j \in Attempts : j # i => pc'[j] = pc[j] /\ conn'[j] = conn[j]
      BY <2>1 DEF TypeOK
    <2>3. Fresh' /\ TimerIsHandle' /\ HeardIsUp' /\ LinkIsHeard'
      BY <2>1, <2>2 DEF IInv, Fresh, TimerIsHandle, HeardIsUp, LinkIsHeard, Inside
    <2>4. LastWaits'
      BY <2>1, <2>2, <1>0 DEF IInv, LastWaits
    <2>5. SingleReconnectPath' /\ NeverStranded'
      BY <2>1, <2>2 DEF IInv, SingleReconnectPath, NeverStranded, Live
    <2> QED BY <2>3, <2>4, <2>5 DEF IInv
  <1>7. ASSUME NEW i \in Attempts, OpenFails(i) PROVE IInv'
    <2>1. /\ pc[i] = "opening" /\ pc' = [pc EXCEPT ![i] = "openFailed"]
          /\ conn' = [conn EXCEPT ![i] = "closed"]
          /\ UNCHANGED <<status, stopping, link, next, reconnectHandle, heard>>
      BY <1>7 DEF OpenFails, agentVars
    <2>2. /\ pc'[i] = "openFailed"
          /\ \A j \in Attempts : j # i => pc'[j] = pc[j] /\ conn'[j] = conn[j]
      BY <2>1 DEF TypeOK
    <2>3. Fresh' /\ TimerIsHandle' /\ HeardIsUp' /\ LinkIsHeard'
      BY <2>1, <2>2 DEF IInv, Fresh, TimerIsHandle, HeardIsUp, LinkIsHeard, Inside
    <2>4. LastWaits'
      BY <2>1, <2>2, <1>0 DEF IInv, LastWaits
    <2>5. SingleReconnectPath' /\ NeverStranded'
      BY <2>1, <2>2 DEF IInv, SingleReconnectPath, NeverStranded, Live
    <2> QED BY <2>3, <2>4, <2>5 DEF IInv
  <1>8. ASSUME NEW i \in Attempts, ResumeOpened(i) PROVE IInv'
    <2>1. /\ pc[i] = "opened" /\ pc' = [pc EXCEPT ![i] = "script"] /\ link' = i
          /\ heard' = [heard EXCEPT ![i] = TRUE]
          /\ UNCHANGED <<status, stopping, next, reconnectHandle, conn>>
      BY <1>8 DEF ResumeOpened
    <2>2. /\ pc'[i] = "script" /\ heard'[i] /\ conn[i] = "open"
          /\ \A j \in Attempts : j # i => pc'[j] = pc[j] /\ heard'[j] = heard[j]
      BY <2>1 DEF TypeOK, IInv, HeardIsUp
    <2>3. \A j \in Attempts : j # i => ~Live(j)
      BY <2>1 DEF IInv, SingleReconnectPath, Live
    <2>4. Fresh' /\ TimerIsHandle'
      BY <2>1, <2>2 DEF IInv, Fresh, TimerIsHandle
    <2>5. HeardIsUp'
      BY <2>1, <2>2 DEF IInv, HeardIsUp, Inside, Up
    <2>6. LinkIsHeard'
      BY <2>1, <2>2, <2>3 DEF LinkIsHeard, Live
    <2>7. LastWaits'
      BY <2>1, <2>2, <1>0 DEF IInv, LastWaits
    <2>8. SingleReconnectPath' /\ NeverStranded'
      BY <2>1, <2>2, <2>3 DEF SingleReconnectPath, NeverStranded, Live
    <2> QED BY <2>4, <2>5, <2>6, <2>7, <2>8 DEF IInv
  <1>9. ASSUME NEW i \in Attempts, ResumeOpenFailed(i) PROVE IInv'
    <2> DEFINE after == [pc EXCEPT ![i] = "done"]
    <2>1. /\ pc[i] = "openFailed" /\ UNCHANGED <<stopping, link, conn, heard>>
          /\ IF MayRetry THEN ScheduleReconnect(after) ELSE NoReconnect(after)
      BY <1>9 DEF ResumeOpenFailed
    <2>2. Live(i) /\ ~heard[i]
      BY <2>1 DEF Live, IInv, HeardIsUp, Inside
    <2>3. link = 0
      <3> SUFFICES ASSUME link # 0 PROVE FALSE
        OBVIOUS
      <3>1. link \in Attempts /\ heard[link]
        BY DEF IInv, LinkIsHeard, TypeOK, Attempts
      <3> QED BY <3>1, <2>2 DEF Live, IInv, SingleReconnectPath
    <2>4. heard' = [heard EXCEPT ![i] = FALSE]
      BY <2>1, <2>2 DEF TypeOK
    <2>5. /\ after \in [Attempts -> Points] /\ after[i] \in Inside
          /\ \A j \in Attempts : j # i => after[j] = pc[j]
      BY DEF TypeOK, Points, Inside
    <2> HIDE DEF after
    <2> QED BY <2>1, <2>2, <2>3, <2>4, <2>5, PathReplaced
  <1>10. ASSUME NEW i \in Attempts, ResumeScriptDone(i) PROVE IInv'
    <2>1. conn' = Written(link) \/ conn' = conn
      BY <1>10 DEF ResumeScriptDone
    <2>2. pc[i] = "scriptDone" /\ pc' \in {[pc EXCEPT ![i] = "sending"], [pc EXCEPT ![i] = "sendFailed"]}
      BY <1>10 DEF ResumeScriptDone
    <2>3. \A j \in Attempts : \/ pc'[j] = pc[j]
                              \/ pc[j] \in Inside \ {"done"} /\ pc'[j] \in Inside
      BY <2>2 DEF TypeOK, Inside
    <2> QED BY <1>10, <2>1, <2>3, <1>c, QuietStep DEF ResumeScriptDone
  <1>11. ASSUME NEW i \in Attempts, ResumeSent(i) PROVE IInv'
    <2>1. pc[i] = "sent" /\ pc' = [pc EXCEPT ![i] = "done"] /\ status' = "running"
      BY <1>11 DEF ResumeSent
    <2>2. \A j \in Attempts : \/ pc'[j] = pc[j]
                              \/ pc[j] \in Inside \ {"done"} /\ pc'[j] \in Inside
      BY <2>1 DEF TypeOK, Inside
    <2>3. status # "idle"
      BY <2>1, <1>a
    <2>4. \A j \in Attempts : /\ pc[j] = "opened" => conn'[j] = conn[j]
                              /\ conn[j] \in Up => conn'[j] \in Up
      BY <1>11, <1>e DEF ResumeSent
    <2> QED BY <1>11, <2>1, <2>2, <2>3, <2>4, QuietStep DEF ResumeSent
  <1>12. ASSUME NEW i \in Attempts, ResumeFailed(i) PROVE IInv'
    <2>1. pc[i] \in {"scriptFailed", "sendFailed"} /\ pc' = [pc EXCEPT ![i] = "done"]
      BY <1>12 DEF ResumeFailed
    <2>2. \A j \in Attempts : \/ pc'[j] = pc[j]
                              \/ pc[j] \in Inside \ {"done"} /\ pc'[j] \in Inside
      BY <2>1 DEF TypeOK, Inside
    <2>3. \A j \in Attempts : /\ pc[j] = "opened" => conn'[j] = conn[j]
                              /\ conn[j] \in Up => conn'[j] \in Up
      BY <1>12, <2>1, <1>d DEF ResumeFailed, Inside
    <2> QED BY <1>12, <2>2, <2>3, QuietStep DEF ResumeFailed, agentVars
  <1>13. ASSUME NEW i \in Attempts, ScriptText(i) PROVE IInv'
    <2>1. conn' = Written(runner) \/ conn' = conn
      BY <1>13 DEF ScriptText
    <2>2. \/ pc' = pc
          \/ pc[runner] = "script" /\ pc' = [pc EXCEPT ![runner] = "scriptDone"]
      BY <1>13 DEF ScriptText
    <2>3. \A j \in Attempts : \/ pc'[j] = pc[j]
                              \/ pc[j] \in Inside \ {"done"} /\ pc'[j] \in Inside
      BY <2>2 DEF TypeOK, Inside
    <2> QED BY <1>13, <2>1, <2>3, <1>c, QuietStep DEF ScriptText, agentVars
  <1>14. ASSUME NEW i \in Attempts, ConnectTimeout(i) PROVE IInv'
    <2>1. \/ pc' = pc
          \/ pc[i] = "script" /\ pc' = [pc EXCEPT ![i] = "scriptFailed"]
      BY <1>14 DEF ConnectTimeout
    <2>2. \A j \in Attempts : \/ pc'[j] = pc[j]
                              \/ pc[j] \in Inside \ {"done"} /\ pc'[j] \in Inside
      BY <2>1 DEF TypeOK, Inside
    <2> QED BY <1>14, <2>2, QuietStep DEF ConnectTimeout, agentVars
  <1>15. ASSUME NEW i \in Attempts, WpsData(i) PROVE IInv'
    <2>1. \A j \in Attempts : /\ pc[j] = "opened" => conn'[j] = conn[j]
                              /\ conn[j] \in Up => conn'[j] \in Up
      <3>1. PICK what \in Traffic : Ingest(what)
        BY <1>15 DEF WpsData
      <3> QED BY <3>1, <1>e
    <2> QED BY <1>15, <2>1, QuietStep DEF WpsData, agentVars
  \* What a rejected request does to the attempts is quiet.
  <1>f. \A ks : \A i \in Attempts :
          /\ Rejected(i, ks) \in [Attempts -> Points]
          /\ \A j \in Attempts : j # i => Rejected(i, ks)[j] = pc[j]
          /\ \/ Rejected(i, ks)[i] = pc[i]
             \/ pc[i] \in Inside \ {"done"} /\ Rejected(i, ks)[i] \in Inside
    <2> SUFFICES ASSUME NEW i \in Attempts, NEW ks
                 PROVE  /\ Rejected(i, ks) \in [Attempts -> Points]
                        /\ \A j \in Attempts : j # i => Rejected(i, ks)[j] = pc[j]
                        /\ \/ Rejected(i, ks)[i] = pc[i]
                           \/ pc[i] \in Inside \ {"done"} /\ Rejected(i, ks)[i] \in Inside
      OBVIOUS
    <2>1. Rejected(i, ks) \in [Attempts -> Points]
      BY PiecesType
    <2>2. pc \in [Attempts -> Points]
      BY DEF TypeOK
    <2>3. \A j \in Attempts : j # i => Rejected(i, ks)[j] = pc[j]
      BY <2>2 DEF Rejected
    <2>4. Rejected(i, ks)[i] = IF pc[i] = "script" /\ "hop" \in ks THEN "scriptFailed"
                               ELSE IF pc[i] = "sending" /\ "c" \in ks THEN "sendFailed"
                               ELSE pc[i]
      BY <2>2 DEF Rejected
    <2> QED BY <2>1, <2>3, <2>4 DEF Inside
  <1>16. ASSUME NEW i \in Attempts, ClosePush(i) PROVE IInv'
    <2>1. CASE heard[i]
      <3>1. /\ heard' = [heard EXCEPT ![i] = FALSE] /\ link' = 0
            /\ UNCHANGED <<stopping, conn>>
            /\ IF MayRetry THEN ScheduleReconnect(pc) ELSE NoReconnect(pc)
        BY <1>16, <2>1 DEF ClosePush, OnClose
      <3>2. Live(i) /\ pc[i] \in Inside /\ pc[i] # "waiting"
        BY <2>1 DEF Live, IInv, HeardIsUp, Inside
      <3>3. pc \in [Attempts -> Points]
        BY DEF TypeOK
      <3> QED BY <3>1, <3>2, <3>3, PathReplaced
    <2>2. CASE ~heard[i]
      BY <1>16, <2>2, QuietStep DEF ClosePush
    <2> QED BY <2>1, <2>2
  <1>17. ASSUME NEW i \in Attempts, SocketEnd(i) PROVE IInv'
    <2> DEFINE lost == {k \in Kinds : pend[i][k] > 0}
               pcNow == Rejected(i, lost)
    <2>1. /\ heard' = [heard EXCEPT ![i] = FALSE] /\ stopping' = stopping
          /\ conn' = [conn EXCEPT ![i] = "closed"]
          /\ Pending(pc) => conn[i] = "broken"
          /\ IF heard[i] THEN OnClose(Rejected(i, lost))
             ELSE NoReconnect(Rejected(i, lost)) /\ UNCHANGED link
      BY <1>17 DEF SocketEnd
    <2>2. \A j \in Attempts : j # i => conn'[j] = conn[j]
      BY <2>1 DEF TypeOK
    <2>3. CASE heard[i]
      <3>1. /\ link' = 0
            /\ IF MayRetry THEN ScheduleReconnect(Rejected(i, lost))
               ELSE NoReconnect(Rejected(i, lost))
        BY <2>1, <2>3 DEF OnClose
      <3>2. Live(i) /\ pc[i] \in Inside /\ pc[i] # "waiting"
        BY <2>3 DEF Live, IInv, HeardIsUp, Inside
      <3>3. /\ pcNow \in [Attempts -> Points] /\ pcNow[i] \in Inside
            /\ \A j \in Attempts : j # i => pcNow[j] = pc[j]
        <4> HIDE DEF lost
        <4> QED BY <3>2, <1>f
      <3>4. IF MayRetry THEN ScheduleReconnect(pcNow) ELSE NoReconnect(pcNow)
        BY <3>1
      <3> HIDE DEF pcNow
      <3> QED BY <2>1, <2>2, <3>1, <3>2, <3>3, <3>4, PathReplaced
    <2>4. CASE ~heard[i]
      <3>1. /\ pc' = Rejected(i, lost) /\ heard' = heard
            /\ UNCHANGED <<link, stopping, status, reconnectHandle, next>>
        BY <2>1, <2>4 DEF NoReconnect, TypeOK
      <3> HIDE DEF lost
      <3>2. \A j \in Attempts : \/ pc'[j] = pc[j]
                                \/ pc[j] \in Inside \ {"done"} /\ pc'[j] \in Inside
        BY <3>1, <1>f
      <3>3. pc[i] # "opened"
        BY <2>1 DEF Pending, Settled, IInv, HeardIsUp
      <3>4. \A j \in Attempts : /\ pc[j] = "opened" => conn'[j] = conn[j]
                                /\ heard[j] /\ conn[j] \in Up => conn'[j] \in Up
        BY <2>2, <2>4, <3>3
      <3> QED BY <3>1, <3>2, <3>4, QuietStep
    <2> QED BY <2>3, <2>4
  <1>18. ASSUME NEW i \in Attempts, NEW k \in Kinds, ReplyTimeout(i, k) PROVE IInv'
    <2>1. \A j \in Attempts : \/ pc'[j] = pc[j]
                              \/ pc[j] \in Inside \ {"done"} /\ pc'[j] \in Inside
      BY <1>18, <1>f DEF ReplyTimeout
    <2> QED BY <1>18, <2>1, QuietStep DEF ReplyTimeout, agentVars
  <1>19. ASSUME NEW i \in Attempts, NEW k \in Kinds, NEW ok \in BOOLEAN, Reply(i, k, ok)
         PROVE IInv'
    <2>1. \/ pc' = Rejected(i, {k}) \/ pc' = pc
          \/ pc[i] = "sending" /\ pc' = [pc EXCEPT ![i] = "sent"]
      BY <1>19 DEF Reply
    <2>2. \A j \in Attempts : \/ pc'[j] = pc[j]
                              \/ pc[j] \in Inside \ {"done"} /\ pc'[j] \in Inside
      BY <2>1, <1>f DEF TypeOK, Inside
    <2> QED BY <1>19, <2>2, QuietStep DEF Reply
  <1>20. CASE UNCHANGED vars
    BY <1>20, QuietStep DEF vars, agentVars, attemptVars
  <1> QED
    BY <1>1, <1>2, <1>3, <1>4, <1>5, <1>6, <1>7, <1>8, <1>9, <1>10, <1>11, <1>12,
       <1>13, <1>14, <1>15, <1>16, <1>17, <1>18, <1>19, <1>20 DEF Next, Resume

\* IInv is an invariant.
LEMMA IInvHolds == Spec => []IInv
  <1> QED BY InitType, NextType, InitIInv, NextIInv, PTL DEF Spec

\* Two attempts are never on the way to a session at once, in any interleaving
\* of continuations, timers, replies, close pushes, socket ends and stop().
THEOREM SinglePath == Spec => []SingleReconnectPath
  <1>1. IInv => SingleReconnectPath
    BY DEF IInv
  <1> QED BY <1>1, IInvHolds, PTL

\* From start() to stop() there is always one.
THEOREM NotStranded == Spec => []NeverStranded
  <1>1. IInv => NeverStranded
    BY DEF IInv
  <1> QED BY <1>1, IInvHolds, PTL

\* this.link is the link whose end is heard.
THEOREM LinkHeard == Spec => []LinkIsTheHeardOne
  <1>1. TypeOK /\ IInv => LinkIsTheHeardOne
    BY DEF IInv, LinkIsHeard, HeardIsUp, LinkIsTheHeardOne, TypeOK, Attempts, Up
  <1> QED BY <1>1, IInvHolds, TypeCorrect, PTL

-----------------------------------------------------------------------------
(* stop() is final.                                                        *)

\* Only a timer that fires and start() begin a dial, and a timer is set by a
\* retry: stop() has cleared the timer, and IInv knows it was that attempt's.
LEMMA StopIsFinalStep ==
  ASSUME TypeOK, IInv, [Next]_vars, stopping, NEW i \in Attempts,
         pc'[i] \in {"waiting", "opening"}
  PROVE  pc[i] = "opening"
  <1>1. pc[i] # "waiting" /\ status # "idle" /\ ~MayRetry
    BY DEF IInv, TimerIsHandle, Fresh, MayRetry
  <1>2. pc \in [Attempts -> Points]
    BY DEF TypeOK
  <1> SUFFICES ASSUME pc'[i] # pc[i] PROVE FALSE
    BY <1>1
  <1>3. \A ks : \A j \in Attempts : Rejected(j, ks)[i] \in {pc[i], "scriptFailed", "sendFailed"}
    BY <1>2 DEF Rejected
  <1>4. CASE Start \/ KeepaliveTick \/ HeadSend
    BY <1>4, <1>1 DEF Start, KeepaliveTick, HeadSend
  <1>5. CASE Stop
    BY <1>5 DEF Stop
  <1>6. ASSUME NEW j \in Attempts, Reconnect(j) PROVE FALSE
    BY <1>6, <1>1, <1>2 DEF Reconnect, IInv, TimerIsHandle
  <1>7. ASSUME NEW j \in Attempts, OpenReply(j) \/ OpenFails(j) \/ ConnectTimeout(j) PROVE FALSE
    BY <1>7, <1>2 DEF OpenReply, OpenFails, ConnectTimeout
  <1>8. ASSUME NEW j \in Attempts, Resume(j) PROVE FALSE
    <2>1. ResumeOpenFailed(j) => pc' = [pc EXCEPT ![j] = "done"]
      BY <1>1 DEF ResumeOpenFailed, NoReconnect
    <2> QED BY <1>8, <2>1, <1>2
            DEF Resume, ResumeOpened, ResumeScriptDone, ResumeSent, ResumeFailed
  <1>9. ASSUME NEW j \in Attempts, ScriptText(j) \/ WpsData(j) PROVE FALSE
    BY <1>9, <1>2 DEF ScriptText, WpsData
  <1>10. ASSUME NEW j \in Attempts, ClosePush(j) PROVE FALSE
    <2>1. pc' = pc
      BY <1>10, <1>1 DEF ClosePush, OnClose, NoReconnect
    <2> QED BY <2>1
  <1>11. ASSUME NEW j \in Attempts, SocketEnd(j) PROVE FALSE
    <2> DEFINE lost == {k \in Kinds : pend[j][k] > 0}
    <2>1. pc' = Rejected(j, lost)
      BY <1>11, <1>1 DEF SocketEnd, OnClose, NoReconnect
    <2> HIDE DEF lost
    <2> QED BY <2>1, <1>3
  <1>12. ASSUME NEW j \in Attempts, NEW k \in Kinds, ReplyTimeout(j, k) PROVE FALSE
    BY <1>12, <1>3 DEF ReplyTimeout
  <1>13. ASSUME NEW j \in Attempts, NEW k \in Kinds, NEW ok \in BOOLEAN, Reply(j, k, ok)
         PROVE FALSE
    <2>1. \/ pc' = Rejected(j, {k}) \/ pc' = pc \/ pc' = [pc EXCEPT ![j] = "sent"]
      BY <1>13 DEF Reply
    <2> QED BY <2>1, <1>2, <1>3
  <1>14. CASE UNCHANGED vars
    BY <1>14 DEF vars, attemptVars
  <1> QED
    BY <1>4, <1>5, <1>6, <1>7, <1>8, <1>9, <1>10, <1>11, <1>12, <1>13, <1>14 DEF Next

\* Nothing dials or waits to dial after stop(), whatever was suspended, waiting
\* or being read when it was called.
THEOREM StopHolds == Spec => StopIsFinal
  <1>1. TypeOK /\ IInv /\ [Next]_vars =>
          [stopping => \A i \in Attempts :
             pc'[i] \in {"waiting", "opening"} => pc[i] = "opening"]_vars
    BY StopIsFinalStep
  <1> QED BY <1>1, IInvHolds, TypeCorrect, PTL DEF Spec, StopIsFinal

-----------------------------------------------------------------------------
(***************************************************************************)
(* The idle cap.  IdleCapDropsLink is not inductive: a new link would      *)
(* inherit a full idle count from an interval that outlived the link       *)
(* before.  It cannot: such an interval has not ticked, for its first tick *)
(* without a link ends the process.                                        *)
(***************************************************************************)
CapInv ==
  /\ keepalive /\ link = 0 /\ ~crashed => idle = 0
  /\ IdleCapDropsLink

LEMMA InitCapInv == Init => CapInv
  BY IdleCapAssumption DEF Init, CapInv, IdleCapDropsLink

\* Neither a hang-up nor a write opens a socket again.
LEMMA StaysShut ==
  ASSUME TypeOK, NEW j \in Attempts, conn[j] # "open"
  PROVE  \A l : HungUp(l)[j] # "open" /\ Written(l)[j] # "open"
  BY DEF TypeOK, HungUp, Written

\* A step that leaves the interval and the link alone, counts no tick and opens
\* no socket.
LEMMA CapQuietStep ==
  ASSUME TypeOK, CapInv, ~crashed, UNCHANGED <<keepalive, link>>, idle' \in {0, idle},
         link # 0 /\ conn[link] # "open" => conn'[link] # "open"
  PROVE  CapInv'
  BY IdleCapAssumption DEF CapInv, IdleCapDropsLink

LEMMA NextCapInv == TypeOK /\ IInv /\ CapInv /\ [Next]_vars => CapInv'
  <1> SUFFICES ASSUME TypeOK, IInv, CapInv, [Next]_vars PROVE CapInv'
    OBVIOUS
  <1>1. link # 0 => link \in Attempts /\ heard[link] /\ pc[link] \in Inside
    BY DEF IInv, LinkIsHeard, HeardIsUp, TypeOK, Attempts
  <1>2. link # 0 /\ conn[link] # "open" =>
          \A l : HungUp(l)[link] # "open" /\ Written(l)[link] # "open"
    BY <1>1, StaysShut
  <1>3. keepalive' = FALSE => CapInv'
    BY DEF CapInv, IdleCapDropsLink
  <1>4. ASSUME NEW what, Ingest(what)
        PROVE  link # 0 /\ conn[link] # "open" => conn'[link] # "open"
    BY <1>4, <1>2 DEF Ingest
  <1>5. CASE Start
    BY <1>5, CapQuietStep DEF Start, Task
  <1>6. CASE KeepaliveTick
    <2> DEFINE ticks == IF idle < IdleCap THEN idle + 1 ELSE IdleCap
    <2>1. idle' = ticks /\ link' = link /\ keepalive' = keepalive /\ keepalive /\ ~crashed
      BY <1>6 DEF KeepaliveTick, Task
    <2>2. idle \in 0..IdleCap
      BY DEF TypeOK
    <2>3. CASE link = 0
      <3>1. idle = 0
        BY <2>1, <2>3 DEF CapInv
      <3>2. ~CapReached(ticks)
        BY <3>1, IdleCapAssumption DEF CapReached
      <3>3. crashed' = TRUE
        BY <1>6, <2>3, <3>2 DEF KeepaliveTick
      <3> QED BY <2>1, <2>3, <3>3 DEF CapInv, IdleCapDropsLink
    <2>4. CASE link # 0 /\ ticks = IdleCap
      <3>1. CapReached(ticks)
        BY <2>4, IdleCapAssumption DEF CapReached
      <3>2. conn' = HungUp(link)
        BY <1>6, <3>1 DEF KeepaliveTick
      <3>3. conn'[link] # "open"
        BY <3>2, <2>4, <1>1 DEF HungUp
      <3> QED BY <2>1, <2>4, <3>3 DEF CapInv, IdleCapDropsLink
    <2>5. CASE link # 0 /\ ticks # IdleCap
      BY <2>1, <2>5 DEF CapInv, IdleCapDropsLink
    <2> QED BY <2>3, <2>4, <2>5
  <1>7. CASE HeadSend
    BY <1>7, <1>2, CapQuietStep DEF HeadSend, Task, agentVars
  <1>8. CASE Stop
    BY <1>8, <1>3 DEF Stop
  <1>9. ASSUME NEW i \in Attempts, Reconnect(i) PROVE CapInv'
    BY <1>9, CapQuietStep DEF Reconnect, Task
  <1>10. ASSUME NEW i \in Attempts, OpenReply(i) PROVE CapInv'
    <2>1. link # 0 => link # i
      BY <1>10, <1>1 DEF OpenReply, Inside
    <2>2. link # 0 => conn'[link] = conn[link]
      BY <1>10, <2>1, <1>1 DEF OpenReply, TypeOK
    <2> QED BY <1>10, <2>2, CapQuietStep DEF OpenReply, agentVars
  <1>11. ASSUME NEW i \in Attempts, OpenFails(i) PROVE CapInv'
    <2>1. link # 0 /\ conn[link] # "open" => conn'[link] # "open"
      BY <1>11, <1>1 DEF OpenFails, TypeOK
    <2> QED BY <1>11, <2>1, CapQuietStep DEF OpenFails, Task, agentVars
  <1>12. ASSUME NEW i \in Attempts, ResumeOpened(i) PROVE CapInv'
    \* The link it takes is new, and the agent has none.
    <2>1. link = 0
      BY <1>12, <1>1 DEF ResumeOpened, IInv, SingleReconnectPath, Live, Inside
    <2>2. keepalive => idle = 0
      BY <1>12, <2>1 DEF CapInv, ResumeOpened, Job
    <2>3. i # 0 /\ link' = i /\ UNCHANGED <<keepalive, idle>>
      BY <1>12 DEF ResumeOpened, Attempts
    <2> QED BY <2>2, <2>3, IdleCapAssumption DEF CapInv, IdleCapDropsLink
  <1>13. ASSUME NEW i \in Attempts, ResumeOpenFailed(i) PROVE CapInv'
    BY <1>13, CapQuietStep DEF ResumeOpenFailed, Job
  <1>14. ASSUME NEW i \in Attempts, ResumeScriptDone(i) PROVE CapInv'
    BY <1>14, <1>2, CapQuietStep DEF ResumeScriptDone, Job
  <1>15. ASSUME NEW i \in Attempts, ResumeSent(i) PROVE CapInv'
    <2>1. idle' = 0
      BY <1>15 DEF ResumeSent
    <2> QED BY <2>1, IdleCapAssumption DEF CapInv, IdleCapDropsLink
  <1>16. ASSUME NEW i \in Attempts, ResumeFailed(i) PROVE CapInv'
    BY <1>16, <1>2, CapQuietStep DEF ResumeFailed, Job, agentVars
  <1>17. ASSUME NEW i \in Attempts, ScriptText(i) PROVE CapInv'
    <2>1. conn' = Written(runner) \/ conn' = conn
      BY <1>17 DEF ScriptText
    <2> QED BY <1>17, <2>1, <1>2, CapQuietStep DEF ScriptText, Frame, agentVars
  <1>18. ASSUME NEW i \in Attempts, ConnectTimeout(i) PROVE CapInv'
    BY <1>18, CapQuietStep DEF ConnectTimeout, Task, agentVars
  <1>19. ASSUME NEW i \in Attempts, WpsData(i) PROVE CapInv'
    <2>1. link # 0 /\ conn[link] # "open" => conn'[link] # "open"
      BY <1>19, <1>4 DEF WpsData
    <2> QED BY <1>19, <2>1, CapQuietStep DEF WpsData, Frame, agentVars
  <1>20. ASSUME NEW i \in Attempts, ClosePush(i) PROVE CapInv'
    BY <1>20, <1>3, CapQuietStep DEF ClosePush, OnClose, Frame
  <1>21. ASSUME NEW i \in Attempts, SocketEnd(i) PROVE CapInv'
    <2>1. CASE heard[i]
      BY <1>21, <2>1, <1>3 DEF SocketEnd, OnClose
    <2>2. CASE ~heard[i]
      <3>1. UNCHANGED <<keepalive, link, idle>> /\ ~crashed
        BY <1>21, <2>2 DEF SocketEnd
      <3>2. link # 0 /\ conn[link] # "open" => conn'[link] # "open"
        BY <1>21, <1>1 DEF SocketEnd, TypeOK
      <3> QED BY <3>1, <3>2, CapQuietStep
    <2> QED BY <2>1, <2>2
  <1>22. ASSUME NEW i \in Attempts, NEW k \in Kinds, ReplyTimeout(i, k) PROVE CapInv'
    BY <1>22, CapQuietStep DEF ReplyTimeout, Task, agentVars
  <1>23. ASSUME NEW i \in Attempts, NEW k \in Kinds, NEW ok \in BOOLEAN, Reply(i, k, ok)
         PROVE CapInv'
    BY <1>23, CapQuietStep DEF Reply, Frame
  <1>24. CASE UNCHANGED vars
    BY <1>24 DEF vars, agentVars, attemptVars, CapInv, IdleCapDropsLink
  <1> QED
    BY <1>5, <1>6, <1>7, <1>8, <1>9, <1>10, <1>11, <1>12, <1>13, <1>14, <1>15, <1>16,
       <1>17, <1>18, <1>19, <1>20, <1>21, <1>22, <1>23, <1>24 DEF Next, Resume

\* Once idleMs reaches the cap, the link held at the time is not open: whichever
\* session the interval was started in.
THEOREM IdleCapHolds == Spec => []IdleCapDropsLink
  <1>1. CapInv => IdleCapDropsLink
    BY DEF CapInv
  <1> QED BY <1>1, InitCapInv, NextCapInv, IInvHolds, TypeCorrect, PTL DEF Spec
-----------------------------------------------------------------------------
(***************************************************************************)
(* The agent implements the link keeper, for every number of attempts,     *)
(* every script and every bound: the proof of Agent!KeepsLink.             *)
(*                                                                         *)
(* KeeperPath reads the keeper's path off all attempts at once.  IInv says *)
(* that at most one attempt is live, so the path is that attempt's, and a  *)
(* step is a step of the keeper, or none, according to what it does to     *)
(* that one attempt.                                                       *)
(***************************************************************************)

\* What one attempt contributes to the path.
InSession(i) == heard[i] \/ pc[i] = "opened"
Dialling(i) == pc[i] \in {"opening", "openFailed"}
Waiting(i) == pc[i] = "waiting"

\* An attempt is on the path it contributes, before a step and after it: the
\* others contribute none.
LEMMA PathOfAttempt ==
  ASSUME IInv, NEW i \in Attempts
  PROVE  /\ InSession(i) => KeeperPath = "session"
         /\ Dialling(i) => KeeperPath = "dialling"
         /\ Waiting(i) => KeeperPath = "backoff"
  <1>1. \A j \in Attempts : Live(i) /\ Live(j) => i = j
    BY DEF IInv, SingleReconnectPath
  <1>2. \A j \in Attempts : heard[j] => pc[j] \in Inside
    BY DEF IInv, HeardIsUp
  <1> QED BY <1>1, <1>2 DEF Live, InSession, Dialling, Waiting, KeeperPath, Inside

LEMMA PathOfAttemptNext ==
  ASSUME IInv', NEW i \in Attempts
  PROVE  /\ InSession(i)' => KeeperPath' = "session"
         /\ Dialling(i)' => KeeperPath' = "dialling"
         /\ Waiting(i)' => KeeperPath' = "backoff"
  <1>1. \A j \in Attempts : Live(i)' /\ Live(j)' => i = j
    BY DEF IInv, SingleReconnectPath
  <1>2. \A j \in Attempts : heard'[j] => pc'[j] \in Inside
    BY DEF IInv, HeardIsUp
  <1> QED BY <1>1, <1>2 DEF Live, InSession, Dialling, Waiting, KeeperPath, Inside

\* A step after which every attempt contributes what it did leaves the path.
LEMMA PathKept ==
  ASSUME \A i \in Attempts : /\ InSession(i)' <=> InSession(i)
                             /\ Dialling(i)' <=> Dialling(i)
                             /\ Waiting(i)' <=> Waiting(i)
  PROVE  KeeperPath' = KeeperPath
  BY DEF KeeperPath, InSession, Dialling, Waiting

\* Steps among the points after the dial do.
LEMMA QuietPath ==
  ASSUME heard' = heard,
         \A i \in Attempts : \/ pc'[i] = pc[i]
                             \/ pc[i] \in Inside /\ pc'[i] \in Inside
  PROVE  KeeperPath' = KeeperPath
  <1> SUFFICES ASSUME NEW i \in Attempts
               PROVE  /\ InSession(i)' <=> InSession(i)
                      /\ Dialling(i)' <=> Dialling(i)
                      /\ Waiting(i)' <=> Waiting(i)
    BY PathKept
  <1> QED BY DEF InSession, Dialling, Waiting, Inside

\* When the live attempt ends, the reconnect put in its place, or withheld after
\* stop(), is all that is left of the path.
LEMMA PathAfterLoss ==
  ASSUME TypeOK, IInv, IInv', NEW i \in Attempts, Live(i), pc[i] # "waiting",
         NEW pcNow \in [Attempts -> Points], pcNow[i] \in Inside,
         \A j \in Attempts : j # i => pcNow[j] = pc[j],
         heard' = [heard EXCEPT ![i] = FALSE], stopping' = stopping,
         IF MayRetry THEN ScheduleReconnect(pcNow) ELSE NoReconnect(pcNow)
  PROVE  KeeperPath' = Keeper!AfterLoss
  <1>1. \A j \in Attempts : j # i => ~Live(j)
    BY DEF IInv, SingleReconnectPath
  <1>2. \A j \in Attempts : ~heard'[j]
    BY <1>1 DEF TypeOK, Live
  <1>3. \A j \in Attempts : pcNow[j] \notin {"waiting", "opening", "opened", "openFailed"}
    BY <1>1 DEF Live, Inside
  <1>4. CASE stopping
    <2>1. pc' = pcNow
      BY <1>4 DEF MayRetry, NoReconnect
    <2> QED BY <1>2, <1>3, <1>4, <2>1 DEF KeeperPath, Keeper!AfterLoss
  <1>5. CASE ~stopping
    <2>1. ScheduleReconnect(pcNow)
      BY <1>5 DEF MayRetry
    <2>2. status' # "idle" /\ \A j \in Attempts : pc'[j] = IF j = next THEN "waiting" ELSE pcNow[j]
      BY <2>1 DEF ScheduleReconnect
    <2>3. \E j \in Attempts : Live(j)'
      BY <2>2, <1>5 DEF IInv, NeverStranded
    <2>4. \E j \in Attempts : pc'[j] = "waiting"
      BY <2>2, <2>3, <1>2, <1>3 DEF Live
    <2> QED BY <2>2, <2>4, <1>2, <1>3, <1>5 DEF KeeperPath, Keeper!AfterLoss
  <1> QED BY <1>4, <1>5

\* Before start() nothing is on the path.
LEMMA InitKeeps == Init => Keeper!Init
  BY DEF Init, Keeper!Init, KeeperPath

\* Each step of the agent is one of the keeper's, or leaves its path alone.
LEMMA NextKeeps ==
  TypeOK /\ IInv /\ [Next]_vars => [Keeper!Next]_(Keeper!vars)
  <1> SUFFICES ASSUME TypeOK, IInv, [Next]_vars PROVE [Keeper!Next]_(Keeper!vars)
    OBVIOUS
  <1> USE DEF Keeper!Next, Keeper!vars
  <1>0. IInv'
    BY NextIInv
  <1>a. pc \in [Attempts -> Points] /\ heard \in [Attempts -> BOOLEAN]
    BY DEF TypeOK
  <1>b. stopping' = stopping /\ KeeperPath' = KeeperPath => [Keeper!Next]_(Keeper!vars)
    OBVIOUS
  <1>c. \A ks : \A i, j \in Attempts : \/ Rejected(i, ks)[j] = pc[j]
                                       \/ pc[j] \in Inside /\ Rejected(i, ks)[j] \in Inside
    BY <1>a DEF Rejected, Inside
  <1>1. CASE Start
    <2>1. next = 1 /\ stopping = FALSE /\ stopping' = FALSE /\ pc' = [pc EXCEPT ![1] = "opening"]
      BY <1>1 DEF Start, IInv, Fresh, TypeOK
    <2>2. 1 \in Attempts /\ \A i \in Attempts : pc[i] = "idle" /\ ~heard[i]
      BY <2>1, MaxAttemptsAssumption DEF IInv, Fresh, HeardIsUp, Inside, Attempts
    <2>3. KeeperPath = "none"
      BY <2>2 DEF KeeperPath
    <2>4. KeeperPath' = "dialling"
      BY <1>0, <1>a, <2>1, <2>2, PathOfAttemptNext DEF Dialling
    <2> QED BY <2>1, <2>3, <2>4 DEF Keeper!Start
  <1>2. CASE Stop
    <2>1. heard' = heard /\ stopping' = TRUE /\ ~stopping
      BY <1>2 DEF Stop
    <2>2. \A i \in Attempts : pc'[i] = IF pc[i] = "waiting" THEN "done" ELSE pc[i]
      BY <1>2 DEF Stop, TimerCleared, IInv, TimerIsHandle
    <2>3. CASE \E i \in Attempts : pc[i] = "waiting"
      <3>1. PICK i \in Attempts : Waiting(i)
        BY <2>3 DEF Waiting
      <3>2. KeeperPath = "backoff"
        BY <3>1, PathOfAttempt
      <3>3. \A j \in Attempts : ~InSession(j) /\ ~Dialling(j)
        BY <3>1, <3>2, PathOfAttempt
      <3>4. KeeperPath' = "none"
        BY <2>1, <2>2, <3>3 DEF KeeperPath, InSession, Dialling
      <3> QED BY <2>1, <3>2, <3>4 DEF Keeper!Stop
    <2>4. CASE \A i \in Attempts : pc[i] # "waiting"
      <3>1. KeeperPath' = KeeperPath
        BY <2>1, <2>2, <2>4, QuietPath
      <3>2. KeeperPath # "backoff"
        BY <2>4 DEF KeeperPath
      <3> QED BY <2>1, <3>1, <3>2 DEF Keeper!Stop
    <2> QED BY <2>3, <2>4
  <1>3. CASE KeepaliveTick \/ HeadSend
    BY <1>3, <1>b, QuietPath DEF KeepaliveTick, HeadSend, agentVars
  <1>4. ASSUME NEW i \in Attempts, Reconnect(i) PROVE [Keeper!Next]_(Keeper!vars)
    <2>1. Waiting(i) /\ Dialling(i)' /\ stopping' = stopping
      BY <1>4, <1>a DEF Reconnect, Waiting, Dialling
    <2>2. KeeperPath = "backoff" /\ KeeperPath' = "dialling"
      BY <2>1, <1>0, PathOfAttempt, PathOfAttemptNext
    <2> QED BY <2>1, <2>2 DEF Keeper!Dial
  <1>5. ASSUME NEW i \in Attempts, OpenReply(i) PROVE [Keeper!Next]_(Keeper!vars)
    <2>1. Dialling(i) /\ InSession(i)' /\ stopping' = stopping
      BY <1>5, <1>a DEF OpenReply, Dialling, InSession, agentVars
    <2>2. KeeperPath = "dialling" /\ KeeperPath' = "session"
      BY <2>1, <1>0, PathOfAttempt, PathOfAttemptNext
    <2> QED BY <2>1, <2>2 DEF Keeper!DialSucceeds
  <1>6. ASSUME NEW i \in Attempts, OpenFails(i) PROVE [Keeper!Next]_(Keeper!vars)
    <2>1. Dialling(i) /\ Dialling(i)' /\ stopping' = stopping
      BY <1>6, <1>a DEF OpenFails, Dialling, agentVars
    <2> QED BY <2>1, <1>0, <1>b, PathOfAttempt, PathOfAttemptNext
  <1>7. ASSUME NEW i \in Attempts, ResumeOpened(i) PROVE [Keeper!Next]_(Keeper!vars)
    <2>1. InSession(i) /\ InSession(i)' /\ stopping' = stopping
      BY <1>7, <1>a DEF ResumeOpened, InSession
    <2> QED BY <2>1, <1>0, <1>b, PathOfAttempt, PathOfAttemptNext
  <1>8. ASSUME NEW i \in Attempts, ResumeOpenFailed(i) PROVE [Keeper!Next]_(Keeper!vars)
    <2> DEFINE after == [pc EXCEPT ![i] = "done"]
    <2>1. /\ pc[i] = "openFailed" /\ stopping' = stopping /\ heard' = heard
          /\ IF MayRetry THEN ScheduleReconnect(after) ELSE NoReconnect(after)
      BY <1>8 DEF ResumeOpenFailed
    <2>2. Live(i) /\ ~heard[i]
      BY <2>1 DEF Live, IInv, HeardIsUp, Inside
    <2>3. heard' = [heard EXCEPT ![i] = FALSE]
      BY <2>1, <2>2, <1>a
    <2>4. /\ after \in [Attempts -> Points] /\ after[i] \in Inside
          /\ \A j \in Attempts : j # i => after[j] = pc[j]
      BY <1>a DEF Points, Inside
    <2> HIDE DEF after
    <2>5. KeeperPath' = Keeper!AfterLoss
      BY <2>1, <2>2, <2>3, <2>4, <1>0, PathAfterLoss
    <2>6. KeeperPath = "dialling"
      BY <2>1, PathOfAttempt DEF Dialling
    <2> QED BY <2>1, <2>5, <2>6 DEF Keeper!DialFails
  <1>9. ASSUME NEW i \in Attempts, ResumeScriptDone(i) \/ ResumeSent(i) \/ ResumeFailed(i)
        PROVE  [Keeper!Next]_(Keeper!vars)
    <2>1. \A j \in Attempts : pc'[j] = pc[j] \/ (pc[j] \in Inside /\ pc'[j] \in Inside)
      BY <1>9, <1>a DEF ResumeScriptDone, ResumeSent, ResumeFailed, Inside
    <2> QED BY <1>9, <2>1, <1>b, QuietPath
            DEF ResumeScriptDone, ResumeSent, ResumeFailed, agentVars
  <1>10. ASSUME NEW i \in Attempts, ScriptText(i) \/ ConnectTimeout(i) \/ WpsData(i)
         PROVE  [Keeper!Next]_(Keeper!vars)
    <2>1. \A j \in Attempts : pc'[j] = pc[j] \/ (pc[j] \in Inside /\ pc'[j] \in Inside)
      BY <1>10, <1>a DEF ScriptText, ConnectTimeout, WpsData, Inside
    <2> QED BY <1>10, <2>1, <1>b, QuietPath DEF ScriptText, ConnectTimeout, WpsData, agentVars
  <1>11. ASSUME NEW i \in Attempts, ClosePush(i) PROVE [Keeper!Next]_(Keeper!vars)
    <2>1. CASE heard[i]
      <3>1. /\ heard' = [heard EXCEPT ![i] = FALSE] /\ stopping' = stopping
            /\ IF MayRetry THEN ScheduleReconnect(pc) ELSE NoReconnect(pc)
        BY <1>11, <2>1 DEF ClosePush, OnClose
      <3>2. Live(i) /\ pc[i] \in Inside /\ pc[i] # "waiting"
        BY <2>1 DEF Live, IInv, HeardIsUp, Inside
      <3>3. KeeperPath' = Keeper!AfterLoss
        BY <3>1, <3>2, <1>0, <1>a, PathAfterLoss
      <3>4. KeeperPath = "session"
        BY <2>1, PathOfAttempt DEF InSession
      <3> QED BY <3>1, <3>3, <3>4 DEF Keeper!SessionLost
    <2>2. CASE ~heard[i]
      BY <1>11, <2>2, <1>b, QuietPath DEF ClosePush
    <2> QED BY <2>1, <2>2
  <1>12. ASSUME NEW i \in Attempts, SocketEnd(i) PROVE [Keeper!Next]_(Keeper!vars)
    <2> DEFINE lost == {k \in Kinds : pend[i][k] > 0}
               pcNow == Rejected(i, lost)
    <2>1. /\ heard' = [heard EXCEPT ![i] = FALSE] /\ stopping' = stopping
          /\ IF heard[i] THEN OnClose(pcNow) ELSE NoReconnect(pcNow)
      BY <1>12 DEF SocketEnd
    <2>2. pcNow \in [Attempts -> Points]
      BY PiecesType
    <2> HIDE DEF lost
    <2>3. \A j \in Attempts : pcNow[j] = pc[j] \/ (pc[j] \in Inside /\ pcNow[j] \in Inside)
      BY <1>c
    <2>4. \A j \in Attempts : j # i => pcNow[j] = pc[j]
      BY <1>a DEF Rejected
    <2> HIDE DEF pcNow
    <2>5. CASE heard[i]
      <3>1. IF MayRetry THEN ScheduleReconnect(pcNow) ELSE NoReconnect(pcNow)
        BY <2>1, <2>5 DEF OnClose
      <3>2. Live(i) /\ pc[i] \in Inside /\ pc[i] # "waiting" /\ pcNow[i] \in Inside
        BY <2>3, <2>5 DEF Live, IInv, HeardIsUp, Inside
      <3>3. KeeperPath' = Keeper!AfterLoss
        BY <2>1, <2>2, <2>4, <3>1, <3>2, <1>0, PathAfterLoss
      <3>4. KeeperPath = "session"
        BY <2>5, PathOfAttempt DEF InSession
      <3> QED BY <2>1, <3>3, <3>4 DEF Keeper!SessionLost
    <2>6. CASE ~heard[i]
      <3>1. pc' = pcNow /\ heard' = heard
        BY <2>1, <2>6, <1>a DEF NoReconnect
      <3> QED BY <2>1, <2>3, <3>1, <1>b, QuietPath
    <2> QED BY <2>5, <2>6
  <1>13. ASSUME NEW i \in Attempts, NEW k \in Kinds, ReplyTimeout(i, k)
         PROVE  [Keeper!Next]_(Keeper!vars)
    BY <1>13, <1>b, <1>c, QuietPath DEF ReplyTimeout, agentVars
  <1>14. ASSUME NEW i \in Attempts, NEW k \in Kinds, NEW ok \in BOOLEAN, Reply(i, k, ok)
         PROVE  [Keeper!Next]_(Keeper!vars)
    <2>1. \/ pc' = Rejected(i, {k}) \/ pc' = pc
          \/ pc[i] = "sending" /\ pc' = [pc EXCEPT ![i] = "sent"]
      BY <1>14 DEF Reply
    <2>2. \A j \in Attempts : pc'[j] = pc[j] \/ (pc[j] \in Inside /\ pc'[j] \in Inside)
      BY <2>1, <1>a, <1>c DEF Inside
    <2> QED BY <1>14, <2>2, <1>b, QuietPath DEF Reply
  <1>15. CASE UNCHANGED vars
    BY <1>15, <1>b, QuietPath DEF vars, agentVars, attemptVars
  <1> QED
    <2> HIDE DEF Keeper!Next, Keeper!vars
    <2> QED
      BY <1>1, <1>2, <1>3, <1>4, <1>5, <1>6, <1>7, <1>8, <1>9, <1>10, <1>11, <1>12,
         <1>13, <1>14, <1>15 DEF Next, Resume

\* Once started the agent is on exactly one of the paths back to a session, moves
\* along them only as the keeper does, and leaves them only after stop().
THEOREM AgentKeepsLink == Spec => KeepsLink
  <1> QED BY InitKeeps, NextKeeps, IInvHolds, TypeCorrect, PTL DEF Spec, KeepsLink, Keeper!Spec
=============================================================================
