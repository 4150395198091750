----------------------------- MODULE LinkKeeper -----------------------------
(***************************************************************************)
(* What the agent promises its owner about the link to the WhatsPac        *)
(* service: once started it is always on exactly one of three paths back   *)
(* to a session, and it is off all of them only after it was stopped.      *)
(*                                                                         *)
(*   backoff  a reconnect timer is running                                 *)
(*   dialling an RHP open is in progress                                   *)
(*   session  an RHP link is up and its loss will be noticed               *)
(*   none     not started, or stopped and wound down                       *)
(***************************************************************************)
VARIABLES path, stopping

vars == <<path, stopping>>

TypeOK ==
  /\ path \in {"none", "backoff", "dialling", "session"}
  /\ stopping \in BOOLEAN

Init == path = "none" /\ stopping = FALSE

AfterLoss == IF stopping THEN "none" ELSE "backoff"

Start == path = "none" /\ ~stopping /\ path' = "dialling" /\ UNCHANGED stopping

Dial == path = "backoff" /\ path' = "dialling" /\ UNCHANGED stopping

DialSucceeds == path = "dialling" /\ path' = "session" /\ UNCHANGED stopping

DialFails == path = "dialling" /\ path' = AfterLoss /\ UNCHANGED stopping

SessionLost == path = "session" /\ path' = AfterLoss /\ UNCHANGED stopping

\* Only a waiting timer can be withdrawn at once; a dial in progress and a
\* session being closed wind down by themselves.
Stop ==
  /\ ~stopping
  /\ stopping' = TRUE
  /\ path' = IF path = "backoff" THEN "none" ELSE path

Next == Start \/ Dial \/ DialSucceeds \/ DialFails \/ SessionLost \/ Stop

Spec == Init /\ [][Next]_vars
=============================================================================
