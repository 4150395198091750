------------------------------ MODULE RhpLink -------------------------------
(***************************************************************************)
(* The transport seam (rhp/transport.ts): what opening a link through an   *)
(* RHP host promises the agent.  open() either fails or hands over a link; *)
(* a link delivers bytes until its close is announced, which happens once; *)
(* and every send settles exactly once.                                    *)
(***************************************************************************)
CONSTANT Sends

VARIABLES
  state,  \* "opening", "failed", "up", "down": close was announced
  sent    \* where each send's promise stands

vars == <<state, sent>>

Init == state = "opening" /\ sent = [s \in Sends |-> "unsent"]

Opened == state = "opening" /\ state' = "up" /\ UNCHANGED sent

OpenFailed == state = "opening" /\ state' = "failed" /\ UNCHANGED sent

\* A send is accepted for delivery, or rejected at once on a dead transport.
Send(s) ==
  /\ state \in {"up", "down"} /\ sent[s] = "unsent"
  /\ sent' \in {[sent EXCEPT ![s] = r] : r \in {"waiting", "failed"}}
  /\ UNCHANGED state

\* Replies and timeouts settle sends one by one, before or after the close.
Settle(s) ==
  /\ sent[s] = "waiting"
  /\ sent' \in {[sent EXCEPT ![s] = r] : r \in {"accepted", "failed"}}
  /\ UNCHANGED state

\* The close is announced: alone, or with the failure of all that was waiting.
AllFailed == [s \in Sends |-> IF sent[s] = "waiting" THEN "failed" ELSE sent[s]]

Down == state = "up" /\ state' = "down" /\ sent' \in {sent, AllFailed}

\* The transport ends under a link whose close was announced already.
Ends == state = "down" /\ sent' = AllFailed /\ UNCHANGED state

Next == Opened \/ OpenFailed \/ Down \/ Ends \/ \E s \in Sends : Send(s) \/ Settle(s)

Spec == Init /\ [][Next]_vars
=============================================================================
