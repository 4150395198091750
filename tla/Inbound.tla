------------------------------ MODULE Inbound ------------------------------
(***************************************************************************)
(* What the agent makes of the bytes of a link: RHP's frames on the socket *)
(* (rhp/wire.ts, rhp/client.ts), the connect script's text                 *)
(* (agent/connectScript.ts), the switch of phase in connect() and onData() *)
(* (agent/agent.ts), and the WPS frame reader (protocol/codec.ts).         *)
(*                                                                         *)
(* The bytes are tokens: the halves of a hop's `val`, the halves of a WPS  *)
(* frame, a carriage return.  The host cuts them into recv pushes anywhere *)
(* but inside a token, and TCP cuts the pushes' frames into chunks         *)
(* anywhere, also inside a frame's length.  Of the link's other traffic    *)
(* only the replies to the sends of connect() matter here.  A link ends    *)
(* with its socket, and then those sends fail, or by the host's close      *)
(* push, and then the attempt that waits for one resumes late, in the      *)
(* reader and the runner of whatever connection there is.                  *)
(***************************************************************************)
EXTENDS Integers, Sequences, FiniteSets, FiniteSetsExt, Wire

CONSTANTS
  Hops,      \* length of the connect script
  Messages,  \* messages the service sends on a connection
  MaxConns,  \* bound: connections
  MaxPush,   \* bound: tokens in a recv push
  Tail0D,    \* the node ends its last line: a CR follows the final val
  Garbled    \* messages that arrive corrupt

ASSUME HopsAssumption == Hops \in Nat \ {0}
ASSUME MessagesAssumption == Messages \in Nat /\ Garbled \subseteq 1..Messages
ASSUME MaxConnsAssumption == MaxConns \in Nat
ASSUME TailAssumption == Tail0D \in BOOLEAN
ASSUME MaxPushAssumption == MaxPush \in Nat /\ MaxPush < MaxPayload

\* Every hop waits for the same text, as two nodes may both say "Connected".
Val == <<[kind |-> "val1"], [kind |-> "val2"]>>
CR == [kind |-> "CR"]
Junk == [kind |-> "junk"]
Half(n, c, m) == [kind |-> "half", n |-> n, conn |-> c, msg |-> m]

\* What the body of a frame says before its data.
Recv == [kind |-> "recv"]
SendReply == [kind |-> "sendReply"]

Text == {Val[1], Val[2], Junk} \cup {Half(n, c, m) : n \in 1..2, c \in 1..MaxConns, m \in 1..Messages}
Bytes == Text \cup {CR, Recv, SendReply} \cup Sizes
Message(c, m) == [conn |-> c, msg |-> m]
Forged == Message(0, 0)   \* a message nobody sent

VARIABLES
  conn,      \* connections made so far
  at,        \* where connect() stands
  phase,
  hop,       \* the runner's hopIndex
  text,      \* the runner's text
  finished,  \* the runner's finished
  leftover,  \* what the script's promise resolved to
  buffer,    \* the frame reader's buffer
  heard,     \* messages dispatched on this connection
  hung,      \* a frame was refused as corrupt, and the link, if any, closed for it
  split,     \* history: a leftover was ingested behind a frame's beginning
  late,      \* attempts that still wait for a send on a link that a close push ended
  prompted,  \* vals the node has printed
  asked,     \* the connect object: "no", "sent", "replied" (its reply is on the wire)
  sent,      \* tokens the service has sent
  air,       \* tokens the host has not pushed yet
  wire,      \* bytes on the socket
  deframer   \* the deframer's buffer, the chunk's bodies still to be dispatched included

runnerVars == <<hop, text, finished>>
readerVars == <<buffer, heard, hung, split>>
hostVars == <<prompted, asked, sent, air>>
socketVars == <<wire, deframer>>
vars == <<conn, at, phase, runnerVars, leftover, readerVars, late, hostVars, socketVars>>

\* State shape; the frame reader buffers no terminator.
TypeOK ==
  /\ conn \in 0..MaxConns
  /\ at \in {"down", "script", "scriptDone", "sending", "sent", "running"}
  /\ phase \in {"connect", "wps"} /\ finished \in BOOLEAN /\ hung \in BOOLEAN
  /\ hop \in 0..Hops /\ prompted \in 0..Hops
  /\ text \in Seq(Text \cup {CR}) /\ leftover \in Seq(Text \cup {CR})
  /\ buffer \in Seq(Text)
  /\ heard \in Seq([conn : 0..MaxConns, msg : 0..Messages])
  /\ split \in BOOLEAN
  /\ late \subseteq [conn : 1..MaxConns, leftover : Seq(Text \cup {CR})]
  /\ asked \in {"no", "sent", "replied"}
  /\ sent \in 0..(3 * Messages)
  /\ air \in Seq(Text \cup {CR})
  /\ wire \in Seq(Bytes) /\ deframer \in Seq(Bytes)

Init ==
  /\ conn = 0 /\ at = "down" /\ phase = "connect"
  /\ hop = 0 /\ text = <<>> /\ finished = FALSE
  /\ leftover = <<>> /\ buffer = <<>> /\ heard = <<>> /\ hung = FALSE
  /\ split = FALSE /\ late = {}
  /\ prompted = 0 /\ asked = "no" /\ sent = 0
  /\ air = <<>> /\ wire = <<>> /\ deframer = <<>>

\* A continuation waits, and runs when the chunk has been read.
JobPending == at \in {"scriptDone", "sent"}
\* Nothing is left to do before the next event.
Quiet == ~Complete(deframer) /\ ~JobPending

\* The n-th smallest element of a set of positions.
Nth(S, n) == CHOOSE k \in S : Cardinality({j \in S : j <= k}) = n

-----------------------------------------------------------------------------
(* FrameReader and ingest().                                               *)

Terminators(b) == {k \in DOMAIN b : b[k] = CR}
\* Where what comes before k begins: after the last terminator.
Start(b, k) == Max({0} \cup {j \in Terminators(b) : j < k}) + 1

\* The non-empty segments of b that a CR ends.
FrameEnds(b) == {k \in Terminators(b) : Start(b, k) < k}
Segments(b) ==
  [n \in 1..Cardinality(FrameEnds(b)) |->
     LET k == Nth(FrameEnds(b), n) IN SubSeq(b, Start(b, k), k - 1)]

\* Variant of Partial: the slice begins at the last terminator, not after it.
PartialWithCR(b) == SubSeq(b, Max({1} \cup Terminators(b)), Len(b))
\* What follows the last terminator.
Partial(b) == SubSeq(b, Start(b, Len(b) + 1), Len(b))

\* decodeFrame(): the messages a segment may decode to; none: it throws.  Halves of
\* two messages make a frame no checksum guards when it is short, hence plain JSON.
Halves(n) == {Half(n, c, m) : c \in 1..MaxConns, m \in 1..Messages}
Whole(s) == Len(s) = 2 /\ \A n \in 1..2 : s[n] \in Halves(n)
Decodes(s) ==
  IF ~Whole(s) THEN {}
  ELSE IF s[1].conn = s[2].conn /\ s[1].msg = s[2].msg
       THEN {Message(s[1].conn, s[1].msg)} ELSE {Forged}
MayThrow(s) == Decodes(s) \in {{}, {Forged}}

\* Variant of Combined: each chunk is split by itself.
ChunkOnly(chunk) == chunk
Combined(chunk) == buffer \o chunk

\* One segment that throws and nothing of the chunk is dispatched or buffered.
Ingest(chunk) ==
  LET segs == Segments(Combined(chunk)) IN
  \/ /\ \E n \in DOMAIN segs : MayThrow(segs[n])
     /\ hung' = TRUE
     /\ UNCHANGED <<buffer, heard>>
  \/ /\ \A n \in DOMAIN segs : Decodes(segs[n]) # {}
     /\ heard' = heard \o [n \in DOMAIN segs |-> CHOOSE m \in Decodes(segs[n]) : TRUE]
     /\ buffer' = Partial(Combined(chunk))
     /\ UNCHANGED hung

\* The rest of connect(), once the host has taken the connect object.
IngestLeftover(rest) ==
  IF rest = <<>> THEN UNCHANGED readerVars
  ELSE Ingest(rest) /\ split' = (split \/ buffer # <<>>)

-----------------------------------------------------------------------------
(* ConnectScriptRunner.                                                    *)

Matches(t) == {k \in 1..(Len(t) - 1) : t[k] = Val[1] /\ t[k + 1] = Val[2]}

\* The loop of feed(), a hop per turn: matches never overlap, so that the n-th turn
\* finds the n-th match and slices the text behind it.
Turns(t) == Min({Hops - hop, Cardinality(Matches(t))})
\* Variant of Sliced: text without a match is not kept for the next chunk.
OnlyMatched(t, n) == IF n = 0 THEN <<>> ELSE SubSeq(t, Nth(Matches(t), n) + 2, Len(t))
Sliced(t, n) == IF n = 0 THEN t ELSE SubSeq(t, Nth(Matches(t), n) + 2, Len(t))

\* A finished runner ignores what it is fed.
FeedRunner(chunk) ==
  IF finished THEN UNCHANGED <<at, runnerVars, leftover>>
  ELSE LET t == text \o chunk
           n == Turns(t)
       IN  /\ hop' = hop + n /\ text' = Sliced(t, n)
           /\ finished' = (hop' = Hops)
           /\ IF finished' THEN at' = "scriptDone" /\ leftover' = text'
              ELSE UNCHANGED <<at, leftover>>

-----------------------------------------------------------------------------
(* The agent.                                                              *)

\* Variant of Reset: connect() keeps the reader as it is.
NoReset == buffer
Reset == <<>>

Connect ==
  /\ at = "down" /\ conn < MaxConns
  /\ conn' = conn + 1 /\ at' = "script" /\ phase' = "connect"
  /\ hop' = 0 /\ text' = <<>> /\ finished' = FALSE /\ leftover' = <<>>
  /\ buffer' = Reset /\ heard' = <<>> /\ hung' = FALSE /\ split' = FALSE
  /\ prompted' = 0 /\ asked' = "no" /\ sent' = 0 /\ air' = <<>>
  /\ wire' = <<>> /\ deframer' = <<>>
  /\ UNCHANGED late

\* The socket's next chunk, of k bytes.  push() takes the complete bodies off the
\* buffer at once; here each stays until its turn, as nothing comes in between.
Read(k) ==
  /\ at # "down" /\ Quiet /\ k \in 1..Len(wire)
  /\ deframer' = deframer \o SubSeq(wire, 1, k)
  /\ wire' = SubSeq(wire, k + 1, Len(wire))
  /\ UNCHANGED <<conn, at, phase, runnerVars, leftover, readerVars, late, hostVars>>

\* The chunk's next body.
Dispatched(type) ==
  /\ Complete(deframer) /\ Body(deframer)[1] = type
  /\ deframer' = Rest(deframer)

\* A recv push.
HandleRecv ==
  /\ Dispatched(Recv)
  /\ LET chunk == Tail(Body(deframer)) IN
     IF phase = "connect"
     THEN FeedRunner(chunk) /\ UNCHANGED readerVars
     ELSE Ingest(chunk) /\ UNCHANGED <<at, runnerVars, leftover, split>>
  /\ UNCHANGED <<conn, phase, late, hostVars, wire>>

HandleSendReply ==
  /\ Dispatched(SendReply)
  /\ at' = "sent"
  /\ UNCHANGED <<conn, phase, runnerVars, leftover, readerVars, late, hostVars, wire>>

\* Into the WPS phase; the connect object goes out.
ResumeScriptDone ==
  /\ at = "scriptDone" /\ ~Complete(deframer)
  /\ phase' = "wps" /\ asked' = "sent" /\ at' = "sending"
  /\ UNCHANGED <<conn, runnerVars, leftover, readerVars, late, prompted, sent, air, socketVars>>

ResumeSent ==
  /\ at = "sent" /\ ~Complete(deframer) /\ at' = "running"
  /\ IngestLeftover(leftover)
  /\ UNCHANGED <<conn, phase, runnerVars, leftover, late, hostVars, socketVars>>

LinkGone ==
  /\ at' = "down" /\ finished' = TRUE
  /\ air' = <<>> /\ wire' = <<>> /\ deframer' = <<>>
  /\ UNCHANGED <<conn, hop, text, leftover, prompted, asked, sent>>

\* The link ends with its socket: what was on its way is lost, the sends fail.
Drop ==
  /\ at # "down" /\ Quiet /\ LinkGone
  /\ UNCHANGED <<phase, readerVars, late>>

\* The link ends by the host's close push, behind everything else it pushed.  Hops'
\* commands or the connect object may still be without a reply; a continuation that
\* waits runs after the chunk, and the one that would send finds no link.
ClosePush ==
  /\ at # "down" /\ wire = <<>> /\ ~Complete(deframer) /\ LinkGone
  /\ late' = IF at \in {"script", "sending"}
             THEN late \cup {[conn |-> conn, leftover |-> leftover]} ELSE late
  /\ phase' = IF at = "scriptDone" THEN "wps" ELSE phase
  /\ IF at = "sent" THEN IngestLeftover(leftover) ELSE UNCHANGED readerVars

\* The host takes a send of an ended link after all: connect() goes on, in today's reader.
LateReply(l) ==
  /\ Quiet /\ late' = late \ {l}
  /\ IngestLeftover(l.leftover)
  /\ UNCHANGED <<conn, at, phase, runnerVars, leftover, hostVars, socketVars>>

\* Or it fails: connect() cancels today's runner.
LateFail(l) ==
  /\ Quiet /\ late' = late \ {l}
  /\ finished' = TRUE
  /\ UNCHANGED <<conn, at, phase, hop, text, leftover, readerVars, hostVars, socketVars>>

-----------------------------------------------------------------------------
(* The node, the service and the RHP host: external.                       *)

\* The node's answer to a hop's command.
Prompt ==
  /\ at # "down" /\ Quiet /\ prompted <= hop /\ prompted < Hops
  /\ prompted' = prompted + 1
  /\ air' = air \o Val \o (IF Tail0D /\ prompted + 1 = Hops THEN <<CR>> ELSE <<>>)
  /\ UNCHANGED <<conn, at, phase, runnerVars, leftover, readerVars, late, asked, sent, socketVars>>

AnswerSend ==
  /\ at = "sending" /\ Quiet /\ asked = "sent"
  /\ asked' = "replied" /\ wire' = wire \o Framed(<<SendReply>>)
  /\ UNCHANGED <<conn, at, phase, runnerVars, leftover, readerVars, late, prompted, sent,
                 air, deframer>>

\* The host pushes the first n tokens it has.
Push(n) ==
  /\ Quiet /\ n \in 1..Len(air)
  /\ air' = SubSeq(air, n + 1, Len(air))
  /\ wire' = wire \o Framed(<<Recv>> \o SubSeq(air, 1, n))
  /\ UNCHANGED <<conn, at, phase, runnerVars, leftover, readerVars, late, prompted, asked,
                 sent, deframer>>

\* The n-th token of the service's stream on connection c: message m is tokens 3m - 2, 3m - 1, 3m.
Token(c, n) ==
  LET m == (n + 2) \div 3
      part == n - 3 * (m - 1)
  IN  IF part = 3 THEN CR
      ELSE IF part = 2 /\ m \in Garbled THEN Junk ELSE Half(part, c, m)

\* The service speaks once it has the connect object.
ServiceSends ==
  /\ at # "down" /\ Quiet /\ asked = "replied" /\ sent < 3 * Messages
  /\ sent' = sent + 1 /\ air' = Append(air, Token(conn, sent + 1))
  /\ UNCHANGED <<conn, at, phase, runnerVars, leftover, readerVars, late, prompted, asked,
                 socketVars>>

Next ==
  \/ Connect \/ HandleRecv \/ HandleSendReply \/ ResumeScriptDone \/ ResumeSent
  \/ Drop \/ ClosePush
  \/ \E l \in late : LateReply(l) \/ LateFail(l)
  \/ Prompt \/ AnswerSend \/ ServiceSends
  \/ \E n \in 1..MaxPush : Push(n)
  \/ \E k \in DOMAIN wire : Read(k)

Spec == Init /\ [][Next]_vars

-----------------------------------------------------------------------------
(* Properties.                                                             *)

\* Everything the node and the service said has been read.
AllRead == Quiet /\ air = <<>> /\ wire = <<>>

\* The runner answers each prompt exactly once, however it was cut: it never sends a
\* hop's command before the prompt it waits for, and misses none it was given, unless
\* the late failure of an earlier attempt has cancelled it.
ScriptInStep ==
  /\ hop <= prompted
  /\ at = "script" /\ ~finished /\ AllRead => hop = prompted

\* Until a frame is refused as corrupt, the messages dispatched are the service's on
\* this connection, in order and without gaps or repeats: nothing of an earlier
\* connection, of the script's text or of another cut of the bytes shows.  And a frame
\* is refused only if it was corrupt, or a leftover, of this attempt or a late one's,
\* was put behind its beginning.
HeardInOrder ==
  /\ ~hung => heard = [n \in DOMAIN heard |-> Message(conn, n)]
  /\ hung => split \/ \E m \in Garbled : sent >= 3 * m

\* A message whose last byte was read has been dispatched, whatever it was cut into.
\* (A leftover CR that comes late may end a frame before its own CR does.)
NothingHeldBack ==
  at = "running" /\ AllRead /\ ~hung => Len(heard) >= sent \div 3

=============================================================================
