--------------------------- MODULE InboundProofs ---------------------------
(***************************************************************************)
(* Proofs about Inbound, for every base of the length, every script, every *)
(* number of messages and every cut of the bytes: the type invariant, that *)
(* the runner stays in step with the node, that messages are dispatched in *)
(* order and that none is held back.                                       *)
(*                                                                         *)
(* The bytes between the host and the agent carry what the host pushed     *)
(* (Carries, the least relation that relates frames in a row to what they  *)
(* say).  With what the host still holds, that is what the agent has yet   *)
(* to read, and IInv says what it is: in the script, the rest of the       *)
(* node's answer; after it, the rest of the service's stream, from the     *)
(* token that follows what has been heard and buffered.                    *)
(***************************************************************************)
EXTENDS Inbound, FiniteSetTheorems, FunctionTheorems, SequenceTheorems,
        WellFoundedInduction, TLAPS

Said == Text \cup {CR}
Stream == deframer \o wire

-----------------------------------------------------------------------------
(* Frames in a row.                                                        *)

Pushes == {x \in Seq(Said) : Len(x) \in 1..MaxPush}

\* The body of a frame on the link and what it adds to what was said.
Frames == {<<<<SendReply>>, <<>>>>} \cup {<<<<Recv>> \o x, x>> : x \in Pushes}

Joined(f, p) == <<Framed(f[1]) \o p[1], f[2] \o p[2]>>
Nothing == <<<<>>, <<>>>>
Closed(R) == Nothing \in R /\ \A f \in Frames, p \in R : Joined(f, p) \in R

Streams == Seq(Bytes) \X Seq(Said)
Carries == {p \in Streams : \A R \in SUBSET Streams : Closed(R) => p \in R}

-----------------------------------------------------------------------------
(* The invariant.                                                          *)

\* What the node says to the n-th hop.
Answer(n) == Val \o (IF Tail0D /\ n = Hops THEN <<CR>> ELSE <<>>)

\* The stages of connect().
InScript == at \in {"script", "scriptDone"}
InWps == at \in {"sending", "sent", "running"}

NoReply(s) == \A k \in 1..Len(s) : s[k] # SendReply

\* The rest of the service's stream begins after its p-th token; the messages heard and
\* the tokens in the buffer are what came before, but for the terminator of a frame
\* that a leftover has ended before its own did.
ReadUpTo(p) ==
  \/ /\ Len(buffer) <= 2 /\ p = 3 * Len(heard) + Len(buffer)
     /\ \A k \in 1..Len(buffer) : buffer[k] = Token(conn, 3 * Len(heard) + k)
  \/ buffer = <<>> /\ p = 3 * Len(heard) - 1
\* It does so too when the link is down: a late attempt may still feed the reader.
HasRead == ~hung => \E p \in Int : p <= sent /\ ReadUpTo(p)

StageInv ==
  /\ at # "down" \/ late # {} => conn >= 1
  /\ \A l \in late : l.leftover \in {<<>>, <<CR>>}
  /\ InScript => /\ phase = "connect" /\ asked = "no" /\ sent = 0
                 /\ buffer = <<>> /\ heard = <<>> /\ ~hung
  /\ InWps => phase = "wps" /\ asked # "no"
  /\ at \notin {"script", "down"} => finished
  /\ at = "down" => air = <<>> /\ wire = <<>> /\ deframer = <<>> /\ HasRead
  /\ asked # "replied" => NoReply(Stream)

\* The runner against the node, rest being what the agent has yet to read.  A runner
\* that a late failure has cancelled ignores it.
RunnerInv(rest) ==
  /\ hop <= prompted /\ leftover \in {<<>>, <<CR>>}
  /\ at = "script" /\ ~finished =>
                      /\ hop < Hops /\ prompted \in {hop, hop + 1} /\ Len(text) <= 1
                      /\ text \o rest = IF prompted = hop THEN <<>> ELSE Answer(prompted)
  /\ at = "scriptDone" => rest \in {<<>>, <<CR>>}
  /\ at \notin {"script", "down"} => prompted = Hops

ReaderInv(rest) ==
  InWps /\ ~hung =>
    LET p == sent - Len(rest) IN
    /\ ReadUpTo(p)
    /\ \A k \in 1..Len(rest) : rest[k] = Token(conn, p + k)

\* What is on its way between the host and the agent says this.
Follows(said) ==
  /\ <<Stream, said>> \in Carries
  /\ RunnerInv(said \o air) /\ ReaderInv(said \o air)

IInv == TypeOK /\ StageInv /\ HeardInOrder /\ \E said : Follows(said)

-----------------------------------------------------------------------------
(* Concatenations of bytes.                                                *)

LEMMA Associates ==
  /\ \A a, b, c \in Seq(Bytes) : (a \o b) \o c = a \o (b \o c)
  /\ \A a, b, c \in Seq(Said) : (a \o b) \o c = a \o (b \o c)
  <1>1. \A a, b, c \in Seq(Bytes) : (a \o b) \o c = a \o (b \o c)
    BY ConcatAssociative
  <1>2. \A a, b, c \in Seq(Said) : (a \o b) \o c = a \o (b \o c)
    BY ConcatAssociative
  <1> QED BY <1>1, <1>2

LEMMA CancelLeft ==
  \A a, b, c \in Seq(Bytes) : a \o b = a \o c => b = c
  BY ConcatSimplifications

-----------------------------------------------------------------------------
(* The length's two bytes, and a frame at the head of the stream.          *)

\* The two bytes of a length are bytes and give the length again.
LEMMA SizeOfSize ==
  ASSUME NEW n \in 0..MaxPayload
  PROVE  \E h \in 0..(Base - 1), l \in 0..(Base - 1) :
            h = n \div Base /\ l = n % Base /\ Base * h + l = n
  <1>0. PICK q, r : q = n \div Base /\ r = n % Base
    OBVIOUS
  <1>1. Base \in Nat \ {0} /\ MaxPayload = Base * Base - 1 /\ Base * Base \in Nat
    BY BaseAssumption DEF MaxPayload
  <1>2. n \in Nat /\ n < Base * Base
    BY <1>1
  <1>3. q \in Int /\ r \in 0..(Base - 1)
    BY <1>0, <1>1, <1>2
  <1>4. n = Base * q + r
    BY <1>0, <1>1, <1>2
  <1>5. Base * q \in Int /\ (q >= Base => Base * q >= Base * Base) /\ (q <= -1 => Base * q <= -Base)
    BY <1>1, <1>3
  <1>6. q \in 0..(Base - 1)
    BY <1>1, <1>2, <1>3, <1>4, <1>5
  <1>7. q \in 0..(Base - 1) /\ r \in 0..(Base - 1) /\ Base * q + r = n
    BY <1>3, <1>4, <1>6
  <1> QED BY <1>0, <1>7

LEMMA BytesAre ==
  /\ Recv \in Bytes /\ SendReply \in Bytes /\ Said \subseteq Bytes
  /\ \A n \in 0..(Base - 1) : Size(n) \in Bytes /\ Size(n).n = n /\ Size(n) # SendReply
  /\ Recv # SendReply /\ Recv \notin Said /\ SendReply \notin Said
  /\ CR \notin Text /\ CR \in Said
  <1>1. Recv \in Bytes /\ SendReply \in Bytes /\ Said \subseteq Bytes
    BY DEF Bytes, Said
  <1>2. \A n \in 0..(Base - 1) : Size(n) \in Bytes /\ Size(n).n = n
    BY DEF Bytes, Sizes, Size
  <1>3. /\ \A n : Size(n).kind = "size"
        /\ SendReply.kind = "sendReply" /\ Recv.kind = "recv" /\ CR.kind = "CR"
    BY DEF Size, SendReply, Recv, CR
  <1>4. \A t \in Text : t.kind \in {"val1", "val2", "junk", "half"}
    BY DEF Text, Val, Junk, Half
  <1>5. \A n : Size(n) # SendReply
    BY <1>3
  <1>6. \A t \in Text : t # Recv /\ t # SendReply /\ t # CR
    BY <1>3, <1>4
  <1>7. Recv # SendReply /\ CR # Recv /\ CR # SendReply
    BY <1>3
  <1> QED BY <1>1, <1>2, <1>5, <1>6, <1>7 DEF Said

LEMMA FramedIs ==
  ASSUME NEW body \in Seq(Bytes), Len(body) <= MaxPayload
  PROVE  /\ Framed(body) \in Seq(Bytes) /\ Len(Framed(body)) = Len(body) + 2
         /\ Base * Framed(body)[1].n + Framed(body)[2].n = Len(body)
         /\ Framed(body)[1] # SendReply /\ Framed(body)[2] # SendReply
         /\ \A k \in 1..Len(body) : Framed(body)[k + 2] = body[k]
  <1>1. Len(body) \in 0..MaxPayload
    BY BaseAssumption DEF MaxPayload
  <1>2. PICK h \in 0..(Base - 1), l \in 0..(Base - 1) :
          h = Len(body) \div Base /\ l = Len(body) % Base /\ Base * h + l = Len(body)
    BY <1>1, SizeOfSize
  <1> DEFINE hi == Size(h)
             lo == Size(l)
  <1>3. /\ hi \in Bytes /\ lo \in Bytes /\ hi # SendReply /\ lo # SendReply
        /\ hi.n = h /\ lo.n = l
    BY BytesAre
  <1>4. Framed(body) = <<hi, lo>> \o body
    BY <1>2 DEF Framed
  <1> HIDE DEF hi, lo
  <1>5. <<hi, lo>> \in Seq(Bytes) /\ Len(<<hi, lo>>) = 2
    BY <1>3
  <1>6. /\ Framed(body) \in Seq(Bytes) /\ Len(Framed(body)) = Len(body) + 2
        /\ \A k \in 1..(2 + Len(body)) :
             Framed(body)[k] = IF k <= 2 THEN <<hi, lo>>[k] ELSE body[k - 2]
    BY <1>4, <1>5, ConcatProperties
  <1>7. Framed(body)[1] = hi /\ Framed(body)[2] = lo
    BY <1>6
  <1>8. \A k \in 1..Len(body) : Framed(body)[k + 2] = body[k]
    BY <1>6
  <1>9. Base * Framed(body)[1].n + Framed(body)[2].n = Len(body)
    BY <1>2, <1>3, <1>7
  <1> QED BY <1>3, <1>6, <1>7, <1>8, <1>9

\* A frame's body is a reply, or a push and what it says.
LEMMA BodyIs ==
  ASSUME NEW f \in Frames
  PROVE  /\ f[1] \in Seq(Bytes) /\ f[2] \in Seq(Said)
         /\ Len(f[1]) \in 1..MaxPayload
         /\ \/ f[1] = <<SendReply>> /\ f[1][1] = SendReply /\ f[2] = <<>>
            \/ f[1] = <<Recv>> \o f[2] /\ f[1][1] = Recv /\ Tail(f[1]) = f[2] /\ f[2] \in Pushes
  <1>0. MaxPayload \in Nat /\ MaxPayload >= 1
    <2>1. Base \in Nat /\ Base >= 2
      BY BaseAssumption
    <2>2. Base * Base \in Nat /\ Base * Base >= 2 * Base
      BY <2>1
    <2> QED BY <2>1, <2>2 DEF MaxPayload
  <1>1. CASE f = <<<<SendReply>>, <<>>>>
    <2>1. f[1] = <<SendReply>> /\ f[2] = <<>>
      BY <1>1
    <2>2. <<SendReply>> \in Seq(Bytes) /\ Len(<<SendReply>>) = 1 /\ <<SendReply>>[1] = SendReply
      BY BytesAre
    <2>3. <<>> \in Seq(Said)
      OBVIOUS
    <2> QED BY <1>0, <2>1, <2>2, <2>3
  <1>2. ASSUME NEW x \in Pushes, f = <<<<Recv>> \o x, x>>
        PROVE  /\ f[1] \in Seq(Bytes) /\ f[2] \in Seq(Said)
               /\ Len(f[1]) \in 1..MaxPayload
               /\ f[1] = <<Recv>> \o f[2] /\ f[1][1] = Recv /\ Tail(f[1]) = f[2] /\ f[2] \in Pushes
    <2>1. f[1] = <<Recv>> \o x /\ f[2] = x
      BY <1>2
    <2>2. x \in Seq(Said) /\ Len(x) \in 1..MaxPush
      BY DEF Pushes
    <2>3. x \in Seq(Bytes) /\ <<Recv>> \in Seq(Bytes) /\ Len(<<Recv>>) = 1 /\ <<Recv>>[1] = Recv
      BY <2>2, BytesAre, SeqMonotonic
    <2>4. /\ <<Recv>> \o x \in Seq(Bytes) /\ Len(<<Recv>> \o x) = 1 + Len(x)
          /\ \A k \in 1..(1 + Len(x)) :
               (<<Recv>> \o x)[k] = IF k <= 1 THEN <<Recv>>[k] ELSE x[k - 1]
      BY <2>3, ConcatProperties
    <2> DEFINE b == <<Recv>> \o x
    <2>5. b \in Seq(Bytes) /\ Len(b) = 1 + Len(x) /\ b[1] = Recv /\ b # <<>>
      BY <2>2, <2>3, <2>4
    <2>6. \A k \in 1..Len(x) : b[k + 1] = x[k]
      BY <2>2, <2>4
    <2> HIDE DEF b
    <2>7. Tail(b) \in Seq(Bytes) /\ Len(Tail(b)) = Len(x) /\ \A k \in 1..Len(Tail(b)) : Tail(b)[k] = b[k + 1]
      BY <2>2, <2>5, HeadTailProperties
    <2>8. Tail(b) = x
      BY <2>3, <2>6, <2>7, SeqEqual
    <2>9. Len(b) \in 1..MaxPayload
      BY <1>0, <2>2, <2>5, MaxPushAssumption
    <2> QED BY <2>1, <2>2, <2>5, <2>8, <2>9 DEF b
  <1> QED BY <1>1, <1>2 DEF Frames

LEMMA FrameIs ==
  ASSUME NEW f \in Frames
  PROVE  /\ Framed(f[1]) \in Seq(Bytes) /\ Len(Framed(f[1])) = Len(f[1]) + 2
         /\ Base * Framed(f[1])[1].n + Framed(f[1])[2].n = Len(f[1])
         /\ Framed(f[1])[1] # SendReply /\ Framed(f[1])[2] # SendReply
         /\ \A k \in 1..Len(f[1]) : Framed(f[1])[k + 2] = f[1][k]
  <1>1. f[1] \in Seq(Bytes) /\ Len(f[1]) \in 1..MaxPayload /\ Len(f[1]) \in Nat
    BY BodyIs
  <1>2. Len(f[1]) <= MaxPayload /\ Len(f[1]) \in 0..MaxPayload
    BY <1>1
  <1> QED BY <1>1, <1>2, FramedIs

LEMMA JoinedIs ==
  ASSUME NEW f \in Frames, NEW p \in Streams
  PROVE  /\ Joined(f, p) \in Streams
         /\ Joined(f, p)[1] = Framed(f[1]) \o p[1] /\ Joined(f, p)[2] = f[2] \o p[2]
  <1>1. p[1] \in Seq(Bytes) /\ p[2] \in Seq(Said)
    BY DEF Streams
  <1>2. Framed(f[1]) \in Seq(Bytes) /\ f[2] \in Seq(Said)
    BY FrameIs, BodyIs
  <1>3. Framed(f[1]) \o p[1] \in Seq(Bytes) /\ f[2] \o p[2] \in Seq(Said)
    BY <1>1, <1>2, ConcatProperties
  <1> QED BY <1>3 DEF Joined, Streams

LEMMA NothingIs == Nothing \in Streams /\ Nothing[1] = <<>> /\ Nothing[2] = <<>>
  <1>1. <<>> \in Seq(Bytes) /\ <<>> \in Seq(Said)
    OBVIOUS
  <1>2. <<<<>>, <<>>>> \in Seq(Bytes) \X Seq(Said)
    BY <1>1
  <1> QED BY <1>2 DEF Nothing, Streams

\* Frames in a row carry what they say one after the other, and nothing else does.
LEMMA CarriesClosed == Closed(Carries)
  <1>1. Nothing \in Carries
    BY NothingIs DEF Carries, Closed
  <1>2. ASSUME NEW f \in Frames, NEW p \in Carries
        PROVE  Joined(f, p) \in Carries
    <2>1. p \in Streams /\ \A R \in SUBSET Streams : Closed(R) => p \in R
      BY DEF Carries
    <2>2. Joined(f, p) \in Streams
      BY <2>1, JoinedIs
    <2>3. ASSUME NEW R \in SUBSET Streams, Closed(R)
          PROVE  Joined(f, p) \in R
      BY <2>1, <2>3 DEF Closed
    <2> QED BY <2>2, <2>3 DEF Carries
  <1> QED BY <1>1, <1>2 DEF Closed

LEMMA CarriesLeast ==
  ASSUME NEW R \in SUBSET Streams, Closed(R), NEW p \in Carries
  PROVE  p \in R
  BY DEF Carries

\* The first frame.
LEMMA CarriesHead ==
  ASSUME NEW p \in Carries
  PROVE  p = Nothing \/ \E f \in Frames, q \in Carries : p = Joined(f, q)
  <1> DEFINE Starts(r) == r = Nothing \/ \E f \in Frames, q \in Carries : r = Joined(f, q)
             R == {r \in Carries : Starts(r)}
  <1>1. R \in SUBSET Streams
    BY DEF Carries
  <1>2. Nothing \in R
    BY CarriesClosed DEF Closed
  <1>3. ASSUME NEW f \in Frames, NEW r \in R
        PROVE  Joined(f, r) \in R
    <2>1. r \in Carries
      OBVIOUS
    <2>2. Joined(f, r) \in Carries
      BY <2>1, CarriesClosed DEF Closed
    <2> QED BY <2>1, <2>2
  <1>4. Closed(R)
    BY <1>2, <1>3 DEF Closed
  <1>5. p \in R
    BY <1>1, <1>4, CarriesLeast
  <1> QED BY <1>5

\* A frame more at the end.
Ended(p, f) == <<p[1] \o Framed(f[1]), p[2] \o f[2]>>

LEMMA EndedJoined ==
  ASSUME NEW f \in Frames, NEW g \in Frames, NEW p \in Streams
  PROVE  Ended(Joined(f, p), g) = Joined(f, Ended(p, g))
  <1>1. p[1] \in Seq(Bytes) /\ p[2] \in Seq(Said)
    BY DEF Streams
  <1>2. /\ Framed(f[1]) \in Seq(Bytes) /\ f[2] \in Seq(Said)
        /\ Framed(g[1]) \in Seq(Bytes) /\ g[2] \in Seq(Said)
    BY FrameIs, BodyIs
  <1>a. \A a, b, c \in Seq(Bytes) : (a \o b) \o c = a \o (b \o c)
    BY ConcatAssociative
  <1>b. \A a, b, c \in Seq(Said) : (a \o b) \o c = a \o (b \o c)
    BY ConcatAssociative
  <1>3. (Framed(f[1]) \o p[1]) \o Framed(g[1]) = Framed(f[1]) \o (p[1] \o Framed(g[1]))
    BY <1>1, <1>2, <1>a
  <1>4. (f[2] \o p[2]) \o g[2] = f[2] \o (p[2] \o g[2])
    BY <1>1, <1>2, <1>b
  <1>5. Joined(f, p)[1] = Framed(f[1]) \o p[1] /\ Joined(f, p)[2] = f[2] \o p[2]
    BY JoinedIs
  <1>6. Ended(p, g)[1] = p[1] \o Framed(g[1]) /\ Ended(p, g)[2] = p[2] \o g[2]
    BY DEF Ended
  <1>7. Ended(Joined(f, p), g) = <<Joined(f, p)[1] \o Framed(g[1]), Joined(f, p)[2] \o g[2]>>
    BY DEF Ended
  <1>8. Joined(f, Ended(p, g)) = <<Framed(f[1]) \o Ended(p, g)[1], f[2] \o Ended(p, g)[2]>>
    BY DEF Joined
  <1> QED BY <1>3, <1>4, <1>5, <1>6, <1>7, <1>8

LEMMA CarriesEnded ==
  ASSUME NEW p \in Carries, NEW g \in Frames
  PROVE  Ended(p, g) \in Carries
  <1> DEFINE R == {r \in Carries : Ended(r, g) \in Carries}
  <1>0. Carries \subseteq Streams
    BY DEF Carries
  <1>1. R \in SUBSET Streams
    BY <1>0
  <1>2. Nothing \in R
    <2>1. Framed(g[1]) \in Seq(Bytes) /\ g[2] \in Seq(Said)
      BY FrameIs, BodyIs
    <2>2. /\ <<>> \o Framed(g[1]) = Framed(g[1]) \o <<>>
          /\ <<>> \o g[2] = g[2] \o <<>>
      BY <2>1, ConcatEmptySeq
    <2>3. Ended(Nothing, g) = Joined(g, Nothing)
      BY <2>2, NothingIs DEF Ended, Joined
    <2> QED BY <2>3, CarriesClosed DEF Closed
  <1>3. ASSUME NEW f \in Frames, NEW r \in R
        PROVE  Joined(f, r) \in R
    <2>1. r \in Carries /\ r \in Streams /\ Ended(r, g) \in Carries
      BY <1>0
    <2>2. Joined(f, r) \in Carries /\ Joined(f, Ended(r, g)) \in Carries
      BY <2>1, CarriesClosed DEF Closed
    <2>3. Ended(Joined(f, r), g) = Joined(f, Ended(r, g))
      BY <2>1, EndedJoined
    <2> QED BY <2>2, <2>3
  <1>4. Closed(R)
    BY <1>2, <1>3 DEF Closed
  <1>5. p \in R
    BY <1>1, <1>4, CarriesLeast
  <1> QED BY <1>5

\* A complete body in the buffer is that of the stream's first frame.
Begins(b, w, said, f, q) ==
  /\ Body(b) = f[1] /\ Rest(b) \in Seq(Bytes) /\ Rest(b) \o w = q[1]
  /\ b \o w = Framed(f[1]) \o q[1] /\ said = f[2] \o q[2]

LEMMA BodyFirst ==
  ASSUME NEW b \in Seq(Bytes), NEW w \in Seq(Bytes), NEW said,
         <<b \o w, said>> \in Carries, Complete(b)
  PROVE  \E f \in Frames, q \in Carries : Begins(b, w, said, f, q)
  <1>0. PICK s : s = b \o w
    OBVIOUS
  <1>1. /\ s \in Seq(Bytes) /\ Len(s) = Len(b) + Len(w)
        /\ \A k \in 1..(Len(b) + Len(w)) : s[k] = IF k <= Len(b) THEN b[k] ELSE w[k - Len(b)]
    BY <1>0, ConcatProperties
  <1>2. Len(b) >= 2 /\ Len(b) \in Nat /\ Len(w) \in Nat /\ Len(b) - 2 >= Length(b)
    BY DEF Complete
  <1>3. <<s, said>> \in Carries /\ <<s, said>> # Nothing
    <2>1. s # <<>>
      BY <1>1, <1>2
    <2> QED BY <1>0, <2>1 DEF Nothing
  <1>4. PICK f \in Frames, q \in Carries : <<s, said>> = Joined(f, q)
    BY <1>3, CarriesHead
  <1>5. q \in Streams /\ q[1] \in Seq(Bytes) /\ q[2] \in Seq(Said)
    BY DEF Carries, Streams
  <1> DEFINE L == Len(f[1])
  <1>6. PICK F, r : F = Framed(f[1]) /\ r = q[1]
    OBVIOUS
  <1>7. /\ F \in Seq(Bytes) /\ Len(F) = L + 2 /\ Base * F[1].n + F[2].n = L
        /\ f[1] \in Seq(Bytes) /\ L \in Nat /\ L >= 1 /\ r \in Seq(Bytes) /\ Len(r) \in Nat
        /\ \A k \in 1..L : F[k + 2] = f[1][k]
    <2>1. f[1] \in Seq(Bytes) /\ Len(f[1]) \in Nat /\ Len(f[1]) >= 1
      BY BodyIs
    <2>2. /\ Framed(f[1]) \in Seq(Bytes) /\ Len(Framed(f[1])) = L + 2
          /\ Base * Framed(f[1])[1].n + Framed(f[1])[2].n = L
          /\ \A k \in 1..L : Framed(f[1])[k + 2] = f[1][k]
      BY FrameIs
    <2>3. r \in Seq(Bytes) /\ Len(r) \in Nat
      BY <1>5, <1>6
    <2> QED BY <1>6, <2>1, <2>2, <2>3
  <1>8. s = F \o r /\ said = f[2] \o q[2]
    <2>1. PICK x, y : x = F \o r /\ y = f[2] \o q[2]
      OBVIOUS
    <2>2. Joined(f, q) = <<x, y>>
      BY <2>1, <1>6 DEF Joined
    <2>3. s = x /\ said = y
      BY <2>2, <1>4
    <2> QED BY <2>1, <2>3
  <1> HIDE DEF L
  <1>9. \A k \in 1..(L + 2) : s[k] = F[k]
    <2>1. \A k \in 1..(Len(F) + Len(r)) : s[k] = IF k <= Len(F) THEN F[k] ELSE r[k - Len(F)]
      BY <1>7, <1>8, ConcatProperties
    <2>2. ASSUME NEW k \in 1..(L + 2)
          PROVE  s[k] = F[k]
      <3>1. k \in 1..(Len(F) + Len(r)) /\ k <= Len(F)
        BY <1>7
      <3> QED BY <2>1, <3>1
    <2> QED BY <2>2
  <1>10. Length(b) = L
    <2>1. b[1] = s[1] /\ b[2] = s[2]
      BY <1>1, <1>2
    <2>2. s[1] = F[1] /\ s[2] = F[2]
      BY <1>7, <1>9
    <2> QED BY <2>1, <2>2, <1>7 DEF Length
  <1>11. L + 2 <= Len(b)
    BY <1>2, <1>7, <1>10
  <1>12. \A k \in 1..(L + 2) : b[k] = F[k]
    <2>1. \A k \in 1..(L + 2) : b[k] = s[k]
      BY <1>1, <1>2, <1>7, <1>11
    <2> QED BY <2>1, <1>9
  <1>13. SubSeq(b, 3, L + 2) = f[1]
    <2>a. \A k \in 3..(L + 2) : b[k] \in Bytes
      BY <1>2, <1>7, <1>11, ElementOfSeq
    <2>1. /\ SubSeq(b, 3, L + 2) \in Seq(Bytes)
          /\ Len(SubSeq(b, 3, L + 2)) = IF 3 <= L + 2 THEN (L + 2) - 3 + 1 ELSE 0
          /\ \A k \in 1..((L + 2) - 3 + 1) : SubSeq(b, 3, L + 2)[k] = b[3 + k - 1]
      BY <2>a, <1>7, SubSeqProperties
    <2>2. Len(SubSeq(b, 3, L + 2)) = L
      BY <1>7, <2>1
    <2>3. \A k \in 1..L : SubSeq(b, 3, L + 2)[k] = b[k + 2]
      BY <1>7, <2>1
    <2>4. \A k \in 1..L : b[k + 2] = F[k + 2]
      BY <1>7, <1>12
    <2>5. \A k \in 1..L : SubSeq(b, 3, L + 2)[k] = f[1][k]
      BY <2>3, <2>4, <1>7
    <2> QED BY <2>1, <2>2, <2>5, <1>7, SeqEqual DEF L
  <1>14. PICK rest : rest = SubSeq(b, L + 3, Len(b))
    OBVIOUS
  <1>15. rest \in Seq(Bytes) /\ b = F \o rest
    <2>a. PICK front : front = SubSeq(b, 1, L + 2)
      OBVIOUS
    <2>1. front \o rest = b
      <3>1. SubSeq(b, 1, L + 2) \o SubSeq(b, (L + 2) + 1, Len(b)) = SubSeq(b, 1, Len(b))
        <4>1. 1 \in 1..(Len(b) + 1) /\ L + 2 \in (1 - 1)..Len(b) /\ Len(b) \in (L + 2)..Len(b)
          BY <1>2, <1>7, <1>11
        <4> QED BY <4>1, ConcatAdjacentSubSeq
      <3>2. (L + 2) + 1 = L + 3 /\ SubSeq(b, 1, Len(b)) = b
        BY <1>7, SubSeqFull
      <3> QED BY <3>1, <3>2, <2>a, <1>14
    <2>b. \A k \in 1..(L + 2) : b[k] \in Bytes
      BY <1>2, <1>7, <1>11, ElementOfSeq
    <2>2. /\ front \in Seq(Bytes) /\ Len(front) = L + 2
          /\ \A k \in 1..(L + 2) : front[k] = b[k]
      <3>1. /\ SubSeq(b, 1, L + 2) \in Seq(Bytes)
            /\ Len(SubSeq(b, 1, L + 2)) = IF 1 <= L + 2 THEN (L + 2) - 1 + 1 ELSE 0
            /\ \A k \in 1..((L + 2) - 1 + 1) : SubSeq(b, 1, L + 2)[k] = b[1 + k - 1]
        BY <2>b, <1>7, SubSeqProperties
      <3> QED BY <3>1, <2>a, <1>7
    <2>3. \A k \in 1..Len(front) : front[k] = F[k]
      BY <2>2, <1>7, <1>12
    <2>4. front = F
      BY <2>2, <2>3, <1>7, SeqEqual
    <2>c. \A k \in (L + 3)..Len(b) : b[k] \in Bytes
      BY <1>2, <1>7, <1>11, ElementOfSeq
    <2>5. rest \in Seq(Bytes)
      <3>1. L + 3 \in Int /\ Len(b) \in Int
        BY <1>2, <1>7
      <3>2. SubSeq(b, L + 3, Len(b)) \in Seq(Bytes)
        BY <2>c, <3>1, SubSeqProperties
      <3> QED BY <1>14, <3>2
    <2> QED BY <2>1, <2>4, <2>5
  <1>16. rest \o w = q[1]
    <2>1. (F \o rest) \o w = F \o (rest \o w)
      <3>1. F \in Seq(Bytes) /\ rest \in Seq(Bytes)
        BY <1>7, <1>15
      <3> QED BY <3>1, Associates
    <2>2. rest \o w \in Seq(Bytes)
      BY <1>15, ConcatProperties
    <2>3. F \o (rest \o w) = F \o r
      BY <2>1, <1>0, <1>15, <1>8
    <2> QED BY <2>2, <2>3, <1>6, <1>7, CancelLeft
  <1>17. Body(b) = f[1] /\ Rest(b) = rest
    BY <1>10, <1>13, <1>14 DEF Body, Rest
  <1>18. Begins(b, w, said, f, q)
    BY <1>0, <1>6, <1>8, <1>15, <1>16, <1>17 DEF Begins
  <1> QED BY <1>18

\* Without a complete body and without anything more to read there is nothing left.
LEMMA AllTaken ==
  ASSUME NEW b \in Seq(Bytes), NEW said, <<b, said>> \in Carries, ~Complete(b)
  PROVE  b = <<>> /\ said = <<>>
  <1>1. ASSUME NEW f \in Frames, NEW q \in Carries, <<b, said>> = Joined(f, q)
        PROVE  FALSE
    <2> DEFINE L == Len(f[1])
    <2>1. q \in Streams /\ q[1] \in Seq(Bytes)
      BY DEF Carries, Streams
    <2>2. PICK F, r : F = Framed(f[1]) /\ r = q[1]
      OBVIOUS
    <2>3. /\ F \in Seq(Bytes) /\ Len(F) = L + 2 /\ Base * F[1].n + F[2].n = L /\ L \in Nat
          /\ r \in Seq(Bytes) /\ Len(r) \in Nat
      BY <2>1, <2>2, FrameIs, BodyIs
    <2>4. b = F \o r
      <3>1. PICK x, y : x = F \o r /\ y = f[2] \o q[2]
        OBVIOUS
      <3>2. Joined(f, q) = <<x, y>>
        BY <3>1, <2>2 DEF Joined
      <3>3. b = x
        BY <3>2, <1>1
      <3> QED BY <3>1, <3>3
    <2> HIDE DEF L
    <2>5. /\ Len(b) = Len(F) + Len(r)
          /\ \A k \in 1..(Len(F) + Len(r)) : b[k] = IF k <= Len(F) THEN F[k] ELSE r[k - Len(F)]
      BY <2>3, <2>4, ConcatProperties
    <2>6. b[1] = F[1] /\ b[2] = F[2]
      BY <2>3, <2>5
    <2>7. Length(b) = L
      BY <2>3, <2>6 DEF Length
    <2>8. Complete(b)
      BY <2>3, <2>5, <2>7 DEF Complete
    <2> QED BY <2>8
  <1>2. <<b, said>> = Nothing
    BY <1>1, CarriesHead
  <1> QED BY <1>2 DEF Nothing

-----------------------------------------------------------------------------
(* The frame reader.                                                       *)

LEMMA MaxIs ==
  ASSUME NEW top \in Nat, NEW S, S \subseteq 0..top, S # {}
  PROVE  Max(S) \in S /\ \A y \in S : y <= Max(S)
  <1> DEFINE less == OpToRel(<, Nat)
             Left(t) == top - t
             D == {Left(t) : t \in S}
  <1>b. \A t \in S : t \in Nat /\ t <= top /\ t \in Int
    OBVIOUS
  <1>1. IsWellFoundedOn(less, Nat)
    BY NatLessThanWellFounded
  <1>2. \A m, n \in Nat : m < n => <<m, n>> \in less
    BY DEF OpToRel
  <1>3. D \subseteq Nat /\ D # {}
    <2>1. \A t \in S : Left(t) \in Nat
      BY <1>b
    <2> HIDE DEF Left
    <2> QED BY <2>1
  <1> HIDE DEF less
  <1>4. PICK d \in D : \A e \in D : ~(<<e, d>> \in less)
    <2> HIDE DEF D
    <2> QED BY <1>1, <1>3, WFMin
  <1>5. PICK t \in S : d = Left(t)
    OBVIOUS
  <1>6. \A y \in S : y <= t
    <2> TAKE y \in S
    <2>1. Left(y) \in D /\ Left(y) \in Nat /\ d \in Nat
      BY <1>3
    <2>2. ~(Left(y) < d)
      BY <1>2, <1>4, <2>1, Zenon
    <2>3. y \in Int /\ t \in Int
      BY <1>b
    <2>4. ~(top - y < top - t)
      BY <1>5, <2>2
    <2> QED BY <2>3, <2>4
  <1>7. \A y \in S : t >= y
    BY <1>6, <1>b
  <1>8. Max(S) \in S /\ \A y \in S : Max(S) >= y
    BY <1>7, Zenon DEF Max
  <1>9. \A x, y \in S : x >= y => y <= x
    BY <1>b
  <1> QED BY <1>8, <1>9

\* A segment begins at the start of what was read or after a terminator.
LEMMA StartIs ==
  ASSUME NEW b \in Seq(Said), NEW k \in 1..(Len(b) + 1)
  PROVE  /\ Start(b, k) \in 1..k
         /\ \A j \in 1..Len(b) : Start(b, k) <= j /\ j < k => b[j] # CR
         /\ Start(b, k) = 1 \/ b[Start(b, k) - 1] = CR
  <1> DEFINE S == {0} \cup {j \in Terminators(b) : j < k}
  <1>1. Len(b) \in Nat /\ DOMAIN b = 1..Len(b) /\ k \in Nat
    OBVIOUS
  <1>2. S \subseteq 0..Len(b) /\ S # {}
    BY <1>1 DEF Terminators
  <1>3. \A j \in S : j < k /\ (j = 0 \/ b[j] = CR)
    BY <1>1 DEF Terminators
  <1>4. \A j \in 1..Len(b) : j < k /\ b[j] = CR => j \in S
    BY <1>1 DEF Terminators
  <1>5. Start(b, k) = Max(S) + 1
    BY DEF Start
  <1> HIDE DEF S
  <1>6. Max(S) \in S /\ \A y \in S : y <= Max(S)
    BY <1>1, <1>2, MaxIs
  <1> DEFINE x == Max(S)
  <1>7. x \in 0..Len(b) /\ x < k /\ (x = 0 \/ b[x] = CR)
    BY <1>2, <1>3, <1>6
  <1>8. \A j \in 1..Len(b) : j < k /\ b[j] = CR => j <= x
    BY <1>4, <1>6
  <1> HIDE DEF x
  <1>9. Start(b, k) = x + 1
    BY <1>5 DEF x
  <1> QED BY <1>1, <1>7, <1>8, <1>9

\* There is only one such place.
LEMMA StartAt ==
  ASSUME NEW b \in Seq(Said), NEW k \in 1..(Len(b) + 1), NEW i \in 1..k,
         \A j \in 1..Len(b) : i <= j /\ j < k => b[j] # CR,
         i = 1 \/ b[i - 1] = CR
  PROVE  Start(b, k) = i
  <1> DEFINE s == Start(b, k)
  <1>1. /\ s \in 1..k /\ (s = 1 \/ b[s - 1] = CR)
        /\ \A j \in 1..Len(b) : s <= j /\ j < k => b[j] # CR
    BY StartIs
  <1>a. s \in 1..k
    BY StartIs
  <1> HIDE DEF s
  <1>b. Len(b) \in Nat
    OBVIOUS
  <1>2. ~(s < i)
    <2> SUFFICES ASSUME s < i PROVE FALSE
      OBVIOUS
    <2>1. i # 1 /\ i - 1 \in 1..Len(b) /\ s <= i - 1 /\ i - 1 < k
      BY <1>a, <1>b
    <2> QED BY <2>1, <1>1
  <1>3. ~(i < s)
    <2> SUFFICES ASSUME i < s PROVE FALSE
      OBVIOUS
    <2>1. s # 1 /\ s - 1 \in 1..Len(b) /\ i <= s - 1 /\ s - 1 < k
      BY <1>a, <1>b
    <2> QED BY <2>1, <1>1, <1>a
  <1>4. s = i
    BY <1>a, <1>2, <1>3
  <1> QED BY <1>4 DEF s

\* What is kept for the next chunk holds no terminator.
LEMMA PartialIs ==
  ASSUME NEW b \in Seq(Said)
  PROVE  /\ Partial(b) \in Seq(Text)
         /\ Len(Partial(b)) = Len(b) + 1 - Start(b, Len(b) + 1)
         /\ \A k \in 1..Len(Partial(b)) : Partial(b)[k] = b[Start(b, Len(b) + 1) + k - 1]
  <1> DEFINE s == Start(b, Len(b) + 1)
  <1>1. Len(b) \in Nat /\ Len(b) + 1 \in 1..(Len(b) + 1)
    OBVIOUS
  <1>2. s \in 1..(Len(b) + 1) /\ \A j \in 1..Len(b) : s <= j /\ j < Len(b) + 1 => b[j] # CR
    BY <1>1, StartIs
  <1> HIDE DEF s
  <1>3. \A j \in s..Len(b) : b[j] \in Text
    <2> TAKE j \in s..Len(b)
    <2>1. j \in 1..Len(b) /\ s <= j /\ j < Len(b) + 1
      BY <1>1, <1>2
    <2>2. b[j] # CR /\ b[j] \in Said
      BY <2>1, <1>2, ElementOfSeq
    <2> QED BY <2>2 DEF Said
  <1>4. /\ SubSeq(b, s, Len(b)) \in Seq(Text)
        /\ Len(SubSeq(b, s, Len(b))) = IF s <= Len(b) THEN Len(b) - s + 1 ELSE 0
        /\ \A k \in 1..(Len(b) - s + 1) : SubSeq(b, s, Len(b))[k] = b[s + k - 1]
    BY <1>1, <1>2, <1>3, SubSeqProperties
  <1>5. /\ Len(SubSeq(b, s, Len(b))) = Len(b) + 1 - s
        /\ \A k \in 1..(Len(b) + 1 - s) : SubSeq(b, s, Len(b))[k] = b[s + k - 1]
    BY <1>1, <1>2, <1>4
  <1>6. Partial(b) = SubSeq(b, s, Len(b))
    BY DEF Partial, s
  <1> QED BY <1>4, <1>5, <1>6 DEF s

LEMMA FrameEndsIs ==
  ASSUME NEW b \in Seq(Said)
  PROVE  /\ IsFiniteSet(FrameEnds(b)) /\ Cardinality(FrameEnds(b)) \in Nat
         /\ DOMAIN Segments(b) = 1..Cardinality(FrameEnds(b))
  <1>1. FrameEnds(b) \in SUBSET (1..Len(b))
    BY DEF FrameEnds, Terminators
  <1>2. IsFiniteSet(1..Len(b))
    BY FS_Interval
  <1>3. IsFiniteSet(FrameEnds(b))
    BY <1>1, <1>2, FS_Subset
  <1> QED BY <1>3, FS_CardinalityType DEF Segments

\* What a segment decodes to is a message of some connection, or forged.
Heard == [conn : 0..MaxConns, msg : 0..Messages]

LEMMA DecodesTyped ==
  ASSUME NEW s
  PROVE  Decodes(s) \subseteq Heard
  <1>1. CASE ~Whole(s)
    BY <1>1 DEF Decodes
  <1>2. CASE Whole(s)
    <2>1. s[1] \in Halves(1)
      BY <1>2 DEF Whole
    <2>2. s[1].conn \in 1..MaxConns /\ s[1].msg \in 1..Messages
      BY <2>1 DEF Halves, Half
    <2>3. Message(s[1].conn, s[1].msg) \in Heard
      BY <2>2, MaxConnsAssumption, MessagesAssumption DEF Message, Heard
    <2>4. Forged \in Heard
      BY MaxConnsAssumption, MessagesAssumption DEF Message, Heard, Forged
    <2> QED BY <2>3, <2>4, <1>2 DEF Decodes
  <1> QED BY <1>1, <1>2

\* The messages the segments of b decode to.
Dispatches(b) ==
  LET segs == Segments(b) IN [n \in DOMAIN segs |-> CHOOSE m \in Decodes(segs[n]) : TRUE]

LEMMA IngestIs ==
  ASSUME NEW chunk, Ingest(chunk), NEW b, b = buffer \o chunk
  PROVE  \/ /\ \E n \in DOMAIN Segments(b) : MayThrow(Segments(b)[n])
            /\ hung' = TRUE /\ buffer' = buffer /\ heard' = heard
         \/ /\ \A n \in DOMAIN Segments(b) : Decodes(Segments(b)[n]) # {}
            /\ heard' = heard \o Dispatches(b) /\ buffer' = Partial(b) /\ hung' = hung
  <1>1. Combined(chunk) = b
    BY DEF Combined
  <1>2. \/ /\ \E n \in DOMAIN Segments(Combined(chunk)) : MayThrow(Segments(Combined(chunk))[n])
           /\ hung' = TRUE /\ buffer' = buffer /\ heard' = heard
        \/ /\ \A n \in DOMAIN Segments(Combined(chunk)) : Decodes(Segments(Combined(chunk))[n]) # {}
           /\ heard' = heard \o Dispatches(Combined(chunk)) /\ buffer' = Partial(Combined(chunk))
           /\ hung' = hung
    BY DEF Ingest, Dispatches
  <1> QED BY <1>1, <1>2

LEMMA IngestTyped ==
  ASSUME TypeOK, NEW chunk \in Seq(Said), Ingest(chunk)
  PROVE  buffer' \in Seq(Text) /\ heard' \in Seq(Heard) /\ hung' \in BOOLEAN
  <1>1. buffer \in Seq(Text) /\ heard \in Seq(Heard) /\ hung \in BOOLEAN
    BY DEF TypeOK, Heard
  <1>a. PICK b : b = buffer \o chunk
    OBVIOUS
  <1>2. b \in Seq(Said)
    <2>1. buffer \in Seq(Said)
      BY <1>1, SeqMonotonic DEF Said
    <2> QED BY <1>a, <2>1, ConcatProperties
  <1>b. PICK n, segs : n = Cardinality(FrameEnds(b)) /\ segs = Segments(b)
    OBVIOUS
  <1>3. n \in Nat /\ DOMAIN segs = 1..n
    BY <1>2, <1>b, FrameEndsIs
  <1>4. CASE hung' = TRUE /\ buffer' = buffer /\ heard' = heard
    BY <1>1, <1>4
  <1>5. CASE /\ \A k \in DOMAIN segs : Decodes(segs[k]) # {}
             /\ heard' = heard \o Dispatches(b) /\ buffer' = Partial(b) /\ hung' = hung
    <2>1. \A k \in 1..n : (CHOOSE m \in Decodes(segs[k]) : TRUE) \in Heard
      <3> TAKE k \in 1..n
      <3>1. Decodes(segs[k]) # {} /\ Decodes(segs[k]) \subseteq Heard
        BY <1>3, <1>5, DecodesTyped
      <3>2. (CHOOSE m \in Decodes(segs[k]) : TRUE) \in Decodes(segs[k])
        BY <3>1, Zenon
      <3> QED BY <3>1, <3>2
    <2>2. PICK ms : ms = Dispatches(b)
      OBVIOUS
    <2>3. ms \in Seq(Heard)
      <3>1. ms = [k \in 1..n |-> CHOOSE m \in Decodes(segs[k]) : TRUE]
        BY <1>3, <1>b, <2>2 DEF Dispatches
      <3>2. ms \in [1..n -> Heard]
        BY <2>1, <3>1
      <3> QED BY <3>2, <1>3
    <2>4. heard' \in Seq(Heard)
      BY <1>1, <1>5, <2>2, <2>3, ConcatProperties
    <2> QED BY <1>1, <1>2, <1>5, <2>4, PartialIs
  <1> QED BY <1>4, <1>5, <1>a, <1>b, IngestIs

-----------------------------------------------------------------------------
(* What the reader makes of the service's stream.                          *)

LEMMA TokenIs ==
  /\ \A n \in Nat : Token(conn, n) = CR <=> n % 3 = 0
  /\ \A i \in Nat : i >= 1 => Token(conn, 3 * i - 2) = Half(1, conn, i)
  /\ \A i \in Nat : i >= 1 => Token(conn, 3 * i - 1) = IF i \in Garbled THEN Junk ELSE Half(2, conn, i)
  /\ \A n \in Nat : conn \in 1..MaxConns /\ n <= 3 * Messages => Token(conn, n) \in Said
  <1>0. Messages \in Nat
    BY MessagesAssumption
  <1>a. /\ CR \in Said /\ Junk \in Said /\ CR # Junk
        /\ \A k, c, m : Half(k, c, m) # CR
    BY DEF Said, CR, Junk, Half, Text
  <1>b. \A k \in 1..2, c \in 1..MaxConns, m \in 1..Messages : Half(k, c, m) \in Said
    BY DEF Said, Text
  <1>1. ASSUME NEW i \in Nat
        PROVE  Token(conn, 3 * i) = CR
    <2>1. (3 * i + 2) \div 3 = i /\ 3 * i - 3 * (i - 1) = 3
      <3>1. PICK q, r : q = (3 * i + 2) \div 3 /\ r = (3 * i + 2) % 3
        OBVIOUS
      <3>2. q \in Int /\ r \in 0..2 /\ 3 * i + 2 = 3 * q + r
        BY <3>1
      <3>3. q = i
        BY <3>2
      <3> QED BY <3>1, <3>3
    <2> QED BY <2>1 DEF Token
  <1>2. ASSUME NEW i \in Nat, i >= 1
        PROVE  Token(conn, 3 * i - 2) = Half(1, conn, i)
    <2>1. (3 * i - 2 + 2) \div 3 = i /\ 3 * i - 2 - 3 * (i - 1) = 1
      OBVIOUS
    <2> QED BY <2>1 DEF Token
  <1>3. ASSUME NEW i \in Nat, i >= 1
        PROVE  Token(conn, 3 * i - 1) = IF i \in Garbled THEN Junk ELSE Half(2, conn, i)
    <2>1. (3 * i - 1 + 2) \div 3 = i /\ 3 * i - 1 - 3 * (i - 1) = 2
      BY <1>3
    <2> QED BY <2>1 DEF Token
  <1>4. ASSUME NEW n \in Nat
        PROVE  \/ n % 3 = 0 /\ \E i \in Nat : n = 3 * i
               \/ n % 3 # 0 /\ \E i \in Nat : i >= 1 /\ n = 3 * i - 2
               \/ n % 3 # 0 /\ \E i \in Nat : i >= 1 /\ n = 3 * i - 1
    <2>1. n = 3 * (n \div 3) + (n % 3) /\ n % 3 \in 0..2 /\ n \div 3 \in Nat
      OBVIOUS
    <2> DEFINE q == n \div 3
               r == n % 3
    <2> HIDE DEF q, r
    <2>2. n = 3 * q + r /\ r \in 0..2 /\ q \in Nat
      BY <2>1 DEF q, r
    <2>3. CASE r = 0
      <3>1. n = 3 * q
        BY <2>2, <2>3
      <3> QED BY <2>2, <2>3, <3>1 DEF r
    <2>4. CASE r = 1
      <3>1. n = 3 * (q + 1) - 2 /\ q + 1 \in Nat /\ q + 1 >= 1
        BY <2>2, <2>4
      <3>2. r # 0
        BY <2>4
      <3> QED BY <3>1, <3>2 DEF r
    <2>5. CASE r = 2
      <3>1. n = 3 * (q + 1) - 1 /\ q + 1 \in Nat /\ q + 1 >= 1
        BY <2>2, <2>5
      <3>2. r # 0
        BY <2>5
      <3> QED BY <3>1, <3>2 DEF r
    <2> QED BY <2>2, <2>3, <2>4, <2>5
  <1>5. ASSUME NEW n \in Nat
        PROVE  /\ Token(conn, n) = CR <=> n % 3 = 0
               /\ conn \in 1..MaxConns /\ n <= 3 * Messages => Token(conn, n) \in Said
    <2>1. CASE n % 3 = 0 /\ \E i \in Nat : n = 3 * i
      BY <1>1, <1>a, <2>1
    <2>2. ASSUME n % 3 # 0, NEW i \in Nat, i >= 1, n = 3 * i - 2
          PROVE  /\ Token(conn, n) = CR <=> n % 3 = 0
                 /\ conn \in 1..MaxConns /\ n <= 3 * Messages => Token(conn, n) \in Said
      <3>1. Token(conn, n) = Half(1, conn, i)
        BY <1>2, <2>2
      <3>2. n <= 3 * Messages => i \in 1..Messages
        BY <1>0, <2>2
      <3> QED BY <3>1, <3>2, <1>a, <1>b, <2>2
    <2>3. ASSUME n % 3 # 0, NEW i \in Nat, i >= 1, n = 3 * i - 1
          PROVE  /\ Token(conn, n) = CR <=> n % 3 = 0
                 /\ conn \in 1..MaxConns /\ n <= 3 * Messages => Token(conn, n) \in Said
      <3>1. Token(conn, n) = IF i \in Garbled THEN Junk ELSE Half(2, conn, i)
        BY <1>3, <2>3
      <3>2. n <= 3 * Messages => i \in 1..Messages
        BY <1>0, <2>3
      <3> QED BY <3>1, <3>2, <1>a, <1>b, <2>3
    <2> QED BY <1>4, <2>1, <2>2, <2>3
  <1> QED BY <1>2, <1>3, <1>5

\* Every third position.
Thirds(s, i) == {3 * l + s : l \in 1..i}

LEMMA CountThirds ==
  ASSUME NEW s \in Nat, NEW i \in Nat
  PROVE  IsFiniteSet(Thirds(s, i)) /\ Cardinality(Thirds(s, i)) = i
  <1> DEFINE f == [l \in 1..i |-> 3 * l + s]
  <1>1. f \in [1..i -> Thirds(s, i)] /\ \A l \in 1..i : f[l] = 3 * l + s
    BY DEF Thirds
  <1> HIDE DEF f
  <1>2. \A l, k \in 1..i : f[l] = f[k] => l = k
    BY <1>1
  <1>3. \A t \in Thirds(s, i) : \E l \in 1..i : f[l] = t
    BY <1>1 DEF Thirds
  <1>4. f \in Bijection(1..i, Thirds(s, i))
    <2>1. f \in Injection(1..i, Thirds(s, i))
      BY <1>1, <1>2, Fun_IsInj
    <2>2. f \in Surjection(1..i, Thirds(s, i))
      BY <1>1, <1>3, Fun_IsSurj
    <2> QED BY <2>1, <2>2 DEF Bijection
  <1>5. IsFiniteSet(1..i) /\ Cardinality(1..i) = i
    <2>1. IsFiniteSet(1..i) /\ Cardinality(1..i) = IF 1 > i THEN 0 ELSE i - 1 + 1
      BY FS_Interval
    <2> QED BY <2>1
  <1>6. ExistsBijection(1..i, Thirds(s, i))
    BY <1>4, Fun_ExistsBij
  <1> QED BY <1>5, <1>6, FS_Bijection

LEMMA NthThird ==
  ASSUME NEW s \in Nat, NEW m \in Nat, NEW n \in 1..m
  PROVE  Nth(Thirds(s, m), n) = 3 * n + s
  <1> DEFINE S == Thirds(s, m)
             Upto(k) == {j \in S : j <= k}
  <1>1. \A i \in 1..m : 3 * i + s \in S /\ Upto(3 * i + s) = Thirds(s, i)
    <2> TAKE i \in 1..m
    <2>1. \A l \in 1..m : 3 * l + s <= 3 * i + s <=> l \in 1..i
      OBVIOUS
    <2>2. \A l \in 1..i : l \in 1..m
      OBVIOUS
    <2> QED BY <2>1, <2>2 DEF Thirds
  <1>2. \A i \in 1..m : Cardinality(Upto(3 * i + s)) = i
    <2> TAKE i \in 1..m
    <2>1. i \in Nat
      OBVIOUS
    <2> HIDE DEF S, Upto
    <2> QED BY <2>1, <1>1, CountThirds
  <1>3. \A k \in S : \E i \in 1..m : k = 3 * i + s
    BY DEF Thirds
  <1> HIDE DEF S, Upto
  <1>4. \A k \in S : Cardinality(Upto(k)) = n => k = 3 * n + s
    BY <1>2, <1>3
  <1>5. 3 * n + s \in S /\ Cardinality(Upto(3 * n + s)) = n
    BY <1>1, <1>2
  <1>6. Nth(S, n) = CHOOSE k \in S : Cardinality(Upto(k)) = n
    BY DEF Nth, Upto
  <1>7. (CHOOSE k \in S : Cardinality(Upto(k)) = n) = 3 * n + s
    BY <1>4, <1>5, Zenon
  <1> QED BY <1>6, <1>7 DEF S

\* b is the stream from behind the messages up to h; s = 1: first comes the terminator of
\* the h-th.  It holds m messages more.
FromStream(b, h, s, m) ==
  /\ b \in Seq(Said) /\ h \in Nat /\ s \in {0, 1} /\ m \in Nat
  /\ s <= Len(b) /\ m = (Len(b) - s) \div 3
  /\ \A k \in 1..Len(b) : b[k] = Token(conn, 3 * h - s + k)

SplitsAs(b, h, s, m) ==
  /\ DOMAIN Segments(b) = 1..m
  /\ \A n \in 1..m : Segments(b)[n] = <<Token(conn, 3 * (h + n) - 2), Token(conn, 3 * (h + n) - 1)>>
  /\ Partial(b) \in Seq(Text) /\ Len(Partial(b)) = Len(b) - s - 3 * m /\ Len(Partial(b)) <= 2
  /\ \A k \in 1..Len(Partial(b)) : Partial(b)[k] = Token(conn, 3 * (h + m) + k)

LEMMA StreamSplits ==
  ASSUME NEW b, NEW h, NEW s, NEW m, FromStream(b, h, s, m)
  PROVE  SplitsAs(b, h, s, m)
  <1>1. /\ b \in Seq(Said) /\ h \in Nat /\ s \in {0, 1} /\ m \in Nat /\ s <= Len(b)
        /\ Len(b) \in Nat /\ s \in Nat
        /\ \A k \in 1..Len(b) : b[k] = Token(conn, 3 * h - s + k)
    BY DEF FromStream
  <1>2. 3 * m + s <= Len(b) /\ Len(b) <= 3 * m + s + 2
    <2>1. m = (Len(b) - s) \div 3
      BY DEF FromStream
    <2>2. Len(b) - s \in Nat
      BY <1>1
    <2> QED BY <1>1, <2>1, <2>2
  <1>3. \A k \in 1..Len(b) : b[k] = CR <=> (3 * h - s + k) % 3 = 0
    <2> TAKE k \in 1..Len(b)
    <2>1. 3 * h - s + k \in Nat
      BY <1>1
    <2> QED BY <2>1, <1>1, TokenIs
  <1>4. \A k \in 1..Len(b) : b[k] = CR <=> (\E i \in 0..m : k = 3 * i + s)
    <2> TAKE k \in 1..Len(b)
    <2>1. k - s \in Nat /\ h \in Nat
      BY <1>1
    <2>2. (3 * h - s + k) % 3 = 0 <=> (k - s) % 3 = 0
      BY <1>1, <2>1
    <2>3. (k - s) % 3 = 0 => k = 3 * ((k - s) \div 3) + s
      BY <1>1, <2>1
    <2>4. (k - s) \div 3 \in 0..m
      BY <1>1, <1>2, <2>1
    <2>5. \A i \in 0..m : k = 3 * i + s => (k - s) % 3 = 0
      BY <1>1
    <2> QED BY <1>3, <2>2, <2>3, <2>4, <2>5
  <1>5. \A i \in 1..m : \A k \in Int : k = 3 * i + s => Start(b, k) = k - 2
    <2> TAKE i \in 1..m
    <2> SUFFICES ASSUME NEW k \in Int, k = 3 * i + s PROVE Start(b, k) = k - 2
      OBVIOUS
    <2>1. k \in 3..Len(b) /\ k \in 1..(Len(b) + 1) /\ k - 2 \in 1..k
      BY <1>1, <1>2
    <2>2. \A j \in 1..Len(b) : k - 2 <= j /\ j < k => b[j] # CR
      <3> TAKE j \in 1..Len(b)
      <3>1. k - 2 <= j /\ j < k => \A l \in 0..m : j # 3 * l + s
        BY <1>1
      <3> QED BY <3>1, <1>4
    <2>3. k - 2 = 1 \/ b[(k - 2) - 1] = CR
      <3>1. CASE k - 2 = 1
        BY <3>1
      <3>2. CASE k - 2 # 1
        <4>1. PICK p : p = (k - 2) - 1
          OBVIOUS
        <4>2. p \in 1..Len(b) /\ i - 1 \in 0..m /\ p = 3 * (i - 1) + s
          BY <1>1, <1>2, <2>1, <3>2, <4>1
        <4>3. b[p] = CR
          BY <4>2, <1>4
        <4> QED BY <4>1, <4>3
      <3> QED BY <3>1, <3>2
    <2> QED BY <1>1, <2>1, <2>2, <2>3, StartAt
  <1>6. Start(b, Len(b) + 1) = 3 * m + s + 1
    <2>1. Len(b) + 1 \in 1..(Len(b) + 1) /\ 3 * m + s + 1 \in 1..(Len(b) + 1)
      BY <1>1, <1>2
    <2>2. \A j \in 1..Len(b) : 3 * m + s + 1 <= j /\ j < Len(b) + 1 => b[j] # CR
      <3> TAKE j \in 1..Len(b)
      <3>1. 3 * m + s + 1 <= j => \A l \in 0..m : j # 3 * l + s
        BY <1>1
      <3> QED BY <3>1, <1>4
    <2>3. 3 * m + s + 1 = 1 \/ b[3 * m + s + 1 - 1] = CR
      <3>1. CASE 3 * m + s = 0
        BY <3>1, <1>1
      <3>2. CASE 3 * m + s # 0
        <4>1. PICK p : p = 3 * m + s + 1 - 1
          OBVIOUS
        <4>2. p \in 1..Len(b) /\ m \in 0..m /\ p = 3 * m + s
          BY <1>1, <1>2, <3>2, <4>1
        <4>3. b[p] = CR
          BY <4>2, <1>4
        <4> QED BY <4>1, <4>3
      <3> QED BY <3>1, <3>2
    <2> QED BY <1>1, <2>1, <2>2, <2>3, StartAt
  <1>7. FrameEnds(b) = Thirds(s, m)
    <2>1. ASSUME NEW k \in FrameEnds(b)
          PROVE  k \in Thirds(s, m)
      <3>1. k \in 1..Len(b) /\ b[k] = CR /\ Start(b, k) < k
        BY <1>1 DEF FrameEnds, Terminators
      <3>2. PICK i \in 0..m : k = 3 * i + s
        BY <3>1, <1>4
      <3>3. i # 0
        <4>1. i = 0 => k = 1
          BY <1>1, <3>1, <3>2
        <4>2. k \in 1..(Len(b) + 1)
          BY <1>1, <3>1
        <4>3. Start(b, k) \in 1..k
          BY <1>1, <4>2, StartIs
        <4> QED BY <3>1, <4>1, <4>3
      <3>4. i \in 1..m
        BY <3>2, <3>3
      <3> QED BY <3>2, <3>4 DEF Thirds
    <2>2. ASSUME NEW k \in Thirds(s, m)
          PROVE  k \in FrameEnds(b)
      <3>1. PICK i \in 1..m : k = 3 * i + s
        BY DEF Thirds
      <3>2. k \in 1..Len(b) /\ i \in 0..m
        BY <1>1, <1>2, <3>1
      <3>3. b[k] = CR
        BY <1>4, <3>1, <3>2
      <3>4. Start(b, k) = k - 2
        BY <1>5, <3>1, <3>2
      <3>5. Start(b, k) < k
        BY <3>2, <3>4
      <3> QED BY <1>1, <3>2, <3>3, <3>5 DEF FrameEnds, Terminators
    <2> QED BY <2>1, <2>2
  <1>8. DOMAIN Segments(b) = 1..m /\ Cardinality(FrameEnds(b)) = m
    BY <1>1, <1>7, CountThirds DEF Segments
  <1>9. \A n \in 1..m : Segments(b)[n] = <<Token(conn, 3 * (h + n) - 2), Token(conn, 3 * (h + n) - 1)>>
    <2> TAKE n \in 1..m
    <2>k. PICK k : k = 3 * n + s
      OBVIOUS
    <2>1. Nth(FrameEnds(b), n) = k
      BY <1>1, <1>7, <2>k, NthThird
    <2>3. k \in 3..Len(b) /\ k - 2 \in 1..Len(b) /\ k - 1 \in 1..Len(b)
      BY <1>1, <1>2, <2>k
    <2>2. Start(b, k) = k - 2
      BY <1>5, <2>k, <2>3
    <2>4. b[k - 2] = Token(conn, 3 * (h + n) - 2) /\ b[k - 1] = Token(conn, 3 * (h + n) - 1)
      <3>1. 3 * h - s + (k - 2) = 3 * (h + n) - 2 /\ 3 * h - s + (k - 1) = 3 * (h + n) - 1
        BY <1>1, <2>k
      <3>2. b[k - 2] = Token(conn, 3 * h - s + (k - 2)) /\ b[k - 1] = Token(conn, 3 * h - s + (k - 1))
        BY <1>1, <2>3
      <3> QED BY <3>1, <3>2
    <2>5. Segments(b)[n] = SubSeq(b, k - 2, k - 1)
      BY <1>8, <2>1, <2>2 DEF Segments
    <2>6. SubSeq(b, k - 2, k - 1) = <<b[k - 2], b[k - 1]>>
      <3>a. \A j \in (k - 2)..(k - 1) : b[j] \in Said
        <4> TAKE j \in (k - 2)..(k - 1)
        <4>1. j \in 1..Len(b)
          BY <2>3
        <4> QED BY <4>1, <1>1, ElementOfSeq
      <3>b. k - 2 \in Int /\ k - 1 \in Int /\ k - 2 <= k - 1 /\ (k - 1) - (k - 2) + 1 = 2
        BY <2>3
      <3>1. /\ SubSeq(b, k - 2, k - 1) \in Seq(Said)
            /\ Len(SubSeq(b, k - 2, k - 1)) = IF k - 2 <= k - 1 THEN (k - 1) - (k - 2) + 1 ELSE 0
            /\ \A j \in 1..((k - 1) - (k - 2) + 1) : SubSeq(b, k - 2, k - 1)[j] = b[(k - 2) + j - 1]
        BY <3>a, <3>b, SubSeqProperties
      <3> DEFINE q == SubSeq(b, k - 2, k - 1)
      <3>2. q \in Seq(Said) /\ Len(q) = 2 /\ \A j \in 1..2 : q[j] = b[(k - 2) + j - 1]
        BY <3>1, <3>b
      <3> HIDE DEF q
      <3>3. (k - 2) + 1 - 1 = k - 2 /\ (k - 2) + 2 - 1 = k - 1
        BY <2>3
      <3>4. q[1] = b[k - 2] /\ q[2] = b[k - 1]
        BY <3>2, <3>3
      <3>5. b[k - 2] \in Said /\ b[k - 1] \in Said
        BY <1>1, <2>3, ElementOfSeq
      <3>6. q = <<b[k - 2], b[k - 1]>>
        BY <3>2, <3>4, <3>5
      <3> QED BY <3>6 DEF q
    <2> QED BY <2>4, <2>5, <2>6
  <1>10. /\ Partial(b) \in Seq(Text) /\ Len(Partial(b)) = Len(b) - s - 3 * m
         /\ \A k \in 1..Len(Partial(b)) : Partial(b)[k] = b[3 * m + s + k]
    <2>1. /\ Partial(b) \in Seq(Text)
          /\ Len(Partial(b)) = Len(b) + 1 - (3 * m + s + 1)
          /\ \A k \in 1..Len(Partial(b)) : Partial(b)[k] = b[(3 * m + s + 1) + k - 1]
      BY <1>1, <1>6, PartialIs
    <2>2. \A k \in Nat : (3 * m + s + 1) + k - 1 = 3 * m + s + k
      BY <1>1
    <2>3. Len(b) + 1 - (3 * m + s + 1) = Len(b) - s - 3 * m
      BY <1>1
    <2> QED BY <2>1, <2>2, <2>3
  <1>11. \A k \in 1..Len(Partial(b)) : Partial(b)[k] = Token(conn, 3 * (h + m) + k)
    <2> TAKE k \in 1..Len(Partial(b))
    <2>1. 3 * m + s + k \in 1..Len(b) /\ 3 * h - s + (3 * m + s + k) = 3 * (h + m) + k
      BY <1>1, <1>2, <1>10
    <2>2. b[3 * m + s + k] = Token(conn, 3 * h - s + (3 * m + s + k))
      BY <1>1, <2>1
    <2> QED BY <1>10, <2>1, <2>2
  <1>12. Len(Partial(b)) <= 2
    BY <1>1, <1>2, <1>10
  <1> QED BY <1>8, <1>9, <1>10, <1>11, <1>12 DEF SplitsAs

\* One of the service's segments decodes to its message, unless it was garbled.
LEMMA TokensDecode ==
  ASSUME NEW i \in 1..Messages, conn \in 1..MaxConns,
         NEW seg, seg = <<Token(conn, 3 * i - 2), Token(conn, 3 * i - 1)>>
  PROVE  /\ i \notin Garbled => Decodes(seg) = {Message(conn, i)} /\ ~MayThrow(seg)
         /\ i \in Garbled => Decodes(seg) = {} /\ MayThrow(seg)
  <1>0. i \in Nat /\ i >= 1
    BY MessagesAssumption
  <1>1. /\ seg[1] = Half(1, conn, i) /\ Len(seg) = 2
        /\ seg[2] = IF i \in Garbled THEN Junk ELSE Half(2, conn, i)
    BY <1>0, TokenIs
  <1>2. CASE i \in Garbled
    <2>1. seg[2] = Junk
      BY <1>1, <1>2
    <2>2. Junk \notin Halves(2)
      <3>1. Junk.kind = "junk" /\ \A x \in Halves(2) : x.kind = "half"
        BY DEF Junk, Halves, Half
      <3> QED BY <3>1
    <2>3. ~Whole(seg)
      BY <2>1, <2>2 DEF Whole
    <2> QED BY <2>3, <1>2 DEF Decodes, MayThrow
  <1>3. CASE i \notin Garbled
    <2>1. seg[1] \in Halves(1) /\ seg[2] \in Halves(2)
      BY <1>1, <1>3 DEF Halves
    <2>2. Whole(seg)
      BY <1>1, <2>1 DEF Whole
    <2>3. seg[1].conn = conn /\ seg[2].conn = conn /\ seg[1].msg = i /\ seg[2].msg = i
      BY <1>1, <1>3 DEF Half
    <2>4. Decodes(seg) = {Message(conn, i)}
      BY <2>2, <2>3 DEF Decodes
    <2>5. Message(conn, i) # Forged
      BY <1>0 DEF Message, Forged
    <2>6. ~MayThrow(seg)
      BY <2>4, <2>5 DEF MayThrow
    <2> QED BY <2>4, <2>6, <1>3
  <1> QED BY <1>2, <1>3

\* A chunk completes m messages: they are dispatched, unless one was garbled, and what
\* is left over is the stream's next tokens.
Heeded(h, m, left) ==
  \/ hung' = TRUE /\ buffer' = buffer /\ heard' = heard /\ \E i \in Garbled : i <= h + m
  \/ /\ hung' = hung /\ Len(heard') = h + m
     /\ \A n \in 1..(h + m) : heard'[n] = Message(conn, n)
     /\ Len(buffer') = left /\ left <= 2
     /\ \A k \in 1..Len(buffer') : buffer'[k] = Token(conn, 3 * (h + m) + k)

LEMMA IngestHeeds ==
  ASSUME TypeOK, conn >= 1, NEW chunk \in Seq(Said), Ingest(chunk),
         NEW b, b = buffer \o chunk, NEW h, h = Len(heard), NEW s, NEW m,
         FromStream(b, h, s, m), h + m <= Messages,
         \A n \in 1..h : heard[n] = Message(conn, n)
  PROVE  Heeded(h, m, Len(b) - s - 3 * m)
  <1>0. PICK segs, ms : segs = Segments(b) /\ ms = Dispatches(b)
    OBVIOUS
  <1>a. SplitsAs(b, h, s, m)
    BY StreamSplits
  <1>1. /\ DOMAIN segs = 1..m
        /\ \A n \in 1..m : segs[n] = <<Token(conn, 3 * (h + n) - 2), Token(conn, 3 * (h + n) - 1)>>
        /\ Partial(b) \in Seq(Text) /\ Len(Partial(b)) = Len(b) - s - 3 * m /\ Len(Partial(b)) <= 2
        /\ \A k \in 1..Len(Partial(b)) : Partial(b)[k] = Token(conn, 3 * (h + m) + k)
    BY <1>0, <1>a DEF SplitsAs
  <1>2. h \in Nat /\ m \in Nat /\ Messages \in Nat /\ heard \in Seq(Heard)
    BY MessagesAssumption DEF FromStream, TypeOK, Heard
  <1>3. conn \in 1..MaxConns
    BY MaxConnsAssumption DEF TypeOK
  <1>4. \A n \in 1..m : /\ h + n \notin Garbled =>
                             Decodes(segs[n]) = {Message(conn, h + n)} /\ ~MayThrow(segs[n])
                        /\ h + n \in Garbled => Decodes(segs[n]) = {} /\ MayThrow(segs[n])
    <2> TAKE n \in 1..m
    <2>1. h + n \in 1..Messages
      BY <1>2
    <2> QED BY <1>1, <1>3, <2>1, TokensDecode
  <1>6. \/ /\ \E n \in DOMAIN segs : MayThrow(segs[n])
           /\ hung' = TRUE /\ buffer' = buffer /\ heard' = heard
        \/ /\ \A n \in DOMAIN segs : Decodes(segs[n]) # {}
           /\ heard' = heard \o ms /\ buffer' = Partial(b) /\ hung' = hung
    BY <1>0, IngestIs
  <1>7. CASE /\ \E n \in DOMAIN segs : MayThrow(segs[n])
             /\ hung' = TRUE /\ buffer' = buffer /\ heard' = heard
    <2>1. PICK n \in 1..m : MayThrow(segs[n])
      BY <1>1, <1>7
    <2>2. h + n \in Garbled /\ h + n <= h + m
      BY <1>2, <1>4, <2>1
    <2> QED BY <1>7, <2>2 DEF Heeded
  <1>8. CASE /\ \A n \in DOMAIN segs : Decodes(segs[n]) # {}
             /\ heard' = heard \o ms /\ buffer' = Partial(b) /\ hung' = hung
    <2>1. \A n \in 1..m : Decodes(segs[n]) = {Message(conn, h + n)}
      BY <1>1, <1>4, <1>8
    <2>2. \A n \in 1..m : (CHOOSE x \in Decodes(segs[n]) : TRUE) = Message(conn, h + n)
      BY <2>1
    <2>3. ms = [n \in 1..m |-> Message(conn, h + n)]
      <3>1. ms = [n \in 1..m |-> CHOOSE x \in Decodes(segs[n]) : TRUE]
        BY <1>0, <1>1 DEF Dispatches
      <3> QED BY <3>1, <2>2
    <2>4. \A n \in 1..m : Message(conn, h + n) \in Heard
      <3> TAKE n \in 1..m
      <3>1. h + n \in 0..Messages /\ conn \in 0..MaxConns
        BY <1>2, <1>3
      <3> QED BY <3>1 DEF Message, Heard
    <2>5. ms \in Seq(Heard) /\ Len(ms) = m /\ \A n \in 1..m : ms[n] = Message(conn, h + n)
      <3>1. ms \in [1..m -> Heard]
        BY <2>3, <2>4
      <3>2. ms \in Seq(Heard) /\ Len(ms) = m
        BY <1>2, <3>1
      <3> QED BY <3>2, <2>3
    <2>6. /\ Len(heard') = h + m
          /\ \A n \in 1..(h + m) : heard'[n] = IF n <= h THEN heard[n] ELSE ms[n - h]
      <3>1. PICK hs : hs = heard \o ms
        OBVIOUS
      <3>2. heard \in Seq(Heard) /\ ms \in Seq(Heard)
        BY <1>2, <2>5
      <3>3. /\ Len(hs) = Len(heard) + Len(ms)
            /\ \A n \in 1..(Len(heard) + Len(ms)) :
                 hs[n] = IF n <= Len(heard) THEN heard[n] ELSE ms[n - Len(heard)]
        BY <3>1, <3>2, ConcatProperties
      <3>4. heard' = hs
        BY <1>8, <3>1
      <3>5. Len(heard) = h /\ Len(ms) = m
        BY <2>5
      <3> QED BY <3>3, <3>4, <3>5
    <2>7. \A n \in 1..(h + m) : heard'[n] = Message(conn, n)
      <3> TAKE n \in 1..(h + m)
      <3>1. CASE n <= h
        BY <1>2, <2>6, <3>1
      <3>2. CASE ~(n <= h)
        <4>1. n - h \in 1..m /\ h + (n - h) = n
          BY <1>2, <3>2
        <4>2. ms[n - h] = Message(conn, h + (n - h))
          BY <2>5, <4>1
        <4> QED BY <2>6, <3>2, <4>1, <4>2
      <3> QED BY <3>1, <3>2
    <2>8. Len(buffer') = Len(b) - s - 3 * m /\ Len(b) - s - 3 * m <= 2 /\ \A k \in 1..Len(buffer') : buffer'[k] = Token(conn, 3 * (h + m) + k)
      BY <1>1, <1>8
    <2> QED BY <1>1, <1>8, <2>6, <2>7, <2>8 DEF Heeded
  <1> QED BY <1>6, <1>7, <1>8

\* A terminator behind a single token makes a frame that does not decode.
LEMMA HalfThrows ==
  ASSUME TypeOK, Len(buffer) = 1, Ingest(<<CR>>), buffer[1] # CR
  PROVE  hung' = TRUE /\ buffer' = buffer /\ heard' = heard
  <1> DEFINE b == buffer \o <<CR>>
  <1>1. b \in Seq(Said) /\ Len(b) = 2 /\ b[1] = buffer[1] /\ b[2] = CR
    <2>1. buffer \in Seq(Said) /\ <<CR>> \in Seq(Said) /\ Len(<<CR>>) = 1
      <3>1. buffer \in Seq(Text) /\ CR \in Said
        BY DEF TypeOK, Said
      <3> QED BY <3>1, SeqMonotonic DEF Said
    <2>2. /\ b \in Seq(Said) /\ Len(b) = 1 + 1
          /\ \A k \in 1..(1 + 1) : b[k] = IF k <= 1 THEN buffer[k] ELSE <<CR>>[k - 1]
      BY <2>1, ConcatProperties
    <2> QED BY <2>2
  <1> HIDE DEF b
  <1>2. Start(b, 2) = 1 /\ Start(b, 1) = 1
    <2>1. 2 \in 1..(Len(b) + 1) /\ 1 \in 1..2 /\ 1 \in 1..(Len(b) + 1) /\ 1 \in 1..1
      BY <1>1
    <2>2. \A j \in 1..Len(b) : 1 <= j /\ j < 2 => b[j] # CR
      BY <1>1
    <2>3. \A j \in 1..Len(b) : 1 <= j /\ j < 1 => b[j] # CR
      BY <1>1
    <2> QED BY <1>1, <2>1, <2>2, <2>3, StartAt
  <1>3. Terminators(b) = {2}
    BY <1>1 DEF Terminators
  <1>4. FrameEnds(b) = {2}
    BY <1>2, <1>3 DEF FrameEnds
  <1>5. Cardinality({2}) = 1 /\ {j \in {2} : j <= 2} = {2}
    <2>1. {j \in {2} : j <= 2} = {2}
      OBVIOUS
    <2> QED BY <2>1, FS_Singleton, Zenon
  <1>6. Nth({2}, 1) = 2
    <2>1. \A k \in {2} : Cardinality({j \in {2} : j <= k}) = 1
      BY <1>5
    <2> QED BY <2>1 DEF Nth
  <1>7. DOMAIN Segments(b) = {1} /\ Segments(b)[1] = SubSeq(b, 1, 2 - 1)
    BY <1>2, <1>4, <1>5, <1>6 DEF Segments
  <1>8. Len(Segments(b)[1]) = 1
    <2>1. Len(SubSeq(b, 1, 2 - 1)) = 1
      BY <1>1
    <2> QED BY <1>7, <2>1
  <1>9. Decodes(Segments(b)[1]) = {}
    BY <1>8 DEF Decodes, Whole
  <1>10. MayThrow(Segments(b)[1])
    BY <1>9 DEF MayThrow
  <1> HIDE DEF b
  <1>11. b = buffer \o <<CR>>
    BY DEF b
  <1> QED BY <1>7, <1>9, <1>10, <1>11, IngestIs

-----------------------------------------------------------------------------
(* The runner.                                                             *)

LEMMA AnswerIs ==
  ASSUME NEW n
  PROVE  /\ Answer(n) \in Seq(Said) /\ Len(Answer(n)) \in 2..3
         /\ Answer(n)[1] = Val[1] /\ Answer(n)[2] = Val[2]
         /\ Len(Answer(n)) = 3 => Answer(n)[3] = CR /\ n = Hops
  <1>0. PICK e, v, a : /\ e = IF Tail0D /\ n = Hops THEN <<CR>> ELSE <<>>
                       /\ v = Val /\ a = Answer(n)
    OBVIOUS
  <1>1. v \in Seq(Said) /\ Len(v) = 2
    <2>1. Val \in Seq(Said) /\ Len(Val) = 2
      BY DEF Val, Said, Text
    <2> QED BY <1>0, <2>1
  <1>2. a = v \o e
    <2>1. Answer(n) = Val \o (IF Tail0D /\ n = Hops THEN <<CR>> ELSE <<>>)
      BY DEF Answer
    <2> QED BY <1>0, <2>1
  <1>3. CASE e = <<>>
    <2>1. v \o <<>> = v
      BY <1>1, ConcatEmptySeq
    <2>2. a = v
      BY <1>2, <1>3, <2>1
    <2>3. Len(a) = 2
      BY <1>1, <2>2
    <2>4. Len(a) \in 2..3 /\ Len(a) # 3
      BY <2>3
    <2> QED BY <1>0, <1>1, <2>2, <2>4
  <1>4. CASE e = <<CR>> /\ n = Hops
    <2>1. e \in Seq(Said) /\ Len(e) = 1 /\ e[1] = CR
      <3>1. <<CR>> \in Seq(Said) /\ Len(<<CR>>) = 1 /\ <<CR>>[1] = CR
        BY DEF Said
      <3> QED BY <1>4, <3>1
    <2>2. /\ a \in Seq(Said) /\ Len(a) = Len(v) + Len(e)
          /\ \A k \in 1..(Len(v) + Len(e)) : a[k] = IF k <= Len(v) THEN v[k] ELSE e[k - Len(v)]
      BY <1>1, <1>2, <2>1, ConcatProperties
    <2>3. Len(a) = 3
      BY <1>1, <2>1, <2>2
    <2>4. a[1] = v[1] /\ a[2] = v[2] /\ a[3] = CR
      BY <1>1, <2>1, <2>2
    <2>5. Len(a) \in 2..3
      BY <2>3
    <2> QED BY <1>0, <1>4, <2>2, <2>4, <2>5
  <1>5. e = <<>> \/ (e = <<CR>> /\ n = Hops)
    BY <1>0
  <1> QED BY <1>3, <1>4, <1>5

\* The text fed so far is the head of the node's answer: its prompt is found as soon as
\* it is there, and at most the end of its line is left.
FedIs(t, rest, n) ==
  \/ Len(t) = 1 /\ Matches(t) = {}
  \/ /\ Matches(t) = {1} /\ Sliced(t, 1) \in {<<>>, <<CR>>} /\ rest \in {<<>>, <<CR>>}
     /\ n # Hops => Sliced(t, 1) = <<>> /\ rest = <<>>

LEMMA AnswerFed ==
  ASSUME NEW t \in Seq(Said), NEW rest \in Seq(Said), NEW n,
         t \o rest = Answer(n), Len(t) >= 1
  PROVE  FedIs(t, rest, n)
  <1> DEFINE A == Answer(n)
  <1>1. /\ Len(A) \in 2..3 /\ A[1] = Val[1] /\ A[2] = Val[2]
        /\ Len(A) = 3 => A[3] = CR /\ n = Hops
    BY AnswerIs
  <1>2. /\ Len(A) = Len(t) + Len(rest) /\ Len(t) \in Nat /\ Len(rest) \in Nat
        /\ \A k \in 1..(Len(t) + Len(rest)) : A[k] = IF k <= Len(t) THEN t[k] ELSE rest[k - Len(t)]
    BY ConcatProperties
  <1> HIDE DEF A
  <1>3. /\ \A k \in 1..Len(t) : t[k] = A[k]
        /\ \A k \in 1..Len(rest) : rest[k] = A[Len(t) + k]
    <2>1. \A k \in 1..Len(rest) : (Len(t) + k) - Len(t) = k /\ ~(Len(t) + k <= Len(t)) /\ Len(t) + k \in 1..(Len(t) + Len(rest))
      BY <1>2
    <2> QED BY <1>2, <2>1
  <1>4. CR # Val[1] /\ CR # Val[2] /\ Val[1] # Val[2]
    BY DEF CR, Val
  <1>5. CASE Len(t) = 1
    <2>1. Matches(t) = {}
      BY <1>5 DEF Matches
    <2> QED BY <1>5, <2>1 DEF FedIs
  <1>6. CASE Len(t) \in 2..3
    <2>1. t[1] = Val[1] /\ t[2] = Val[2] /\ (Len(t) = 3 => t[3] = CR)
      BY <1>1, <1>2, <1>3, <1>6
    <2>2. Matches(t) = {1}
      BY <1>4, <1>6, <2>1 DEF Matches
    <2>3. Cardinality({1}) = 1 /\ {j \in {1} : j <= 1} = {1}
      <3>1. {j \in {1} : j <= 1} = {1}
        OBVIOUS
      <3> QED BY <3>1, FS_Singleton, Zenon
    <2>4. Nth({1}, 1) = 1
      <3>1. \A k \in {1} : Cardinality({j \in {1} : j <= k}) = 1
        BY <2>3
      <3> QED BY <3>1 DEF Nth
    <2>5. Sliced(t, 1) = SubSeq(t, 3, Len(t))
      BY <2>2, <2>4 DEF Sliced
    <2>6. CASE Len(t) = 2
      <3>1. Sliced(t, 1) = <<>>
        BY <2>5, <2>6, SubSeqEmpty
      <3>2. rest \in {<<>>, <<CR>>} /\ (n # Hops => rest = <<>>)
        <4>1. CASE Len(rest) = 0
          BY <4>1
        <4>2. CASE Len(rest) = 1
          <5>1. rest[1] = CR /\ n = Hops
            BY <1>1, <1>2, <1>3, <2>6, <4>2
          <5>2. rest = <<CR>>
            BY <4>2, <5>1
          <5> QED BY <5>1, <5>2
        <4>3. \A a, r \in Nat : a \in 2..3 /\ a = 2 + r => r = 0 \/ r = 1
          OBVIOUS
        <4>4. Len(A) \in 2..3 /\ Len(A) \in Nat /\ Len(rest) \in Nat /\ Len(A) = 2 + Len(rest)
          BY <1>1, <1>2, <2>6
        <4>5. Len(rest) = 0 \/ Len(rest) = 1
          BY <4>3, <4>4, Zenon
        <4> QED BY <4>1, <4>2, <4>5, Zenon
      <3> QED BY <2>2, <3>1, <3>2 DEF FedIs
    <2>7. CASE Len(t) = 3
      <3>1. t[3] = CR /\ n = Hops /\ Len(rest) = 0
        BY <1>1, <1>2, <2>1, <2>7
      <3>2. SubSeq(t, 3, 3) = <<CR>>
        <4>1. \A k \in 3..3 : t[k] \in Said
          <5>1. 3 \in 1..Len(t) /\ \A k \in 3..3 : k = 3
            BY <2>7
          <5>2. t[3] \in Said
            BY <5>1, ElementOfSeq
          <5> QED BY <5>1, <5>2, Zenon
        <4>2. /\ SubSeq(t, 3, 3) \in Seq(Said) /\ Len(SubSeq(t, 3, 3)) = IF 3 <= 3 THEN 3 - 3 + 1 ELSE 0
              /\ \A k \in 1..(3 - 3 + 1) : SubSeq(t, 3, 3)[k] = t[3 + k - 1]
          BY <4>1, SubSeqProperties
        <4> DEFINE q == SubSeq(t, 3, 3)
        <4>3. q \in Seq(Said) /\ Len(q) = 1 /\ q[1] = t[3]
          BY <4>2
        <4> HIDE DEF q
        <4>4. q = <<CR>>
          BY <3>1, <4>3
        <4> QED BY <4>4 DEF q
      <3>3. rest = <<>>
        BY <3>1
      <3> QED BY <2>2, <2>5, <2>7, <3>1, <3>2, <3>3 DEF FedIs
    <2>8. \A l \in 2..3 : l = 2 \/ l = 3
      OBVIOUS
    <2> QED BY <1>6, <2>6, <2>7, <2>8, Zenon
  <1>7. \A a, l, r \in Nat : a \in 2..3 /\ a = l + r /\ l >= 1 => l = 1 \/ l \in 2..3
    OBVIOUS
  <1>8. /\ Len(A) \in 2..3 /\ Len(A) \in Nat /\ Len(t) \in Nat /\ Len(rest) \in Nat
        /\ Len(A) = Len(t) + Len(rest)
    BY <1>1, <1>2
  <1>9. Len(t) = 1 \/ Len(t) \in 2..3
    BY <1>7, <1>8, Zenon
  <1> QED BY <1>5, <1>6, <1>9, Zenon

LEMMA TurnsAre ==
  ASSUME hop \in Nat, hop < Hops, NEW t
  PROVE  /\ Matches(t) = {} => Turns(t) = 0
         /\ Matches(t) = {1} => Turns(t) = 1
  <1>1. Hops - hop \in Nat /\ Hops - hop >= 1
    BY HopsAssumption
  <1>2. CASE Matches(t) = {}
    <2>1. Cardinality(Matches(t)) = 0
      BY <1>2, FS_EmptySet
    <2>2. Turns(t) = Min({Hops - hop, 0})
      BY <2>1 DEF Turns
    <2>3. \A k \in Nat : Min({k, 0}) = 0
      <3> TAKE k \in Nat
      <3>1. \A y \in {k, 0} : 0 <= y
        OBVIOUS
      <3>2. \A x \in {k, 0} : (\A y \in {k, 0} : x <= y) => x = 0
        OBVIOUS
      <3> QED BY <3>1, <3>2 DEF Min
    <2> QED BY <1>1, <1>2, <2>2, <2>3
  <1>3. CASE Matches(t) = {1}
    <2>1. Cardinality(Matches(t)) = 1
      BY <1>3, FS_Singleton
    <2>2. Turns(t) = Min({Hops - hop, 1})
      BY <2>1 DEF Turns
    <2>3. \A k \in Nat : k >= 1 => Min({k, 1}) = 1
      <3> TAKE k \in Nat
      <3> HAVE k >= 1
      <3>1. \A y \in {k, 1} : 1 <= y
        OBVIOUS
      <3>2. \A x \in {k, 1} : (\A y \in {k, 1} : x <= y) => x = 1
        OBVIOUS
      <3> QED BY <3>1, <3>2 DEF Min
    <2> QED BY <1>1, <1>3, <2>2, <2>3
  <1> QED BY <1>2, <1>3

-----------------------------------------------------------------------------
(* Cutting and taking.                                                     *)

LEMMA CutIs ==
  ASSUME NEW S, NEW q \in Seq(S), NEW n \in 1..Len(q)
  PROVE  /\ SubSeq(q, 1, n) \in Seq(S) /\ Len(SubSeq(q, 1, n)) = n
         /\ SubSeq(q, n + 1, Len(q)) \in Seq(S)
         /\ SubSeq(q, 1, n) \o SubSeq(q, n + 1, Len(q)) = q
  <1>1. Len(q) \in Nat /\ \A k \in 1..Len(q) : q[k] \in S
    BY ElementOfSeq
  <1>2. \A k \in 1..n : q[k] \in S
    BY <1>1
  <1>3. \A k \in (n + 1)..Len(q) : q[k] \in S
    BY <1>1
  <1>4. SubSeq(q, 1, n) \in Seq(S) /\ Len(SubSeq(q, 1, n)) = IF 1 <= n THEN n - 1 + 1 ELSE 0
    BY <1>2, SubSeqProperties
  <1>5. SubSeq(q, n + 1, Len(q)) \in Seq(S)
    BY <1>1, <1>3, SubSeqProperties
  <1>6. SubSeq(q, 1, n) \o SubSeq(q, n + 1, Len(q)) = SubSeq(q, 1, Len(q))
    <2>1. 1 \in 1..(Len(q) + 1) /\ n \in (1 - 1)..Len(q) /\ Len(q) \in n..Len(q)
      BY <1>1
    <2> QED BY <2>1, ConcatAdjacentSubSeq
  <1>7. SubSeq(q, 1, Len(q)) = q
    BY SubSeqFull
  <1>8. n - 1 + 1 = n /\ 1 <= n
    OBVIOUS
  <1>9. Len(SubSeq(q, 1, n)) = n
    BY <1>4, <1>8, Zenon
  <1> QED BY <1>4, <1>5, <1>6, <1>7, <1>9, Zenon

LEMMA SeqsAre ==
  ASSUME TypeOK, NEW said, Follows(said)
  PROVE  /\ deframer \in Seq(Bytes) /\ wire \in Seq(Bytes) /\ Stream \in Seq(Bytes)
         /\ said \in Seq(Said) /\ air \in Seq(Said) /\ said \o air \in Seq(Said)
         /\ text \in Seq(Said) /\ buffer \in Seq(Text) /\ buffer \in Seq(Said)
         /\ heard \in Seq(Heard) /\ leftover \in Seq(Said)
  <1>1. /\ deframer \in Seq(Bytes) /\ wire \in Seq(Bytes) /\ air \in Seq(Said) /\ text \in Seq(Said)
        /\ buffer \in Seq(Text) /\ heard \in Seq(Heard) /\ leftover \in Seq(Said)
    BY DEF TypeOK, Said, Heard
  <1>2. Stream \in Seq(Bytes)
    BY <1>1, ConcatProperties DEF Stream
  <1>3. said \in Seq(Said)
    <2>1. <<Stream, said>> \in Streams
      BY DEF Follows, Carries
    <2> QED BY <2>1 DEF Streams
  <1>4. said \o air \in Seq(Said)
    BY <1>1, <1>3, ConcatProperties
  <1>5. buffer \in Seq(Said)
    BY <1>1, SeqMonotonic DEF Said
  <1> QED BY <1>1, <1>2, <1>3, <1>4, <1>5

\* The agent takes the first frame of the stream.
Takes(said, left, type) ==
  /\ left \in Seq(Said) /\ <<Stream', left>> \in Carries /\ deframer' \in Seq(Bytes)
  /\ NoReply(Stream) => NoReply(Stream')
  /\ type = SendReply => said = left /\ ~NoReply(Stream)
  /\ type = Recv => Tail(Body(deframer)) \in Pushes /\ said = Tail(Body(deframer)) \o left

LEMMA DispatchTakes ==
  ASSUME TypeOK, NEW said, Follows(said), NEW type, Dispatched(type), wire' = wire
  PROVE  \E left : Takes(said, left, type)
  <1>1. deframer \in Seq(Bytes) /\ wire \in Seq(Bytes) /\ Stream \in Seq(Bytes) /\ said \in Seq(Said)
    BY SeqsAre
  <1>2. <<deframer \o wire, said>> \in Carries
    BY DEF Follows, Stream
  <1>3. Complete(deframer) /\ Body(deframer)[1] = type /\ deframer' = Rest(deframer)
    BY DEF Dispatched
  <1>4. PICK f \in Frames, q \in Carries : Begins(deframer, wire, said, f, q)
    BY <1>1, <1>2, <1>3, BodyFirst
  <1>5. /\ Body(deframer) = f[1] /\ Rest(deframer) \in Seq(Bytes) /\ Rest(deframer) \o wire = q[1]
        /\ said = f[2] \o q[2]
    BY <1>4 DEF Begins
  <1>6. q \in Streams /\ q[1] \in Seq(Bytes) /\ q[2] \in Seq(Said) /\ q = <<q[1], q[2]>>
    BY DEF Carries, Streams
  <1>7. Stream' = q[1] /\ deframer' \in Seq(Bytes)
    BY <1>3, <1>5 DEF Stream
  <1>8. <<Stream', q[2]>> \in Carries
    BY <1>6, <1>7
  <1>a. PICK F, r, st : F = Framed(f[1]) /\ r = q[1] /\ st = Stream
    OBVIOUS
  <1>9. /\ F \in Seq(Bytes) /\ Len(F) = Len(f[1]) + 2 /\ Len(f[1]) \in Nat /\ Len(f[1]) >= 1
        /\ F[3] = f[1][1] /\ r \in Seq(Bytes) /\ Len(r) \in Nat
    <2>1. Len(f[1]) \in 1..MaxPayload /\ f[1] \in Seq(Bytes)
      BY BodyIs
    <2>2. /\ F \in Seq(Bytes) /\ Len(F) = Len(f[1]) + 2
          /\ \A k \in 1..Len(f[1]) : F[k + 2] = f[1][k]
      BY <1>a, FrameIs
    <2>3. 1 \in 1..Len(f[1])
      BY <2>1
    <2> QED BY <1>6, <1>a, <2>1, <2>2, <2>3
  <1>10. st = F \o r
    BY <1>4, <1>a DEF Begins, Stream
  <1>11. /\ Len(st) = Len(F) + Len(r)
         /\ \A k \in 1..(Len(F) + Len(r)) : st[k] = IF k <= Len(F) THEN F[k] ELSE r[k - Len(F)]
    BY <1>9, <1>10, ConcatProperties
  <1>12. NoReply(st) => NoReply(r)
    <2>1. \A k \in 1..Len(r) : Len(F) + k \in 1..Len(st) /\ st[Len(F) + k] = r[k]
      <3> TAKE k \in 1..Len(r)
      <3>1. Len(F) + k \in 1..(Len(F) + Len(r)) /\ ~(Len(F) + k <= Len(F)) /\ (Len(F) + k) - Len(F) = k
        BY <1>9
      <3> QED BY <1>11, <3>1
    <2> QED BY <2>1 DEF NoReply
  <1>b. NoReply(Stream) => NoReply(Stream')
    BY <1>7, <1>12, <1>a DEF NoReply
  <1>13. Stream[3] = type /\ 3 \in 1..Len(Stream)
    <2>1. 3 \in 1..(Len(F) + Len(r)) /\ 3 <= Len(F)
      BY <1>9
    <2>2. f[1][1] = type
      BY <1>3, <1>5
    <2>3. st[3] = F[3] /\ 3 \in 1..Len(st)
      BY <1>11, <2>1
    <2> QED BY <1>9, <1>a, <2>2, <2>3
  <1>14. type = SendReply => said = q[2] /\ ~NoReply(Stream)
    <2> SUFFICES ASSUME type = SendReply PROVE said = q[2] /\ ~NoReply(Stream)
      OBVIOUS
    <2>1. f[1][1] = SendReply /\ SendReply # Recv
      BY <1>3, <1>5, BytesAre
    <2>2. f[2] = <<>>
      BY <2>1, BodyIs
    <2>3. said = q[2]
      BY <1>5, <1>6, <2>2, ConcatEmptySeq
    <2> QED BY <1>13, <2>3 DEF NoReply
  <1>15. type = Recv => Tail(Body(deframer)) \in Pushes /\ said = Tail(Body(deframer)) \o q[2]
    <2> SUFFICES ASSUME type = Recv
                 PROVE  Tail(Body(deframer)) \in Pushes /\ said = Tail(Body(deframer)) \o q[2]
      OBVIOUS
    <2>1. f[1][1] = Recv /\ SendReply # Recv
      BY <1>3, <1>5, BytesAre
    <2>2. Tail(f[1]) = f[2] /\ f[2] \in Pushes
      BY <2>1, BodyIs
    <2> QED BY <1>5, <2>2
  <1>16. Takes(said, q[2], type)
    BY <1>6, <1>7, <1>8, <1>b, <1>14, <1>15 DEF Takes
  <1> QED BY <1>16

-----------------------------------------------------------------------------
(* The steps.                                                              *)

LEMMA HeardIs ==
  ASSUME NEW s \in Seq(Heard), NEW c
  PROVE  s = [n \in DOMAIN s |-> Message(c, n)] <=> \A n \in 1..Len(s) : s[n] = Message(c, n)
  <1>1. DOMAIN s = 1..Len(s) /\ s = [n \in DOMAIN s |-> s[n]]
    OBVIOUS
  <1>2. ASSUME \A n \in 1..Len(s) : s[n] = Message(c, n)
        PROVE  s = [n \in DOMAIN s |-> Message(c, n)]
    BY <1>1, <1>2
  <1>3. ASSUME s = [n \in DOMAIN s |-> Message(c, n)], NEW n \in 1..Len(s)
        PROVE  s[n] = Message(c, n)
    BY <1>1, <1>3, Zenon
  <1> QED BY <1>2, <1>3

LEMMA NotComplete == ~Complete(<<>>)
  BY DEF Complete

LEMMA NothingFollows == <<<<>> \o <<>>, <<>>>> \in Carries /\ <<>> \o <<>> = <<>>
  <1>1. <<>> \o <<>> = <<>>
    OBVIOUS
  <1> QED BY <1>1, CarriesClosed DEF Closed, Nothing

LEMMA NoughtIs ==
  /\ 0 \in 0..Hops /\ 0 \in 0..(3 * Messages) /\ 0 \in 0..MaxConns /\ 1..MaxConns \subseteq 0..MaxConns
  /\ <<>> \in Seq(Text \cup {CR}) /\ <<>> \in Seq(Text) /\ <<>> \in Seq(Bytes)
  /\ <<>> \in Seq([conn : 0..MaxConns, msg : 0..Messages])
  <1>1. /\ 0 \in 0..Hops /\ 0 \in 0..(3 * Messages) /\ 0 \in 0..MaxConns
        /\ 1..MaxConns \subseteq 0..MaxConns
    BY HopsAssumption, MessagesAssumption, MaxConnsAssumption
  <1>2. /\ <<>> \in Seq(Text \cup {CR}) /\ <<>> \in Seq(Text) /\ <<>> \in Seq(Bytes)
        /\ <<>> \in Seq([conn : 0..MaxConns, msg : 0..Messages])
    OBVIOUS
  <1> QED BY <1>1, <1>2

LEMMA InitInv == Init => IInv
  <1> SUFFICES ASSUME Init PROVE IInv
    OBVIOUS
  <1>1. TypeOK
    BY NoughtIs DEF Init, TypeOK
  <1>2. Stream = <<>>
    BY NothingFollows DEF Init, Stream
  <1>3. StageInv
    <2>1. ReadUpTo(0) /\ 0 <= sent
      BY DEF Init, ReadUpTo
    <2>2. HasRead
      BY <2>1 DEF HasRead
    <2> QED BY <1>2, <2>2 DEF Init, StageInv, InScript, InWps, NoReply
  <1>4. HeardInOrder
    <2>1. heard \in Seq(Heard) /\ ~hung /\ \A n \in 1..Len(heard) : heard[n] = Message(conn, n)
      BY DEF Init
    <2> QED BY <2>1, HeardIs DEF HeardInOrder
  <1>5. Follows(<<>>)
    <2>1. <<Stream, <<>>>> \in Carries
      BY NothingFollows DEF Init, Stream
    <2>2. RunnerInv(<<>> \o air)
      BY HopsAssumption DEF Init, RunnerInv
    <2>3. ReaderInv(<<>> \o air)
      BY DEF Init, ReaderInv, InWps
    <2> QED BY <2>1, <2>2, <2>3 DEF Follows
  <1> QED BY <1>1, <1>3, <1>4, <1>5 DEF IInv

LEMMA ConnectInv ==
  ASSUME TypeOK, StageInv, Connect
  PROVE  IInv'
  <1>0. conn' \in 1..MaxConns
    BY MaxConnsAssumption DEF TypeOK, Connect
  <1>1. TypeOK'
    BY <1>0, NoughtIs DEF Connect, TypeOK, Reset
  <1>2. Stream' = <<>>
    BY NothingFollows DEF Connect, Stream
  <1>3. StageInv'
    BY <1>0, <1>2 DEF Connect, StageInv, InScript, InWps, NoReply, Reset
  <1>4. HeardInOrder'
    <2>1. heard' \in Seq(Heard) /\ ~hung' /\ \A n \in 1..Len(heard') : heard'[n] = Message(conn', n)
      BY DEF Connect
    <2>2. heard' = [n \in DOMAIN heard' |-> Message(conn', n)]
      BY <2>1, HeardIs
    <2> QED BY <2>1, <2>2 DEF HeardInOrder
  <1>5. Follows(<<>>)'
    <2>1. <<Stream', <<>>>> \in Carries
      BY <1>2, NothingFollows
    <2>2. RunnerInv(<<>> \o air)'
      BY HopsAssumption DEF Connect, RunnerInv
    <2>3. ReaderInv(<<>> \o air)'
      BY DEF Connect, ReaderInv, InWps
    <2> QED BY <2>1, <2>2, <2>3 DEF Follows
  <1> QED BY <1>1, <1>3, <1>4, <1>5 DEF IInv

\* What has been read at any stage.
LEMMA ReadSoFar ==
  ASSUME TypeOK, StageInv, NEW said, Follows(said)
  PROVE  HasRead
  <1>1. CASE at = "down"
    BY <1>1 DEF StageInv
  <1>2. CASE InScript
    <2>1. buffer = <<>> /\ heard = <<>> /\ sent = 0
      BY <1>2 DEF StageInv
    <2>2. ReadUpTo(0)
      BY <2>1 DEF ReadUpTo
    <2> QED BY <2>1, <2>2 DEF HasRead
  <1>3. CASE InWps
    <2>1. PICK rest : rest = said \o air
      OBVIOUS
    <2>2. ReaderInv(rest) /\ Len(rest) \in Nat /\ sent \in Nat
      BY <2>1, SeqsAre DEF Follows, TypeOK
    <2>3. PICK p : p = sent - Len(rest)
      OBVIOUS
    <2>4. p \in Int /\ p <= sent
      BY <2>2, <2>3
    <2>5. ~hung => ReadUpTo(p)
      BY <1>3, <2>2, <2>3 DEF ReaderInv
    <2> QED BY <2>4, <2>5 DEF HasRead
  <1> QED BY <1>1, <1>2, <1>3 DEF TypeOK, InScript, InWps

LEMMA StutterInv ==
  ASSUME IInv, UNCHANGED vars
  PROVE  IInv'
  <1>1. /\ conn' = conn /\ at' = at /\ phase' = phase /\ hop' = hop /\ text' = text
        /\ finished' = finished /\ leftover' = leftover /\ buffer' = buffer /\ heard' = heard
        /\ hung' = hung /\ split' = split /\ late' = late
        /\ prompted' = prompted /\ asked' = asked /\ sent' = sent /\ air' = air
        /\ wire' = wire /\ deframer' = deframer
    BY DEF vars, runnerVars, readerVars, hostVars, socketVars
  <1>2. TypeOK' /\ StageInv' /\ HeardInOrder'
    BY <1>1 DEF IInv, TypeOK, StageInv, InScript, InWps, Stream, HeardInOrder, HasRead, ReadUpTo
  <1>3. PICK said : Follows(said)
    BY DEF IInv
  <1>4. Follows(said)'
    BY <1>1, <1>3 DEF Follows, Stream, RunnerInv, ReaderInv, InWps, ReadUpTo
  <1> QED BY <1>2, <1>4 DEF IInv

LEMMA ReadInv ==
  ASSUME TypeOK, StageInv, HeardInOrder, NEW said, Follows(said), NEW k, Read(k)
  PROVE  IInv'
  <1>0. /\ at # "down" /\ k \in 1..Len(wire)
        /\ deframer' = deframer \o SubSeq(wire, 1, k) /\ wire' = SubSeq(wire, k + 1, Len(wire))
        /\ conn' = conn /\ at' = at /\ phase' = phase /\ hop' = hop /\ text' = text
        /\ finished' = finished /\ leftover' = leftover /\ buffer' = buffer /\ heard' = heard
        /\ hung' = hung /\ split' = split /\ late' = late
        /\ prompted' = prompted /\ asked' = asked /\ sent' = sent /\ air' = air
    BY DEF Read, runnerVars, readerVars, hostVars
  <1>1. deframer \in Seq(Bytes) /\ wire \in Seq(Bytes)
    BY DEF TypeOK
  <1>2. /\ SubSeq(wire, 1, k) \in Seq(Bytes) /\ SubSeq(wire, k + 1, Len(wire)) \in Seq(Bytes)
        /\ SubSeq(wire, 1, k) \o SubSeq(wire, k + 1, Len(wire)) = wire
    BY <1>0, <1>1, CutIs
  <1>3. Stream' = Stream /\ deframer' \in Seq(Bytes) /\ wire' \in Seq(Bytes)
    <2>1. (deframer \o SubSeq(wire, 1, k)) \o SubSeq(wire, k + 1, Len(wire))
          = deframer \o (SubSeq(wire, 1, k) \o SubSeq(wire, k + 1, Len(wire)))
      <3>1. PICK a, c : a = SubSeq(wire, 1, k) /\ c = SubSeq(wire, k + 1, Len(wire))
        OBVIOUS
      <3>2. (deframer \o a) \o c = deframer \o (a \o c)
        BY <1>1, <1>2, <3>1, Associates
      <3> QED BY <3>1, <3>2
    <2>2. deframer \o SubSeq(wire, 1, k) \in Seq(Bytes)
      BY <1>1, <1>2, ConcatProperties
    <2>3. Stream' = deframer' \o wire' /\ Stream = deframer \o wire
      BY DEF Stream
    <2> QED BY <1>0, <1>2, <2>1, <2>2, <2>3
  <1>4. TypeOK'
    BY <1>0, <1>3 DEF TypeOK
  <1>5. StageInv'
    BY <1>0, <1>3 DEF StageInv, InScript, InWps
  <1>6. HeardInOrder'
    BY <1>0 DEF HeardInOrder
  <1>7. Follows(said)'
    BY <1>0, <1>3 DEF Follows, RunnerInv, ReaderInv, InWps, ReadUpTo
  <1> QED BY <1>4, <1>5, <1>6, <1>7 DEF IInv

LEMMA ResumeScriptDoneInv ==
  ASSUME TypeOK, StageInv, HeardInOrder, NEW said, Follows(said), ResumeScriptDone
  PROVE  IInv'
  <1>0. /\ at = "scriptDone" /\ phase' = "wps" /\ asked' = "sent" /\ at' = "sending"
        /\ conn' = conn /\ hop' = hop /\ text' = text
        /\ finished' = finished /\ leftover' = leftover /\ buffer' = buffer /\ heard' = heard
        /\ hung' = hung /\ split' = split /\ late' = late
        /\ prompted' = prompted /\ sent' = sent /\ air' = air
        /\ wire' = wire /\ deframer' = deframer
    BY DEF ResumeScriptDone, runnerVars, readerVars, socketVars
  <1>1. Stream' = Stream
    BY <1>0 DEF Stream
  <1>2. TypeOK'
    BY <1>0 DEF TypeOK
  <1>3. StageInv'
    BY <1>0, <1>1 DEF StageInv, InScript, InWps
  <1>4. HeardInOrder'
    BY <1>0 DEF HeardInOrder
  <1> DEFINE rest == said \o air
  <1>5. RunnerInv(rest) /\ rest \in {<<>>, <<CR>>}
    BY <1>0 DEF Follows, RunnerInv
  <1>6. sent = 0 /\ buffer = <<>> /\ heard = <<>>
    BY <1>0 DEF StageInv, InScript
  <1>7. RunnerInv(rest)'
    BY <1>0, <1>5 DEF RunnerInv
  <1>8. ReaderInv(rest)'
    <2>0. rest' = rest
      BY <1>0
    <2> HIDE DEF rest
    <2>1. CASE rest = <<>>
      <3>1. Len(rest) = 0 /\ Len(buffer) = 0 /\ Len(heard) = 0
        BY <1>6, <2>1
      <3> QED BY <1>0, <1>6, <2>0, <3>1 DEF ReaderInv, ReadUpTo
    <2>2. CASE rest = <<CR>>
      <3>1. Len(rest) = 1 /\ Len(heard) = 0 /\ rest[1] = CR
        BY <1>6, <2>2
      <3>2. Token(conn, 0) = CR
        BY TokenIs
      <3>3. sent' - Len(rest) = -1 /\ -1 = 3 * Len(heard') - 1 /\ buffer' = <<>>
        BY <1>0, <1>6, <3>1
      <3>4. \A k \in 1..Len(rest) : rest[k] = Token(conn', -1 + k)
        BY <1>0, <3>1, <3>2
      <3> QED BY <2>0, <3>3, <3>4 DEF ReaderInv, ReadUpTo
    <2> QED BY <1>5, <2>1, <2>2
  <1>9. Follows(said)'
    <2>1. <<Stream', said>> \in Carries
      BY <1>1 DEF Follows
    <2> QED BY <1>7, <1>8, <2>1 DEF Follows
  <1> QED BY <1>2, <1>3, <1>4, <1>9 DEF IInv

LEMMA PromptInv ==
  ASSUME TypeOK, StageInv, HeardInOrder, NEW said, Follows(said), Prompt
  PROVE  IInv'
  <1> DEFINE X == IF Tail0D /\ prompted + 1 = Hops THEN <<CR>> ELSE <<>>
             rest == said \o air
  <1>0. /\ at # "down" /\ prompted <= hop /\ prompted < Hops
        /\ prompted' = prompted + 1 /\ air' = air \o Val \o X
        /\ conn' = conn /\ at' = at /\ phase' = phase /\ hop' = hop /\ text' = text
        /\ finished' = finished /\ leftover' = leftover /\ buffer' = buffer /\ heard' = heard
        /\ hung' = hung /\ split' = split /\ late' = late /\ asked' = asked /\ sent' = sent
        /\ wire' = wire /\ deframer' = deframer
    BY DEF Prompt, runnerVars, readerVars, socketVars
  <1>1. Stream' = Stream
    BY <1>0 DEF Stream
  <1>2. prompted \in Nat /\ hop \in Nat /\ Hops \in Nat /\ hop \in 0..Hops
    BY HopsAssumption DEF TypeOK
  <1>3. RunnerInv(rest)
    BY DEF Follows
  <1>4. at = "script" /\ prompted = hop
    BY <1>0, <1>2, <1>3 DEF RunnerInv
  <1>5. air' \in Seq(Said)
    <2>1. air \in Seq(Said) /\ Val \in Seq(Said) /\ X \in Seq(Said)
      <3>1. air \in Seq(Said)
        BY SeqsAre
      <3>2. Val \in Seq(Said)
        BY DEF Val, Said, Text
      <3>3. <<CR>> \in Seq(Said) /\ <<>> \in Seq(Said)
        BY DEF Said
      <3> QED BY <3>1, <3>2, <3>3
    <2>2. air \o Val \in Seq(Said)
      BY <2>1, ConcatProperties
    <2> QED BY <1>0, <2>1, <2>2, ConcatProperties
  <1>6. ASSUME ~finished
        PROVE  text = <<>> /\ said = <<>> /\ air = <<>>
    <2>1. text \in Seq(Said) /\ rest \in Seq(Said) /\ said \in Seq(Said) /\ air \in Seq(Said)
      BY SeqsAre
    <2>2. text \o rest = <<>>
      BY <1>2, <1>3, <1>4, <1>6 DEF RunnerInv
    <2>3. text = <<>> /\ rest = <<>>
      BY <2>1, <2>2, ConcatEqualIffEmpty
    <2> QED BY <2>1, <2>3, ConcatEqualIffEmpty
  <1>7. ASSUME ~finished
        PROVE  air' = Answer(prompted') /\ said \o air' = air'
    <2>1. Val \in Seq(Said)
      BY DEF Val, Said, Text
    <2>2. air \o Val = Val
      BY <1>6, <1>7, <2>1, ConcatEmptySeq
    <2>3. air' = Answer(prompted')
      BY <1>0, <2>2 DEF Answer
    <2> QED BY <1>5, <1>6, <1>7, <2>3, ConcatEmptySeq
  <1> HIDE DEF X, rest
  <1>8. TypeOK'
    <2>1. air' \in Seq(Text \cup {CR})
      BY <1>5 DEF Said
    <2>2. prompted' \in 0..Hops
      BY <1>0, <1>2
    <2> QED BY <1>0, <2>1, <2>2 DEF TypeOK
  <1>9. StageInv'
    BY <1>0, <1>1 DEF StageInv, InScript, InWps
  <1>10. HeardInOrder'
    BY <1>0 DEF HeardInOrder
  <1>11. RunnerInv(said \o air)'
    <2>1. ~finished => text' \o (said \o air') = Answer(prompted') /\ Len(text') <= 1
      BY <1>0, <1>5, <1>6, <1>7, ConcatEmptySeq
    <2>2. prompted' = hop' + 1 /\ hop' < Hops /\ hop' <= prompted'
      BY <1>0, <1>2, <1>4
    <2>3. hop' # prompted'
      BY <1>0, <1>2, <1>4
    <2> QED BY <1>0, <1>3, <1>4, <2>1, <2>2, <2>3 DEF RunnerInv
  <1>12. ReaderInv(said \o air)'
    BY <1>0, <1>4 DEF ReaderInv, InWps
  <1>13. Follows(said)'
    <2>1. <<Stream', said>> \in Carries
      BY <1>1 DEF Follows
    <2> QED BY <1>11, <1>12, <2>1 DEF Follows
  <1> QED BY <1>8, <1>9, <1>10, <1>13 DEF IInv

\* A frame more on the wire.
LEMMA WireWritten ==
  ASSUME TypeOK, NEW said, Follows(said), NEW f \in Frames,
         wire' = wire \o Framed(f[1]), deframer' = deframer
  PROVE  /\ <<Stream', said \o f[2]>> \in Carries
         /\ wire' \in Seq(Bytes)
         /\ NoReply(Stream) /\ f[1][1] = Recv => NoReply(Stream')
  <1>0. PICK F : F = Framed(f[1])
    OBVIOUS
  <1>1. deframer \in Seq(Bytes) /\ wire \in Seq(Bytes) /\ Stream \in Seq(Bytes)
    BY SeqsAre
  <1>2. /\ F \in Seq(Bytes) /\ Len(F) = Len(f[1]) + 2 /\ F[1] # SendReply /\ F[2] # SendReply
        /\ Len(f[1]) \in Nat /\ Len(f[1]) >= 1
        /\ \A k \in 1..Len(f[1]) : F[k + 2] = f[1][k]
    <2>1. f[1] \in Seq(Bytes) /\ Len(f[1]) \in 1..MaxPayload
      BY BodyIs
    <2>2. Len(f[1]) \in Nat /\ Len(f[1]) >= 1
      BY <2>1
    <2>3. /\ F \in Seq(Bytes) /\ Len(F) = Len(f[1]) + 2 /\ F[1] # SendReply /\ F[2] # SendReply
          /\ \A k \in 1..Len(f[1]) : F[k + 2] = f[1][k]
      BY <1>0, FrameIs
    <2> QED BY <2>2, <2>3
  <1>3. Stream' = Stream \o F
    <2>1. (deframer \o wire) \o F = deframer \o (wire \o F)
      BY <1>1, <1>2, Associates
    <2> QED BY <1>0, <2>1 DEF Stream
  <1>4. wire' \in Seq(Bytes)
    BY <1>0, <1>1, <1>2, ConcatProperties
  <1>5. <<Stream', said \o f[2]>> \in Carries
    <2>1. Ended(<<Stream, said>>, f) \in Carries
      BY CarriesEnded DEF Follows
    <2>2. Ended(<<Stream, said>>, f) = <<Stream \o F, said \o f[2]>>
      BY <1>0 DEF Ended
    <2> QED BY <1>3, <2>1, <2>2
  <1>6. ASSUME NoReply(Stream), f[1][1] = Recv
        PROVE  NoReply(Stream')
    <2>1. f[1] = <<Recv>> \o f[2] /\ f[2] \in Seq(Said)
      BY <1>6, BodyIs, BytesAre
    <2>2. \A k \in 1..Len(f[1]) : f[1][k] # SendReply
      <3>1. f[2] \in Seq(Bytes) /\ <<Recv>> \in Seq(Bytes) /\ Len(<<Recv>>) = 1 /\ <<Recv>>[1] = Recv
        BY <2>1, BytesAre, SeqMonotonic
      <3>2. /\ Len(f[1]) = 1 + Len(f[2])
            /\ \A k \in 1..(1 + Len(f[2])) : f[1][k] = IF k <= 1 THEN <<Recv>>[k] ELSE f[2][k - 1]
        BY <2>1, <3>1, ConcatProperties
      <3> TAKE k \in 1..Len(f[1])
      <3>3. CASE k = 1
        BY <1>6, <3>3, BytesAre
      <3>4. CASE k # 1
        <4>1. k - 1 \in 1..Len(f[2]) /\ f[1][k] = f[2][k - 1]
          BY <1>2, <3>2, <3>4
        <4>2. f[2][k - 1] \in Said
          BY <2>1, <4>1, ElementOfSeq
        <4> QED BY <4>1, <4>2, BytesAre
      <3> QED BY <3>3, <3>4
    <2>3. \A k \in 1..Len(F) : F[k] # SendReply
      <3> TAKE k \in 1..Len(F)
      <3>1. CASE k = 1 \/ k = 2
        BY <1>2, <3>1
      <3>2. CASE k # 1 /\ k # 2
        <4>1. k - 2 \in 1..Len(f[1]) /\ (k - 2) + 2 = k
          BY <1>2, <3>2
        <4> QED BY <1>2, <2>2, <4>1
      <3> QED BY <3>1, <3>2
    <2>a. PICK s, t : s = Stream /\ t = s \o F
      OBVIOUS
    <2>4. /\ Len(t) = Len(s) + Len(F)
          /\ \A k \in 1..(Len(s) + Len(F)) :
               t[k] = IF k <= Len(s) THEN s[k] ELSE F[k - Len(s)]
      <3>1. s \in Seq(Bytes) /\ F \in Seq(Bytes)
        BY <1>1, <1>2, <2>a
      <3>2. t = s \o F
        BY <2>a
      <3> QED BY <3>1, <3>2, ConcatProperties
    <2>b. Len(s) \in Nat /\ \A k \in 1..Len(s) : s[k] # SendReply
      BY <1>1, <1>6, <2>a DEF NoReply
    <2>5. \A k \in 1..Len(t) : t[k] # SendReply
      <3> TAKE k \in 1..Len(t)
      <3>1. CASE k <= Len(s)
        BY <2>b, <2>4, <3>1
      <3>2. CASE ~(k <= Len(s))
        <4>1. k - Len(s) \in 1..Len(F)
          BY <1>2, <2>b, <2>4, <3>2
        <4> QED BY <2>3, <2>4, <3>2, <4>1
      <3> QED BY <3>1, <3>2
    <2>6. Stream' = t
      BY <1>3, <2>a
    <2> QED BY <2>5, <2>6 DEF NoReply
  <1> QED BY <1>4, <1>5, <1>6

LEMMA AnswerSendInv ==
  ASSUME TypeOK, StageInv, HeardInOrder, NEW said, Follows(said), AnswerSend
  PROVE  IInv'
  <1>0. /\ at = "sending" /\ asked' = "replied" /\ wire' = wire \o Framed(<<SendReply>>)
        /\ conn' = conn /\ at' = at /\ phase' = phase /\ hop' = hop /\ text' = text
        /\ finished' = finished /\ leftover' = leftover /\ buffer' = buffer /\ heard' = heard
        /\ hung' = hung /\ split' = split /\ late' = late
        /\ prompted' = prompted /\ sent' = sent /\ air' = air
        /\ deframer' = deframer
    BY DEF AnswerSend, runnerVars, readerVars
  <1> DEFINE f == <<<<SendReply>>, <<>>>>
  <1>1. f \in Frames /\ f[1] = <<SendReply>> /\ f[2] = <<>>
    BY DEF Frames
  <1> HIDE DEF f
  <1>2. <<Stream', said \o f[2]>> \in Carries /\ wire' \in Seq(Bytes)
    BY <1>0, <1>1, WireWritten
  <1>3. said \o f[2] = said
    BY <1>1, SeqsAre, ConcatEmptySeq
  <1>4. TypeOK'
    BY <1>0, <1>2 DEF TypeOK
  <1>5. StageInv'
    BY <1>0 DEF StageInv, InScript, InWps
  <1>6. HeardInOrder'
    BY <1>0 DEF HeardInOrder
  <1>7. RunnerInv(said \o air)' /\ ReaderInv(said \o air)'
    BY <1>0 DEF Follows, RunnerInv, ReaderInv, InWps, ReadUpTo
  <1>8. Follows(said)'
    BY <1>2, <1>3, <1>7 DEF Follows
  <1> QED BY <1>4, <1>5, <1>6, <1>8 DEF IInv

LEMMA PushInv ==
  ASSUME TypeOK, StageInv, HeardInOrder, NEW said, Follows(said), NEW n \in 1..MaxPush, Push(n)
  PROVE  IInv'
  <1>a. PICK x, left : x = SubSeq(air, 1, n) /\ left = SubSeq(air, n + 1, Len(air))
    OBVIOUS
  <1>b. PICK f : f = <<<<Recv>> \o x, x>>
    OBVIOUS
  <1>0. /\ n \in 1..Len(air) /\ air' = left /\ wire' = wire \o Framed(<<Recv>> \o x)
        /\ conn' = conn /\ at' = at /\ phase' = phase /\ hop' = hop /\ text' = text
        /\ finished' = finished /\ leftover' = leftover /\ buffer' = buffer /\ heard' = heard
        /\ hung' = hung /\ split' = split /\ late' = late
        /\ prompted' = prompted /\ sent' = sent /\ asked' = asked
        /\ deframer' = deframer
    BY <1>a DEF Push, runnerVars, readerVars
  <1>1. said \in Seq(Said) /\ air \in Seq(Said)
    BY SeqsAre
  <1>2. x \in Seq(Said) /\ Len(x) = n /\ left \in Seq(Said) /\ x \o left = air
    BY <1>0, <1>1, <1>a, CutIs
  <1>3. x \in Pushes
    BY <1>2 DEF Pushes
  <1>4. f \in Frames /\ f[1] = <<Recv>> \o x /\ f[2] = x
    BY <1>3, <1>b DEF Frames
  <1>5. f[1][1] = Recv
    <2>1. x # <<>> /\ f[2] # <<>>
      BY <1>2, <1>4
    <2>2. f[2] = <<>> \/ f[1][1] = Recv
      BY <1>4, BodyIs, Zenon
    <2> QED BY <2>1, <2>2
  <1>6. /\ <<Stream', said \o x>> \in Carries /\ wire' \in Seq(Bytes)
        /\ NoReply(Stream) => NoReply(Stream')
    <2>1. wire' = wire \o Framed(f[1]) /\ deframer' = deframer /\ f \in Frames
      BY <1>0, <1>4
    <2>2. /\ <<Stream', said \o f[2]>> \in Carries /\ wire' \in Seq(Bytes)
          /\ NoReply(Stream) /\ f[1][1] = Recv => NoReply(Stream')
      BY <2>1, WireWritten
    <2>3. f[2] = x
      BY <1>4
    <2> QED BY <1>5, <2>2, <2>3, Zenon
  <1>7. (said \o x) \o air' = said \o air
    <2>1. (said \o x) \o left = said \o (x \o left)
      <3>1. x \in Seq(Said) /\ left \in Seq(Said)
        BY <1>2
      <3> QED BY <1>1, <3>1, Associates
    <2> QED BY <1>0, <1>2, <2>1
  <1>8. TypeOK'
    <2>1. air' \in Seq(Text \cup {CR})
      BY <1>0, <1>2 DEF Said
    <2> QED BY <1>0, <1>6, <2>1 DEF TypeOK
  <1>9. StageInv'
    <2>1. at # "down"
      BY <1>0 DEF StageInv
    <2> QED BY <1>0, <1>6, <2>1 DEF StageInv, InScript, InWps
  <1>10. HeardInOrder'
    BY <1>0 DEF HeardInOrder
  <1>11. RunnerInv((said \o x) \o air)' /\ ReaderInv((said \o x) \o air)'
    <2>1. RunnerInv(said \o air) /\ ReaderInv(said \o air)
      BY DEF Follows
    <2>2. PICK rest : rest = said \o air
      OBVIOUS
    <2>3. RunnerInv(rest)' /\ ReaderInv(rest)'
      BY <1>0, <2>1, <2>2 DEF RunnerInv, ReaderInv, InWps, ReadUpTo
    <2>4. rest = (said \o x) \o air'
      BY <1>7, <2>2
    <2> QED BY <2>3, <2>4 DEF RunnerInv, ReaderInv
  <1>12. Follows(said \o x)'
    BY <1>6, <1>11 DEF Follows
  <1> QED BY <1>8, <1>9, <1>10, <1>12 DEF IInv

LEMMA ServiceSendsInv ==
  ASSUME TypeOK, StageInv, HeardInOrder, NEW said, Follows(said), ServiceSends
  PROVE  IInv'
  <1>a. PICK tok, rest : tok = Token(conn, sent + 1) /\ rest = said \o air
    OBVIOUS
  <1>0. /\ at # "down" /\ asked = "replied" /\ sent < 3 * Messages
        /\ sent' = sent + 1 /\ air' = Append(air, tok)
        /\ conn' = conn /\ at' = at /\ phase' = phase /\ hop' = hop /\ text' = text
        /\ finished' = finished /\ leftover' = leftover /\ buffer' = buffer /\ heard' = heard
        /\ hung' = hung /\ split' = split /\ late' = late
        /\ prompted' = prompted /\ asked' = asked
        /\ wire' = wire /\ deframer' = deframer
    BY <1>a DEF ServiceSends, runnerVars, readerVars, socketVars
  <1>1. Messages \in Nat /\ sent \in Nat /\ sent + 1 <= 3 * Messages /\ conn \in 1..MaxConns
    BY <1>0, MessagesAssumption, MaxConnsAssumption DEF TypeOK, StageInv
  <1>2. tok \in Said
    <2>1. sent + 1 \in Nat
      BY <1>1
    <2> QED BY <1>1, <1>a, <2>1, TokenIs
  <1>3. said \in Seq(Said) /\ air \in Seq(Said) /\ rest \in Seq(Said)
    BY <1>a, SeqsAre
  <1>4. air' \in Seq(Said) /\ said \o air' = Append(rest, tok)
    <2>1. air' \in Seq(Said) /\ air' = air \o <<tok>> /\ <<tok>> \in Seq(Said)
      BY <1>0, <1>2, <1>3, AppendProperties, AppendIsConcat
    <2>2. said \o (air \o <<tok>>) = rest \o <<tok>>
      <3>1. (said \o air) \o <<tok>> = said \o (air \o <<tok>>)
        BY <1>3, <2>1, Associates
      <3> QED BY <1>a, <3>1
    <2>3. rest \o <<tok>> = Append(rest, tok)
      BY <1>2, <1>3, AppendIsConcat
    <2> QED BY <2>1, <2>2, <2>3
  <1>5. Stream' = Stream
    BY <1>0 DEF Stream
  <1>6. TypeOK'
    <2>1. air' \in Seq(Text \cup {CR})
      BY <1>4 DEF Said
    <2>2. sent' \in 0..(3 * Messages)
      BY <1>0, <1>1
    <2> QED BY <1>0, <2>1, <2>2 DEF TypeOK
  <1>7. StageInv' /\ InWps
    BY <1>0, <1>5 DEF StageInv, InScript, InWps, TypeOK
  <1>8. HeardInOrder'
    <2>1. \A m \in Garbled : sent >= 3 * m => sent' >= 3 * m
      BY <1>0, <1>1, MessagesAssumption
    <2> QED BY <1>0, <2>1 DEF HeardInOrder
  <1>9. RunnerInv(said \o air) /\ ReaderInv(rest)
    BY <1>a DEF Follows
  <1>10. RunnerInv(said \o air)'
    BY <1>0, <1>7, <1>9 DEF RunnerInv, InWps
  <1>11. ReaderInv(said \o air)'
    <2>a. PICK r, p : r = Append(rest, tok) /\ p = sent - Len(rest)
      OBVIOUS
    <2>1. /\ Len(r) = Len(rest) + 1 /\ Len(rest) \in Nat /\ r[Len(rest) + 1] = tok
          /\ \A k \in 1..Len(rest) : r[k] = rest[k]
      BY <1>2, <1>3, <2>a, AppendProperties
    <2>3. sent' - Len(r) = p
      BY <1>0, <1>1, <2>1, <2>a
    <2> SUFFICES ASSUME ~hung
                 PROVE  ReaderInv(r)'
      BY <1>0, <1>4, <2>a DEF ReaderInv
    <2>4. ReadUpTo(p) /\ \A k \in 1..Len(rest) : rest[k] = Token(conn, p + k)
      BY <1>7, <1>9, <2>a DEF ReaderInv
    <2>5. p + (Len(rest) + 1) = sent + 1
      BY <1>1, <2>1, <2>a
    <2>6. \A k \in 1..Len(r) : r[k] = Token(conn, p + k)
      <3> TAKE k \in 1..Len(r)
      <3>1. CASE k = Len(rest) + 1
        BY <1>a, <2>1, <2>5, <3>1
      <3>2. CASE k # Len(rest) + 1
        <4>1. k \in 1..Len(rest)
          BY <2>1, <3>2
        <4> QED BY <2>1, <2>4, <4>1
      <3> QED BY <3>1, <3>2
    <2>7. ReadUpTo(p)'
      BY <1>0, <2>4 DEF ReadUpTo
    <2> QED BY <1>0, <2>3, <2>6, <2>7 DEF ReaderInv
  <1>12. Follows(said)'
    <2>1. <<Stream', said>> \in Carries
      BY <1>5 DEF Follows
    <2> QED BY <1>10, <1>11, <2>1 DEF Follows
  <1> QED BY <1>6, <1>7, <1>8, <1>12 DEF IInv
LEMMA HandleSendReplyInv ==
  ASSUME TypeOK, StageInv, HeardInOrder, NEW said, Follows(said), HandleSendReply
  PROVE  IInv'
  <1>0. /\ Dispatched(SendReply) /\ at' = "sent" /\ wire' = wire
        /\ conn' = conn /\ phase' = phase /\ hop' = hop /\ text' = text
        /\ finished' = finished /\ leftover' = leftover /\ buffer' = buffer /\ heard' = heard
        /\ hung' = hung /\ split' = split /\ late' = late
        /\ prompted' = prompted /\ asked' = asked /\ sent' = sent /\ air' = air
    BY DEF HandleSendReply, runnerVars, readerVars, hostVars
  <1>1. PICK left : Takes(said, left, SendReply)
    BY <1>0, DispatchTakes
  <1>2. /\ <<Stream', said>> \in Carries /\ deframer' \in Seq(Bytes)
        /\ asked = "replied"
    BY <1>1 DEF Takes, StageInv
  <1>3. InWps /\ at # "script" /\ at # "down" /\ finished
    <2>1. at # "down"
      BY <1>0, NotComplete DEF Dispatched, StageInv
    <2>2. ~InScript
      BY <1>2 DEF StageInv
    <2> QED BY <2>1, <2>2 DEF TypeOK, InScript, InWps, StageInv
  <1>4. TypeOK'
    BY <1>0, <1>2 DEF TypeOK
  <1>5. StageInv'
    BY <1>0, <1>2, <1>3 DEF StageInv, InScript, InWps
  <1>6. HeardInOrder'
    BY <1>0 DEF HeardInOrder
  <1>7. RunnerInv(said \o air)' /\ ReaderInv(said \o air)'
    BY <1>0, <1>3 DEF Follows, RunnerInv, ReaderInv, InWps, ReadUpTo
  <1>8. Follows(said)'
    BY <1>2, <1>7 DEF Follows
  <1> QED BY <1>4, <1>5, <1>6, <1>8 DEF IInv

\* The reader takes the stream's next tokens.  A leftover terminator behind
\* a frame's beginning may stand for one that the service has not sent.
LEMMA Reads ==
  ASSUME TypeOK, HeardInOrder, conn >= 1, ~hung, NEW chunk \in Seq(Said), Ingest(chunk),
         conn' = conn, sent' = sent,
         NEW b, b = buffer \o chunk, NEW s \in {0, 1}, s <= Len(b),
         \A k \in 1..Len(b) : b[k] = Token(conn, 3 * Len(heard) - s + k),
         NEW p, p = 3 * Len(heard) - s + Len(b),
         p <= 3 * Messages, p <= sent \/ split'
  PROVE  HeardInOrder' /\ (~hung' => ReadUpTo(p)')
  <1>0. PICK h : h = Len(heard)
    OBVIOUS
  <1>1. /\ buffer \in Seq(Said) /\ heard \in Seq(Heard) /\ h \in Nat /\ sent \in Nat
        /\ sent <= 3 * Messages /\ Messages \in Nat
    <2>1. buffer \in Seq(Said)
      BY SeqMonotonic DEF TypeOK, Said
    <2>2. heard \in Seq(Heard)
      BY DEF TypeOK, Heard
    <2> QED BY <2>1, <2>2, <1>0, MessagesAssumption DEF TypeOK
  <1>2. b \in Seq(Said) /\ Len(b) \in Nat
    <2>1. b \in Seq(Said)
      BY <1>1, ConcatProperties
    <2> QED BY <2>1
  <1>3. PICK m : m = (Len(b) - s) \div 3
    OBVIOUS
  <1>4. m \in Nat /\ 3 * m <= Len(b) - s
    <2>1. Len(b) - s \in Nat
      BY <1>2
    <2> QED BY <1>3, <2>1
  <1>5. FromStream(b, h, s, m)
    BY <1>0, <1>1, <1>2, <1>3, <1>4 DEF FromStream
  <1>6. h + m <= Messages /\ 3 * (h + m) <= p /\ p \in Int
    BY <1>0, <1>1, <1>2, <1>4
  <1>7. \A n \in 1..h : heard[n] = Message(conn, n)
    BY <1>0, <1>1, HeardIs DEF HeardInOrder
  <1>8. Heeded(h, m, Len(b) - s - 3 * m)
    BY <1>0, <1>5, <1>6, <1>7, IngestHeeds
  <1>9. CASE hung' = TRUE /\ \E i \in Garbled : i <= h + m
    <2>1. PICK i \in Garbled : i <= h + m
      BY <1>9
    <2>2. i \in Nat
      BY MessagesAssumption
    <2>3. split' \/ sent' >= 3 * i
      BY <1>1, <1>4, <1>6, <2>1, <2>2
    <2> QED BY <1>9, <2>3 DEF HeardInOrder
  <1>10. CASE /\ hung' = hung /\ Len(heard') = h + m
              /\ \A n \in 1..(h + m) : heard'[n] = Message(conn, n)
              /\ Len(buffer') = Len(b) - s - 3 * m /\ Len(b) - s - 3 * m <= 2
              /\ \A k \in 1..Len(buffer') : buffer'[k] = Token(conn, 3 * (h + m) + k)
    <2>1. HeardInOrder'
      <3>1. heard' \in Seq(Heard)
        BY IngestTyped
      <3>2. heard' = [n \in DOMAIN heard' |-> Message(conn, n)]
        BY <3>1, <1>10, HeardIs
      <3> QED BY <3>2, <1>10 DEF HeardInOrder
    <2>2. p = 3 * Len(heard') + Len(buffer')
      BY <1>0, <1>1, <1>2, <1>4, <1>10
    <2>3. ReadUpTo(p)'
      BY <1>10, <2>2 DEF ReadUpTo
    <2> QED BY <2>1, <2>3
  <1> QED BY <1>8, <1>9, <1>10 DEF Heeded
\* A push of the node's answer.
LEMMA FeedInv ==
  ASSUME TypeOK, StageInv, NEW x \in Pushes, NEW r \in Seq(Said), InScript,
         RunnerInv(x \o r), FeedRunner(x), prompted' = prompted
  PROVE  /\ RunnerInv(r)' /\ InScript' /\ (at' = "scriptDone" => finished')
         /\ hop' \in 0..Hops /\ text' \in Seq(Said) /\ leftover' \in Seq(Said) /\ finished' \in BOOLEAN
  <1>1. /\ x \in Seq(Said) /\ Len(x) >= 1 /\ Len(x) \in Nat
        /\ text \in Seq(Said) /\ leftover \in Seq(Said)
        /\ hop \in Nat /\ Hops \in Nat /\ hop <= Hops /\ prompted \in Nat /\ prompted <= Hops
    BY HopsAssumption DEF Pushes, TypeOK, Said
  <1>2. <<>> \in Seq(Said) /\ <<CR>> \in Seq(Said) /\ <<>> # <<CR>>
    BY DEF Said
  <1>3. CASE finished
    <2>1. finished \in BOOLEAN
      BY DEF TypeOK
    <2>2. /\ at' = at /\ hop' = hop /\ text' = text /\ finished' = finished /\ leftover' = leftover
      BY <1>3 DEF FeedRunner, runnerVars
    <2>4. ASSUME x \o r \in {<<>>, <<CR>>}
          PROVE  r = <<>>
      <3>1. Len(x \o r) = Len(x) + Len(r) /\ Len(r) \in Nat
        BY <1>1, ConcatProperties
      <3>2. Len(<<>>) = 0 /\ Len(<<CR>>) = 1
        OBVIOUS
      <3>3. Len(x) + Len(r) \in {0, 1}
        BY <2>4, <3>1, <3>2, Zenon
      <3> QED BY <1>1, <3>1, <3>3
    <2>5. RunnerInv(r)'
      BY <1>3, <2>2, <2>4 DEF RunnerInv
    <2> QED BY <1>1, <1>3, <2>1, <2>2, <2>5 DEF InScript, TypeOK
  <1>4. CASE at = "script" /\ ~finished
    <2>1. /\ hop < Hops /\ prompted \in {hop, hop + 1} /\ leftover \in {<<>>, <<CR>>}
          /\ text \o (x \o r) = IF prompted = hop THEN <<>> ELSE Answer(prompted)
      BY <1>4 DEF StageInv, RunnerInv
    <2>2. PICK t, n : t = text \o x /\ n = Turns(t)
      OBVIOUS
    <2>3. /\ hop' = hop + n /\ text' = Sliced(t, n) /\ finished' = (hop' = Hops)
          /\ IF finished' THEN at' = "scriptDone" /\ leftover' = text'
             ELSE at' = at /\ leftover' = leftover
      BY <1>4, <2>2 DEF FeedRunner
    <2>4. t \in Seq(Said) /\ Len(t) >= 1 /\ t \o r = text \o (x \o r)
      <3>1. t \in Seq(Said) /\ Len(t) = Len(text) + Len(x) /\ Len(text) \in Nat
        BY <1>1, <2>2, ConcatProperties
      <3>2. (text \o x) \o r = text \o (x \o r)
        BY <1>1, Associates
      <3> QED BY <1>1, <2>2, <3>1, <3>2
    <2>5. prompted = hop + 1 /\ t \o r = Answer(prompted)
      <3>1. t \o r # <<>>
        <4>1. t # <<>>
          BY <2>4
        <4> QED BY <2>4, <4>1, ConcatEqualIffEmpty
      <3> QED BY <2>1, <2>4, <3>1
    <2>6. FedIs(t, r, prompted)
      BY <2>4, <2>5, AnswerFed
    <2>7. CASE Len(t) = 1 /\ Matches(t) = {}
      <3>1. n = 0
        BY <1>1, <2>1, <2>2, <2>7, TurnsAre
      <3>2. hop' = hop /\ text' = t /\ finished' = FALSE /\ at' = "script" /\ leftover' = leftover
        <4>1. hop' = hop
          BY <1>1, <2>3, <3>1
        <4>2. Sliced(t, 0) = t
          BY DEF Sliced
        <4>3. text' = t
          BY <2>3, <3>1, <4>2
        <4>4. hop' # Hops
          BY <1>1, <2>1, <4>1
        <4>5. finished' = FALSE
          BY <2>3, <4>4
        <4> QED BY <1>4, <2>3, <4>1, <4>3, <4>5, Zenon
      <3>3. RunnerInv(r)'
        <4>1. /\ hop' <= prompted' /\ hop' < Hops /\ prompted' \in {hop', hop' + 1}
              /\ prompted' # hop'
          BY <1>1, <2>1, <2>5, <3>2
        <4>2. Len(text') <= 1 /\ text' \o r = Answer(prompted')
          <5>1. Len(text') = 1 /\ \A l : l = 1 => l <= 1
            BY <2>7, <3>2
          <5>2. text' \o r = Answer(prompted')
            BY <2>5, <3>2, Zenon
          <5> QED BY <5>1, <5>2, Zenon
        <4>3. leftover' \in {<<>>, <<CR>>} /\ at' = "script"
          BY <2>1, <3>2, Zenon
        <4> QED BY <4>1, <4>2, <4>3 DEF RunnerInv
      <3>4. hop' \in 0..Hops /\ text' \in Seq(Said)
        BY <1>1, <2>4, <3>2
      <3>5. leftover' \in Seq(Said) /\ finished' \in BOOLEAN /\ InScript' /\ at' = "script" /\ ~finished'
        BY <1>1, <3>2, Zenon DEF InScript
      <3> QED BY <3>3, <3>4, <3>5
    <2>8. CASE /\ Matches(t) = {1} /\ Sliced(t, 1) \in {<<>>, <<CR>>} /\ r \in {<<>>, <<CR>>}
               /\ prompted # Hops => Sliced(t, 1) = <<>> /\ r = <<>>
      <3>1. n = 1
        BY <1>1, <2>1, <2>2, <2>8, TurnsAre
      <3>2. hop' = prompted /\ text' = Sliced(t, 1) /\ text' \in {<<>>, <<CR>>}
        BY <1>1, <2>3, <2>5, <2>8, <3>1
      <3>3. CASE prompted = Hops
        <4>1. finished' = TRUE /\ at' = "scriptDone" /\ leftover' = text'
          BY <2>3, <3>2, <3>3
        <4>2. RunnerInv(r)'
          BY <1>1, <2>8, <3>2, <3>3, <4>1 DEF RunnerInv
        <4>3. hop' \in 0..Hops /\ text' \in Seq(Said)
          <5>1. hop' \in 0..Hops
            BY <1>1, <3>2
          <5>2. text' \in Seq(Said)
            BY <1>2, <3>2, Zenon
          <5> QED BY <5>1, <5>2
        <4>4. leftover' \in Seq(Said)
          BY <4>1, <4>3, Zenon
        <4>5. finished' \in BOOLEAN /\ InScript' /\ at' # "script"
          BY <4>1 DEF InScript
        <4> QED BY <4>1, <4>2, <4>3, <4>4, <4>5, Zenon
      <3>4. CASE prompted # Hops
        <4>1. finished' = FALSE /\ at' = "script" /\ leftover' = leftover
          BY <1>4, <2>3, <3>2, <3>4
        <4>2. text' = <<>> /\ r = <<>>
          BY <2>8, <3>2, <3>4
        <4>3. hop' < Hops /\ hop' <= prompted'
          BY <1>1, <3>2, <3>4
        <4>4. Len(text') <= 1 /\ text' \o r = <<>>
          BY <4>2, <1>2, ConcatEmptySeq
        <4>5. RunnerInv(r)'
          BY <2>1, <3>2, <4>1, <4>3, <4>4 DEF RunnerInv
        <4>6. hop' \in 0..Hops /\ text' \in Seq(Said)
          <5>1. hop' \in 0..Hops
            BY <1>1, <3>2
          <5>2. text' \in Seq(Said)
            BY <1>2, <3>2, Zenon
          <5> QED BY <5>1, <5>2
        <4>7. leftover' \in Seq(Said)
          BY <1>1, <4>1, Zenon
        <4>8. finished' \in BOOLEAN /\ InScript' /\ at' = "script"
          BY <4>1 DEF InScript
        <4> QED BY <4>1, <4>5, <4>6, <4>7, <4>8, Zenon
      <3> QED BY <3>3, <3>4
    <2> QED BY <2>6, <2>7, <2>8 DEF FedIs
  <1> QED BY <1>3, <1>4 DEF InScript, StageInv

\* A push of the service's stream.
LEMMA IngestInv ==
  ASSUME TypeOK, StageInv, HeardInOrder, NEW x \in Pushes, NEW r \in Seq(Said), InWps,
         ReaderInv(x \o r), Ingest(x), conn' = conn, sent' = sent, split' = split, at' = at
  PROVE  HeardInOrder' /\ ReaderInv(r)'
  <1>1. CASE hung
    <2>1. hung' = TRUE
      BY <1>1, IngestIs DEF TypeOK
    <2> QED BY <1>1, <2>1 DEF HeardInOrder, ReaderInv
  <1>2. CASE ~hung
    <2>1. /\ x \in Seq(Said) /\ Len(x) \in Nat /\ Len(x) >= 1 /\ Len(r) \in Nat
          /\ buffer \in Seq(Said) /\ Len(buffer) \in Nat /\ heard \in Seq(Heard)
          /\ Len(heard) \in Nat /\ sent \in Nat
      <3>1. buffer \in Seq(Said)
        BY SeqMonotonic DEF TypeOK, Said
      <3>2. heard \in Seq(Heard)
        BY DEF TypeOK, Heard
      <3> QED BY <3>1, <3>2 DEF TypeOK, Pushes
    <2>2. PICK q : q = x \o r
      OBVIOUS
    <2>3. /\ Len(q) = Len(x) + Len(r)
          /\ \A k \in 1..(Len(x) + Len(r)) : q[k] = IF k <= Len(x) THEN x[k] ELSE r[k - Len(x)]
      BY <2>1, <2>2, ConcatProperties
    <2>4. PICK p : p = sent - Len(q)
      OBVIOUS
    <2>5. ReadUpTo(p) /\ \A k \in 1..Len(q) : q[k] = Token(conn, p + k)
      BY <1>2, <2>2, <2>4 DEF ReaderInv
    <2>6. /\ p \in Int /\ p + Len(x) \in Int /\ sent - Len(r) = p + Len(x) /\ p + Len(x) <= sent
      BY <2>1, <2>3, <2>4
    <2>7. \A k \in 1..Len(x) : x[k] = Token(conn, p + k)
      <3> TAKE k \in 1..Len(x)
      <3>1. k \in 1..Len(q) /\ k \in 1..(Len(x) + Len(r)) /\ k <= Len(x)
        BY <2>1, <2>3
      <3> QED BY <2>3, <2>5, <3>1
    <2>8. \A k \in 1..Len(r) : r[k] = Token(conn, (p + Len(x)) + k)
      <3> TAKE k \in 1..Len(r)
      <3>0. PICK j : j = Len(x) + k
        OBVIOUS
      <3>1. /\ j \in 1..Len(q) /\ j \in 1..(Len(x) + Len(r)) /\ ~(j <= Len(x)) /\ j - Len(x) = k
            /\ p + j = (p + Len(x)) + k
        BY <2>1, <2>3, <2>6, <3>0
      <3>2. q[j] = r[k]
        BY <2>3, <3>1
      <3> QED BY <2>5, <3>1, <3>2
    <2>9. PICK b : b = buffer \o x
      OBVIOUS
    <2>10. /\ Len(b) = Len(buffer) + Len(x)
           /\ \A k \in 1..(Len(buffer) + Len(x)) :
                b[k] = IF k <= Len(buffer) THEN buffer[k] ELSE x[k - Len(buffer)]
      BY <2>1, <2>9, ConcatProperties
    <2>11. conn >= 1
      BY DEF InWps, StageInv
    <2>12. HeardInOrder' /\ (~hung' => ReadUpTo(p + Len(x))')
      <3>1. ASSUME NEW s \in {0, 1}, s <= Len(b), p + Len(x) = 3 * Len(heard) - s + Len(b),
                   \A k \in 1..Len(b) : b[k] = Token(conn, 3 * Len(heard) - s + k)
            PROVE  HeardInOrder' /\ (~hung' => ReadUpTo(p + Len(x))')
        <4>1. p + Len(x) <= 3 * Messages /\ p + Len(x) <= sent
          BY <2>6, MessagesAssumption DEF TypeOK
        <4> QED BY <1>2, <2>1, <2>6, <2>9, <2>11, <3>1, <4>1, Reads
      <3>2. CASE /\ Len(buffer) <= 2 /\ p = 3 * Len(heard) + Len(buffer)
                 /\ \A k \in 1..Len(buffer) : buffer[k] = Token(conn, 3 * Len(heard) + k)
        <4>1. \A k \in 1..Len(b) : b[k] = Token(conn, 3 * Len(heard) - 0 + k)
          <5> TAKE k \in 1..Len(b)
          <5>1. k \in 1..(Len(buffer) + Len(x)) /\ 3 * Len(heard) - 0 + k = 3 * Len(heard) + k
            BY <2>1, <2>10
          <5>2. CASE k <= Len(buffer)
            <6>1. k \in 1..Len(buffer)
              BY <2>1, <5>1, <5>2
            <6> QED BY <2>10, <3>2, <5>1, <5>2, <6>1
          <5>3. CASE ~(k <= Len(buffer))
            <6>0. PICK j : j = k - Len(buffer)
              OBVIOUS
            <6>1. j \in 1..Len(x) /\ p + j = 3 * Len(heard) + k
              BY <2>1, <3>2, <5>1, <5>3, <6>0
            <6>2. b[k] = x[j]
              BY <2>10, <5>1, <5>3, <6>0
            <6> QED BY <2>7, <5>1, <6>1, <6>2
          <5> QED BY <5>2, <5>3
        <4>2. 0 <= Len(b) /\ p + Len(x) = 3 * Len(heard) - 0 + Len(b)
          BY <2>1, <2>10, <3>2
        <4> QED BY <3>1, <4>1, <4>2
      <3>3. CASE buffer = <<>> /\ p = 3 * Len(heard) - 1
        <4>1. b = x
          BY <2>1, <2>9, <3>3, ConcatEmptySeq
        <4>2. \A k \in 1..Len(b) : b[k] = Token(conn, 3 * Len(heard) - 1 + k)
          BY <2>7, <3>3, <4>1
        <4>3. 1 <= Len(b) /\ p + Len(x) = 3 * Len(heard) - 1 + Len(b)
          BY <2>1, <3>3, <4>1
        <4> QED BY <3>1, <4>2, <4>3
      <3> QED BY <2>5, <3>2, <3>3 DEF ReadUpTo
    <2>13. ReaderInv(r)'
      BY <2>6, <2>8, <2>12 DEF ReaderInv
    <2> QED BY <2>12, <2>13
  <1> QED BY <1>1, <1>2
LEMMA HandleRecvInv ==
  ASSUME TypeOK, StageInv, HeardInOrder, NEW said, Follows(said), HandleRecv
  PROVE  IInv'
  <1>0. PICK x : x = Tail(Body(deframer))
    OBVIOUS
  <1>1. /\ Dispatched(Recv) /\ wire' = wire /\ conn' = conn /\ phase' = phase
        /\ prompted' = prompted /\ asked' = asked /\ sent' = sent /\ air' = air
        /\ late' = late /\ split' = split
        /\ IF phase = "connect"
           THEN FeedRunner(x) /\ buffer' = buffer /\ heard' = heard /\ hung' = hung
           ELSE /\ Ingest(x) /\ at' = at /\ hop' = hop /\ text' = text
                /\ finished' = finished /\ leftover' = leftover
    BY <1>0 DEF HandleRecv, runnerVars, readerVars, hostVars
  <1>2. PICK left : Takes(said, left, Recv)
    BY <1>1, DispatchTakes
  <1>3. /\ left \in Seq(Said) /\ <<Stream', left>> \in Carries /\ deframer' \in Seq(Bytes)
        /\ NoReply(Stream) => NoReply(Stream')
        /\ x \in Pushes /\ said = x \o left
    BY <1>0, <1>2 DEF Takes
  <1>4. PICK r : r = left \o air
    OBVIOUS
  <1>5. r \in Seq(Said) /\ said \o air = x \o r
    <2>1. air \in Seq(Said) /\ x \in Seq(Said)
      BY <1>3, SeqsAre DEF Pushes
    <2>2. (x \o left) \o air = x \o (left \o air) /\ left \o air \in Seq(Said)
      BY <1>3, <2>1, Associates, ConcatProperties
    <2> QED BY <1>3, <1>4, <2>2
  <1>6. RunnerInv(x \o r) /\ ReaderInv(x \o r)
    BY <1>5 DEF Follows
  <1>7. at # "down"
    BY <1>1, NotComplete DEF Dispatched, StageInv
  <1>8. RunnerInv(r)' /\ ReaderInv(r)' => Follows(left)'
    <2>1. left \o air' = r
      BY <1>1, <1>4
    <2> QED BY <1>3, <2>1 DEF Follows
  <1>9. CASE phase = "connect"
    <2>1. /\ FeedRunner(x) /\ buffer' = buffer /\ heard' = heard /\ hung' = hung
      BY <1>1, <1>9
    <2>2. InScript
      BY <1>7, <1>9 DEF TypeOK, StageInv, InScript, InWps
    <2>3. /\ RunnerInv(r)' /\ InScript' /\ (at' = "scriptDone" => finished')
          /\ hop' \in 0..Hops /\ text' \in Seq(Said) /\ leftover' \in Seq(Said)
          /\ finished' \in BOOLEAN
      BY <1>1, <1>3, <1>5, <1>6, <2>1, <2>2, FeedInv
    <2>4. TypeOK'
      BY <1>1, <1>3, <2>1, <2>3 DEF TypeOK, InScript, Said
    <2>5. StageInv'
      BY <1>1, <1>3, <1>7, <2>1, <2>2, <2>3 DEF StageInv, InScript, InWps
    <2>6. HeardInOrder'
      <3>1. ~hung /\ ~hung'
        BY <2>1, <2>2 DEF StageInv
      <3> QED BY <1>1, <2>1, <3>1 DEF HeardInOrder
    <2>7. ReaderInv(r)'
      BY <2>3 DEF ReaderInv, InScript, InWps
    <2> QED BY <1>8, <2>3, <2>4, <2>5, <2>6, <2>7 DEF IInv
  <1>10. CASE phase # "connect"
    <2>1. /\ Ingest(x) /\ at' = at /\ hop' = hop /\ text' = text
          /\ finished' = finished /\ leftover' = leftover
      BY <1>1, <1>10
    <2>2. InWps
      BY <1>7, <1>10 DEF TypeOK, StageInv, InScript, InWps
    <2>3. buffer' \in Seq(Text) /\ heard' \in Seq(Heard) /\ hung' \in BOOLEAN
      BY <1>3, <2>1, IngestTyped DEF Pushes
    <2>4. TypeOK'
      BY <1>1, <1>3, <2>1, <2>3 DEF TypeOK, Heard
    <2>5. StageInv'
      BY <1>1, <1>3, <1>7, <2>1, <2>2 DEF StageInv, InScript, InWps
    <2>6. HeardInOrder' /\ ReaderInv(r)'
      BY <1>1, <1>3, <1>5, <1>6, <2>1, <2>2, IngestInv
    <2>7. RunnerInv(r)'
      BY <1>1, <1>6, <2>1, <2>2 DEF RunnerInv, InWps
    <2> QED BY <1>8, <2>4, <2>5, <2>6, <2>7 DEF IInv
  <1> QED BY <1>9, <1>10

\* A terminator behind nothing ends nothing.
LEMMA NothingEnds ==
  ASSUME buffer = <<>>, Ingest(<<CR>>)
  PROVE  buffer' = <<>> /\ heard' = heard \o <<>> /\ hung' = hung
  <1>1. PICK b : b = <<CR>>
    OBVIOUS
  <1>2. b \in Seq(Said) /\ Len(b) = 1 /\ b = buffer \o <<CR>>
    <2>1. <<CR>> \in Seq(Said) /\ Len(<<CR>>) = 1
      BY DEF Said
    <2>2. <<>> \o <<CR>> = <<CR>>
      BY <2>1, ConcatEmptySeq
    <2> QED BY <1>1, <2>1, <2>2
  <1>3. Start(b, 1) = 1
    <2>1. 1 \in 1..(Len(b) + 1) /\ 1 \in 1..1 /\ \A j \in 1..Len(b) : 1 <= j /\ j < 1 => b[j] # CR
      BY <1>2
    <2> QED BY <1>2, <2>1, StartAt
  <1>4. Start(b, Len(b) + 1) = 2
    <2>1. b[1] = CR
      BY <1>1
    <2>2. /\ 2 \in 1..(Len(b) + 1) /\ 2 \in 1..2 /\ 2 - 1 = 1 /\ Len(b) + 1 = 2
          /\ \A j \in 1..Len(b) : 2 <= j /\ j < 2 => b[j] # CR
      BY <1>2
    <2>3. 2 = 1 \/ b[2 - 1] = CR
      BY <2>1, <2>2
    <2>4. Start(b, 2) = 2
      BY <1>2, <2>2, <2>3, StartAt
    <2> QED BY <2>2, <2>4
  <1>5. Partial(b) = <<>>
    <2>1. Partial(b) \in Seq(Text) /\ Len(Partial(b)) = 0
      <3>1. Partial(b) \in Seq(Text) /\ Len(Partial(b)) = Len(b) + 1 - 2
        BY <1>2, <1>4, PartialIs
      <3> QED BY <1>2, <3>1
    <2> QED BY <2>1
  <1>6. FrameEnds(b) = {}
    <2>1. Terminators(b) \subseteq {1}
      BY <1>2 DEF Terminators
    <2> QED BY <1>3, <2>1 DEF FrameEnds
  <1>7. DOMAIN Segments(b) = {}
    <2>1. Cardinality(FrameEnds(b)) = 0
      BY <1>6, FS_EmptySet
    <2> QED BY <2>1 DEF Segments
  <1>8. Dispatches(b) = <<>>
    BY <1>7 DEF Dispatches
  <1> QED BY <1>2, <1>5, <1>7, <1>8, IngestIs

\* A leftover's terminator ends a frame that is whole, or one that does not decode.
LEMMA LeftoverEnds ==
  ASSUME TypeOK, HeardInOrder, conn >= 1, ~hung, Ingest(<<CR>>),
         split' = (split \/ buffer # <<>>), conn' = conn, sent' = sent,
         NEW p, ReadUpTo(p), p <= sent
  PROVE  HeardInOrder' /\ (~hung' => ReadUpTo(p)')
  <1>1. /\ buffer \in Seq(Said) /\ Len(buffer) \in Nat /\ Len(heard) \in Nat /\ sent \in Nat
        /\ sent <= 3 * Messages /\ Messages \in Nat
        /\ <<CR>> \in Seq(Said) /\ Len(<<CR>>) = 1 /\ <<CR>>[1] = CR
    <2>1. buffer \in Seq(Said)
      BY SeqMonotonic DEF TypeOK, Said
    <2> QED BY <2>1, MessagesAssumption DEF TypeOK, Said
  <1>2. PICK h, b : h = Len(heard) /\ b = buffer \o <<CR>>
    OBVIOUS
  <1>3. /\ Len(b) = Len(buffer) + 1
        /\ \A k \in 1..(Len(buffer) + 1) : b[k] = IF k <= Len(buffer) THEN buffer[k] ELSE <<CR>>[k - Len(buffer)]
    <2>1. PICK t : t = <<CR>>
      OBVIOUS
    <2>2. /\ Len(b) = Len(buffer) + Len(t)
          /\ \A k \in 1..(Len(buffer) + Len(t)) : b[k] = IF k <= Len(buffer) THEN buffer[k] ELSE t[k - Len(buffer)]
      BY <1>1, <1>2, <2>1, ConcatProperties
    <2> QED BY <1>1, <2>1, <2>2
  <1>4. b[Len(buffer) + 1] = CR
    <2>1. Len(buffer) + 1 \in 1..(Len(buffer) + 1) /\ ~(Len(buffer) + 1 <= Len(buffer)) /\ (Len(buffer) + 1) - Len(buffer) = 1
      BY <1>1
    <2> QED BY <1>1, <1>3, <2>1
  <1>5. Token(conn, 3 * h) = CR /\ Token(conn, 3 * h + 3) = CR
    <2>1. 3 * h \in Nat /\ 3 * h + 3 \in Nat /\ (3 * h) % 3 = 0 /\ (3 * h + 3) % 3 = 0
      BY <1>1, <1>2
    <2> QED BY <2>1, TokenIs
  <1>a. buffer' \in Seq(Text) /\ heard' \in Seq(Heard)
    BY <1>1, IngestTyped
  <1>6. CASE buffer = <<>>
    <2>1. buffer' = buffer /\ heard' = heard /\ hung' = hung /\ split' = split
      <3>1. heard \o <<>> = heard
        BY ConcatEmptySeq DEF TypeOK
      <3> QED BY <1>6, <3>1, NothingEnds DEF TypeOK
    <2> QED BY <2>1 DEF HeardInOrder, ReadUpTo
  <1>7. CASE /\ Len(buffer) = 2 /\ p = 3 * h + 2
             /\ \A k \in 1..Len(buffer) : buffer[k] = Token(conn, 3 * h + k)
    <2>1. PICK q, s : q = 3 * h + 3 /\ s = 0
      OBVIOUS
    <2>2. /\ s \in {0, 1} /\ s <= Len(b) /\ q = 3 * Len(heard) - s + Len(b) /\ q <= 3 * Messages
          /\ split'
      <3>1. Len(b) = 3 /\ h \in Nat
        BY <1>1, <1>2, <1>3, <1>7
      <3>2. s \in {0, 1} /\ s <= Len(b) /\ q = 3 * Len(heard) - s + Len(b)
        BY <1>2, <2>1, <3>1
      <3>3. \A i, m \in Nat : 3 * i + 2 <= 3 * m => 3 * i + 3 <= 3 * m
        OBVIOUS
      <3>4. 3 * h + 2 <= 3 * Messages
        BY <1>1, <1>7, <3>1
      <3>5. 3 * h + 3 <= 3 * Messages
        BY <1>1, <3>1, <3>3, <3>4
      <3>6. split'
        <4>1. buffer # <<>>
          BY <1>7
        <4> QED BY <4>1
      <3> QED BY <2>1, <3>2, <3>5, <3>6
    <2>3. \A k \in 1..Len(b) : b[k] = Token(conn, 3 * Len(heard) - s + k)
      <3> TAKE k \in 1..Len(b)
      <3>1. 3 * Len(heard) - s + k = 3 * h + k /\ Len(b) = 3 /\ k \in 1..3
        BY <1>1, <1>2, <1>3, <1>7, <2>1
      <3>2. CASE k = 3
        <4>1. b[k] = CR
          BY <1>4, <1>7, <3>2
        <4> QED BY <1>5, <3>1, <3>2, <4>1
      <3>3. CASE k # 3
        <4>1. k \in 1..Len(buffer) /\ k \in 1..(Len(buffer) + 1) /\ k <= Len(buffer)
          BY <1>7, <3>1, <3>3
        <4>2. b[k] = buffer[k]
          BY <1>3, <4>1
        <4> QED BY <1>7, <3>1, <4>1, <4>2
      <3> QED BY <3>2, <3>3
    <2>4. HeardInOrder' /\ (~hung' => ReadUpTo(q)')
      BY <1>1, <1>2, <2>2, <2>3, Reads
    <2>5. ASSUME ReadUpTo(q)'
          PROVE  ReadUpTo(p)'
      <3>1. Len(heard') \in Nat /\ Len(buffer') \in Nat
        BY <1>a
      <3>2. CASE Len(buffer') <= 2 /\ q = 3 * Len(heard') + Len(buffer')
        <4>1. Len(buffer') = 0 /\ p = 3 * Len(heard') - 1
          <5>1. \A i, j, l \in Nat : 3 * i + 3 = 3 * j + l /\ l <= 2 => l = 0 /\ 3 * i + 2 = 3 * j - 1
            OBVIOUS
          <5>2. h \in Nat /\ 3 * h + 3 = 3 * Len(heard') + Len(buffer') /\ p = 3 * h + 2
            BY <1>1, <1>2, <1>7, <2>1, <3>2
          <5>3. Len(buffer') = 0 /\ 3 * h + 2 = 3 * Len(heard') - 1
            BY <5>1, <5>2, <3>1, <3>2
          <5> QED BY <5>2, <5>3
        <4>2. buffer' = <<>>
          BY <1>a, <4>1
        <4> QED BY <4>1, <4>2 DEF ReadUpTo
      <3>3. CASE buffer' = <<>> /\ q = 3 * Len(heard') - 1
        BY <1>1, <1>2, <2>1, <3>1, <3>3
      <3> QED BY <2>5, <3>2, <3>3 DEF ReadUpTo
    <2> QED BY <2>4, <2>5
  <1>8. CASE Len(buffer) = 1
    <2>1. buffer[1] # CR
      <3>1. buffer \in Seq(Text) /\ 1 \in 1..Len(buffer)
        BY <1>8 DEF TypeOK
      <3>2. buffer[1] \in Text
        BY <3>1, ElementOfSeq
      <3> QED BY <3>2, BytesAre
    <2>2. hung' = TRUE
      BY <1>8, <2>1, HalfThrows
    <2>3. split'
      <3>1. buffer # <<>>
        BY <1>8
      <3> QED BY <3>1
    <2> QED BY <2>2, <2>3 DEF HeardInOrder
  <1>9. \/ buffer = <<>>
        \/ Len(buffer) = 1
        \/ /\ Len(buffer) = 2 /\ p = 3 * h + 2
           /\ \A k \in 1..Len(buffer) : buffer[k] = Token(conn, 3 * h + k)
    <2>1. CASE buffer = <<>>
      BY <2>1
    <2>2. CASE /\ Len(buffer) <= 2 /\ p = 3 * Len(heard) + Len(buffer)
               /\ \A k \in 1..Len(buffer) : buffer[k] = Token(conn, 3 * Len(heard) + k)
      <3>1. Len(buffer) = 0 \/ Len(buffer) = 1 \/ Len(buffer) = 2
        <4>1. \A l \in Nat : l <= 2 => l = 0 \/ l = 1 \/ l = 2
          OBVIOUS
        <4> QED BY <1>1, <2>2, <4>1, Zenon
      <3>2. Len(buffer) = 0 => buffer = <<>>
        BY <1>1
      <3> QED BY <1>2, <2>2, <3>1, <3>2, Zenon
    <2> QED BY <2>1, <2>2 DEF ReadUpTo
  <1> QED BY <1>6, <1>7, <1>8, <1>9

\* A leftover, of this attempt or of one that goes on late.
LEMMA LeftoverInv ==
  ASSUME TypeOK, HeardInOrder, HasRead, conn >= 1, NEW rest \in {<<>>, <<CR>>},
         IngestLeftover(rest), conn' = conn, sent' = sent
  PROVE  /\ buffer' \in Seq(Text) /\ heard' \in Seq(Heard) /\ hung' \in BOOLEAN /\ split' \in BOOLEAN
         /\ HeardInOrder' /\ HasRead'
         /\ ~hung' => ~hung
         /\ \A p : ~hung' /\ p <= sent /\ ReadUpTo(p) => ReadUpTo(p)'
         /\ buffer = <<>> => buffer' = buffer /\ heard' = heard /\ hung' = hung
  <1>1. CASE rest = <<>>
    <2>1. buffer' = buffer /\ heard' = heard /\ hung' = hung /\ split' = split
      BY <1>1 DEF IngestLeftover, readerVars
    <2> QED BY <2>1 DEF TypeOK, Heard, HeardInOrder, HasRead, ReadUpTo
  <1>2. CASE rest = <<CR>>
    <2>1. Ingest(<<CR>>) /\ split' = (split \/ buffer # <<>>)
      <3>1. <<CR>> # <<>>
        OBVIOUS
      <3> QED BY <1>2, <3>1 DEF IngestLeftover
    <2>2. buffer' \in Seq(Text) /\ heard' \in Seq(Heard) /\ hung' \in BOOLEAN
      <3>1. <<CR>> \in Seq(Said)
        BY DEF Said
      <3> QED BY <2>1, <3>1, IngestTyped
    <2>3. split' \in BOOLEAN
      BY <2>1
    <2>4. buffer = <<>> => buffer' = buffer /\ heard' = heard /\ hung' = hung
      <3>1. heard \o <<>> = heard
        BY ConcatEmptySeq DEF TypeOK
      <3> QED BY <2>1, <3>1, NothingEnds
    <2>5. CASE hung
      <3>1. hung' = TRUE
        BY <2>1, <2>5, IngestIs DEF TypeOK
      <3>2. HeardInOrder' /\ HasRead'
        BY <2>1, <2>5, <3>1 DEF HeardInOrder, HasRead
      <3> QED BY <2>2, <2>3, <2>4, <3>1, <3>2
    <2>6. CASE ~hung
      <3>1. \A p : p <= sent /\ ReadUpTo(p) => HeardInOrder' /\ (~hung' => ReadUpTo(p)')
        BY <2>1, <2>6, LeftoverEnds
      <3>2. HeardInOrder' /\ HasRead'
        <4>1. PICK p \in Int : p <= sent /\ ReadUpTo(p)
          BY <2>6 DEF HasRead
        <4> QED BY <3>1, <4>1 DEF HasRead
      <3> QED BY <2>2, <2>3, <2>4, <2>6, <3>1, <3>2
    <2> QED BY <2>5, <2>6
  <1> QED BY <1>1, <1>2

\* A leftover leaves the rest of the stream as it is.
LEMMA ReaderKept ==
  ASSUME NEW rest, ReaderInv(rest), Len(rest) \in Nat, sent \in Nat, InWps' => InWps,
         conn' = conn, sent' = sent, ~hung' => ~hung,
         \A p : ~hung' /\ p <= sent /\ ReadUpTo(p) => ReadUpTo(p)'
  PROVE  ReaderInv(rest)'
  <1> SUFFICES ASSUME InWps', ~hung' PROVE ReaderInv(rest)'
    BY DEF ReaderInv
  <1>1. PICK p : p = sent - Len(rest)
    OBVIOUS
  <1>2. ReadUpTo(p) /\ \A k \in 1..Len(rest) : rest[k] = Token(conn, p + k)
    BY <1>1 DEF ReaderInv
  <1>3. p <= sent
    BY <1>1
  <1>4. ReadUpTo(p)'
    BY <1>2, <1>3
  <1> QED BY <1>1, <1>2, <1>4 DEF ReaderInv

LEMMA ResumeSentInv ==
  ASSUME TypeOK, StageInv, HeardInOrder, NEW said, Follows(said), ResumeSent
  PROVE  IInv'
  <1>0. /\ at = "sent" /\ at' = "running"
        /\ conn' = conn /\ phase' = phase /\ hop' = hop /\ text' = text
        /\ finished' = finished /\ leftover' = leftover
        /\ prompted' = prompted /\ asked' = asked /\ sent' = sent /\ air' = air
        /\ wire' = wire /\ deframer' = deframer
        /\ late' = late /\ IngestLeftover(leftover)
    BY DEF ResumeSent, runnerVars, readerVars, hostVars, socketVars
  <1>1. /\ InWps /\ at # "script" /\ at # "down" /\ finished /\ conn >= 1
        /\ InWps' /\ ~InScript'
    BY <1>0 DEF InWps, InScript, StageInv, TypeOK
  <1>2. Stream' = Stream
    BY <1>0 DEF Stream
  <1>3. PICK rest : rest = said \o air
    OBVIOUS
  <1>4. RunnerInv(rest) /\ ReaderInv(rest) /\ Len(rest) \in Nat /\ sent \in Nat
    BY <1>3, SeqsAre DEF Follows, TypeOK
  <1>5. leftover \in {<<>>, <<CR>>} /\ HasRead
    BY <1>4, ReadSoFar DEF RunnerInv
  <1>6. /\ buffer' \in Seq(Text) /\ heard' \in Seq(Heard) /\ hung' \in BOOLEAN /\ split' \in BOOLEAN
        /\ HeardInOrder'
        /\ ~hung' => ~hung
        /\ \A p : ~hung' /\ p <= sent /\ ReadUpTo(p) => ReadUpTo(p)'
    BY <1>0, <1>1, <1>5, LeftoverInv
  <1>7. ReaderInv(rest)'
    BY <1>0, <1>1, <1>4, <1>6, ReaderKept
  <1>8. TypeOK'
    BY <1>0, <1>6 DEF TypeOK, Heard
  <1>9. StageInv'
    BY <1>0, <1>1, <1>2 DEF StageInv
  <1>10. RunnerInv(rest)'
    BY <1>0, <1>4 DEF RunnerInv
  <1>11. Follows(said)'
    <2>1. <<Stream', said>> \in Carries
      BY <1>2 DEF Follows
    <2>2. rest = said \o air'
      BY <1>0, <1>3
    <2> QED BY <1>7, <1>10, <2>1, <2>2 DEF Follows
  <1> QED BY <1>6, <1>8, <1>9, <1>11 DEF IInv

\* The link is gone, with all that was on its way.
LEMMA GoneInv ==
  ASSUME TypeOK, NEW said, Follows(said), LinkGone,
         buffer' \in Seq(Text), heard' \in Seq(Heard), hung' \in BOOLEAN, split' \in BOOLEAN,
         phase' \in {"connect", "wps"}, HeardInOrder', HasRead',
         late' \subseteq [conn : 1..MaxConns, leftover : Seq(Said)],
         \A l \in late' : l.leftover \in {<<>>, <<CR>>}, late' # {} => conn >= 1
  PROVE  IInv'
  <1>0. /\ at' = "down" /\ finished' = TRUE /\ air' = <<>> /\ wire' = <<>> /\ deframer' = <<>>
        /\ conn' = conn /\ hop' = hop /\ text' = text /\ leftover' = leftover
        /\ prompted' = prompted /\ asked' = asked /\ sent' = sent
    BY DEF LinkGone
  <1>1. TypeOK'
    BY <1>0 DEF TypeOK, Heard, Said
  <1>2. Stream' = <<>>
    BY <1>0, NothingFollows DEF Stream
  <1>3. StageInv'
    BY <1>0, <1>2 DEF StageInv, InScript, InWps, NoReply
  <1>4. Follows(<<>>)'
    <2>1. <<Stream', <<>>>> \in Carries
      BY <1>2, NothingFollows
    <2>2. RunnerInv(<<>> \o air)'
      BY <1>0 DEF RunnerInv, Follows
    <2>3. ReaderInv(<<>> \o air)'
      BY <1>0 DEF ReaderInv, InWps
    <2> QED BY <2>1, <2>2, <2>3 DEF Follows
  <1> QED BY <1>1, <1>3, <1>4 DEF IInv

LEMMA DropInv ==
  ASSUME TypeOK, StageInv, HeardInOrder, NEW said, Follows(said), Drop
  PROVE  IInv'
  <1>0. /\ LinkGone /\ phase' = phase /\ late' = late
        /\ conn' = conn /\ sent' = sent
        /\ buffer' = buffer /\ heard' = heard /\ hung' = hung /\ split' = split
    BY DEF Drop, LinkGone, readerVars
  <1>1. HeardInOrder'
    BY <1>0 DEF HeardInOrder
  <1>2. HasRead'
    BY <1>0, ReadSoFar DEF HasRead, ReadUpTo
  <1> QED BY <1>0, <1>1, <1>2, GoneInv DEF TypeOK, StageInv, Heard, Said

LEMMA ClosePushInv ==
  ASSUME TypeOK, StageInv, HeardInOrder, NEW said, Follows(said), ClosePush
  PROVE  IInv'
  <1>0. /\ LinkGone /\ at # "down" /\ conn' = conn /\ sent' = sent
        /\ phase' \in {"connect", "wps"}
        /\ late' \subseteq late \cup {[conn |-> conn, leftover |-> leftover]}
        /\ IngestLeftover(leftover) \/ UNCHANGED readerVars
    BY DEF ClosePush, LinkGone, TypeOK
  <1>1. conn \in 1..MaxConns /\ conn >= 1
    BY <1>0, MaxConnsAssumption DEF TypeOK, StageInv
  <1>2. leftover \in {<<>>, <<CR>>} /\ leftover \in Seq(Said)
    BY SeqsAre DEF Follows, RunnerInv
  <1>3. /\ buffer' \in Seq(Text) /\ heard' \in Seq(Heard) /\ hung' \in BOOLEAN /\ split' \in BOOLEAN
        /\ HeardInOrder' /\ HasRead'
    <2>1. HasRead
      BY ReadSoFar
    <2>2. CASE IngestLeftover(leftover)
      BY <1>0, <1>1, <1>2, <2>1, <2>2, LeftoverInv
    <2>3. CASE UNCHANGED readerVars
      <3>1. buffer' = buffer /\ heard' = heard /\ hung' = hung /\ split' = split
        BY <2>3 DEF readerVars
      <3> QED BY <1>0, <2>1, <3>1 DEF TypeOK, Heard, HeardInOrder, HasRead, ReadUpTo
    <2> QED BY <1>0, <2>2, <2>3
  <1>4. /\ late' \subseteq [conn : 1..MaxConns, leftover : Seq(Said)]
        /\ \A l \in late' : l.leftover \in {<<>>, <<CR>>}
    <2>1. /\ late \subseteq [conn : 1..MaxConns, leftover : Seq(Said)]
          /\ \A l \in late : l.leftover \in {<<>>, <<CR>>}
      BY DEF TypeOK, StageInv, Said
    <2> QED BY <1>0, <1>1, <1>2, <2>1
  <1> QED BY <1>0, <1>1, <1>3, <1>4, GoneInv

LEMMA LateReplyInv ==
  ASSUME TypeOK, StageInv, HeardInOrder, NEW said, Follows(said), NEW l \in late, LateReply(l)
  PROVE  IInv'
  <1>0. /\ late' \subseteq late /\ IngestLeftover(l.leftover)
        /\ conn' = conn /\ at' = at /\ phase' = phase /\ hop' = hop /\ text' = text
        /\ finished' = finished /\ leftover' = leftover
        /\ prompted' = prompted /\ asked' = asked /\ sent' = sent /\ air' = air
        /\ wire' = wire /\ deframer' = deframer
    BY DEF LateReply, runnerVars, hostVars, socketVars
  <1>1. conn >= 1 /\ l.leftover \in {<<>>, <<CR>>} /\ HasRead
    BY ReadSoFar DEF StageInv
  <1>2. /\ buffer' \in Seq(Text) /\ heard' \in Seq(Heard) /\ hung' \in BOOLEAN /\ split' \in BOOLEAN
        /\ HeardInOrder' /\ HasRead'
        /\ ~hung' => ~hung
        /\ \A p : ~hung' /\ p <= sent /\ ReadUpTo(p) => ReadUpTo(p)'
        /\ buffer = <<>> => buffer' = buffer /\ heard' = heard /\ hung' = hung
    <2>1. PICK rest \in {<<>>, <<CR>>} : rest = l.leftover
      BY <1>1
    <2> QED BY <1>0, <1>1, <2>1, LeftoverInv
  <1>3. TypeOK'
    BY <1>0, <1>2 DEF TypeOK, Heard
  <1>4. Stream' = Stream
    BY <1>0 DEF Stream
  <1>5. StageInv'
    BY <1>0, <1>2, <1>4 DEF StageInv, InScript, InWps
  <1>6. PICK rest : rest = said \o air
    OBVIOUS
  <1>7. RunnerInv(rest) /\ ReaderInv(rest) /\ Len(rest) \in Nat /\ sent \in Nat
    BY <1>6, SeqsAre DEF Follows, TypeOK
  <1>8. RunnerInv(rest)'
    BY <1>0, <1>7 DEF RunnerInv
  <1>9. ReaderInv(rest)'
    BY <1>0, <1>2, <1>7, ReaderKept DEF InWps
  <1>10. Follows(said)'
    <2>1. <<Stream', said>> \in Carries
      BY <1>4 DEF Follows
    <2>2. rest = said \o air'
      BY <1>0, <1>6
    <2> QED BY <1>8, <1>9, <2>1, <2>2 DEF Follows
  <1> QED BY <1>2, <1>3, <1>5, <1>10 DEF IInv

LEMMA LateFailInv ==
  ASSUME TypeOK, StageInv, HeardInOrder, NEW said, Follows(said), NEW l \in late, LateFail(l)
  PROVE  IInv'
  <1>0. /\ late' \subseteq late /\ finished' = TRUE
        /\ conn' = conn /\ at' = at /\ phase' = phase /\ hop' = hop /\ text' = text
        /\ leftover' = leftover /\ buffer' = buffer /\ heard' = heard /\ hung' = hung
        /\ split' = split
        /\ prompted' = prompted /\ asked' = asked /\ sent' = sent /\ air' = air
        /\ wire' = wire /\ deframer' = deframer
    BY DEF LateFail, readerVars, hostVars, socketVars
  <1>1. TypeOK'
    BY <1>0 DEF TypeOK
  <1>2. Stream' = Stream
    BY <1>0 DEF Stream
  <1>3. StageInv'
    BY <1>0, <1>2 DEF StageInv, InScript, InWps, HasRead, ReadUpTo
  <1>4. HeardInOrder'
    BY <1>0 DEF HeardInOrder
  <1>5. Follows(said)'
    BY <1>0, <1>2 DEF Follows, RunnerInv, ReaderInv, InWps, ReadUpTo
  <1> QED BY <1>1, <1>3, <1>4, <1>5 DEF IInv

LEMMA NextInv == IInv /\ [Next]_vars => IInv'
  <1> SUFFICES ASSUME IInv, [Next]_vars PROVE IInv'
    OBVIOUS
  <1>1. TypeOK /\ StageInv /\ HeardInOrder
    BY DEF IInv
  <1>2. PICK said : Follows(said)
    BY DEF IInv
  <1>3. CASE Connect
    BY <1>1, <1>3, ConnectInv
  <1>4. CASE HandleRecv
    BY <1>1, <1>2, <1>4, HandleRecvInv
  <1>5. CASE HandleSendReply
    BY <1>1, <1>2, <1>5, HandleSendReplyInv
  <1>6. CASE ResumeScriptDone
    BY <1>1, <1>2, <1>6, ResumeScriptDoneInv
  <1>7. CASE ResumeSent
    BY <1>1, <1>2, <1>7, ResumeSentInv
  <1>8. CASE Drop
    BY <1>1, <1>2, <1>8, DropInv
  <1>15. CASE ClosePush
    BY <1>1, <1>2, <1>15, ClosePushInv
  <1>16. CASE \E l \in late : LateReply(l) \/ LateFail(l)
    BY <1>1, <1>2, <1>16, LateReplyInv, LateFailInv
  <1>9. CASE Prompt
    BY <1>1, <1>2, <1>9, PromptInv
  <1>10. CASE AnswerSend
    BY <1>1, <1>2, <1>10, AnswerSendInv
  <1>11. CASE ServiceSends
    BY <1>1, <1>2, <1>11, ServiceSendsInv
  <1>12. CASE \E n \in 1..MaxPush : Push(n)
    BY <1>1, <1>2, <1>12, PushInv
  <1>13. CASE \E k \in DOMAIN wire : Read(k)
    BY <1>1, <1>2, <1>13, ReadInv
  <1>14. CASE UNCHANGED vars
    BY <1>14, StutterInv
  <1> QED BY <1>3, <1>4, <1>5, <1>6, <1>7, <1>8, <1>9, <1>10, <1>11, <1>12, <1>13, <1>14,
             <1>15, <1>16
          DEF Next

LEMMA Invariance == Spec => []IInv
  <1>1. Init => IInv
    BY InitInv
  <1>2. IInv /\ [Next]_vars => IInv'
    BY NextInv
  <1> QED BY <1>1, <1>2, PTL DEF Spec

-----------------------------------------------------------------------------
(* What the invariant gives.                                               *)

\* The state has its type; the frame reader buffers no terminator.
THEOREM TypeCorrect == Spec => []TypeOK
  <1>1. IInv => TypeOK
    BY DEF IInv
  <1> QED BY <1>1, Invariance, PTL

\* When everything was read, nothing is left to be said.
LEMMA AllReadIs ==
  ASSUME TypeOK, NEW said, Follows(said), AllRead
  PROVE  said \o air = <<>>
  <1>1. deframer \in Seq(Bytes) /\ wire = <<>> /\ air = <<>> /\ ~Complete(deframer)
    BY DEF AllRead, Quiet, TypeOK
  <1>2. Stream = deframer
    BY <1>1, ConcatEmptySeq DEF Stream
  <1>3. <<deframer, said>> \in Carries
    BY <1>2 DEF Follows
  <1>4. said = <<>>
    BY <1>1, <1>3, AllTaken
  <1> QED BY <1>1, <1>4, ConcatEmptySeq

\* The runner never sends a hop's command before the prompt it waits for, and misses
\* none it was given, however the text was cut, unless a late failure cancelled it.
THEOREM ScriptSteps == Spec => []ScriptInStep
  <1>1. ASSUME IInv PROVE ScriptInStep
    <2>1. TypeOK
      BY <1>1 DEF IInv
    <2>2. PICK said : Follows(said)
      BY <1>1 DEF IInv
    <2>3. hop <= prompted
      BY <2>2 DEF Follows, RunnerInv
    <2>4. ASSUME at = "script", ~finished, AllRead
          PROVE  hop = prompted
      <3>1. said \o air = <<>>
        BY <2>1, <2>2, <2>4, AllReadIs
      <3>2. /\ Len(text) <= 1
            /\ text \o <<>> = IF prompted = hop THEN <<>> ELSE Answer(prompted)
        BY <2>2, <2>4, <3>1 DEF Follows, RunnerInv
      <3>3. text \o <<>> = text
        BY <2>1, ConcatEmptySeq DEF TypeOK
      <3> SUFFICES ASSUME prompted # hop PROVE FALSE
        OBVIOUS
      <3>4. text = Answer(prompted)
        BY <3>2, <3>3
      <3>5. Len(text) \in 2..3
        BY <3>4, AnswerIs
      <3> QED BY <3>2, <3>5
    <2> QED BY <2>3, <2>4 DEF ScriptInStep
  <1> QED BY <1>1, Invariance, PTL

\* Until a frame is refused as corrupt, the messages dispatched are the service's on
\* this connection, in order, without gaps or repeats, though a late attempt may put its
\* leftover into the reader; and a frame is refused only if it was corrupt, or if a
\* leftover came behind its beginning.
THEOREM InOrder == Spec => []HeardInOrder
  <1>1. IInv => HeardInOrder
    BY DEF IInv
  <1> QED BY <1>1, Invariance, PTL

\* A message whose last byte was read has been dispatched, whatever it was cut into.
THEOREM NothingHeld == Spec => []NothingHeldBack
  <1>1. ASSUME IInv PROVE NothingHeldBack
    <2> SUFFICES ASSUME at = "running", AllRead, ~hung
                 PROVE  Len(heard) >= sent \div 3
      BY DEF NothingHeldBack
    <2>1. TypeOK
      BY <1>1 DEF IInv
    <2>2. PICK said : Follows(said)
      BY <1>1 DEF IInv
    <2>3. ReaderInv(<<>>)
      <3>1. said \o air = <<>>
        BY <2>1, <2>2, AllReadIs
      <3> QED BY <2>2, <3>1 DEF Follows
    <2>4. ReadUpTo(sent) /\ sent \in Nat
      <3>1. InWps /\ sent \in Nat /\ sent - Len(<<>>) = sent
        BY <2>1 DEF InWps, TypeOK
      <3> QED BY <2>3, <3>1 DEF ReaderInv
    <2>5. Len(heard) \in Nat /\ Len(buffer) \in Nat
      BY <2>1 DEF TypeOK
    <2>6. sent <= 3 * Len(heard) + 2
      BY <2>4, <2>5 DEF ReadUpTo
    <2> QED BY <2>4, <2>5, <2>6
  <1> QED BY <1>1, Invariance, PTL
=============================================================================
