----------------------------- MODULE SyncProofs -----------------------------
(***************************************************************************)
(* Proofs about what survives the link: types, the subscriptions' flags,   *)
(* who is shown online, and that a backfill from the cursors completes the *)
(* store.  Each follows what is under way between daemon and service: the  *)
(* last message about a channel or a user decides what both sides will     *)
(* agree on (FlagInv, OnlineInv), and whatever the service knows and the   *)
(* store lacks is on its way in the order of its timestamps (ResyncInv).   *)
(***************************************************************************)
EXTENDS Sync, FiniteSetTheorems, FunctionTheorems, SequenceTheorems,
        WellFoundedInduction, TLAPS

-----------------------------------------------------------------------------
(* The invariants.                                                         *)

\* The element n of q is the last one in S.
Final(q, S, n) ==
  /\ n \in 1..Len(q) /\ q[n] \in S
  /\ \A m \in 1..Len(q) : m > n => q[m] \notin S

None(q, S) == \A n \in 1..Len(q) : q[n] \notin S

\* A session begins with its connect object, until which the service sends nothing.  No
\* call of an earlier session is the last of this one.
SessionInv ==
  /\ ~up => /\ toService = <<>> /\ toDaemon = <<>> /\ ~served /\ member = {}
            /\ \A n \in 1..Len(waiting) : ~waiting[n].last
  /\ up /\ ~served => toService # <<>> /\ toService[1] \in ConnectObject
  /\ ~served => toDaemon = <<>>
  /\ \A n \in 1..Len(toService) : n > 1 \/ served => toService[n] \notin ConnectObject

-----------------------------------------------------------------------------
CsOf(c) == [t : {"cs"}, cid : {c}, s : BOOLEAN]

\* The last element of q in S says b.
Says(q, S, b) == \A n \in 1..Len(q) : Final(q, S, n) => (q[n].s <=> b)

\* The service will push the posts of c, or not, once it has read what was sent.
Wanted(c, b) ==
  /\ Says(toService, CsOf(c), b)
  /\ None(toService, CsOf(c)) =>
       (b <=> IF served THEN c \in member ELSE c \in DOMAIN toService[1].cc)

\* When nothing is under way, the flag says so too, but for an outdated reply.
FlagSays(c, b) == c \notin outdated /\ None(toDaemon, CsOf(c)) => (c \in subscribed <=> b)

\* The session's last call on c, if it waits, says so.
LastSays(c, b) ==
  \A n \in 1..Len(waiting) : waiting[n].last /\ waiting[n].cid = c => (waiting[n].s <=> b)

\* The last echo under way says so too, and when there is none the flag does.
Agrees(c, b) ==
  /\ Wanted(c, b)
  /\ LastSays(c, b)
  /\ None(toService, CsOf(c)) => Says(toDaemon, CsOf(c), b) /\ FlagSays(c, b)

FlagInv == up => \A c \in Channels : \E b \in BOOLEAN : Agrees(c, b)

-----------------------------------------------------------------------------
\* The messages that say whether u is online, and those that say so.
About(u) == OnlineList \cup [t : {"uc", "ud"}, user : {u}]
Shows(u) == {m \in OnlineList : u \in m.users} \cup [t : {"uc"}, user : {u}]

\* The last of them is right about u, and when there is none the table is.
OnlineFor(u) ==
  /\ \A n \in 1..Len(toDaemon) : Final(toDaemon, About(u), n) =>
       (toDaemon[n] \in Shows(u) <=> u \in present)
  /\ None(toDaemon, About(u)) => (u \in online <=> u \in present)

OnlineInv == served => \A u \in Users : OnlineFor(u)

-----------------------------------------------------------------------------
\* The service numbers the items, and each side holds what the other sent it.
ItemsInv ==
  /\ \A i \in log \cup store : i.ts <= now
  /\ \A i, j \in log \cup store : i.ts = j.ts => i = j
  /\ \A i \in log : i.own => i \in store
  /\ \A i \in store : ~i.own => i \in log
  /\ \A n \in 1..Len(toService) : toService[n].t = "item" => toService[n].item \in store /\ toService[n].item.own
  /\ \A n \in 1..Len(toDaemon) : toDaemon[n].t = "items" =>
       \A k \in 1..Len(toDaemon[n].items) : toDaemon[n].items[k] \in log
  /\ \A c \in Channels : since[c] <= now

\* No cursor is going to ask for item i any more, or need to.
Past(i) ==
  \/ i \in store
  \/ \E j \in store : j.own /\ j.room = i.room /\ j.ts > i.ts
  \/ i.room # Dm /\ i.ts <= since[i.room]

Brings(msg, i) == msg.t = "items" /\ \E k \in 1..Len(msg.items) : msg.items[k] = i
OnItsWay(i) == \E n \in 1..Len(toDaemon) : Brings(toDaemon[n], i)

\* Item i comes before the k-th item of message n.
Ahead(i, n, k) ==
  \/ \E m \in 1..Len(toDaemon) : m < n /\ Brings(toDaemon[m], i)
  \/ \E j \in 1..Len(toDaemon[n].items) : j < k /\ toDaemon[n].items[j] = i

Older(i, j) == i.room = j.room /\ i.ts < j.ts

AllSent == served => \A i \in log : i.room \in member \cup {Dm} => Past(i) \/ OnItsWay(i)

StoreInOrder == \A j \in store, i \in log : ~j.own /\ Older(i, j) => Past(i)

SentInOrder ==
  \A n \in 1..Len(toDaemon) : toDaemon[n].t = "items" =>
    \A k \in 1..Len(toDaemon[n].items), i \in log :
      Older(i, toDaemon[n].items[k]) => Past(i) \/ Ahead(i, n, k)

CursorOf(msg, r) == IF r = Dm THEN msg.lm ELSE msg.cc[r]

\* What a connect object's cursors do not ask for is not missing.
CursorsPast ==
  up /\ ~served =>
    \A i \in log :
      i.room \in DOMAIN toService[1].cc \cup {Dm} /\ i.ts <= CursorOf(toService[1], i.room) => Past(i)
CursorsKnown ==
  up /\ ~served =>
    \A r \in DOMAIN toService[1].cc \cup {Dm} : CursorOf(toService[1], r) <= now

ResyncInv == AllSent /\ StoreInOrder /\ SentInOrder /\ CursorsPast /\ CursorsKnown

-----------------------------------------------------------------------------
(* Queues: what joins them and what leaves them.                           *)

LEMMA AppendIs ==
  ASSUME NEW T, NEW q \in Seq(T), NEW e \in T
  PROVE  /\ Append(q, e) \in Seq(T) /\ Len(Append(q, e)) = Len(q) + 1 /\ Len(q) \in Nat
         /\ Append(q, e)[Len(q) + 1] = e /\ \A n \in 1..Len(q) : Append(q, e)[n] = q[n]
         /\ 1..Len(Append(q, e)) = (1..Len(q)) \cup {Len(q) + 1}
  <1>1. /\ Append(q, e) \in Seq(T) /\ Len(Append(q, e)) = Len(q) + 1
        /\ Append(q, e)[Len(q) + 1] = e /\ \A n \in 1..Len(q) : Append(q, e)[n] = q[n]
    BY AppendProperties
  <1>2. Len(q) \in Nat
    BY LenProperties
  <1>3. 1..Len(Append(q, e)) = (1..Len(q)) \cup {Len(q) + 1}
    BY <1>1, <1>2
  <1> QED BY <1>1, <1>2, <1>3

LEMMA TailIs ==
  ASSUME NEW T, NEW q \in Seq(T), q # <<>>
  PROVE  /\ Tail(q) \in Seq(T) /\ Len(Tail(q)) = Len(q) - 1 /\ Len(q) \in Nat /\ Len(q) >= 1
         /\ \A n \in 1..Len(Tail(q)) : Tail(q)[n] = q[n + 1] /\ n + 1 \in 1..Len(q) /\ n \in Nat /\ n >= 1
         /\ Head(q) = q[1] /\ q[1] \in T /\ 1 \in 1..Len(q)
         /\ \A m \in 1..Len(q) : m = 1 \/ (m - 1 \in 1..Len(Tail(q)) /\ q[m] = Tail(q)[m - 1])
  <1>1. Len(q) \in Nat /\ Len(q) >= 1
    BY EmptySeq, LenProperties
  <1>2. q[1] \in T /\ 1 \in 1..Len(q)
    BY <1>1, ElementOfSeq
  <1>3. /\ Tail(q) \in Seq(T) /\ Len(Tail(q)) = Len(q) - 1
        /\ \A n \in 1..Len(Tail(q)) : Tail(q)[n] = q[n + 1]
    BY HeadTailProperties
  <1>4. Head(q) = q[1]
    OBVIOUS
  <1> DEFINE rest == Tail(q)
  <1>5. Len(rest) = Len(q) - 1 /\ \A n \in 1..Len(rest) : rest[n] = q[n + 1]
    BY <1>3
  <1> HIDE DEF rest
  <1>6. \A n \in 1..Len(rest) : n + 1 \in 1..Len(q) /\ n \in Nat /\ n >= 1
    BY <1>1, <1>5
  <1>7. \A m \in 1..Len(q) : m = 1 \/ (m - 1 \in 1..Len(rest) /\ q[m] = rest[m - 1])
    <2> TAKE m \in 1..Len(q)
    <2>1. m = 1 \/ (m - 1 \in 1..Len(rest) /\ (m - 1) + 1 = m)
      BY <1>1, <1>5
    <2> QED BY <1>5, <2>1
  <1> QED BY <1>1, <1>2, <1>3, <1>4, <1>6, <1>7 DEF rest

LEMMA ConcatIs ==
  ASSUME NEW T, NEW q \in Seq(T), NEW r \in Seq(T)
  PROVE  /\ q \o r \in Seq(T) /\ Len(q) \in Nat /\ Len(r) \in Nat
         /\ Len(q \o r) = Len(q) + Len(r)
         /\ \A n \in 1..Len(q) : n \in 1..Len(q \o r) /\ (q \o r)[n] = q[n]
         /\ \A k \in 1..Len(r) : Len(q) + k \in 1..Len(q \o r) /\ (q \o r)[Len(q) + k] = r[k]
         /\ \A n \in 1..Len(q \o r) : n \in 1..Len(q) \/ \E k \in 1..Len(r) : n = Len(q) + k
  <1>1. q \o r \in Seq(T) /\ Len(q) \in Nat /\ Len(r) \in Nat /\ Len(q \o r) = Len(q) + Len(r)
    BY ConcatProperties, LenProperties
  <1>2. \A i \in 1..(Len(q) + Len(r)) : (q \o r)[i] = IF i <= Len(q) THEN q[i] ELSE r[i - Len(q)]
    BY ConcatProperties
  <1> DEFINE both == q \o r
             m == Len(q)
             l == Len(r)
  <1>3. /\ m \in Nat /\ l \in Nat /\ Len(both) = m + l
        /\ \A i \in 1..(m + l) : both[i] = IF i <= m THEN q[i] ELSE r[i - m]
    BY <1>1, <1>2
  <1> HIDE DEF both, m, l
  <1>4. \A n \in 1..m : n \in 1..(m + l) /\ both[n] = q[n]
    <2> TAKE n \in 1..m
    <2>1. n \in 1..(m + l) /\ n <= m
      BY <1>3
    <2> QED BY <1>3, <2>1
  <1>5. \A k \in 1..l : m + k \in 1..(m + l) /\ both[m + k] = r[k]
    <2> TAKE k \in 1..l
    <2>1. m + k \in 1..(m + l) /\ ~(m + k <= m) /\ (m + k) - m = k
      BY <1>3
    <2> QED BY <1>3, <2>1
  <1>6. \A n \in 1..(m + l) : n \in 1..m \/ \E k \in 1..l : n = m + k
    <2> TAKE n \in 1..(m + l)
    <2>1. n \in 1..m \/ (n - m \in 1..l /\ n = m + (n - m))
      BY <1>3
    <2> QED BY <2>1
  <1> QED BY <1>1, <1>3, <1>4, <1>5, <1>6 DEF both, m, l

\* s is r with a before it.
Prepended(s, a, r) ==
  /\ Len(r) \in Nat /\ 1 \in 1..Len(s) /\ s[1] = a
  /\ \A k \in 1..Len(r) : k + 1 \in 1..Len(s) /\ s[k + 1] = r[k]
  /\ \A n \in 1..Len(s) : n = 1 \/ \E k \in 1..Len(r) : n = k + 1

LEMMA PrependIs ==
  ASSUME NEW T, NEW a \in T, NEW r \in Seq(T)
  PROVE  Prepended(<<a>> \o r, a, r)
  <1> DEFINE w == <<a>>
             both == w \o r
             l == Len(r)
  <1>1. w \in Seq(T) /\ Len(w) = 1 /\ w[1] = a
    OBVIOUS
  <1> HIDE DEF w
  <1>2. Len(w \o r) = Len(w) + Len(r)
    BY <1>1, ConcatProperties
  <1>3. \A i \in 1..(Len(w) + Len(r)) : (w \o r)[i] = IF i <= Len(w) THEN w[i] ELSE r[i - Len(w)]
    BY <1>1, ConcatProperties
  <1>4. l \in Nat
    BY LenProperties
  <1>5. Len(both) = 1 + l /\ \A i \in 1..(1 + l) : both[i] = IF i <= 1 THEN w[i] ELSE r[i - 1]
    BY <1>1, <1>2, <1>3
  <1> HIDE DEF both, l
  <1>6. 1 \in 1..(1 + l) /\ both[1] = a
    BY <1>1, <1>4, <1>5
  <1>7. \A k \in 1..l : k + 1 \in 1..(1 + l) /\ both[k + 1] = r[k]
    <2> TAKE k \in 1..l
    <2>1. k + 1 \in 1..(1 + l) /\ ~(k + 1 <= 1) /\ (k + 1) - 1 = k
      BY <1>4
    <2> QED BY <1>5, <2>1
  <1>8. \A n \in 1..(1 + l) : n = 1 \/ \E k \in 1..l : n = k + 1
    <2> TAKE n \in 1..(1 + l)
    <2>1. n = 1 \/ (n - 1 \in 1..l /\ n = (n - 1) + 1)
      BY <1>4
    <2> QED BY <2>1
  <1> QED BY <1>4, <1>5, <1>6, <1>7, <1>8 DEF Prepended, w, both, l

LEMMA RemovedIs ==
  ASSUME NEW T, NEW q \in Seq(T), NEW n \in 1..Len(q)
  PROVE  /\ RemoveAt(q, n) \in Seq(T)
         /\ \A m \in 1..Len(RemoveAt(q, n)) : \E k \in 1..Len(q) : RemoveAt(q, n)[m] = q[k]
  <1> DEFINE left == SubSeq(q, 1, n - 1)
             right == SubSeq(q, n + 1, Len(q))
             l == Len(q)
  <1>1. l \in Nat /\ n \in Nat /\ n >= 1 /\ n <= l /\ \A k \in 1..l : q[k] \in T
    BY LenProperties, ElementOfSeq
  <1>2. /\ left \in Seq(T) /\ Len(left) = IF 1 <= n - 1 THEN (n - 1) - 1 + 1 ELSE 0
        /\ \A i \in 1..((n - 1) - 1 + 1) : left[i] = q[1 + i - 1]
    <2>1. \A k \in 1..(n - 1) : q[k] \in T
      BY <1>1
    <2>2. 1 \in Int /\ n - 1 \in Int
      BY <1>1
    <2> QED BY <2>1, <2>2, SubSeqProperties
  <1>3. /\ right \in Seq(T) /\ Len(right) = IF n + 1 <= l THEN l - (n + 1) + 1 ELSE 0
        /\ \A i \in 1..(l - (n + 1) + 1) : right[i] = q[(n + 1) + i - 1]
    <2>1. \A k \in (n + 1)..l : q[k] \in T
      BY <1>1
    <2>2. n + 1 \in Int /\ l \in Int
      BY <1>1
    <2> QED BY <2>1, <2>2, SubSeqProperties
  <1> HIDE DEF left, right, l
  <1>4. \A m \in 1..Len(left) : \E k \in 1..l : left[m] = q[k]
    <2> TAKE m \in 1..Len(left)
    <2>1. m \in 1..((n - 1) - 1 + 1) /\ 1 + m - 1 \in 1..l
      BY <1>1, <1>2
    <2> QED BY <1>2, <2>1
  <1>5. \A m \in 1..Len(right) : \E k \in 1..l : right[m] = q[k]
    <2> TAKE m \in 1..Len(right)
    <2>1. m \in 1..(l - (n + 1) + 1) /\ (n + 1) + m - 1 \in 1..l
      BY <1>1, <1>3
    <2> QED BY <1>3, <2>1
  <1>6. /\ left \o right \in Seq(T)
        /\ \A m \in 1..Len(left) : (left \o right)[m] = left[m]
        /\ \A k \in 1..Len(right) : (left \o right)[Len(left) + k] = right[k]
        /\ \A m \in 1..Len(left \o right) : m \in 1..Len(left) \/ \E k \in 1..Len(right) : m = Len(left) + k
    <2>1. left \in Seq(T) /\ right \in Seq(T)
      BY <1>2, <1>3
    <2> QED BY <2>1, ConcatIs
  <1>7. \A m \in 1..Len(left \o right) : \E k \in 1..l : (left \o right)[m] = q[k]
    <2> TAKE m \in 1..Len(left \o right)
    <2>1. CASE m \in 1..Len(left)
      BY <1>4, <1>6, <2>1, Zenon
    <2>2. ASSUME NEW k \in 1..Len(right), m = Len(left) + k
          PROVE  \E j \in 1..l : (left \o right)[m] = q[j]
      <3>1. (left \o right)[m] = right[k]
        BY <1>6, <2>2, Zenon
      <3>2. PICK j \in 1..l : right[k] = q[j]
        BY <1>5, <2>2, Zenon
      <3> QED BY <3>1, <3>2, Zenon
    <2> QED BY <1>6, <2>1, <2>2, Zenon
  <1>8. RemoveAt(q, n) = left \o right
    BY DEF RemoveAt, left, right, l
  <1>9. PICK q2 : q2 = left \o right
    OBVIOUS
  <1>10. q2 \in Seq(T) /\ \A m \in 1..Len(q2) : \E k \in 1..l : q2[m] = q[k]
    BY <1>6, <1>7, <1>9
  <1>11. RemoveAt(q, n) = q2
    BY <1>8, <1>9
  <1> HIDE DEF RemoveAt
  <1> QED BY <1>10, <1>11, Zenon DEF l

LEMMA EmptyQueue ==
  /\ \A T : <<>> \in Seq(T)
  /\ \A S : None(<<>>, S) /\ \A n : ~Final(<<>>, S, n)
  /\ 1..Len(<<>>) = {}
  <1>1. 1..Len(<<>>) = {}
    BY EmptySeq
  <1>2. \A T : <<>> \in Seq(T)
    BY EmptySeq
  <1> QED BY <1>1, <1>2 DEF None, Final

LEMMA SingleQueue ==
  ASSUME NEW T, NEW e \in T
  PROVE  <<e>> \in Seq(T) /\ Len(<<e>>) = 1 /\ <<e>>[1] = e
  OBVIOUS

LEMMA FinalAppend ==
  ASSUME NEW T, NEW q \in Seq(T), NEW e \in T, NEW S
  PROVE  /\ \A n : Final(Append(q, e), S, n) =>
              IF e \in S THEN Append(q, e)[n] = e
              ELSE Final(q, S, n) /\ n \in 1..Len(q) /\ Append(q, e)[n] = q[n]
         /\ None(Append(q, e), S) <=> e \notin S /\ None(q, S)
  <1> DEFINE longer == Append(q, e)
  <1>1. /\ Len(longer) = Len(q) + 1 /\ Len(q) \in Nat
        /\ longer[Len(q) + 1] = e /\ \A n \in 1..Len(q) : longer[n] = q[n]
        /\ 1..Len(longer) = (1..Len(q)) \cup {Len(q) + 1}
    BY AppendIs
  <1> HIDE DEF longer
  <1>2. ASSUME NEW n, Final(longer, S, n), e \in S PROVE longer[n] = e
    <2>1. n \in 1..Len(q) => Len(q) + 1 > n
      BY <1>1
    <2>2. ~(Len(q) + 1 > n)
      BY <1>1, <1>2 DEF Final
    <2> QED BY <1>1, <1>2, <2>1, <2>2 DEF Final
  <1>3. ASSUME NEW n, Final(longer, S, n), e \notin S
        PROVE  Final(q, S, n) /\ n \in 1..Len(q) /\ longer[n] = q[n]
    <2>1. n \in 1..Len(q)
      BY <1>1, <1>3 DEF Final
    <2> QED BY <1>1, <1>3, <2>1 DEF Final
  <1>4. None(longer, S) <=> e \notin S /\ None(q, S)
    BY <1>1 DEF None
  <1> QED BY <1>2, <1>3, <1>4 DEF longer

LEMMA FinalTail ==
  ASSUME NEW T, NEW q \in Seq(T), q # <<>>, NEW S
  PROVE  /\ \A n \in 1..Len(Tail(q)) : Final(Tail(q), S, n) =>
              Final(q, S, n + 1) /\ n + 1 \in 1..Len(q) /\ Tail(q)[n] = q[n + 1]
         /\ None(Tail(q), S) => IF Head(q) \in S THEN Final(q, S, 1) ELSE None(q, S)
         /\ None(q, S) => None(Tail(q), S)
         /\ Head(q) = q[1] /\ 1 \in 1..Len(q)
  <1> DEFINE rest == Tail(q)
  <1>1. /\ \A n \in 1..Len(rest) : rest[n] = q[n + 1] /\ n + 1 \in 1..Len(q) /\ n \in Nat /\ n >= 1
        /\ Head(q) = q[1] /\ 1 \in 1..Len(q) /\ Len(q) \in Nat
        /\ \A m \in 1..Len(q) : m = 1 \/ (m - 1 \in 1..Len(rest) /\ q[m] = rest[m - 1])
    BY TailIs
  <1> HIDE DEF rest
  <1>2. ASSUME NEW n \in 1..Len(rest), Final(rest, S, n)
        PROVE  Final(q, S, n + 1) /\ n + 1 \in 1..Len(q) /\ rest[n] = q[n + 1]
    <2>1. ASSUME NEW m \in 1..Len(q), m > n + 1 PROVE q[m] \notin S
      <3>1. m # 1 /\ m - 1 > n
        BY <1>1, <2>1
      <3> QED BY <1>1, <1>2, <3>1 DEF Final
    <2> QED BY <1>1, <1>2, <2>1 DEF Final
  <1>3. ASSUME None(rest, S)
        PROVE  IF Head(q) \in S THEN Final(q, S, 1) ELSE None(q, S)
    <2>1. \A m \in 1..Len(q) : m = 1 \/ q[m] \notin S
      BY <1>1, <1>3 DEF None
    <2> QED BY <1>1, <2>1 DEF Final, None
  <1>4. None(q, S) => None(rest, S)
    BY <1>1 DEF None
  <1> QED BY <1>1, <1>2, <1>3, <1>4 DEF rest

LEMMA FinalConcat ==
  ASSUME NEW T, NEW q \in Seq(T), NEW r \in Seq(T), NEW S, None(r, S)
  PROVE  /\ \A n : Final(q \o r, S, n) =>
              Final(q, S, n) /\ n \in 1..Len(q) /\ (q \o r)[n] = q[n]
         /\ None(q \o r, S) <=> None(q, S)
  <1> DEFINE both == q \o r
  <1>1. /\ \A n \in 1..Len(q) : n \in 1..Len(both) /\ both[n] = q[n]
        /\ \A k \in 1..Len(r) : Len(q) + k \in 1..Len(both) /\ both[Len(q) + k] = r[k]
        /\ \A n \in 1..Len(both) : n \in 1..Len(q) \/ \E k \in 1..Len(r) : n = Len(q) + k
    BY ConcatIs
  <1> HIDE DEF both
  <1>2. \A n \in 1..Len(both) : both[n] \in S => n \in 1..Len(q)
    BY <1>1 DEF None
  <1> QED BY <1>1, <1>2 DEF Final, None, both

-----------------------------------------------------------------------------
(* Items: cursors, and the order a batch has.                              *)

LEMMA MaxIs ==
  ASSUME NEW S, S \subseteq 1..MaxTime, S # {}
  PROVE  Max(S) \in S /\ \A y \in S : y <= Max(S)
  <1> DEFINE less == OpToRel(<, Nat)
             Left(t) == MaxTime - t
             D == {Left(t) : t \in S}
  <1>a. MaxTime \in Nat
    BY BoundsAssumption
  <1>b. \A t \in S : t \in Nat /\ t <= MaxTime /\ t \in Int
    BY <1>a
  <1>1. IsWellFoundedOn(less, Nat)
    BY NatLessThanWellFounded
  <1>2. \A m, n \in Nat : m < n => <<m, n>> \in less
    BY DEF OpToRel
  <1>3. D \subseteq Nat /\ D # {}
    <2>1. \A t \in S : Left(t) \in Nat
      BY <1>a, <1>b
    <2> HIDE DEF Left
    <2> QED BY <2>1
  <1> HIDE DEF less
  <1>4. PICK d \in D : \A e \in D : ~(<<e, d>> \in less)
    <2> HIDE DEF D
    <2> QED BY <1>1, <1>3, WFMin
  <1>5. PICK t \in S : d = Left(t)
    OBVIOUS
  <1>6. \A y \in S : y <= t
    <2> TAKE y \in S
    <2>1. Left(y) \in D /\ Left(y) \in Nat /\ d \in Nat
      BY <1>3
    <2>2. ~(Left(y) < d)
      BY <1>2, <1>4, <2>1, Zenon
    <2>3. y \in Int /\ t \in Int
      BY <1>b
    <2>4. ~(MaxTime - y < MaxTime - t)
      BY <1>5, <2>2
    <2> QED BY <1>a, <2>3, <2>4
  <1>7. \A y \in S : t >= y
    BY <1>6, <1>b
  <1>8. Max(S) \in S /\ \A y \in S : Max(S) >= y
    BY <1>7, Zenon DEF Max
  <1>9. \A x, y \in S : x >= y => y <= x
    BY <1>b
  <1> QED BY <1>8, <1>9

LEMMA CursorIs ==
  ASSUME store \subseteq Items, NEW r
  PROVE  /\ Cursor(r) \in Cursors
         /\ \A i \in store : i.room = r => i.ts <= Cursor(r)
         /\ Cursor(r) = 0 \/ \E i \in store : i.room = r /\ i.ts = Cursor(r)
  <1> DEFINE seen == {i \in store : i.room = r}
             times == {i.ts : i \in seen}
  <1>1. times \subseteq 1..MaxTime
    BY DEF Items
  <1>2. MaxTime \in Nat
    BY BoundsAssumption
  <1>3. CASE seen = {}
    BY <1>2, <1>3 DEF Cursor, Cursors
  <1>4. CASE seen # {}
    <2>1. times # {}
      BY <1>4
    <2>2. Cursor(r) = Max(times)
      BY <1>4 DEF Cursor, Newest
    <2> DEFINE top == Max(times)
    <2>3. top \in times /\ \A y \in times : y <= top
      <3> HIDE DEF times
      <3> QED BY <1>1, <2>1, MaxIs
    <2> HIDE DEF top
    <2>4. top \in Cursors
      BY <1>1, <1>2, <2>3 DEF Cursors
    <2> QED BY <2>2, <2>3, <2>4 DEF top
  <1> QED BY <1>3, <1>4

\* Items of one numbering: their timestamps tell them apart.
Numbered(items) == items \subseteq Items /\ \A i, j \in items : i.ts = j.ts => i = j

LEMMA NumberedFinite ==
  ASSUME NEW items, Numbered(items)
  PROVE  IsFiniteSet(items) /\ Cardinality(items) \in Nat
  <1> DEFINE f == [i \in items |-> i.ts]
  <1>1. \A i \in items : i.ts \in 1..MaxTime
    BY DEF Numbered, Items
  <1>2. f \in [items -> 1..MaxTime]
    BY <1>1
  <1>3. \A i, j \in items : f[i] = f[j] => i = j
    BY DEF Numbered
  <1> HIDE DEF f
  <1>4. f \in Injection(items, 1..MaxTime)
    BY <1>2, <1>3, Fun_IsInj
  <1>5. IsFiniteSet(1..MaxTime)
    BY BoundsAssumption, FS_Interval
  <1>6. IsFiniteSet(items)
    BY <1>4, <1>5, FS_Injection
  <1> QED BY <1>6, FS_CardinalityType

\* They can be put in order: an item goes where the number of those up to it says.
LEMMA Ascending ==
  ASSUME NEW items, Numbered(items)
  PROVE  \E l \in [1..Cardinality(items) -> items] :
           \A j, k \in DOMAIN l : j < k => l[j].ts < l[k].ts
  <1> DEFINE n == Cardinality(items)
             Upto(x) == {y \in items : y.ts <= x.ts}
             rank == [x \in items |-> Cardinality(Upto(x))]
  <1>a. \A x \in items : x.ts \in Nat
    <2>1. MaxTime \in Nat
      BY BoundsAssumption
    <2>2. \A x \in items : x.ts \in 1..MaxTime
      BY DEF Numbered, Items
    <2> QED BY <2>1, <2>2
  <1>1. IsFiniteSet(items) /\ n \in Nat /\ IsFiniteSet(1..n) /\ Cardinality(1..n) = n
    <2>1. IsFiniteSet(items) /\ n \in Nat
      BY NumberedFinite
    <2> HIDE DEF n
    <2>2. IsFiniteSet(1..n) /\ Cardinality(1..n) = IF 1 > n THEN 0 ELSE n - 1 + 1
      BY <2>1, FS_Interval
    <2> QED BY <2>1, <2>2
  <1>2. \A x \in items : /\ IsFiniteSet(Upto(x)) /\ Cardinality(Upto(x)) <= n
                         /\ Cardinality(Upto(x)) \in Nat
    <2> TAKE x \in items
    <2>1. Upto(x) \in SUBSET items
      OBVIOUS
    <2> QED BY <1>1, <2>1, FS_Subset, FS_CardinalityType
  <1>3. \A x \in items : Cardinality(Upto(x)) \in 1..n
    <2> TAKE x \in items
    <2>1. x \in Upto(x)
      BY <1>a
    <2>2. Cardinality(Upto(x)) # 0
      BY <1>2, <2>1, FS_EmptySet
    <2> QED BY <1>1, <1>2, <2>2
  <1>4. \A x, z \in items : x.ts < z.ts => Cardinality(Upto(x)) < Cardinality(Upto(z))
    <2> SUFFICES ASSUME NEW x \in items, NEW z \in items, x.ts < z.ts
                 PROVE  Cardinality(Upto(x)) < Cardinality(Upto(z))
      OBVIOUS
    <2>1. z.ts <= z.ts /\ ~(z.ts <= x.ts) /\ \A y \in Nat : y <= x.ts => y <= z.ts
      BY <1>a
    <2>2. Upto(x) \in SUBSET Upto(z) /\ z \in Upto(z) /\ z \notin Upto(x)
      BY <1>a, <2>1
    <2>3. /\ Cardinality(Upto(x)) <= Cardinality(Upto(z))
          /\ Cardinality(Upto(z)) = Cardinality(Upto(x)) => Upto(z) = Upto(x)
      BY <1>2, <2>2, FS_Subset
    <2> QED BY <1>2, <2>2, <2>3
  <1> HIDE DEF Upto
  <1>5. rank \in [items -> 1..n] /\ \A x, z \in items : x.ts < z.ts => rank[x] < rank[z]
    BY <1>3, <1>4
  <1>6. \A x, z \in items : rank[x] = rank[z] => x = z
    <2> SUFFICES ASSUME NEW x \in items, NEW z \in items, rank[x] = rank[z]
                 PROVE  x = z
      OBVIOUS
    <2> HIDE DEF rank, n
    <2>1. rank[x] \in Nat /\ rank[z] \in Nat /\ x.ts \in Nat /\ z.ts \in Nat
      BY <1>a, <1>1, <1>5
    <2>2. ~(x.ts < z.ts) /\ ~(z.ts < x.ts)
      BY <1>5, <2>1
    <2>3. x.ts = z.ts
      BY <2>1, <2>2
    <2> QED BY <2>3 DEF Numbered
  <1> HIDE DEF rank
  <1>7. rank \in Surjection(items, 1..n)
    <2>1. rank \in Injection(items, 1..n)
      BY <1>5, <1>6, Fun_IsInj
    <2> QED BY <1>1, <2>1, FS_Injection
  <1>8. \A k \in 1..n : \E x \in items : rank[x] = k
    BY <1>7, Fun_SurjectionProperties
  <1> DEFINE l == [k \in 1..n |-> CHOOSE x \in items : rank[x] = k]
  <1>9. l \in [1..n -> items] /\ \A k \in 1..n : l[k] \in items /\ rank[l[k]] = k
    BY <1>8
  <1> HIDE DEF l
  <1>10. \A j, k \in 1..n : j < k => l[j].ts < l[k].ts
    <2> SUFFICES ASSUME NEW j \in 1..n, NEW k \in 1..n, j < k
                 PROVE  l[j].ts < l[k].ts
      OBVIOUS
    <2> HIDE DEF n
    <2>a. l[j] \in items /\ l[k] \in items /\ rank[l[j]] = j /\ rank[l[k]] = k
      BY <1>9
    <2>b. l[j].ts \in Nat /\ l[k].ts \in Nat
      BY <1>a, <2>a
    <2>c. j \in Nat /\ k \in Nat
      BY <1>1
    <2>1. l[k].ts < l[j].ts => k < j
      BY <1>5, <2>a
    <2>2. l[k].ts = l[j].ts => l[k] = l[j]
      BY <2>a DEF Numbered
    <2>3. l[k].ts # l[j].ts
      BY <2>2, <2>a, <2>c
    <2> QED BY <2>1, <2>3, <2>b, <2>c
  <1>11. DOMAIN l = 1..n
    BY <1>9
  <1> QED BY <1>9, <1>10, <1>11

LEMMA OldestFirstIs ==
  ASSUME NEW items, Numbered(items)
  PROVE  /\ OldestFirst(items) \in Seq(items) /\ OldestFirst(items) \in Seq(Items)
         /\ \A k \in 1..Len(OldestFirst(items)) : OldestFirst(items)[k] \in items
         /\ \A i \in items : \E k \in 1..Len(OldestFirst(items)) : OldestFirst(items)[k] = i
         /\ \A j, k \in 1..Len(OldestFirst(items)) :
              j < k => OldestFirst(items)[j].ts < OldestFirst(items)[k].ts
  <1> DEFINE l == OldestFirst(items)
             n == Cardinality(items)
  <1>1. n \in Nat /\ IsFiniteSet(items)
    BY NumberedFinite
  <1>2. l \in [1..n -> items] /\ \A j, k \in DOMAIN l : j < k => l[j].ts < l[k].ts
    <2>1. \E s \in [1..Cardinality(items) -> items] :
            \A j, k \in DOMAIN s : j < k => s[j].ts < s[k].ts
      BY Ascending
    <2> QED BY <2>1, Zenon DEF OldestFirst
  <1> HIDE DEF l, n
  <1>3. l \in Seq(items) /\ Len(l) = n /\ DOMAIN l = 1..n
    <2>1. l \in Seq(items)
      BY <1>1, <1>2, SeqDef
    <2>2. DOMAIN l = 1..n /\ DOMAIN l = 1..Len(l) /\ Len(l) \in Nat
      BY <1>2, <2>1, LenProperties
    <2> QED BY <1>1, <2>1, <2>2
  <1>4. l \in Seq(Items)
    BY <1>3, SeqMonotonic DEF Numbered
  <1>5. \A k \in 1..n : l[k] \in items
    BY <1>2
  <1>6. \A i \in items : \E k \in 1..n : l[k] = i
    <2>1. \A j, k \in 1..n : l[j] = l[k] => j = k
      <3> SUFFICES ASSUME NEW j \in 1..n, NEW k \in 1..n, l[j] = l[k]
                   PROVE  j = k
        OBVIOUS
      <3>1. l[j].ts \in Int /\ j \in Nat /\ k \in Nat
        <4>1. l[j] \in Items /\ MaxTime \in Nat
          BY <1>5, BoundsAssumption DEF Numbered
        <4>2. l[j].ts \in 1..MaxTime
          BY <4>1 DEF Items
        <4> QED BY <1>1, <4>1, <4>2
      <3>2. ~(j < k) /\ ~(k < j)
        BY <1>2, <1>3, <3>1
      <3> QED BY <3>1, <3>2
    <2>2. l \in Injection(1..n, items)
      BY <1>2, <2>1, Fun_IsInj
    <2>3. IsFiniteSet(1..n) /\ Cardinality(1..n) = IF 1 > n THEN 0 ELSE n - 1 + 1
      BY <1>1, FS_Interval
    <2>4. Cardinality(1..n) = Cardinality(items)
      BY <1>1, <2>3 DEF n
    <2>5. l \in Surjection(1..n, items)
      BY <1>1, <2>2, <2>4, FS_Injection
    <2> QED BY <1>2, <2>5 DEF Surjection
  <1> QED BY <1>2, <1>3, <1>4, <1>5, <1>6 DEF l

-----------------------------------------------------------------------------
(* The messages, and what a connect object is answered with.               *)

LEMMA MessagesDiffer ==
  /\ \A m \in ToService : /\ m.t \in {"c", "item", "cs"}
                          /\ m.t = "c" => m \in ConnectObject
                          /\ m.t = "item" => m.item \in Items
                          /\ m.t = "cs" => m.cid \in Channels /\ m.s \in BOOLEAN
  /\ \A m \in ToDaemon : /\ m.t \in {"items", "o", "uc", "ud", "cs"}
                         /\ m.t = "items" => m.items \in Seq(Items)
                         /\ m.t = "o" => m.users \subseteq Users
                         /\ m.t \in {"uc", "ud"} => m.user \in Users
                         /\ m.t = "cs" => m.cid \in Channels /\ m.s \in BOOLEAN
  <1>1. ASSUME NEW m \in ToService
        PROVE  /\ m.t \in {"c", "item", "cs"}
               /\ m.t = "c" => m \in ConnectObject
               /\ m.t = "item" => m.item \in Items
               /\ m.t = "cs" => m.cid \in Channels /\ m.s \in BOOLEAN
    BY <1>1 DEF ToService, ConnectObject, Subscription
  <1>2. ASSUME NEW m \in ToDaemon
        PROVE  /\ m.t \in {"items", "o", "uc", "ud", "cs"}
               /\ m.t = "items" => m.items \in Seq(Items)
               /\ m.t = "o" => m.users \subseteq Users
               /\ m.t \in {"uc", "ud"} => m.user \in Users
               /\ m.t = "cs" => m.cid \in Channels /\ m.s \in BOOLEAN
    BY <1>2 DEF ToDaemon, Backfill, OnlineList, ComingOrGoing, Subscription
  <1> QED BY <1>1, <1>2

LEMMA ConnectObjectIs ==
  ASSUME NEW m \in ConnectObject
  PROVE  /\ m.t = "c" /\ m.lm \in Cursors /\ DOMAIN m.cc \subseteq Channels
         /\ \A r \in DOMAIN m.cc : m.cc[r] \in Cursors
         /\ \A r \in DOMAIN m.cc \cup {Dm} : CursorOf(m, r) \in Cursors
         /\ IsFiniteSet(DOMAIN m.cc \cup {Dm})
  <1>1. m.t = "c" /\ m.lm \in Cursors /\ m.cc \in UNION {[cs -> Cursors] : cs \in SUBSET Channels}
    BY DEF ConnectObject
  <1>2. PICK cs \in SUBSET Channels : m.cc \in [cs -> Cursors]
    BY <1>1
  <1>3. DOMAIN m.cc \subseteq Channels /\ \A r \in DOMAIN m.cc : m.cc[r] \in Cursors
    BY <1>2
  <1>4. IsFiniteSet(DOMAIN m.cc)
    BY <1>3, ChannelsAssumption, FS_Subset
  <1>5. IsFiniteSet(DOMAIN m.cc \cup {Dm})
    BY <1>4, FS_AddElement
  <1> QED BY <1>1, <1>3, <1>5 DEF CursorOf

\* What the service answers: its users, then these batches in one order or another.
Asked(msg) == [r \in DOMAIN msg.cc \cup {Dm} |-> IF r = Dm THEN msg.lm ELSE msg.cc[r]]
News(msg) == {r \in DOMAIN Asked(msg) : Newer(r, Asked(msg)[r]) # {}}
Batch(msg, r) == [t |-> "items", items |-> OldestFirst(Newer(r, Asked(msg)[r]))]
Batches(msg, order) == [k \in 1..Len(order) |-> Batch(msg, order[k])]
WhoIsOn == <<[t |-> "o", users |-> present]>>

LEMMA ConnectIsRead ==
  ASSUME NEW msg, ServiceReadsConnect(msg)
  PROVE  /\ served' = TRUE /\ member' = DOMAIN msg.cc /\ log' = log /\ since' = since
         /\ \E order \in Orders(News(msg)) :
              toDaemon' = toDaemon \o WhoIsOn \o Batches(msg, order)
  BY DEF ServiceReadsConnect, Asked, News, Batch, Batches, WhoIsOn

LEMMA NewerNumbered ==
  ASSUME log \subseteq Items, \A i, j \in log : i.ts = j.ts => i = j, NEW r, NEW cursor
  PROVE  Numbered(Newer(r, cursor))
  BY DEF Numbered, Newer

LEMMA AskedIs ==
  ASSUME NEW msg \in ConnectObject
  PROVE  /\ DOMAIN Asked(msg) = DOMAIN msg.cc \cup {Dm}
         /\ \A r \in DOMAIN msg.cc \cup {Dm} : Asked(msg)[r] = CursorOf(msg, r)
  BY DEF Asked, CursorOf

LEMMA BatchIs ==
  ASSUME log \subseteq Items, \A i, j \in log : i.ts = j.ts => i = j,
         NEW msg \in ConnectObject, NEW r \in DOMAIN msg.cc \cup {Dm}
  PROVE  /\ Batch(msg, r) \in Backfill /\ Batch(msg, r).t = "items"
         /\ \A k \in 1..Len(Batch(msg, r).items) :
              /\ Batch(msg, r).items[k] \in log /\ Batch(msg, r).items[k].room = r
              /\ Batch(msg, r).items[k].ts > CursorOf(msg, r)
              /\ \A i \in log : /\ i.room = r /\ i.ts > CursorOf(msg, r)
                                /\ i.ts < Batch(msg, r).items[k].ts
                   => \E j \in 1..Len(Batch(msg, r).items) : j < k /\ Batch(msg, r).items[j] = i
         /\ \A i \in log : i.room = r /\ i.ts > CursorOf(msg, r)
              => \E k \in 1..Len(Batch(msg, r).items) : Batch(msg, r).items[k] = i
  <1> DEFINE newer == Newer(r, CursorOf(msg, r))
             l == OldestFirst(newer)
  <1>1. Batch(msg, r) = [t |-> "items", items |-> l]
    BY AskedIs DEF Batch
  <1>2. Numbered(newer)
    BY NewerNumbered
  <1>3. newer = {i \in log : i.room = r /\ i.ts > CursorOf(msg, r)}
    BY DEF Newer
  <1> HIDE DEF newer
  <1>4. /\ l \in Seq(newer) /\ l \in Seq(Items)
        /\ \A k \in 1..Len(l) : l[k] \in newer
        /\ \A i \in newer : \E k \in 1..Len(l) : l[k] = i
        /\ \A j, k \in 1..Len(l) : j < k => l[j].ts < l[k].ts
    BY <1>2, OldestFirstIs
  <1> HIDE DEF l
  <1>5. \A k \in 1..Len(l), i \in newer : i.ts < l[k].ts => \E j \in 1..Len(l) : j < k /\ l[j] = i
    <2> SUFFICES ASSUME NEW k \in 1..Len(l), NEW i \in newer, i.ts < l[k].ts
                 PROVE  \E j \in 1..Len(l) : j < k /\ l[j] = i
      OBVIOUS
    <2>1. PICK j \in 1..Len(l) : l[j] = i
      BY <1>4
    <2>2. MaxTime \in Nat /\ Len(l) \in Nat /\ l[k] \in Items /\ l[j] \in Items
      BY <1>2, <1>4, BoundsAssumption, LenProperties DEF Numbered
    <2>3. l[k].ts \in 1..MaxTime /\ l[j].ts \in 1..MaxTime
      BY <2>2 DEF Items
    <2>4. l[k].ts \in Nat /\ l[j].ts \in Nat /\ j \in Nat /\ k \in Nat
      BY <2>2, <2>3
    <2>5. k < j => l[k].ts < l[j].ts
      BY <1>4
    <2>6. ~(l[k].ts < l[j].ts) /\ l[k].ts # l[j].ts
      BY <2>1, <2>4
    <2>7. ~(k < j) /\ j # k
      BY <2>5, <2>6
    <2> QED BY <2>1, <2>4, <2>7
  <1>6. [t |-> "items", items |-> l] \in Backfill
    BY <1>4 DEF Backfill
  <1> QED BY <1>1, <1>3, <1>4, <1>5, <1>6

LEMMA BatchesAre ==
  ASSUME log \subseteq Items, \A i, j \in log : i.ts = j.ts => i = j,
         NEW msg \in ConnectObject, NEW order \in Orders(News(msg))
  PROVE  /\ Batches(msg, order) \in Seq(Backfill)
         /\ \A n \in 1..Len(Batches(msg, order)) :
              \E r \in DOMAIN msg.cc \cup {Dm} : Batches(msg, order)[n] = Batch(msg, r)
         /\ \A i \in log : i.room \in DOMAIN msg.cc \cup {Dm} /\ i.ts > CursorOf(msg, i.room)
              => \E n \in 1..Len(Batches(msg, order)) : Batches(msg, order)[n] = Batch(msg, i.room)
  <1> DEFINE rooms == News(msg)
             n == Cardinality(rooms)
             bs == Batches(msg, order)
  <1>1. rooms \subseteq DOMAIN msg.cc \cup {Dm}
    BY AskedIs DEF News
  <1>2. IsFiniteSet(rooms) /\ n \in Nat
    BY <1>1, ConnectObjectIs, FS_Subset, FS_CardinalityType
  <1>3. order \in [1..n -> rooms] /\ \A r \in rooms : \E k \in 1..n : order[k] = r
    BY DEF Orders
  <1>4. \A i \in log : i.room \in DOMAIN msg.cc \cup {Dm} /\ i.ts > CursorOf(msg, i.room) => i.room \in rooms
    BY AskedIs DEF News, Newer
  <1> HIDE DEF rooms, n
  <1>5. order \in Seq(rooms)
    BY <1>2, <1>3, SeqDef
  <1>6. Len(order) = n
    BY <1>2, <1>3, <1>5, LenProperties
  <1>7. bs = [k \in 1..n |-> Batch(msg, order[k])]
    BY <1>6 DEF Batches
  <1>8. \A k \in 1..n : order[k] \in DOMAIN msg.cc \cup {Dm} /\ Batch(msg, order[k]) \in Backfill
    BY <1>1, <1>3, BatchIs
  <1>9. bs \in [1..n -> Backfill]
    BY <1>7, <1>8
  <1>10. bs \in Seq(Backfill) /\ Len(bs) = n
    <2> HIDE DEF bs
    <2>1. bs \in Seq(Backfill)
      BY <1>2, <1>9, SeqDef
    <2> QED BY <1>2, <1>9, <2>1, LenProperties
  <1>11. \A k \in 1..n : bs[k] = Batch(msg, order[k])
    BY <1>7
  <1> HIDE DEF bs
  <1>12. \A i \in log : i.room \in DOMAIN msg.cc \cup {Dm} /\ i.ts > CursorOf(msg, i.room)
           => \E k \in 1..n : bs[k] = Batch(msg, i.room)
    BY <1>3, <1>4, <1>11
  <1> QED BY <1>8, <1>10, <1>11, <1>12 DEF bs

-----------------------------------------------------------------------------
(* Types, with what numbers the items and opens a session.                 *)

\* Calls that are overtaken stay what they are, but not the last of their channel.
LEMMA OvertakenIs ==
  ASSUME waiting \in Seq(Call), NEW cs
  PROVE  /\ Overtaken(cs) \in Seq(Call) /\ Len(Overtaken(cs)) = Len(waiting)
         /\ \A n \in 1..Len(waiting) :
              /\ Overtaken(cs)[n].cid = waiting[n].cid /\ Overtaken(cs)[n].s = waiting[n].s
              /\ Overtaken(cs)[n].last => waiting[n].last /\ waiting[n].cid \notin cs
  <1>1. Len(waiting) \in Nat /\ DOMAIN waiting = 1..Len(waiting) /\ \A n \in 1..Len(waiting) : waiting[n] \in Call
    BY LenProperties, ElementOfSeq
  <1> DEFINE over(n) == [waiting[n] EXCEPT !.last = @ /\ waiting[n].cid \notin cs]
  <1>2. \A n \in 1..Len(waiting) :
          /\ over(n) \in Call /\ over(n).cid = waiting[n].cid /\ over(n).s = waiting[n].s
          /\ over(n).last => waiting[n].last /\ waiting[n].cid \notin cs
    <2> SUFFICES ASSUME NEW n \in 1..Len(waiting)
                 PROVE  /\ over(n) \in Call /\ over(n).cid = waiting[n].cid /\ over(n).s = waiting[n].s
                        /\ over(n).last => waiting[n].last /\ waiting[n].cid \notin cs
      OBVIOUS
    <2>1. waiting[n] \in Call
      BY <1>1
    <2> QED BY <2>1 DEF Call
  <1>3. Overtaken(cs) = [n \in 1..Len(waiting) |-> over(n)]
    BY <1>1 DEF Overtaken
  <1> HIDE DEF over
  <1> DEFINE k == Len(waiting)
             f == [n \in 1..k |-> over(n)]
  <1>4. f \in Seq(Call) /\ Len(f) = k /\ \A n \in 1..k : f[n] = over(n)
    BY <1>1, <1>2, SeqDef
  <1> QED BY <1>2, <1>3, <1>4

LEMMA CallEndsIs ==
  ASSUME TypeOK, NEW n, CallSucceeds(n) \/ CallFails(n)
  PROVE  /\ waiting' \in Seq(Call) /\ n \in 1..Len(waiting) /\ waiting[n] \in Call
         /\ \A m \in 1..Len(waiting') : \E k \in 1..Len(waiting) : waiting'[m] = waiting[k]
  <1>1. waiting \in Seq(Call)
    BY DEF TypeOK
  <1>2. n \in 1..Len(waiting) /\ waiting' = RemoveAt(waiting, n)
    BY <1>1, LenProperties DEF CallSucceeds, CallFails
  <1>3. waiting[n] \in Call
    BY <1>1, <1>2, ElementOfSeq
  <1> QED BY <1>1, <1>2, <1>3, RemovedIs

IInv == TypeOK /\ SessionInv /\ ItemsInv

LEMMA InitType == Init => TypeOK
  <1> SUFFICES ASSUME Init PROVE TypeOK
    OBVIOUS
  <1>1. waiting \in Seq(Call) /\ toService \in Seq(ToService)
        /\ toDaemon \in Seq(ToDaemon)
    BY EmptyQueue, Zenon DEF Init
  <1>2. now \in 0..MaxTime /\ since \in [Channels -> 0..MaxTime]
    BY BoundsAssumption DEF Init
  <1>3. up \in BOOLEAN /\ outdated \subseteq Channels /\ served \in BOOLEAN
    BY DEF Init
  <1> QED BY <1>1, <1>2, <1>3 DEF Init, TypeOK

LEMMA InitSession == Init => SessionInv
  BY EmptyQueue DEF Init, SessionInv

LEMMA InitItems == Init => ItemsInv
  <1> SUFFICES ASSUME Init PROVE ItemsInv
    OBVIOUS
  <1>1. 1..Len(toService) = {} /\ 1..Len(toDaemon) = {}
    BY EmptyQueue, Zenon DEF Init
  <1>2. \A c \in Channels : since[c] <= now
    BY DEF Init
  <1> QED BY <1>1, <1>2 DEF Init, ItemsInv

LEMMA ConnectTyped == TypeOK /\ Connect => TypeOK'
  <1> SUFFICES ASSUME TypeOK, Connect PROVE TypeOK'
    OBVIOUS
  <1> DEFINE msg == [t |-> "c", lm |-> Cursor(Dm), cc |-> [c \in subscribed |-> Cursor(c)]]
  <1>1. \A r : Cursor(r) \in Cursors
    BY CursorIs DEF TypeOK
  <1>2. [c \in subscribed |-> Cursor(c)] \in [subscribed -> Cursors]
    BY <1>1
  <1>3. [c \in subscribed |-> Cursor(c)] \in UNION {[cs -> Cursors] : cs \in SUBSET Channels}
    BY <1>2 DEF TypeOK
  <1>4. msg \in ToService
    BY <1>1, <1>3 DEF ToService, ConnectObject
  <1>5. toService' = <<msg>>
    BY DEF Connect
  <1>6. toService' \in Seq(ToService)
    BY <1>4, <1>5, SingleQueue
  <1>7. up' \in BOOLEAN /\ outdated' \subseteq Channels
    BY DEF Connect
  <1> QED BY <1>6, <1>7 DEF TypeOK, Connect, tableVars, serviceVars

LEMMA HeadSendsTyped == ASSUME NEW r \in Rooms PROVE TypeOK /\ HeadSends(r) => TypeOK'
  <1> SUFFICES ASSUME TypeOK, HeadSends(r) PROVE TypeOK'
    OBVIOUS
  <1> DEFINE item == Item(r, now + 1, TRUE)
  <1>1. now + 1 \in 1..MaxTime /\ now' \in 0..MaxTime
    BY BoundsAssumption DEF HeadSends, TypeOK
  <1>2. item \in Items
    BY <1>1 DEF Item, Items
  <1>3. [t |-> "item", item |-> item] \in ToService
    BY <1>2 DEF ToService
  <1> HIDE DEF item
  <1>4. Append(toService, [t |-> "item", item |-> item]) \in Seq(ToService)
    BY <1>3, AppendIs DEF TypeOK
  <1>5. store' = store \cup {item} /\ toService' = IF up THEN Append(toService, [t |-> "item", item |-> item]) ELSE toService
    BY DEF HeadSends, item
  <1>6. store' \subseteq Items /\ toService' \in Seq(ToService)
    BY <1>2, <1>4, <1>5 DEF TypeOK
  <1> QED BY <1>1, <1>6 DEF TypeOK, HeadSends, callVars

LEMMA HeadCallsTyped ==
  ASSUME NEW c \in Channels, NEW s \in BOOLEAN PROVE TypeOK /\ HeadCalls(c, s) => TypeOK'
  <1> SUFFICES ASSUME TypeOK, HeadCalls(c, s) PROVE TypeOK'
    OBVIOUS
  <1>1. [t |-> "cs", cid |-> c, s |-> s] \in ToService
    BY DEF ToService, Subscription
  <1>2. [cid |-> c, s |-> s, last |-> TRUE] \in Call
    BY DEF Call
  <1>3. toService' \in Seq(ToService)
    BY <1>1, AppendIs DEF HeadCalls, TypeOK
  <1>4. Overtaken({c}) \in Seq(Call)
    BY OvertakenIs DEF TypeOK
  <1>5. waiting' \in Seq(Call)
    BY <1>2, <1>4, AppendIs DEF HeadCalls
  <1> QED BY <1>3, <1>5 DEF TypeOK, HeadCalls, tableVars, serviceVars

LEMMA CallEndsTyped == ASSUME NEW n PROVE TypeOK /\ (CallSucceeds(n) \/ CallFails(n)) => TypeOK'
  <1> SUFFICES ASSUME TypeOK, CallSucceeds(n) \/ CallFails(n) PROVE TypeOK'
    OBVIOUS
  <1>1. waiting' \in Seq(Call) /\ waiting[n] \in Call
    BY CallEndsIs
  <1>2. waiting[n].cid \in Channels
    BY <1>1 DEF Call
  <1>3. CASE CallSucceeds(n)
    BY <1>1, <1>2, <1>3 DEF TypeOK, CallSucceeds, Flagged, serviceVars
  <1>4. CASE CallFails(n)
    BY <1>1, <1>4 DEF TypeOK, CallFails, tableVars, serviceVars
  <1> QED BY <1>3, <1>4

LEMMA DispatchTyped == TypeOK /\ Dispatch => TypeOK'
  <1> SUFFICES ASSUME TypeOK, Dispatch PROVE TypeOK'
    OBVIOUS
  <1> DEFINE msg == Head(toDaemon)
  <1>1. msg \in ToDaemon /\ toDaemon' \in Seq(ToDaemon)
    BY TailIs DEF TypeOK, Dispatch
  <1>2. /\ store' = IF msg.t = "items" THEN store \cup Inserted(msg.items, Len(msg.items)) ELSE store
        /\ subscribed' = IF msg.t = "cs" THEN Echoed(msg) ELSE subscribed
        /\ online' = IF msg.t = "o" THEN OnlineNow(msg.users)
                     ELSE IF msg.t = "uc" THEN online \cup {msg.user}
                     ELSE IF msg.t = "ud" THEN online \ {msg.user} ELSE online
    BY DEF Dispatch
  <1> HIDE DEF msg
  <1>3. store' \subseteq Items
    <2>1. CASE msg.t = "items"
      <3>1. msg.items \in Seq(Items)
        BY <1>1, <2>1, MessagesDiffer
      <3>2. \A k \in 1..Len(msg.items) : msg.items[k] \in Items
        BY <3>1, ElementOfSeq
      <3> QED BY <1>2, <2>1, <3>2 DEF Inserted, TypeOK
    <2> QED BY <1>2, <2>1 DEF TypeOK
  <1>4. subscribed' \subseteq Channels
    BY <1>1, <1>2, MessagesDiffer DEF TypeOK, Echoed, Flagged
  <1>5. online' \subseteq Users
    BY <1>1, <1>2, MessagesDiffer DEF TypeOK, OnlineNow
  <1>6. outdated' \subseteq Channels
    BY DEF TypeOK, Dispatch
  <1> QED BY <1>1, <1>3, <1>4, <1>5, <1>6 DEF TypeOK, Dispatch, serviceVars

LEMMA GoneTyped == ASSUME NEW k \in 0..MaxTime PROVE TypeOK /\ (Drop \/ Crash(k)) => TypeOK'
  <1> SUFFICES ASSUME TypeOK, Drop \/ Crash(k) PROVE TypeOK'
    OBVIOUS
  <1>1. LinkGone
    BY DEF Drop, Crash
  <1>2. toService' \in Seq(ToService) /\ toDaemon' \in Seq(ToDaemon)
    BY <1>1, EmptyQueue, Zenon DEF LinkGone
  <1>3. up' \in BOOLEAN /\ served' \in BOOLEAN /\ member' \subseteq Channels /\ outdated' \subseteq Channels
    BY <1>1 DEF LinkGone, TypeOK
  <1>4. store' \subseteq Items
    <2>1. CASE Drop
      BY <2>1 DEF Drop, tableVars, TypeOK
    <2>2. CASE Crash(k)
      <3> DEFINE msg == Head(toDaemon)
      <3>1. toDaemon # <<>> /\ msg.t = "items" /\ k < Len(msg.items) /\ store' = store \cup Inserted(msg.items, k)
        BY <2>2 DEF Crash
      <3>2. msg \in ToDaemon
        BY <3>1, TailIs DEF TypeOK
      <3> HIDE DEF msg
      <3>3. msg.items \in Seq(Items) /\ Len(msg.items) \in Nat
        BY <3>1, <3>2, MessagesDiffer, LenProperties
      <3>4. \A j \in 1..k : j \in 1..Len(msg.items)
        BY <3>1, <3>3, BoundsAssumption
      <3>5. \A j \in 1..k : msg.items[j] \in Items
        BY <3>3, <3>4, ElementOfSeq
      <3> QED BY <3>1, <3>5 DEF Inserted, TypeOK
    <2> QED BY <2>1, <2>2
  <1>5. subscribed' \subseteq Channels /\ online' \subseteq Users
    BY DEF Drop, Crash, tableVars, TypeOK
  <1>6. waiting' \in Seq(Call)
    <2>1. CASE Drop
      <3>1. Overtaken(Channels) \in Seq(Call)
        BY OvertakenIs DEF TypeOK
      <3> QED BY <2>1, <3>1 DEF Drop
    <2>2. CASE Crash(k)
      <3>1. waiting' = <<>>
        BY <2>2 DEF Crash
      <3> QED BY <3>1, EmptyQueue, Zenon
    <2> QED BY <2>1, <2>2
  <1> QED BY <1>1, <1>2, <1>3, <1>4, <1>5, <1>6 DEF TypeOK, LinkGone

LEMMA ServiceReadsTyped == TypeOK /\ ItemsInv /\ ServiceReads => TypeOK'
  <1> SUFFICES ASSUME TypeOK, ItemsInv, ServiceReads PROVE TypeOK'
    OBVIOUS
  <1> DEFINE msg == Head(toService)
  <1>1. msg \in ToService /\ toService' \in Seq(ToService)
    BY TailIs DEF TypeOK, ServiceReads
  <1>2. ServiceReadsConnect(msg) \/ ServiceReadsItem(msg) \/ ServiceReadsCs(msg)
    BY DEF ServiceReads
  <1> HIDE DEF msg
  <1>3. CASE ServiceReadsConnect(msg)
    <2>1. msg \in ConnectObject
      BY <1>1, <1>3, MessagesDiffer DEF ServiceReadsConnect
    <2>2. served' = TRUE /\ member' = DOMAIN msg.cc /\ log' = log /\ since' = since
      BY <1>3, ConnectIsRead
    <2>3. PICK order \in Orders(News(msg)) : toDaemon' = toDaemon \o WhoIsOn \o Batches(msg, order)
      BY <1>3, ConnectIsRead
    <2>4. Batches(msg, order) \in Seq(Backfill)
      BY <2>1, BatchesAre DEF TypeOK, ItemsInv
    <2>5. Batches(msg, order) \in Seq(ToDaemon)
      BY <2>4, SeqMonotonic DEF ToDaemon
    <2>6. [t |-> "o", users |-> present] \in ToDaemon
      BY DEF TypeOK, ToDaemon, OnlineList
    <2>7. WhoIsOn \in Seq(ToDaemon)
      BY <2>6, SingleQueue DEF WhoIsOn
    <2>8. toDaemon \o WhoIsOn \in Seq(ToDaemon)
      BY <2>7, ConcatIs DEF TypeOK
    <2>9. toDaemon' \in Seq(ToDaemon)
      BY <2>3, <2>5, <2>8, ConcatIs
    <2>10. member' \subseteq Channels /\ served' \in BOOLEAN
      BY <2>1, <2>2, ConnectObjectIs
    <2> QED BY <1>1, <2>2, <2>9, <2>10 DEF TypeOK, ServiceReads, tableVars, callVars
  <1>4. CASE ServiceReadsItem(msg)
    <2>1. log' \subseteq Items
      BY <1>1, <1>4, MessagesDiffer DEF ServiceReadsItem, TypeOK
    <2> QED BY <1>1, <1>4, <2>1 DEF TypeOK, ServiceReads, ServiceReadsItem, tableVars, callVars
  <1>5. CASE ServiceReadsCs(msg)
    <2>1. msg.cid \in Channels /\ msg.s \in BOOLEAN
      BY <1>1, <1>5, MessagesDiffer DEF ServiceReadsCs
    <2>2. [t |-> "cs", cid |-> msg.cid, s |-> msg.s] \in ToDaemon
      BY <2>1 DEF ToDaemon, Subscription
    <2>3. toDaemon' \in Seq(ToDaemon)
      BY <1>5, <2>2, AppendIs DEF TypeOK, ServiceReadsCs
    <2>4. member' \subseteq Channels /\ since' \in [Channels -> 0..MaxTime]
      BY <1>5, <2>1 DEF TypeOK, ServiceReadsCs
    <2> QED BY <1>1, <1>5, <2>3, <2>4 DEF TypeOK, ServiceReads, ServiceReadsCs, tableVars, callVars
  <1> QED BY <1>2, <1>3, <1>4, <1>5

\* A push appends one message, or none.
LEMMA OtherSendsIs ==
  ASSUME NEW r \in Rooms, TypeOK, OtherSends(r)
  PROVE  /\ now + 1 \in 1..MaxTime /\ now' = now + 1
         /\ Item(r, now + 1, FALSE) \in Items /\ log' = log \cup {Item(r, now + 1, FALSE)}
         /\ [t |-> "items", items |-> <<Item(r, now + 1, FALSE)>>] \in ToDaemon
         /\ toDaemon' = IF served /\ r \in member \cup {Dm}
                        THEN Append(toDaemon, [t |-> "items", items |-> <<Item(r, now + 1, FALSE)>>])
                        ELSE toDaemon
  <1> DEFINE item == Item(r, now + 1, FALSE)
             msg == [t |-> "items", items |-> <<item>>]
  <1>1. now + 1 \in 1..MaxTime /\ now' = now + 1
    BY BoundsAssumption DEF OtherSends, TypeOK
  <1>2. item \in Items
    BY <1>1 DEF Item, Items
  <1>3. log' = log \cup {item} /\ Push(IF r \in member \cup {Dm} THEN <<msg>> ELSE <<>>)
    BY DEF OtherSends
  <1> HIDE DEF item
  <1>4. <<item>> \in Seq(Items)
    BY <1>2, SingleQueue
  <1>5. msg \in ToDaemon
    BY <1>4 DEF ToDaemon, Backfill
  <1> HIDE DEF msg
  <1>6. toDaemon \o <<msg>> = Append(toDaemon, msg) /\ toDaemon \o <<>> = toDaemon
    BY <1>5, AppendIsConcat, ConcatEmptySeq DEF TypeOK
  <1>7. toDaemon' = IF served /\ r \in member \cup {Dm} THEN Append(toDaemon, msg) ELSE toDaemon
    BY <1>3, <1>6 DEF Push
  <1> QED BY <1>1, <1>2, <1>3, <1>5, <1>7 DEF msg, item

LEMMA ComesOrGoesIs ==
  ASSUME NEW u \in Users, TypeOK, ComesOrGoes(u)
  PROVE  /\ now + 1 \in 1..MaxTime /\ now' = now + 1
         /\ [t |-> IF u \in present THEN "ud" ELSE "uc", user |-> u] \in ToDaemon
         /\ toDaemon' = IF served
                        THEN Append(toDaemon, [t |-> IF u \in present THEN "ud" ELSE "uc", user |-> u])
                        ELSE toDaemon
  <1> DEFINE msg == [t |-> IF u \in present THEN "ud" ELSE "uc", user |-> u]
  <1>1. now + 1 \in 1..MaxTime /\ now' = now + 1
    BY BoundsAssumption DEF ComesOrGoes, TypeOK
  <1>2. Push(<<msg>>)
    BY DEF ComesOrGoes
  <1>3. msg \in ToDaemon
    BY DEF ToDaemon, ComingOrGoing
  <1> HIDE DEF msg
  <1>4. toDaemon \o <<msg>> = Append(toDaemon, msg)
    BY <1>3, AppendIsConcat DEF TypeOK
  <1>5. toDaemon' = IF served THEN Append(toDaemon, msg) ELSE toDaemon
    BY <1>2, <1>4 DEF Push
  <1> QED BY <1>1, <1>3, <1>5 DEF msg

LEMMA OthersTyped ==
  TypeOK /\ ((\E r \in Rooms : OtherSends(r)) \/ (\E u \in Users : ComesOrGoes(u))) => TypeOK'
  <1>1. ASSUME TypeOK, NEW r \in Rooms, OtherSends(r) PROVE TypeOK'
    <2> DEFINE msg == [t |-> "items", items |-> <<Item(r, now + 1, FALSE)>>]
    <2>a. /\ now' \in 1..MaxTime /\ log' \subseteq Items /\ msg \in ToDaemon
          /\ toDaemon' = IF served /\ r \in member \cup {Dm} THEN Append(toDaemon, msg) ELSE toDaemon
      BY <1>1, OtherSendsIs DEF TypeOK
    <2> HIDE DEF msg
    <2>b. Append(toDaemon, msg) \in Seq(ToDaemon)
      BY <1>1, <2>a, AppendIs DEF TypeOK
    <2>1. toDaemon' \in Seq(ToDaemon) /\ log' \subseteq Items /\ now' \in 0..MaxTime
      BY <1>1, <2>a, <2>b, BoundsAssumption DEF TypeOK
    <2> QED BY <1>1, <2>1 DEF TypeOK, OtherSends, tableVars, callVars
  <1>2. ASSUME TypeOK, NEW u \in Users, ComesOrGoes(u) PROVE TypeOK'
    <2> DEFINE msg == [t |-> IF u \in present THEN "ud" ELSE "uc", user |-> u]
    <2>a. /\ now' \in 1..MaxTime /\ msg \in ToDaemon
          /\ toDaemon' = IF served THEN Append(toDaemon, msg) ELSE toDaemon
      BY <1>2, ComesOrGoesIs
    <2> HIDE DEF msg
    <2>b. Append(toDaemon, msg) \in Seq(ToDaemon)
      BY <1>2, <2>a, AppendIs DEF TypeOK
    <2>1. toDaemon' \in Seq(ToDaemon) /\ now' \in 0..MaxTime
      BY <1>2, <2>a, <2>b, BoundsAssumption DEF TypeOK
    <2>2. present' \subseteq Users
      BY <1>2 DEF TypeOK, ComesOrGoes
    <2> QED BY <1>2, <2>1, <2>2 DEF TypeOK, ComesOrGoes, tableVars, callVars
  <1> QED BY <1>1, <1>2

LEMMA NextType == TypeOK /\ ItemsInv /\ [Next]_vars => TypeOK'
  <1> SUFFICES ASSUME TypeOK, ItemsInv, [Next]_vars PROVE TypeOK'
    OBVIOUS
  <1>1. CASE UNCHANGED vars
    BY <1>1 DEF TypeOK, vars, tableVars, callVars, serviceVars
  <1>2. CASE Next
    BY <1>2, ConnectTyped, HeadSendsTyped, HeadCallsTyped, CallEndsTyped, DispatchTyped, GoneTyped,
       ServiceReadsTyped, OthersTyped, BoundsAssumption DEF Next
  <1> QED BY <1>1, <1>2

-----------------------------------------------------------------------------
(* A session.                                                              *)

LEMMA NotConnect ==
  /\ \A item : [t |-> "item", item |-> item] \notin ConnectObject
  /\ \A c, s : [t |-> "cs", cid |-> c, s |-> s] \notin ConnectObject
  <1>1. \A m \in ConnectObject : m.t = "c"
    BY DEF ConnectObject
  <1>2. \A item : [t |-> "item", item |-> item].t # "c"
    OBVIOUS
  <1>3. \A c, s : [t |-> "cs", cid |-> c, s |-> s].t # "c"
    OBVIOUS
  <1> QED BY <1>1, <1>2, <1>3

\* The connect object, and it alone, is read before the session is served.
LEMMA ReadsInOrder ==
  ASSUME TypeOK, SessionInv, ServiceReads
  PROVE  /\ up /\ Head(toService) = toService[1] /\ 1 \in 1..Len(toService)
         /\ Head(toService) \in ToService
         /\ \/ /\ ~served /\ served' /\ Head(toService) \in ConnectObject
               /\ ServiceReadsConnect(Head(toService)) /\ toDaemon = <<>>
            \/ /\ served /\ served' = served
               /\ ServiceReadsItem(Head(toService)) \/ ServiceReadsCs(Head(toService))
  <1> DEFINE msg == Head(toService)
  <1>1. toService # <<>> /\ (ServiceReadsConnect(msg) \/ ServiceReadsItem(msg) \/ ServiceReadsCs(msg))
    BY DEF ServiceReads
  <1>2. /\ msg \in ToService /\ msg = toService[1] /\ 1 \in 1..Len(toService)
    BY <1>1, TailIs DEF TypeOK
  <1> HIDE DEF msg
  <1>3. up
    BY <1>1 DEF SessionInv
  <1>4. CASE ~served
    <2>1. msg \in ConnectObject /\ toDaemon = <<>>
      BY <1>2, <1>3, <1>4 DEF SessionInv
    <2>2. ServiceReadsConnect(msg) /\ served'
      BY <1>1, <2>1, ConnectObjectIs DEF ServiceReadsConnect, ServiceReadsItem, ServiceReadsCs
    <2> QED BY <1>2, <1>3, <1>4, <2>1, <2>2 DEF msg
  <1>5. CASE served
    <2>1. msg \notin ConnectObject
      BY <1>2, <1>5 DEF SessionInv
    <2>2. ~ServiceReadsConnect(msg)
      BY <1>2, <2>1, MessagesDiffer DEF ServiceReadsConnect
    <2>3. served' = served
      BY <1>1, <2>2 DEF ServiceReadsItem, ServiceReadsCs
    <2> QED BY <1>1, <1>2, <1>3, <1>5, <2>2, <2>3 DEF msg
  <1> QED BY <1>4, <1>5

\* The answer to a connect object is the users and the batches, and nothing else is
\* under way then.
LEMMA ConnectAnswered ==
  ASSUME TypeOK, SessionInv, \A i, j \in log : i.ts = j.ts => i = j, ServiceReads,
         ServiceReadsConnect(Head(toService))
  PROVE  \E order \in Orders(News(Head(toService))) :
           /\ Len(Batches(Head(toService), order)) \in Nat
           /\ toDaemon'[1] = [t |-> "o", users |-> present]
           /\ \A k \in 1..Len(Batches(Head(toService), order)) :
                toDaemon'[k + 1] = Batches(Head(toService), order)[k]
           /\ \A n \in 1..Len(toDaemon') :
                n = 1 \/ \E k \in 1..Len(Batches(Head(toService), order)) : n = k + 1
           /\ 1 \in 1..Len(toDaemon')
           /\ \A k \in 1..Len(Batches(Head(toService), order)) : k + 1 \in 1..Len(toDaemon')
  <1> DEFINE msg == Head(toService)
  <1>1. ServiceReadsConnect(msg) /\ msg \in ToService
    BY ReadsInOrder
  <1> HIDE DEF msg
  <1>2. msg \in ConnectObject
    BY <1>1, MessagesDiffer DEF ServiceReadsConnect
  <1>4. toDaemon = <<>>
    <2>1. ~ServiceReadsItem(msg) /\ ~ServiceReadsCs(msg)
      BY <1>2, ConnectObjectIs DEF ServiceReadsItem, ServiceReadsCs
    <2> QED BY <2>1, ReadsInOrder DEF msg
  <1>5. PICK order \in Orders(News(msg)) : toDaemon' = toDaemon \o WhoIsOn \o Batches(msg, order)
    BY <1>1, ConnectIsRead
  <1> DEFINE bs == Batches(msg, order)
             o == [t |-> "o", users |-> present]
  <1>6. bs \in Seq(Backfill)
    BY <1>2, BatchesAre DEF TypeOK
  <1>7. bs \in Seq(ToDaemon)
    BY <1>6, SeqMonotonic DEF ToDaemon
  <1>8. o \in ToDaemon
    BY DEF TypeOK, ToDaemon, OnlineList
  <1>9. WhoIsOn = <<o>>
    BY DEF WhoIsOn
  <1> HIDE DEF o, bs
  <1>10. WhoIsOn \in Seq(ToDaemon)
    BY <1>8, <1>9, SingleQueue
  <1>11. toDaemon \o WhoIsOn = WhoIsOn
    BY <1>4, <1>10, ConcatEmptySeq
  <1>12. toDaemon' = <<o>> \o bs
    BY <1>5, <1>9, <1>11 DEF bs
  <1>13. Prepended(toDaemon', o, bs)
    BY <1>7, <1>8, <1>12, PrependIs
  <1> QED BY <1>13 DEF Prepended, msg, bs, o

LEMMA ConnectSession == TypeOK /\ SessionInv /\ Connect => SessionInv'
  <1> SUFFICES ASSUME TypeOK, SessionInv, Connect PROVE SessionInv'
    OBVIOUS
  <1> DEFINE msg == [t |-> "c", lm |-> Cursor(Dm), cc |-> [c \in subscribed |-> Cursor(c)]]
  <1>1. \A r : Cursor(r) \in Cursors
    BY CursorIs DEF TypeOK
  <1>2. [c \in subscribed |-> Cursor(c)] \in [subscribed -> Cursors]
    BY <1>1
  <1>3. [c \in subscribed |-> Cursor(c)] \in UNION {[cs -> Cursors] : cs \in SUBSET Channels}
    BY <1>2 DEF TypeOK
  <1>4. msg \in ConnectObject
    BY <1>1, <1>3 DEF ConnectObject
  <1>5. toService' = <<msg>> /\ up' = TRUE /\ ~up /\ toDaemon' = toDaemon /\ served' = served
    BY DEF Connect, serviceVars
  <1> HIDE DEF msg
  <1>6. toService' # <<>> /\ toService'[1] \in ConnectObject /\ Len(toService') = 1
    BY <1>4, <1>5, SingleQueue
  <1>7. \A n \in 1..Len(toService') : ~(n > 1)
    BY <1>6
  <1>8. ~served' /\ toDaemon' = <<>>
    BY <1>5 DEF SessionInv
  <1> QED BY <1>5, <1>6, <1>7, <1>8 DEF SessionInv

\* What a head sends follows the connect object.
LEMMA SendsSession ==
  ASSUME TypeOK, SessionInv, up, NEW e \in ToService, e \notin ConnectObject,
         toService' = Append(toService, e), up' = up, served' = served, toDaemon' = toDaemon
  PROVE  SessionInv'
  <1>1. /\ Len(toService) \in Nat /\ \A n \in 1..Len(toService) : toService'[n] = toService[n]
        /\ toService'[Len(toService) + 1] = e
        /\ 1..Len(toService') = (1..Len(toService)) \cup {Len(toService) + 1}
    BY AppendIs DEF TypeOK
  <1>2. 1..Len(toService') # {}
    BY <1>1
  <1>3. toService' # <<>>
    BY <1>2, EmptyQueue
  <1>4. \A n \in 1..Len(toService') : n > 1 \/ served' => toService'[n] \notin ConnectObject
    BY <1>1 DEF SessionInv
  <1>5. toService # <<>> => 1 \in 1..Len(toService)
    BY TailIs DEF TypeOK
  <1>6. ~served' => toService'[1] \in ConnectObject
    BY <1>1, <1>5 DEF SessionInv
  <1> QED BY <1>3, <1>4, <1>6 DEF SessionInv

LEMMA ReadsSession == TypeOK /\ SessionInv /\ ServiceReads => SessionInv'
  <1> SUFFICES ASSUME TypeOK, SessionInv, ServiceReads PROVE SessionInv'
    OBVIOUS
  <1>1. toService # <<>> /\ toService' = Tail(toService) /\ up' = up
    BY DEF ServiceReads
  <1>2. up /\ served'
    BY ReadsInOrder
  <1> DEFINE rest == Tail(toService)
  <1>3. \A n \in 1..Len(rest) : rest[n] = toService[n + 1] /\ n + 1 \in 1..Len(toService) /\ n \in Nat /\ n >= 1
    BY <1>1, TailIs DEF TypeOK
  <1> HIDE DEF rest
  <1>4. \A n \in 1..Len(rest) : n + 1 > 1
    BY <1>3
  <1>5. \A n \in 1..Len(rest) : rest[n] \notin ConnectObject
    BY <1>3, <1>4 DEF SessionInv
  <1>6. \A n \in 1..Len(toService') : toService'[n] \notin ConnectObject
    BY <1>1, <1>5 DEF rest
  <1> QED BY <1>1, <1>2, <1>6 DEF SessionInv

LEMMA NextSession == TypeOK /\ SessionInv /\ [Next]_vars => SessionInv'
  <1> SUFFICES ASSUME TypeOK, SessionInv, [Next]_vars PROVE SessionInv'
    OBVIOUS
  <1>1. CASE UNCHANGED vars
    BY <1>1 DEF SessionInv, vars, tableVars, callVars, serviceVars
  <1>2. CASE Connect
    BY <1>2, ConnectSession
  <1>3. ASSUME NEW r \in Rooms, HeadSends(r) PROVE SessionInv'
    <2>1. CASE ~up
      BY <1>3, <2>1 DEF HeadSends, SessionInv, callVars
    <2>2. CASE up
      <3> DEFINE e == [t |-> "item", item |-> Item(r, now + 1, TRUE)]
      <3>1. now + 1 \in 1..MaxTime
        BY <1>3, BoundsAssumption DEF HeadSends, TypeOK
      <3>2. Item(r, now + 1, TRUE) \in Items
        BY <3>1 DEF Item, Items
      <3>3. e \in ToService /\ e \notin ConnectObject
        BY <3>2, NotConnect DEF ToService
      <3>4. toService' = Append(toService, e) /\ up' = up /\ served' = served /\ toDaemon' = toDaemon
        BY <1>3, <2>2 DEF HeadSends
      <3> HIDE DEF e
      <3> QED BY <2>2, <3>3, <3>4, SendsSession
    <2> QED BY <2>1, <2>2
  <1>4. ASSUME NEW c \in Channels, NEW s \in BOOLEAN, HeadCalls(c, s) PROVE SessionInv'
    <2> DEFINE e == [t |-> "cs", cid |-> c, s |-> s]
    <2>1. e \in ToService /\ e \notin ConnectObject
      BY NotConnect DEF ToService, Subscription
    <2>2. toService' = Append(toService, e) /\ up /\ up' = up /\ served' = served /\ toDaemon' = toDaemon
      BY <1>4 DEF HeadCalls, serviceVars
    <2> HIDE DEF e
    <2> QED BY <2>1, <2>2, SendsSession
  <1>5. ASSUME NEW n \in 1..MaxCalls, CallSucceeds(n) \/ CallFails(n) PROVE SessionInv'
    <2>1. /\ up' = up /\ toService' = toService /\ toDaemon' = toDaemon /\ served' = served
          /\ member' = member
      BY <1>5 DEF CallSucceeds, CallFails, serviceVars
    <2>2. \A m \in 1..Len(waiting') : \E k \in 1..Len(waiting) : waiting'[m] = waiting[k]
      BY <1>5, CallEndsIs
    <2> QED BY <2>1, <2>2 DEF SessionInv
  <1>6. CASE Dispatch
    <2>1. /\ up' = up /\ toService' = toService /\ served' = served /\ toDaemon # <<>>
      BY <1>6 DEF Dispatch, serviceVars
    <2> QED BY <2>1 DEF SessionInv
  <1>7. CASE Drop \/ \E k \in 0..MaxTime : Crash(k)
    <2>1. LinkGone
      BY <1>7 DEF Drop, Crash
    <2>2. 1..Len(toService') = {}
      BY <2>1, EmptyQueue DEF LinkGone
    <2>3. \A n \in 1..Len(waiting') : ~waiting'[n].last
      <3>1. CASE Drop
        <4>1. waiting \in Seq(Call) /\ waiting' = Overtaken(Channels)
          BY <3>1 DEF Drop, TypeOK
        <4>2. \A n \in 1..Len(waiting) : waiting[n] \in Call
          BY <4>1, ElementOfSeq
        <4>3. \A n \in 1..Len(waiting) : waiting[n].cid \in Channels
          BY <4>2 DEF Call
        <4> QED BY <4>1, <4>3, OvertakenIs
      <3>2. CASE \E k \in 0..MaxTime : Crash(k)
        BY <3>2, EmptyQueue DEF Crash
      <3> QED BY <1>7, <3>1, <3>2
    <2> QED BY <2>1, <2>2, <2>3 DEF LinkGone, SessionInv
  <1>8. CASE ServiceReads
    BY <1>8, ReadsSession
  <1>9. ASSUME NEW r \in Rooms, OtherSends(r) PROVE SessionInv'
    <2>1. served' = served /\ up' = up /\ toService' = toService /\ (~served => toDaemon' = toDaemon)
          /\ waiting' = waiting /\ member' = member
      BY <1>9 DEF OtherSends, Push, callVars
    <2> QED BY <2>1 DEF SessionInv
  <1>10. ASSUME NEW u \in Users, ComesOrGoes(u) PROVE SessionInv'
    <2>1. served' = served /\ up' = up /\ toService' = toService /\ (~served => toDaemon' = toDaemon)
          /\ waiting' = waiting /\ member' = member
      BY <1>10 DEF ComesOrGoes, Push, callVars
    <2> QED BY <2>1 DEF SessionInv
  <1> QED BY <1>1, <1>2, <1>3, <1>4, <1>5, <1>6, <1>7, <1>8, <1>9, <1>10 DEF Next

-----------------------------------------------------------------------------
(* The numbering of the items.                                             *)

\* Item new takes the next number.
LEMMA NumbersNext ==
  ASSUME TypeOK, ItemsInv, NEW new, new.ts = now + 1, now' = now + 1,
         log' \cup store' = log \cup store \cup {new}
  PROVE  /\ \A i \in log' \cup store' : i.ts <= now'
         /\ \A i, j \in log' \cup store' : i.ts = j.ts => i = j
         /\ new \notin log \cup store
  <1>1. \A i \in log \cup store : i.ts \in Nat /\ i.ts <= now /\ now \in Nat
    <2>1. MaxTime \in Nat /\ now \in Nat
      BY BoundsAssumption DEF TypeOK
    <2>2. \A i \in log \cup store : i.ts \in 1..MaxTime /\ i.ts <= now
      BY DEF TypeOK, ItemsInv, Items
    <2> QED BY <2>1, <2>2
  <1>2. now \in Nat
    BY BoundsAssumption DEF TypeOK
  <1>3. \A i \in log \cup store : i.ts # new.ts /\ i.ts <= now'
    BY <1>1, <1>2
  <1>4. new.ts <= now'
    BY <1>2
  <1>5. \A i, j \in log \cup store : i.ts = j.ts => i = j
    BY DEF ItemsInv
  <1> QED BY <1>3, <1>4, <1>5

LEMMA SinceBefore ==
  ASSUME TypeOK, ItemsInv, now' = now + 1, since' = since
  PROVE  \A c \in Channels : since'[c] <= now'
  <1> SUFFICES ASSUME NEW c \in Channels PROVE since'[c] <= now'
    OBVIOUS
  <1>1. now \in Nat /\ since[c] \in 0..MaxTime /\ since[c] <= now /\ MaxTime \in Nat
    BY BoundsAssumption DEF TypeOK, ItemsInv
  <1> QED BY <1>1

\* The items of a message from the service.
LEMMA LoggedItems ==
  ASSUME TypeOK, ItemsInv, toDaemon # <<>>, Head(toDaemon).t = "items", NEW k \in 0..Len(Head(toDaemon).items)
  PROVE  /\ Inserted(Head(toDaemon).items, k) \subseteq log
         /\ Len(Head(toDaemon).items) \in Nat /\ Head(toDaemon).items \in Seq(Items)
         /\ Head(toDaemon) = toDaemon[1] /\ 1 \in 1..Len(toDaemon)
         /\ \A j \in 1..k : j \in 1..Len(Head(toDaemon).items)
  <1> DEFINE msg == Head(toDaemon)
  <1>1. msg \in ToDaemon /\ msg = toDaemon[1] /\ 1 \in 1..Len(toDaemon)
    BY TailIs DEF TypeOK
  <1>2. \A j \in 1..Len(msg.items) : msg.items[j] \in log
    BY <1>1 DEF ItemsInv
  <1>3. msg.items \in Seq(Items) /\ Len(msg.items) \in Nat
    BY <1>1, MessagesDiffer, LenProperties
  <1>4. \A j \in 1..k : j \in 1..Len(msg.items)
    BY <1>3
  <1>5. Inserted(msg.items, k) \subseteq log
    BY <1>2, <1>4 DEF Inserted
  <1> QED BY <1>1, <1>3, <1>4, <1>5

LEMMA HeadSendsItems == ASSUME NEW r \in Rooms PROVE TypeOK /\ ItemsInv /\ HeadSends(r) => ItemsInv'
  <1> SUFFICES ASSUME TypeOK, ItemsInv, HeadSends(r) PROVE ItemsInv'
    OBVIOUS
  <1> DEFINE new == Item(r, now + 1, TRUE)
             e == [t |-> "item", item |-> new]
  <1>a. now + 1 \in 1..MaxTime
    BY BoundsAssumption DEF HeadSends, TypeOK
  <1>b. new \in Items /\ new.ts = now + 1 /\ new.own = TRUE
    BY <1>a DEF Item, Items
  <1>c. /\ now' = now + 1 /\ log' = log /\ store' = store \cup {new} /\ toDaemon' = toDaemon /\ since' = since
        /\ toService' = IF up THEN Append(toService, e) ELSE toService
    BY DEF HeadSends
  <1>d. e \in ToService /\ e.item = new
    BY <1>b DEF ToService
  <1> HIDE DEF e, new
  <1>1. /\ \A i \in log' \cup store' : i.ts <= now'
        /\ \A i, j \in log' \cup store' : i.ts = j.ts => i = j
    BY <1>b, <1>c, NumbersNext
  <1>2. /\ \A i \in log' : i.own => i \in store'
        /\ \A i \in store' : ~i.own => i \in log'
    BY <1>b, <1>c DEF ItemsInv
  <1>3. \A n \in 1..Len(toService') : toService'[n].t = "item" => toService'[n].item \in store' /\ toService'[n].item.own
    <2>1. CASE up
      <3>1. /\ \A n \in 1..Len(toService) : toService'[n] = toService[n]
            /\ toService'[Len(toService) + 1] = e
            /\ 1..Len(toService') = (1..Len(toService)) \cup {Len(toService) + 1}
        BY <1>c, <1>d, <2>1, AppendIs DEF TypeOK
      <3> QED BY <1>b, <1>c, <1>d, <3>1 DEF ItemsInv
    <2>2. CASE ~up
      BY <1>c, <2>2 DEF ItemsInv
    <2> QED BY <2>1, <2>2
  <1>4. \A n \in 1..Len(toDaemon') : toDaemon'[n].t = "items" =>
          \A k \in 1..Len(toDaemon'[n].items) : toDaemon'[n].items[k] \in log'
    BY <1>c DEF ItemsInv
  <1>5. \A c \in Channels : since'[c] <= now'
    BY <1>c, SinceBefore
  <1> QED BY <1>1, <1>2, <1>3, <1>4, <1>5 DEF ItemsInv

LEMMA OtherSendsItems == ASSUME NEW r \in Rooms PROVE TypeOK /\ ItemsInv /\ OtherSends(r) => ItemsInv'
  <1> SUFFICES ASSUME TypeOK, ItemsInv, OtherSends(r) PROVE ItemsInv'
    OBVIOUS
  <1> DEFINE new == Item(r, now + 1, FALSE)
             e == [t |-> "items", items |-> <<new>>]
  <1>a. /\ now' = now + 1 /\ new \in Items /\ log' = log \cup {new} /\ e \in ToDaemon
        /\ toDaemon' = IF served /\ r \in member \cup {Dm} THEN Append(toDaemon, e) ELSE toDaemon
    BY OtherSendsIs
  <1>b. store' = store /\ toService' = toService /\ since' = since
    BY DEF OtherSends, tableVars
  <1>c. new.ts = now + 1 /\ new.own = FALSE
    BY DEF Item
  <1>d. e.items = <<new>>
    OBVIOUS
  <1> HIDE DEF e, new
  <1>1. /\ \A i \in log' \cup store' : i.ts <= now'
        /\ \A i, j \in log' \cup store' : i.ts = j.ts => i = j
    BY <1>a, <1>b, <1>c, NumbersNext
  <1>2. /\ \A i \in log' : i.own => i \in store'
        /\ \A i \in store' : ~i.own => i \in log'
    BY <1>a, <1>b, <1>c DEF ItemsInv
  <1>3. \A n \in 1..Len(toService') : toService'[n].t = "item" => toService'[n].item \in store' /\ toService'[n].item.own
    BY <1>b DEF ItemsInv
  <1>4. \A n \in 1..Len(toDaemon') : toDaemon'[n].t = "items" =>
          \A k \in 1..Len(toDaemon'[n].items) : toDaemon'[n].items[k] \in log'
    <2>1. \A n \in 1..Len(toDaemon) : toDaemon[n].t = "items" =>
            \A k \in 1..Len(toDaemon[n].items) : toDaemon[n].items[k] \in log'
      BY <1>a DEF ItemsInv
    <2>2. \A k \in 1..Len(e.items) : e.items[k] \in log'
      BY <1>a, <1>d, SingleQueue
    <2>3. CASE served /\ r \in member \cup {Dm}
      <3>1. /\ \A n \in 1..Len(toDaemon) : toDaemon'[n] = toDaemon[n]
            /\ toDaemon'[Len(toDaemon) + 1] = e
            /\ 1..Len(toDaemon') = (1..Len(toDaemon)) \cup {Len(toDaemon) + 1}
        BY <1>a, <2>3, AppendIs DEF TypeOK
      <3> QED BY <2>1, <2>2, <3>1
    <2>4. CASE ~(served /\ r \in member \cup {Dm})
      BY <1>a, <2>1, <2>4
    <2> QED BY <2>3, <2>4
  <1>5. \A c \in Channels : since'[c] <= now'
    BY <1>a, <1>b, SinceBefore
  <1> QED BY <1>1, <1>2, <1>3, <1>4, <1>5 DEF ItemsInv

LEMMA ReadsItems == TypeOK /\ SessionInv /\ ItemsInv /\ ServiceReads => ItemsInv'
  <1> SUFFICES ASSUME TypeOK, SessionInv, ItemsInv, ServiceReads PROVE ItemsInv'
    OBVIOUS
  <1> DEFINE msg == Head(toService)
             rest == Tail(toService)
  <1>a. /\ toService # <<>> /\ toService' = rest /\ store' = store /\ now' = now
        /\ msg = toService[1] /\ 1 \in 1..Len(toService) /\ msg \in ToService
        /\ ServiceReadsConnect(msg) \/ ServiceReadsItem(msg) \/ ServiceReadsCs(msg)
    BY ReadsInOrder DEF ServiceReads, tableVars
  <1>b. \A n \in 1..Len(rest) : rest[n] = toService[n + 1] /\ n + 1 \in 1..Len(toService)
    BY <1>a, TailIs DEF TypeOK
  <1> HIDE DEF msg, rest
  <1>1. \A n \in 1..Len(toService') : toService'[n].t = "item" => toService'[n].item \in store' /\ toService'[n].item.own
    BY <1>a, <1>b DEF ItemsInv
  <1>2. CASE ServiceReadsItem(msg)
    <2>1. log' = log \cup {msg.item} /\ toDaemon' = toDaemon /\ since' = since
          /\ msg.item \in store /\ msg.item.own
      BY <1>2, <1>a DEF ServiceReadsItem, ItemsInv
    <2>2. log' \cup store' = log \cup store
      BY <1>a, <2>1
    <2>3. \A n \in 1..Len(toDaemon') : toDaemon'[n].t = "items" =>
            \A k \in 1..Len(toDaemon'[n].items) : toDaemon'[n].items[k] \in log'
      BY <2>1 DEF ItemsInv
    <2>4. /\ \A i \in log' : i.own => i \in store'
          /\ \A i \in store' : ~i.own => i \in log'
      BY <1>a, <2>1 DEF ItemsInv
    <2>5. /\ \A i \in log' \cup store' : i.ts <= now'
          /\ \A i, j \in log' \cup store' : i.ts = j.ts => i = j
      BY <1>a, <2>2 DEF ItemsInv
    <2> QED BY <1>a, <1>1, <2>1, <2>3, <2>4, <2>5 DEF ItemsInv
  <1>3. CASE ServiceReadsCs(msg)
    <2> DEFINE e == [t |-> "cs", cid |-> msg.cid, s |-> msg.s]
    <2>1. /\ msg.cid \in Channels /\ msg.s \in BOOLEAN
      BY <1>3, <1>a, MessagesDiffer DEF ServiceReadsCs
    <2>2. e \in ToDaemon /\ e.t # "items"
      BY <2>1 DEF ToDaemon, Subscription
    <2>3. log' = log /\ toDaemon' = Append(toDaemon, e)
      BY <1>3 DEF ServiceReadsCs
    <2> HIDE DEF e
    <2>4. /\ \A n \in 1..Len(toDaemon) : toDaemon'[n] = toDaemon[n]
          /\ toDaemon'[Len(toDaemon) + 1] = e
          /\ 1..Len(toDaemon') = (1..Len(toDaemon)) \cup {Len(toDaemon) + 1}
      BY <2>2, <2>3, AppendIs DEF TypeOK
    <2>5. \A n \in 1..Len(toDaemon') : toDaemon'[n].t = "items" =>
            \A k \in 1..Len(toDaemon'[n].items) : toDaemon'[n].items[k] \in log'
      BY <2>2, <2>3, <2>4 DEF ItemsInv
    <2>6. \A c \in Channels : since'[c] <= now'
      <3>1. now <= now
        BY BoundsAssumption DEF TypeOK
      <3>2. since' \in [Channels -> 0..MaxTime] /\ \A c \in Channels : since'[c] = since[c] \/ since'[c] = now
        BY <1>3, <2>1 DEF ServiceReadsCs, TypeOK
      <3> QED BY <1>a, <3>1, <3>2 DEF ItemsInv
    <2> QED BY <1>a, <1>1, <2>3, <2>5, <2>6 DEF ItemsInv
  <1>4. CASE ServiceReadsConnect(msg)
    <2>1. msg \in ConnectObject
      <3>1. msg.t = "c"
        BY <1>4 DEF ServiceReadsConnect
      <3> QED BY <1>a, <3>1, MessagesDiffer
    <2>2. log' = log /\ since' = since
      BY <1>4, ConnectIsRead
    <2>3. PICK order \in Orders(News(msg)) :
            /\ Len(Batches(msg, order)) \in Nat
            /\ toDaemon'[1] = [t |-> "o", users |-> present]
            /\ \A k \in 1..Len(Batches(msg, order)) : toDaemon'[k + 1] = Batches(msg, order)[k]
            /\ \A n \in 1..Len(toDaemon') : n = 1 \/ \E k \in 1..Len(Batches(msg, order)) : n = k + 1
      <3>1. \A i, j \in log : i.ts = j.ts => i = j
        BY DEF ItemsInv
      <3> QED BY <1>4, <3>1, ConnectAnswered DEF msg
    <2> DEFINE bs == Batches(msg, order)
    <2>4. \A n \in 1..Len(bs) : \E r \in DOMAIN msg.cc \cup {Dm} : bs[n] = Batch(msg, r)
      BY <2>1, BatchesAre DEF TypeOK, ItemsInv
    <2>5. \A n \in 1..Len(bs) : \A k \in 1..Len(bs[n].items) : bs[n].items[k] \in log
      <3> HIDE DEF bs
      <3> SUFFICES ASSUME NEW n \in 1..Len(bs) PROVE \A k \in 1..Len(bs[n].items) : bs[n].items[k] \in log
        OBVIOUS
      <3>1. PICK r \in DOMAIN msg.cc \cup {Dm} : bs[n] = Batch(msg, r)
        BY <2>4
      <3>2. \A k \in 1..Len(Batch(msg, r).items) : Batch(msg, r).items[k] \in log
        BY <2>1, BatchIs DEF TypeOK, ItemsInv
      <3> QED BY <3>1, <3>2
    <2>6. /\ toDaemon'[1].t # "items" /\ \A k \in 1..Len(bs) : toDaemon'[k + 1] = bs[k]
          /\ \A n \in 1..Len(toDaemon') : n = 1 \/ \E k \in 1..Len(bs) : n = k + 1
      BY <2>3
    <2> HIDE DEF bs
    <2>12. \A n \in 1..Len(toDaemon') : toDaemon'[n].t = "items" =>
             \A k \in 1..Len(toDaemon'[n].items) : toDaemon'[n].items[k] \in log'
      <3> SUFFICES ASSUME NEW n \in 1..Len(toDaemon'), toDaemon'[n].t = "items",
                          NEW k \in 1..Len(toDaemon'[n].items)
                   PROVE  toDaemon'[n].items[k] \in log'
        OBVIOUS
      <3>1. PICK m \in 1..Len(bs) : n = m + 1
        BY <2>6
      <3>2. toDaemon'[n] = bs[m]
        BY <2>6, <3>1
      <3> QED BY <2>2, <2>5, <3>2
    <2>13. /\ \A i \in log' \cup store' : i.ts <= now'
           /\ \A i, j \in log' \cup store' : i.ts = j.ts => i = j
      BY <1>a, <2>2 DEF ItemsInv
    <2>14. /\ \A i \in log' : i.own => i \in store'
           /\ \A i \in store' : ~i.own => i \in log'
      BY <1>a, <2>2 DEF ItemsInv
    <2>15. \A c \in Channels : since'[c] <= now'
      BY <1>a, <2>2 DEF ItemsInv
    <2> QED BY <1>1, <2>12, <2>13, <2>14, <2>15 DEF ItemsInv
  <1> QED BY <1>a, <1>2, <1>3, <1>4

LEMMA DaemonItems ==
  ASSUME TypeOK, ItemsInv, log' = log, now' = now, since' = since,
         store' = store \/ \E new \in SUBSET log : store' = store \cup new,
         \A n \in 1..Len(toService') : toService'[n].t = "item" =>
           n \in 1..Len(toService) /\ toService'[n] = toService[n],
         \A n \in 1..Len(toDaemon') : \E m \in 1..Len(toDaemon) : toDaemon'[n] = toDaemon[m]
  PROVE  ItemsInv'
  <1>1. store \subseteq store' /\ log' \cup store' = log \cup store
    OBVIOUS
  <1>2. \A n \in 1..Len(toService') : toService'[n].t = "item" => toService'[n].item \in store' /\ toService'[n].item.own
    BY <1>1 DEF ItemsInv
  <1>3. \A n \in 1..Len(toDaemon') : toDaemon'[n].t = "items" =>
          \A k \in 1..Len(toDaemon'[n].items) : toDaemon'[n].items[k] \in log'
    <2> SUFFICES ASSUME NEW n \in 1..Len(toDaemon'), toDaemon'[n].t = "items"
                 PROVE  \A k \in 1..Len(toDaemon'[n].items) : toDaemon'[n].items[k] \in log'
      OBVIOUS
    <2>1. PICK m \in 1..Len(toDaemon) : toDaemon'[n] = toDaemon[m]
      OBVIOUS
    <2> QED BY <2>1 DEF ItemsInv
  <1>4. /\ \A i \in log' : i.own => i \in store'
        /\ \A i \in store' : ~i.own => i \in log'
    BY <1>1 DEF ItemsInv
  <1>5. /\ \A i \in log' \cup store' : i.ts <= now'
        /\ \A i, j \in log' \cup store' : i.ts = j.ts => i = j
    BY <1>1 DEF ItemsInv
  <1>6. \A c \in Channels : since'[c] <= now'
    BY DEF ItemsInv
  <1> QED BY <1>2, <1>3, <1>4, <1>5, <1>6 DEF ItemsInv

LEMMA NextItems == TypeOK /\ SessionInv /\ ItemsInv /\ [Next]_vars => ItemsInv'
  <1> SUFFICES ASSUME TypeOK, SessionInv, ItemsInv, [Next]_vars PROVE ItemsInv'
    OBVIOUS
  <1>1. CASE UNCHANGED vars
    BY <1>1 DEF ItemsInv, vars, tableVars, callVars, serviceVars
  <1>2. CASE Connect
    <2> DEFINE msg == [t |-> "c", lm |-> Cursor(Dm), cc |-> [c \in subscribed |-> Cursor(c)]]
    <2>1. toService' = <<msg>> /\ msg.t # "item"
      BY <1>2 DEF Connect
    <2> HIDE DEF msg
    <2>2. \A n \in 1..Len(toService') : toService'[n].t # "item"
      BY <2>1, SingleQueue
    <2> QED BY <1>2, <2>2, DaemonItems DEF Connect, tableVars, serviceVars
  <1>3. ASSUME NEW r \in Rooms, HeadSends(r) PROVE ItemsInv'
    BY <1>3, HeadSendsItems
  <1>4. ASSUME NEW c \in Channels, NEW s \in BOOLEAN, HeadCalls(c, s) PROVE ItemsInv'
    <2> DEFINE e == [t |-> "cs", cid |-> c, s |-> s]
    <2>1. e \in ToService /\ e.t # "item" /\ toService' = Append(toService, e)
      BY <1>4 DEF ToService, Subscription, HeadCalls
    <2> HIDE DEF e
    <2>2. \A n \in 1..Len(toService') : toService'[n].t = "item" =>
            n \in 1..Len(toService) /\ toService'[n] = toService[n]
      BY <2>1, AppendIs DEF TypeOK
    <2> QED BY <1>4, <2>2, DaemonItems DEF HeadCalls, tableVars, serviceVars
  <1>5. ASSUME NEW n \in 1..MaxCalls, CallSucceeds(n) \/ CallFails(n) PROVE ItemsInv'
    BY <1>5, DaemonItems DEF CallSucceeds, CallFails, tableVars, serviceVars
  <1>6. CASE Dispatch
    <2>1. /\ toDaemon # <<>> /\ toDaemon' = Tail(toDaemon)
          /\ log' = log /\ now' = now /\ since' = since /\ toService' = toService
          /\ store' = IF Head(toDaemon).t = "items"
                      THEN store \cup Inserted(Head(toDaemon).items, Len(Head(toDaemon).items)) ELSE store
      BY <1>6 DEF Dispatch, serviceVars
    <2>2. store' = store \/ \E new \in SUBSET log : store' = store \cup new
      <3>1. CASE Head(toDaemon).t = "items"
        <4>1. Head(toDaemon) \in ToDaemon
          BY <2>1, TailIs DEF TypeOK
        <4>2. Len(Head(toDaemon).items) \in Nat
          BY <3>1, <4>1, MessagesDiffer, LenProperties
        <4>3. Len(Head(toDaemon).items) \in 0..Len(Head(toDaemon).items)
          BY <4>2
        <4>4. Inserted(Head(toDaemon).items, Len(Head(toDaemon).items)) \subseteq log
          BY <2>1, <3>1, <4>3, LoggedItems
        <4> QED BY <2>1, <3>1, <4>4
      <3>2. CASE Head(toDaemon).t # "items"
        BY <2>1, <3>2
      <3> QED BY <3>1, <3>2
    <2> DEFINE rest == Tail(toDaemon)
    <2>3. \A n \in 1..Len(rest) : rest[n] = toDaemon[n + 1] /\ n + 1 \in 1..Len(toDaemon)
      BY <2>1, TailIs DEF TypeOK
    <2> HIDE DEF rest
    <2>4. \A n \in 1..Len(toDaemon') : \E m \in 1..Len(toDaemon) : toDaemon'[n] = toDaemon[m]
      BY <2>1, <2>3 DEF rest
    <2> QED BY <2>1, <2>2, <2>4, DaemonItems
  <1>7. CASE LinkGone /\ (store' = store \/ \E new \in SUBSET log : store' = store \cup new)
    <2>1. 1..Len(toService') = {} /\ 1..Len(toDaemon') = {}
      BY <1>7, EmptyQueue DEF LinkGone
    <2> QED BY <1>7, <2>1, DaemonItems DEF LinkGone
  <1>8. CASE Drop
    BY <1>7, <1>8 DEF Drop, tableVars
  <1>9. ASSUME NEW k \in 0..MaxTime, Crash(k) PROVE ItemsInv'
    <2>1. /\ LinkGone /\ toDaemon # <<>> /\ Head(toDaemon).t = "items" /\ k < Len(Head(toDaemon).items)
          /\ store' = store \cup Inserted(Head(toDaemon).items, k)
      BY <1>9 DEF Crash
    <2>2. Head(toDaemon) \in ToDaemon
      BY <2>1, TailIs DEF TypeOK
    <2>3. Len(Head(toDaemon).items) \in Nat
      BY <2>1, <2>2, MessagesDiffer, LenProperties
    <2>4. k \in 0..Len(Head(toDaemon).items)
      BY <2>1, <2>3, BoundsAssumption
    <2>5. Inserted(Head(toDaemon).items, k) \subseteq log
      BY <2>1, <2>4, LoggedItems
    <2> QED BY <1>7, <2>1, <2>5
  <1>10. CASE ServiceReads
    BY <1>10, ReadsItems
  <1>11. ASSUME NEW r \in Rooms, OtherSends(r) PROVE ItemsInv'
    BY <1>11, OtherSendsItems
  <1>12. ASSUME NEW u \in Users, ComesOrGoes(u) PROVE ItemsInv'
    <2> DEFINE e == [t |-> IF u \in present THEN "ud" ELSE "uc", user |-> u]
    <2>1. /\ now' = now + 1 /\ e \in ToDaemon
          /\ toDaemon' = IF served THEN Append(toDaemon, e) ELSE toDaemon
      BY <1>12, ComesOrGoesIs
    <2>2. store' = store /\ log' = log /\ since' = since /\ toService' = toService
      BY <1>12 DEF ComesOrGoes, tableVars
    <2>3. e.t # "items"
      OBVIOUS
    <2> HIDE DEF e
    <2>4. now \in Nat /\ MaxTime \in Nat
      BY BoundsAssumption DEF TypeOK
    <2>5. \A i \in log' \cup store' : i.ts <= now'
      <3> SUFFICES ASSUME NEW i \in log' \cup store' PROVE i.ts <= now'
        OBVIOUS
      <3>1. i.ts \in 1..MaxTime /\ i.ts <= now
        BY <2>2 DEF TypeOK, ItemsInv, Items
      <3> QED BY <2>1, <2>4, <3>1
    <2>6. \A n \in 1..Len(toDaemon') : toDaemon'[n].t = "items" =>
            \A k \in 1..Len(toDaemon'[n].items) : toDaemon'[n].items[k] \in log'
      <3>1. CASE served
        <4>1. /\ \A n \in 1..Len(toDaemon) : toDaemon'[n] = toDaemon[n]
              /\ toDaemon'[Len(toDaemon) + 1] = e
              /\ 1..Len(toDaemon') = (1..Len(toDaemon)) \cup {Len(toDaemon) + 1}
          BY <2>1, <3>1, AppendIs DEF TypeOK
        <4> QED BY <2>2, <2>3, <4>1 DEF ItemsInv
      <3>2. CASE ~served
        BY <2>1, <2>2, <3>2 DEF ItemsInv
      <3> QED BY <3>1, <3>2
    <2>7. \A c \in Channels : since'[c] <= now'
      BY <2>1, <2>2, SinceBefore
    <2> QED BY <2>2, <2>5, <2>6, <2>7 DEF ItemsInv
  <1> QED BY <1>1, <1>2, <1>3, <1>4, <1>5, <1>6, <1>8, <1>9, <1>10, <1>11, <1>12 DEF Next

LEMMA NextIInv == IInv /\ [Next]_vars => IInv'
  BY NextType, NextSession, NextItems DEF IInv

LEMMA Inductive == Spec => []IInv
  <1>1. Init => IInv
    BY InitType, InitSession, InitItems DEF IInv
  <1> QED BY <1>1, NextIInv, PTL DEF Spec

\* Every cursor the service is sent is a number, and every message is one of those
\* that sendDm(), subscribeChannel() and dispatch() know.
THEOREM TypeCorrect == Spec => []TypeOK
  <1>1. IInv => TypeOK
    BY DEF IInv
  <1> QED BY Inductive, <1>1, PTL

-----------------------------------------------------------------------------
(* Subscriptions.                                                          *)

LEMMA SaysEmpty == \A S, b : Says(<<>>, S, b)
  BY EmptyQueue DEF Says

LEMMA SaysAppend ==
  ASSUME NEW T, NEW q \in Seq(T), NEW e \in T, NEW S, NEW b
  PROVE  /\ e \notin S /\ Says(q, S, b) => Says(Append(q, e), S, b)
         /\ e \in S /\ (e.s <=> b) => Says(Append(q, e), S, b)
  <1> DEFINE longer == Append(q, e)
  <1>1. \A n : Final(longer, S, n) =>
          IF e \in S THEN longer[n] = e ELSE Final(q, S, n) /\ n \in 1..Len(q) /\ longer[n] = q[n]
    BY FinalAppend
  <1> HIDE DEF longer
  <1>2. ASSUME e \notin S, Says(q, S, b) PROVE Says(longer, S, b)
    BY <1>1, <1>2 DEF Says
  <1>3. ASSUME e \in S, e.s <=> b PROVE Says(longer, S, b)
    BY <1>1, <1>3 DEF Says
  <1> QED BY <1>2, <1>3 DEF longer

LEMMA SaysTail ==
  ASSUME NEW T, NEW q \in Seq(T), q # <<>>, NEW S, NEW b, Says(q, S, b)
  PROVE  /\ Says(Tail(q), S, b)
         /\ Head(q) \in S /\ None(Tail(q), S) => (Head(q).s <=> b)
         /\ Head(q) \notin S /\ None(Tail(q), S) => None(q, S)
         /\ Head(q) = q[1]
  <1> DEFINE rest == Tail(q)
             first == Head(q)
  <1>1. /\ \A n \in 1..Len(rest) : Final(rest, S, n) =>
             Final(q, S, n + 1) /\ n + 1 \in 1..Len(q) /\ rest[n] = q[n + 1]
        /\ None(rest, S) => IF first \in S THEN Final(q, S, 1) ELSE None(q, S)
        /\ first = q[1] /\ 1 \in 1..Len(q)
    BY FinalTail
  <1> HIDE DEF rest, first
  <1>2. Says(rest, S, b)
    BY <1>1 DEF Says
  <1>3. first \in S /\ None(rest, S) => (first.s <=> b)
    BY <1>1 DEF Says
  <1> QED BY <1>1, <1>2, <1>3 DEF rest, first

LEMMA CsIs ==
  ASSUME NEW c \in Channels
  PROVE  /\ \A m \in CsOf(c) : m.t = "cs" /\ m.cid = c
         /\ \A m \in ToService \cup ToDaemon : m.t = "cs" /\ m.cid = c => m \in CsOf(c)
  <1>1. \A m \in CsOf(c) : m.t = "cs" /\ m.cid = c
    BY DEF CsOf
  <1>2. ASSUME NEW m \in ToService \cup ToDaemon, m.t = "cs", m.cid = c PROVE m \in CsOf(c)
    <2>1. m \in Subscription
      BY <1>2 DEF ToService, ToDaemon, ConnectObject, Backfill, OnlineList, ComingOrGoing, Subscription
    <2> QED BY <1>2, <2>1 DEF Subscription, CsOf
  <1> QED BY <1>1, <1>2

\* A connect object subscribes to what is flagged.
LEMMA ConnectFlag ==
  ASSUME IInv, Connect, NEW c \in Channels
  PROVE  \E b \in BOOLEAN : Agrees(c, b)'
  <1> DEFINE msg == [t |-> "c", lm |-> Cursor(Dm), cc |-> [r \in subscribed |-> Cursor(r)]]
  <1>0. PICK b \in BOOLEAN : b <=> c \in subscribed
    <2>1. (c \in subscribed) \in BOOLEAN
      OBVIOUS
    <2> QED BY <2>1
  <1>1. toService' = <<msg>> /\ msg.t # "cs" /\ DOMAIN msg.cc = subscribed
    BY DEF Connect
  <1> HIDE DEF msg
  <1>2. toService'[1] = msg /\ Len(toService') = 1
    BY <1>1, SingleQueue
  <1>3. \A n \in 1..Len(toService') : toService'[n] \notin CsOf(c)
    <2>1. \A n \in 1..Len(toService') : n = 1
      BY <1>2
    <2> QED BY <1>1, <1>2, <2>1, CsIs
  <1>4. Says(toService', CsOf(c), b) /\ None(toService', CsOf(c))
    BY <1>3 DEF Says, Final, None
  <1>5. waiting' = waiting /\ toDaemon' = <<>> /\ subscribed' = subscribed /\ ~served'
        /\ \A n \in 1..Len(waiting) : ~waiting[n].last
    BY DEF Connect, IInv, SessionInv, tableVars, serviceVars
  <1>6. LastSays(c, b)' /\ Says(toDaemon', CsOf(c), b)
    BY <1>5, SaysEmpty DEF LastSays
  <1>7. b <=> c \in DOMAIN toService'[1].cc
    BY <1>0, <1>1, <1>2
  <1>8. Wanted(c, b)'
    BY <1>4, <1>5, <1>7 DEF Wanted
  <1>9. FlagSays(c, b)'
    BY <1>0, <1>5 DEF FlagSays
  <1>10. Agrees(c, b)'
    BY <1>6, <1>8, <1>9 DEF Agrees
  <1> QED BY <1>10

\* Sending something else than a cs of c.
LEMMA SendsFlag ==
  ASSUME IInv, up, NEW c \in Channels, NEW b \in BOOLEAN, Agrees(c, b),
         NEW e \in ToService, e \notin CsOf(c), toService' = Append(toService, e),
         UNCHANGED <<served, member, toDaemon, outdated, subscribed>>, LastSays(c, b)'
  PROVE  Agrees(c, b)'
  <1>1. toService \in Seq(ToService)
    BY DEF IInv, TypeOK
  <1>2. Says(toService', CsOf(c), b)
    BY <1>1, SaysAppend DEF Agrees, Wanted
  <1>3. None(toService', CsOf(c)) => None(toService, CsOf(c))
    BY <1>1, FinalAppend
  <1>4. ~served => toService'[1] = toService[1]
    <2>1. ASSUME ~served PROVE toService'[1] = toService[1]
      <3>1. toService # <<>>
        BY <2>1 DEF IInv, SessionInv
      <3>2. 1 \in 1..Len(toService)
        BY <1>1, <3>1, TailIs
      <3> QED BY <1>1, <3>2, AppendIs
    <2> QED BY <2>1
  <1>5. Wanted(c, b)'
    BY <1>2, <1>3, <1>4 DEF Agrees, Wanted
  <1>6. None(toService, CsOf(c)) => Says(toDaemon', CsOf(c), b) /\ FlagSays(c, b)'
    BY DEF Agrees, FlagSays
  <1> QED BY <1>3, <1>5, <1>6 DEF Agrees

\* A call joins those that wait, overtaking those on its channel.
LEMMA CallIsLast ==
  ASSUME TypeOK, NEW c \in Channels, NEW s \in BOOLEAN, HeadCalls(c, s)
  PROVE  \A n \in 1..Len(waiting') :
           \/ waiting'[n].s = s /\ waiting'[n].cid = c
           \/ /\ n \in 1..Len(waiting)
              /\ waiting'[n].s = waiting[n].s /\ waiting'[n].cid = waiting[n].cid
              /\ waiting'[n].last => waiting[n].last /\ waiting[n].cid # c
  <1> DEFINE call == [cid |-> c, s |-> s, last |-> TRUE]
             over == Overtaken({c})
  <1>1. /\ over \in Seq(Call) /\ Len(over) = Len(waiting)
        /\ \A n \in 1..Len(waiting) :
             /\ over[n].cid = waiting[n].cid /\ over[n].s = waiting[n].s
             /\ over[n].last => waiting[n].last /\ waiting[n].cid \notin {c}
    BY OvertakenIs DEF TypeOK
  <1>2. call \in Call /\ call.s = s /\ call.cid = c
    BY DEF Call
  <1>3. waiting' = Append(over, call)
    BY DEF HeadCalls
  <1> HIDE DEF call, over
  <1>4. /\ waiting'[Len(over) + 1] = call /\ \A n \in 1..Len(over) : waiting'[n] = over[n]
        /\ 1..Len(waiting') = (1..Len(over)) \cup {Len(over) + 1}
    BY <1>1, <1>2, <1>3, AppendIs
  <1> QED BY <1>1, <1>2, <1>4

\* A head's call replaces what was wanted.
LEMMA CallsFlag ==
  ASSUME IInv, NEW c \in Channels, NEW s \in BOOLEAN, HeadCalls(c, s)
  PROVE  Agrees(c, s)'
  <1> DEFINE e == [t |-> "cs", cid |-> c, s |-> s]
  <1>1. toService' = Append(toService, e)
    BY DEF HeadCalls
  <1>2. e \in ToService /\ e \in CsOf(c) /\ e.s = s
    BY DEF ToService, Subscription, CsOf
  <1>3. toService \in Seq(ToService)
    BY DEF IInv, TypeOK
  <1> HIDE DEF e
  <1>4. Says(toService', CsOf(c), s) /\ ~None(toService', CsOf(c))
    BY <1>1, <1>2, <1>3, SaysAppend, FinalAppend
  <1>5. LastSays(c, s)'
    <2>1. \A n \in 1..Len(waiting') :
            \/ waiting'[n].s = s
            \/ ~(waiting'[n].last /\ waiting'[n].cid = c)
      BY CallIsLast DEF IInv
    <2> QED BY <2>1 DEF LastSays
  <1> QED BY <1>4, <1>5 DEF Agrees, Wanted

LEMMA OtherCallFlag ==
  ASSUME IInv, NEW c \in Channels, NEW b \in BOOLEAN, Agrees(c, b),
         NEW d \in Channels, NEW s \in BOOLEAN, HeadCalls(d, s), c # d
  PROVE  Agrees(c, b)'
  <1> DEFINE e == [t |-> "cs", cid |-> d, s |-> s]
  <1>1. toService' = Append(toService, e) /\ up
        /\ UNCHANGED <<served, member, toDaemon, outdated, subscribed>>
    BY DEF HeadCalls, tableVars, serviceVars
  <1>2. e \in ToService /\ e.cid = d
    BY DEF ToService, Subscription
  <1>3. e \notin CsOf(c)
    BY <1>2, CsIs
  <1> HIDE DEF e
  <1>4. LastSays(c, b)'
    <2>1. \A n \in 1..Len(waiting') :
            \/ waiting'[n].cid = d
            \/ n \in 1..Len(waiting) /\ waiting'[n].s = waiting[n].s /\ waiting'[n].cid = waiting[n].cid
               /\ (waiting'[n].last => waiting[n].last)
      BY CallIsLast DEF IInv
    <2> QED BY <2>1 DEF LastSays, Agrees
  <1> QED BY <1>1, <1>2, <1>3, <1>4, SendsFlag

\* A reply to the session's last call sets the flag to what that call said; any other
\* makes it outdated.
LEMMA CallEndsFlag ==
  ASSUME IInv, NEW c \in Channels, NEW b \in BOOLEAN, Agrees(c, b), NEW n,
         CallSucceeds(n) \/ CallFails(n)
  PROVE  Agrees(c, b)'
  <1>1. UNCHANGED <<served, member, toService, toDaemon>>
    BY DEF CallSucceeds, CallFails, serviceVars
  <1>2. n \in 1..Len(waiting) /\ \A m \in 1..Len(waiting') : \E k \in 1..Len(waiting) : waiting'[m] = waiting[k]
    BY CallEndsIs DEF IInv
  <1>3. LastSays(c, b)'
    BY <1>2 DEF LastSays, Agrees
  <1>4. FlagSays(c, b) => FlagSays(c, b)'
    <2>1. CASE CallFails(n)
      BY <1>1, <2>1 DEF CallFails, tableVars, FlagSays
    <2>2. CASE CallSucceeds(n) /\ waiting[n].cid # c
      <3>1. /\ c \in outdated' <=> c \in outdated
            /\ c \in subscribed' <=> c \in subscribed
        BY <2>2 DEF CallSucceeds, Flagged
      <3> QED BY <1>1, <3>1 DEF FlagSays
    <2>3. CASE CallSucceeds(n) /\ waiting[n].cid = c /\ waiting[n].last
      <3>1. waiting[n].s <=> b
        BY <1>2, <2>3 DEF LastSays, Agrees
      <3>2. c \in subscribed' <=> b
        BY <2>3, <3>1 DEF CallSucceeds, Flagged
      <3> QED BY <3>2 DEF FlagSays
    <2>4. CASE CallSucceeds(n) /\ waiting[n].cid = c /\ ~waiting[n].last
      <3>1. c \in outdated'
        BY <2>4 DEF CallSucceeds
      <3> QED BY <3>1 DEF FlagSays
    <2> QED BY <2>1, <2>2, <2>3, <2>4
  <1> QED BY <1>1, <1>3, <1>4 DEF Agrees, Wanted

\* An echo leaves the flag at what the last echo said.
LEMMA DispatchFlag ==
  ASSUME IInv, NEW c \in Channels, NEW b \in BOOLEAN, Agrees(c, b), Dispatch
  PROVE  Agrees(c, b)'
  <1> DEFINE msg == Head(toDaemon)
  <1>1. /\ toDaemon # <<>> /\ toDaemon' = Tail(toDaemon)
        /\ UNCHANGED <<served, member, toService, waiting>>
        /\ subscribed' = IF msg.t = "cs" THEN Echoed(msg) ELSE subscribed
        /\ outdated' = IF msg.t = "cs" THEN outdated \ {msg.cid} ELSE outdated
    BY DEF Dispatch, serviceVars
  <1>2. toDaemon \in Seq(ToDaemon)
    BY DEF IInv, TypeOK
  <1>3. msg \in ToDaemon
    BY <1>1, <1>2, TailIs
  <1>4. None(toService, CsOf(c)) =>
          /\ Says(toDaemon', CsOf(c), b)
          /\ msg \in CsOf(c) /\ None(toDaemon', CsOf(c)) => (msg.s <=> b)
          /\ msg \notin CsOf(c) /\ None(toDaemon', CsOf(c)) => None(toDaemon, CsOf(c))
    BY <1>1, <1>2, SaysTail DEF Agrees
  <1>5. msg \in CsOf(c) <=> msg.t = "cs" /\ msg.cid = c
    BY <1>3, CsIs
  <1> HIDE DEF msg
  <1>6. None(toService, CsOf(c)) => FlagSays(c, b)'
    <2> SUFFICES ASSUME None(toService, CsOf(c)), c \notin outdated', None(toDaemon', CsOf(c))
                 PROVE  c \in subscribed' <=> b
      BY DEF FlagSays
    <2>1. CASE msg \in CsOf(c)
      <3>1. subscribed' = Flagged(c, msg.s)
        BY <1>1, <1>5, <2>1 DEF Echoed
      <3> QED BY <1>4, <2>1, <3>1 DEF Flagged
    <2>2. CASE msg \notin CsOf(c)
      <3>a. c \notin outdated
        BY <1>1, <1>5, <2>2
      <3>1. c \in subscribed <=> b
        BY <1>4, <2>2, <3>a DEF Agrees, FlagSays
      <3>2. c \in subscribed' <=> c \in subscribed
        BY <1>1, <1>5, <2>2 DEF Echoed, Flagged
      <3> QED BY <3>1, <3>2
    <2> QED BY <2>1, <2>2
  <1> QED BY <1>1, <1>4, <1>6 DEF Agrees, Wanted, LastSays

\* The service reads: a cs makes it push, or not, and is echoed.
LEMMA ReadsFlag ==
  ASSUME IInv, NEW c \in Channels, NEW b \in BOOLEAN, Agrees(c, b), ServiceReads
  PROVE  Agrees(c, b)'
  <1> DEFINE msg == Head(toService)
  <1>1. /\ toService # <<>> /\ toService' = Tail(toService)
        /\ UNCHANGED <<subscribed, waiting, outdated>>
    BY DEF ServiceReads, tableVars, callVars
  <1>2. toService \in Seq(ToService) /\ toDaemon \in Seq(ToDaemon)
    BY DEF IInv, TypeOK
  <1>3. /\ msg \in ToService /\ msg = toService[1]
        /\ \/ /\ ~served /\ served' /\ msg \in ConnectObject
              /\ ServiceReadsConnect(msg) /\ toDaemon = <<>>
           \/ /\ served /\ served' = served
              /\ ServiceReadsItem(msg) \/ ServiceReadsCs(msg)
    BY ReadsInOrder DEF IInv
  <1>4. /\ Says(toService', CsOf(c), b)
        /\ msg \in CsOf(c) /\ None(toService', CsOf(c)) => (msg.s <=> b)
        /\ msg \notin CsOf(c) /\ None(toService', CsOf(c)) => None(toService, CsOf(c))
    BY <1>1, <1>2, SaysTail DEF Agrees, Wanted
  <1>5. msg \in CsOf(c) <=> msg.t = "cs" /\ msg.cid = c
    BY <1>3, CsIs
  <1>6. LastSays(c, b)'
    BY <1>1 DEF Agrees, LastSays
  <1>7. CASE ServiceReadsConnect(msg) /\ ~served
    <2>1. msg \in ConnectObject /\ toDaemon = <<>> /\ served'
      BY <1>3, <1>7
    <2>2. msg \notin CsOf(c)
      BY <1>5, <2>1, ConnectObjectIs
    <2>3. member' = DOMAIN msg.cc
      BY <1>7 DEF ServiceReadsConnect
    <2>4. \A n \in 1..Len(toDaemon') : toDaemon'[n].t # "cs"
      <3>a. \A i, j \in log : i.ts = j.ts => i = j
        BY DEF IInv, ItemsInv
      <3>1. PICK order \in Orders(News(msg)) :
              /\ toDaemon'[1] = [t |-> "o", users |-> present]
              /\ \A k \in 1..Len(Batches(msg, order)) : toDaemon'[k + 1] = Batches(msg, order)[k]
              /\ \A n \in 1..Len(toDaemon') : n = 1 \/ \E k \in 1..Len(Batches(msg, order)) : n = k + 1
        BY <1>7, <3>a, ConnectAnswered DEF IInv
      <3>2. toDaemon'[1].t # "cs"
        BY <3>1
      <3>3. \A k \in 1..Len(Batches(msg, order)) :
              \E r \in DOMAIN msg.cc \cup {Dm} : Batches(msg, order)[k] = Batch(msg, r)
        BY <2>1, <3>a, BatchesAre DEF IInv, TypeOK
      <3>4. \A r : Batch(msg, r).t # "cs"
        BY DEF Batch
      <3>5. \A k \in 1..Len(Batches(msg, order)) : Batches(msg, order)[k].t # "cs"
        BY <3>3, <3>4
      <3> TAKE n \in 1..Len(toDaemon')
      <3>6. n = 1 \/ \E k \in 1..Len(Batches(msg, order)) : toDaemon'[n] = Batches(msg, order)[k]
        BY <3>1
      <3> QED BY <3>2, <3>5, <3>6
    <2>5. None(toDaemon', CsOf(c)) /\ Says(toDaemon', CsOf(c), b)
      BY <2>4, CsIs DEF None, Says, Final
    <2>6. None(toDaemon, CsOf(c))
      BY <2>1, EmptyQueue
    <2> HIDE DEF msg
    <2>7. Wanted(c, b)'
      BY <1>3, <1>4, <1>7, <2>1, <2>2, <2>3 DEF Agrees, Wanted
    <2>8. None(toService', CsOf(c)) => FlagSays(c, b)'
      BY <1>1, <1>4, <2>2, <2>6 DEF Agrees, FlagSays
    <2> QED BY <1>6, <2>5, <2>7, <2>8 DEF Agrees
  <1>8. CASE ServiceReadsItem(msg) /\ served
    <2>1. msg.t = "item" /\ UNCHANGED <<toDaemon, served, member>>
      BY <1>8 DEF ServiceReadsItem
    <2>2. msg \notin CsOf(c)
      BY <1>5, <2>1
    <2> HIDE DEF msg
    <2>3. Wanted(c, b)'
      BY <1>4, <1>8, <2>1, <2>2 DEF Agrees, Wanted
    <2>4. None(toService', CsOf(c)) => Says(toDaemon', CsOf(c), b) /\ FlagSays(c, b)'
      BY <1>1, <1>4, <2>1, <2>2 DEF Agrees, FlagSays
    <2> QED BY <1>6, <2>3, <2>4 DEF Agrees
  <1>9. CASE ServiceReadsCs(msg) /\ served
    <2> DEFINE e == [t |-> "cs", cid |-> msg.cid, s |-> msg.s]
    <2>1. msg.t = "cs" /\ served' = served /\ toDaemon' = Append(toDaemon, e)
          /\ member' = IF msg.s THEN member \cup {msg.cid} ELSE member \ {msg.cid}
      BY <1>9 DEF ServiceReadsCs
    <2>2. msg.cid \in Channels /\ msg.s \in BOOLEAN
      BY <1>3, <2>1, MessagesDiffer
    <2>3. e \in ToDaemon /\ e.t = "cs" /\ e.cid = msg.cid /\ e.s = msg.s
      BY <2>2 DEF ToDaemon, Subscription
    <2>4. e \in CsOf(c) <=> msg.cid = c
      BY <2>3, CsIs
    <2> HIDE DEF e, msg
    <2>5. CASE msg.cid = c
      <3>1. msg \in CsOf(c) /\ e \in CsOf(c)
        BY <1>5, <2>1, <2>4, <2>5
      <3>2. None(toService', CsOf(c)) => (msg.s <=> b)
        BY <1>4, <3>1
      <3>3. msg.s <=> c \in member'
        BY <2>1, <2>5
      <3>4. Wanted(c, b)'
        BY <1>4, <1>9, <2>1, <3>2, <3>3 DEF Wanted
      <3>5. None(toService', CsOf(c)) => Says(toDaemon', CsOf(c), b)
        BY <1>2, <2>1, <2>3, <3>1, <3>2, SaysAppend
      <3>6. ~None(toDaemon', CsOf(c))
        BY <1>2, <2>1, <2>3, <3>1, FinalAppend
      <3>7. FlagSays(c, b)'
        BY <3>6 DEF FlagSays
      <3> QED BY <1>6, <3>4, <3>5, <3>7 DEF Agrees
    <2>6. CASE msg.cid # c
      <3>1. msg \notin CsOf(c) /\ e \notin CsOf(c)
        BY <1>5, <2>4, <2>6
      <3>2. c \in member' <=> c \in member
        BY <2>1, <2>6
      <3>3. Wanted(c, b)'
        BY <1>4, <1>9, <2>1, <3>1, <3>2 DEF Agrees, Wanted
      <3>4. Says(toDaemon, CsOf(c), b) => Says(toDaemon', CsOf(c), b)
        BY <1>2, <2>1, <2>3, <3>1, SaysAppend
      <3>5. None(toDaemon', CsOf(c)) => None(toDaemon, CsOf(c))
        BY <1>2, <2>1, <2>3, FinalAppend
      <3>6. None(toService', CsOf(c)) => Says(toDaemon', CsOf(c), b) /\ FlagSays(c, b)'
        BY <1>1, <1>4, <3>1, <3>4, <3>5 DEF Agrees, FlagSays
      <3> QED BY <1>6, <3>3, <3>6 DEF Agrees
    <2> QED BY <2>5, <2>6
  <1> QED BY <1>3, <1>7, <1>8, <1>9

\* What others do says nothing of subscriptions.
LEMMA PushesFlag ==
  ASSUME IInv, NEW c \in Channels, NEW b \in BOOLEAN, Agrees(c, b),
         NEW e \in ToDaemon, e.t # "cs", toDaemon' = toDaemon \/ toDaemon' = Append(toDaemon, e),
         UNCHANGED <<served, member, toService, waiting, outdated, subscribed>>
  PROVE  Agrees(c, b)'
  <1>1. toDaemon \in Seq(ToDaemon) /\ e \notin CsOf(c)
    BY CsIs DEF IInv, TypeOK
  <1>2. Says(toDaemon, CsOf(c), b) => Says(toDaemon', CsOf(c), b)
    BY <1>1, SaysAppend
  <1>3. None(toDaemon', CsOf(c)) => None(toDaemon, CsOf(c))
    <2>1. None(Append(toDaemon, e), CsOf(c)) => None(toDaemon, CsOf(c))
      BY <1>1, FinalAppend
    <2> QED BY <2>1
  <1>4. FlagSays(c, b) => FlagSays(c, b)'
    BY <1>3 DEF FlagSays
  <1> QED BY <1>2, <1>4 DEF Agrees, Wanted, LastSays

LEMMA NextFlag == IInv /\ FlagInv /\ [Next]_vars => FlagInv'
  <1> SUFFICES ASSUME IInv, FlagInv, [Next]_vars, up', NEW c \in Channels
               PROVE  \E b \in BOOLEAN : Agrees(c, b)'
    BY DEF FlagInv
  <1>1. CASE Connect
    BY <1>1, ConnectFlag
  <1>2. CASE LinkGone
    BY <1>2 DEF LinkGone
  <1>3. CASE ~Connect /\ ~LinkGone
    <2>1. up
      BY <1>3 DEF Next, Drop, Crash, HeadSends, OtherSends, CallSucceeds, CallFails, Dispatch, ServiceReads,
                  HeadCalls, ComesOrGoes, vars
    <2>2. PICK b \in BOOLEAN : Agrees(c, b)
      BY <2>1 DEF FlagInv
    <2>3. CASE UNCHANGED vars
      <3>1. Agrees(c, b)'
        BY <2>2, <2>3 DEF vars, tableVars, callVars, serviceVars, Agrees, Wanted, FlagSays, LastSays
      <3> QED BY <3>1
    <2>4. ASSUME NEW n \in 1..MaxCalls, CallSucceeds(n) \/ CallFails(n) PROVE \E s \in BOOLEAN : Agrees(c, s)'
      BY <2>2, <2>4, CallEndsFlag
    <2>5. CASE Dispatch
      BY <2>2, <2>5, DispatchFlag
    <2>6. CASE ServiceReads
      BY <2>2, <2>6, ReadsFlag
    <2>7. ASSUME NEW r \in Rooms, HeadSends(r) PROVE \E s \in BOOLEAN : Agrees(c, s)'
      <3> DEFINE e == [t |-> "item", item |-> Item(r, now + 1, TRUE)]
      <3>1. now + 1 \in 1..MaxTime
        BY <2>7, BoundsAssumption DEF HeadSends, IInv, TypeOK
      <3>2. Item(r, now + 1, TRUE) \in Items
        BY <3>1 DEF Item, Items
      <3>3. e \in ToService /\ e.t = "item"
        BY <3>2 DEF ToService
      <3>4. e \notin CsOf(c)
        BY <3>3, CsIs
      <3>5. /\ toService' = Append(toService, e) /\ waiting' = waiting
            /\ UNCHANGED <<served, member, toDaemon, outdated, subscribed>>
        BY <2>1, <2>7 DEF HeadSends, callVars
      <3> HIDE DEF e
      <3>6. LastSays(c, b)'
        BY <2>2, <3>5 DEF Agrees, LastSays
      <3> QED BY <2>1, <2>2, <3>3, <3>4, <3>5, <3>6, SendsFlag
    <2>8. ASSUME NEW r \in Rooms, OtherSends(r) PROVE \E s \in BOOLEAN : Agrees(c, s)'
      <3> DEFINE e == [t |-> "items", items |-> <<Item(r, now + 1, FALSE)>>]
      <3>1. e \in ToDaemon /\ e.t # "cs" /\ (toDaemon' = toDaemon \/ toDaemon' = Append(toDaemon, e))
        BY <2>8, OtherSendsIs DEF IInv
      <3> HIDE DEF e
      <3>2. UNCHANGED <<served, member, toService, waiting, outdated, subscribed>>
        BY <2>8 DEF OtherSends, tableVars, callVars
      <3> QED BY <2>2, <3>1, <3>2, PushesFlag
    <2>9. ASSUME NEW u \in Users, ComesOrGoes(u) PROVE \E s \in BOOLEAN : Agrees(c, s)'
      <3> DEFINE e == [t |-> IF u \in present THEN "ud" ELSE "uc", user |-> u]
      <3>1. e \in ToDaemon /\ e.t # "cs" /\ (toDaemon' = toDaemon \/ toDaemon' = Append(toDaemon, e))
        BY <2>9, ComesOrGoesIs DEF IInv
      <3> HIDE DEF e
      <3>2. UNCHANGED <<served, member, toService, waiting, outdated, subscribed>>
        BY <2>9 DEF ComesOrGoes, tableVars, callVars
      <3> QED BY <2>2, <3>1, <3>2, PushesFlag
    <2>10. ASSUME NEW d \in Channels, NEW s \in BOOLEAN, HeadCalls(d, s)
           PROVE  \E x \in BOOLEAN : Agrees(c, x)'
      <3>1. CASE c = d
        BY <2>10, <3>1, CallsFlag
      <3>2. CASE c # d
        BY <2>2, <2>10, <3>2, OtherCallFlag
      <3> QED BY <3>1, <3>2
    <2> QED BY <1>3, <2>3, <2>4, <2>5, <2>6, <2>7, <2>8, <2>9, <2>10 DEF Next, Drop, Crash
  <1> QED BY <1>1, <1>2, <1>3

\* subscribeChannel() and unsubscribeChannel() set the flag once the host has taken the
\* frame, dispatch() at the echo: when nothing is under way the flags are the service's
\* subscriptions, whatever calls failed and whatever order replies and echoes came in,
\* but where the reply to a call that was not the session's last set a flag last.
THEOREM FlagsHold == Spec => []FlagsAgree
  <1>1. Init => FlagInv
    BY DEF Init, FlagInv
  <1>2. IInv /\ FlagInv => FlagsAgree
    <2> SUFFICES ASSUME IInv, FlagInv, Settled, NEW c \in Channels \ outdated
                 PROVE  c \in subscribed <=> c \in member
      BY DEF FlagsAgree
    <2>1. served /\ toService = <<>> /\ toDaemon = <<>>
      BY DEF Settled
    <2>2. up
      BY <2>1 DEF IInv, SessionInv
    <2>3. PICK b \in BOOLEAN : Agrees(c, b)
      BY <2>2 DEF FlagInv
    <2>4. None(toService, CsOf(c)) /\ None(toDaemon, CsOf(c))
      BY <2>1, EmptyQueue
    <2> QED BY <2>1, <2>3, <2>4 DEF Agrees, Wanted, FlagSays
  <1> QED BY Inductive, NextFlag, <1>1, <1>2, PTL DEF Spec

-----------------------------------------------------------------------------
(* Who is online.                                                          *)

LEMMA AboutIs ==
  ASSUME NEW u \in Users, NEW m \in ToDaemon
  PROVE  /\ m.t = "o" => m \in About(u) /\ (m \in Shows(u) <=> u \in m.users)
         /\ m.t = "uc" => (m \in About(u) <=> m.user = u) /\ (m \in Shows(u) <=> m.user = u)
         /\ m.t = "ud" => (m \in About(u) <=> m.user = u) /\ m \notin Shows(u)
         /\ m.t \in {"items", "cs"} => m \notin About(u)
  <1>1. /\ m.t = "o" => m \in OnlineList
        /\ m.t \in {"uc", "ud"} => m \in ComingOrGoing
    BY DEF ToDaemon, Backfill, OnlineList, ComingOrGoing, Subscription
  <1>2. /\ \A x \in OnlineList : x.t = "o"
        /\ \A x \in [t : {"uc", "ud"}, user : {u}] : x.t \in {"uc", "ud"} /\ x.user = u
        /\ \A x \in [t : {"uc"}, user : {u}] : x.t = "uc" /\ x.user = u
    BY DEF OnlineList
  <1>3. ASSUME m.t = "o" PROVE m \in About(u) /\ (m \in Shows(u) <=> u \in m.users)
    BY <1>1, <1>2, <1>3 DEF About, Shows
  <1>4. ASSUME m.t = "uc"
        PROVE  (m \in About(u) <=> m.user = u) /\ (m \in Shows(u) <=> m.user = u)
    <2>1. m.user = u => m \in [t : {"uc", "ud"}, user : {u}] /\ m \in [t : {"uc"}, user : {u}]
      BY <1>1, <1>4 DEF ComingOrGoing
    <2> QED BY <1>2, <1>4, <2>1 DEF About, Shows
  <1>5. ASSUME m.t = "ud" PROVE (m \in About(u) <=> m.user = u) /\ m \notin Shows(u)
    <2>1. m.user = u => m \in [t : {"uc", "ud"}, user : {u}]
      BY <1>1, <1>5 DEF ComingOrGoing
    <2> QED BY <1>2, <1>5, <2>1 DEF About, Shows
  <1>6. m.t \in {"items", "cs"} => m \notin About(u)
    BY <1>2 DEF About
  <1> QED BY <1>3, <1>4, <1>5, <1>6

\* A message that says nothing of u, or none.
LEMMA PushesOnline ==
  ASSUME IInv, NEW u \in Users, OnlineFor(u), NEW e \in ToDaemon, e \notin About(u),
         toDaemon' = toDaemon \/ toDaemon' = Append(toDaemon, e),
         online' = online, u \in present' <=> u \in present
  PROVE  OnlineFor(u)'
  <1>1. toDaemon \in Seq(ToDaemon)
    BY DEF IInv, TypeOK
  <1>2. CASE toDaemon' = toDaemon
    BY <1>2 DEF OnlineFor
  <1>3. CASE toDaemon' = Append(toDaemon, e)
    <2>1. \A n : Final(toDaemon', About(u), n) =>
            Final(toDaemon, About(u), n) /\ n \in 1..Len(toDaemon) /\ toDaemon'[n] = toDaemon[n]
      BY <1>1, <1>3, FinalAppend
    <2>2. None(toDaemon', About(u)) => None(toDaemon, About(u))
      BY <1>1, <1>3, FinalAppend
    <2> QED BY <2>1, <2>2 DEF OnlineFor
  <1> QED BY <1>2, <1>3

LEMMA SaysOnline ==
  ASSUME IInv, NEW u \in Users, NEW e \in ToDaemon, e \in About(u),
         toDaemon' = Append(toDaemon, e), e \in Shows(u) <=> u \in present'
  PROVE  OnlineFor(u)'
  <1>1. toDaemon \in Seq(ToDaemon)
    BY DEF IInv, TypeOK
  <1>2. \A n : Final(Append(toDaemon, e), About(u), n) =>
          IF e \in About(u) THEN Append(toDaemon, e)[n] = e
          ELSE Final(toDaemon, About(u), n) /\ n \in 1..Len(toDaemon) /\ Append(toDaemon, e)[n] = toDaemon[n]
    BY <1>1, FinalAppend, Zenon
  <1>3. ~None(toDaemon', About(u))
    BY <1>1, FinalAppend
  <1> QED BY <1>2, <1>3 DEF OnlineFor

LEMMA ComesOnline ==
  ASSUME IInv, NEW u \in Users, NEW v \in Users, OnlineFor(u), ComesOrGoes(v), served
  PROVE  OnlineFor(u)'
  <1> DEFINE e == [t |-> IF v \in present THEN "ud" ELSE "uc", user |-> v]
  <1>1. e \in ToDaemon /\ toDaemon' = Append(toDaemon, e)
    BY ComesOrGoesIs DEF IInv
  <1>2. e.user = v /\ (e.t = "uc" <=> v \notin present) /\ e.t \in {"uc", "ud"}
    OBVIOUS
  <1>3. online' = online /\ present' = IF v \in present THEN present \ {v} ELSE present \cup {v}
    BY DEF ComesOrGoes, tableVars
  <1>4. toDaemon \in Seq(ToDaemon)
    BY DEF IInv, TypeOK
  <1> HIDE DEF e
  <1>5. CASE u = v
    <2>a. e \in About(u) /\ (e \in Shows(u) <=> v \notin present)
      BY <1>1, <1>2, <1>5, AboutIs
    <2>1. e \in About(u) /\ (e \in Shows(u) <=> u \in present')
      BY <1>3, <1>5, <2>a
    <2> QED BY <1>1, <2>1, SaysOnline
  <1>6. CASE u # v
    <2>1. e \notin About(u)
      BY <1>1, <1>2, <1>6, AboutIs
    <2> QED BY <1>1, <1>3, <1>6, <2>1, PushesOnline
  <1> QED BY <1>5, <1>6

LEMMA DispatchOnline ==
  ASSUME IInv, NEW u \in Users, OnlineFor(u), Dispatch
  PROVE  OnlineFor(u)'
  <1> DEFINE msg == Head(toDaemon)
             rest == Tail(toDaemon)
  <1>1. /\ toDaemon # <<>> /\ toDaemon' = rest /\ present' = present
        /\ online' = IF msg.t = "o" THEN OnlineNow(msg.users)
                     ELSE IF msg.t = "uc" THEN online \cup {msg.user}
                     ELSE IF msg.t = "ud" THEN online \ {msg.user} ELSE online
    BY DEF Dispatch, serviceVars
  <1>2. toDaemon \in Seq(ToDaemon)
    BY DEF IInv, TypeOK
  <1>3. msg \in ToDaemon
    BY <1>1, <1>2, TailIs
  <1>4. /\ \A n \in 1..Len(rest) : Final(rest, About(u), n) =>
             Final(toDaemon, About(u), n + 1) /\ n + 1 \in 1..Len(toDaemon) /\ rest[n] = toDaemon[n + 1]
        /\ None(rest, About(u)) => IF msg \in About(u) THEN Final(toDaemon, About(u), 1)
                                                       ELSE None(toDaemon, About(u))
        /\ msg = toDaemon[1] /\ 1 \in 1..Len(toDaemon)
    BY <1>1, <1>2, FinalTail
  <1>5. /\ msg.t = "o" => msg \in About(u) /\ (msg \in Shows(u) <=> u \in msg.users)
        /\ msg.t = "uc" => (msg \in About(u) <=> msg.user = u) /\ (msg \in Shows(u) <=> msg.user = u)
        /\ msg.t = "ud" => (msg \in About(u) <=> msg.user = u) /\ msg \notin Shows(u)
        /\ msg.t \in {"items", "cs"} => msg \notin About(u)
        /\ msg.t \in {"items", "o", "uc", "ud", "cs"}
    BY <1>3, AboutIs, MessagesDiffer
  <1> HIDE DEF msg, rest
  <1>6. \A n \in 1..Len(rest) : Final(rest, About(u), n) => (rest[n] \in Shows(u) <=> u \in present)
    BY <1>4 DEF OnlineFor
  <1>7. ASSUME None(rest, About(u)) PROVE u \in online' <=> u \in present
    <2>1. CASE msg \in About(u)
      <3>1. msg \in Shows(u) <=> u \in present
        BY <1>4, <1>7, <2>1 DEF OnlineFor
      <3>2. u \in online' <=> msg \in Shows(u)
        BY <1>1, <1>5, <2>1 DEF OnlineNow
      <3> QED BY <3>1, <3>2
    <2>2. CASE msg \notin About(u)
      <3>1. u \in online <=> u \in present
        BY <1>4, <1>7, <2>2 DEF OnlineFor
      <3>2. u \in online' <=> u \in online
        BY <1>1, <1>5, <2>2
      <3> QED BY <3>1, <3>2
    <2> QED BY <2>1, <2>2
  <1> QED BY <1>1, <1>6, <1>7 DEF OnlineFor

LEMMA ReadsOnline ==
  ASSUME IInv, OnlineInv, ServiceReads, NEW u \in Users
  PROVE  OnlineFor(u)'
  <1> DEFINE msg == Head(toService)
  <1>1. online' = online /\ present' = present
    BY DEF ServiceReads, tableVars
  <1>2. /\ msg \in ToService
        /\ \/ ~served /\ msg \in ConnectObject /\ ServiceReadsConnect(msg)
           \/ served /\ (ServiceReadsItem(msg) \/ ServiceReadsCs(msg))
    BY ReadsInOrder DEF IInv
  <1>3. CASE ~served /\ msg \in ConnectObject /\ ServiceReadsConnect(msg)
    <2> DEFINE o == [t |-> "o", users |-> present]
    <2>a. \A i, j \in log : i.ts = j.ts => i = j
      BY DEF IInv, ItemsInv
    <2>1. PICK order \in Orders(News(msg)) :
            /\ Len(Batches(msg, order)) \in Nat
            /\ toDaemon'[1] = o /\ 1 \in 1..Len(toDaemon')
            /\ \A k \in 1..Len(Batches(msg, order)) : toDaemon'[k + 1] = Batches(msg, order)[k]
            /\ \A n \in 1..Len(toDaemon') : n = 1 \/ \E k \in 1..Len(Batches(msg, order)) : n = k + 1
      BY <1>3, <2>a, ConnectAnswered DEF IInv
    <2>2. \A k \in 1..Len(Batches(msg, order)) :
            \E r \in DOMAIN msg.cc \cup {Dm} : Batches(msg, order)[k] = Batch(msg, r)
      BY <1>3, <2>a, BatchesAre DEF IInv, TypeOK
    <2>3. \A r \in DOMAIN msg.cc \cup {Dm} : Batch(msg, r) \in ToDaemon /\ Batch(msg, r).t = "items"
      BY <1>3, <2>a, BatchIs DEF IInv, TypeOK, ToDaemon
    <2>b. \A k \in 1..Len(Batches(msg, order)) : Batches(msg, order)[k] \notin About(u)
      BY <2>2, <2>3, AboutIs
    <2>4. \A n \in 1..Len(toDaemon') : toDaemon'[n] \in About(u) => n = 1
      BY <2>1, <2>b
    <2>5. o \in ToDaemon /\ o.t = "o" /\ o.users = present
      BY DEF IInv, TypeOK, ToDaemon, OnlineList
    <2> HIDE DEF o
    <2>6. o \in About(u) /\ (o \in Shows(u) <=> u \in present)
      BY <2>5, AboutIs
    <2>7. ~None(toDaemon', About(u))
      BY <2>1, <2>6 DEF None
    <2>8. \A n \in 1..Len(toDaemon') : Final(toDaemon', About(u), n) => toDaemon'[n] = o
      BY <2>1, <2>4 DEF Final
    <2> QED BY <1>1, <2>6, <2>7, <2>8 DEF OnlineFor
  <1>4. CASE served /\ (ServiceReadsItem(msg) \/ ServiceReadsCs(msg))
    <2>1. OnlineFor(u)
      BY <1>4 DEF OnlineInv
    <2>2. CASE ServiceReadsItem(msg)
      <3>1. toDaemon' = toDaemon
        BY <2>2 DEF ServiceReadsItem
      <3> QED BY <1>1, <2>1, <3>1 DEF OnlineFor
    <2>3. CASE ServiceReadsCs(msg)
      <3> DEFINE e == [t |-> "cs", cid |-> msg.cid, s |-> msg.s]
      <3>1. toDaemon' = Append(toDaemon, e) /\ msg.t = "cs"
        BY <2>3 DEF ServiceReadsCs
      <3>2. e \in ToDaemon /\ e.t = "cs"
        BY <1>2, <3>1, MessagesDiffer DEF ToDaemon, Subscription
      <3> HIDE DEF e
      <3>3. e \notin About(u)
        BY <3>2, AboutIs
      <3> QED BY <1>1, <2>1, <3>1, <3>2, <3>3, PushesOnline
    <2> QED BY <1>4, <2>2, <2>3
  <1> QED BY <1>2, <1>3, <1>4

LEMMA NextOnline == IInv /\ OnlineInv /\ [Next]_vars => OnlineInv'
  <1> SUFFICES ASSUME IInv, OnlineInv, [Next]_vars, served', NEW u \in Users
               PROVE  OnlineFor(u)'
    BY DEF OnlineInv
  <1>1. CASE LinkGone
    BY <1>1 DEF LinkGone
  <1>2. CASE ServiceReads
    BY <1>2, ReadsOnline
  <1>3. CASE ~LinkGone /\ ~ServiceReads
    <2>1. served
      BY <1>3 DEF Next, Drop, Crash, HeadSends, OtherSends, CallSucceeds, CallFails, Dispatch,
                  HeadCalls, ComesOrGoes, Connect, vars, serviceVars
    <2>2. OnlineFor(u)
      BY <2>1 DEF OnlineInv
    <2>3. CASE UNCHANGED <<toDaemon, online, present>>
      BY <2>2, <2>3 DEF OnlineFor
    <2>4. CASE Dispatch
      BY <2>2, <2>4, DispatchOnline
    <2>5. ASSUME NEW v \in Users, ComesOrGoes(v) PROVE OnlineFor(u)'
      BY <2>1, <2>2, <2>5, ComesOnline
    <2>6. ASSUME NEW r \in Rooms, OtherSends(r) PROVE OnlineFor(u)'
      <3> DEFINE e == [t |-> "items", items |-> <<Item(r, now + 1, FALSE)>>]
      <3>1. e \in ToDaemon /\ e.t = "items" /\ (toDaemon' = toDaemon \/ toDaemon' = Append(toDaemon, e))
        BY <2>6, OtherSendsIs DEF IInv
      <3> HIDE DEF e
      <3>2. e \notin About(u)
        BY <3>1, AboutIs
      <3>3. online' = online /\ present' = present
        BY <2>6 DEF OtherSends, tableVars
      <3> QED BY <2>2, <3>1, <3>2, <3>3, PushesOnline
    <2>7. CASE UNCHANGED vars \/ Connect \/ \E n \in 1..MaxCalls : CallSucceeds(n) \/ CallFails(n)
      BY <2>3, <2>7 DEF vars, tableVars, serviceVars, Connect, CallSucceeds, CallFails
    <2>8. ASSUME NEW r \in Rooms, HeadSends(r) PROVE OnlineFor(u)'
      BY <2>3, <2>8 DEF HeadSends
    <2>9. ASSUME NEW c \in Channels, NEW s \in BOOLEAN, HeadCalls(c, s) PROVE OnlineFor(u)'
      BY <2>3, <2>9 DEF HeadCalls, tableVars, serviceVars
    <2>10. UNCHANGED vars \/ Next
      OBVIOUS
    <2> QED BY <1>3, <2>4, <2>5, <2>6, <2>7, <2>8, <2>9, <2>10 DEF Next, Drop, Crash
  <1> QED BY <1>1, <1>2, <1>3

\* setOnline(), addOnline() and removeOnline(): when nothing is under way, who is shown
\* online is online, also after a gap.
THEOREM OnlineHolds == Spec => []OnlineMirrors
  <1>1. Init => OnlineInv
    BY DEF Init, OnlineInv
  <1>2. IInv /\ OnlineInv => OnlineMirrors
    <2> SUFFICES ASSUME IInv, OnlineInv, Settled, NEW u \in Users
                 PROVE  u \in online <=> u \in present
      BY DEF OnlineMirrors, IInv, TypeOK
    <2>1. served /\ toDaemon = <<>>
      BY DEF Settled
    <2>2. None(toDaemon, About(u))
      BY <2>1, EmptyQueue
    <2> QED BY <2>1, <2>2 DEF OnlineInv, OnlineFor
  <1> QED BY Inductive, NextOnline, <1>1, <1>2, PTL DEF Spec

-----------------------------------------------------------------------------
(* A backfill completes the store.                                         *)

LEMMA ItemIs ==
  ASSUME IInv, NEW i \in log \cup store
  PROVE  /\ i \in Items /\ i.room \in Channels \cup {Dm} /\ i.own \in BOOLEAN
         /\ i.ts \in Nat /\ i.ts >= 1 /\ i.ts <= now /\ now \in Nat
  <1>1. i \in Items /\ i.ts <= now /\ now \in Nat /\ MaxTime \in Nat
    BY BoundsAssumption DEF IInv, TypeOK, ItemsInv
  <1>2. i.room \in Channels \cup {Dm} /\ i.ts \in 1..MaxTime /\ i.own \in BOOLEAN
    BY <1>1 DEF Items, Rooms
  <1> QED BY <1>1, <1>2

\* An item that is past stays so.
LEMMA PastStays ==
  ASSUME IInv, NEW i \in log, store \subseteq store', \A c \in Channels : since[c] <= since'[c],
         since' \in [Channels -> 0..MaxTime], Past(i)
  PROVE  Past(i)'
  <1>1. CASE i.room # Dm /\ i.ts <= since[i.room]
    <2>1. i.room \in Channels /\ i.ts \in Nat
      BY <1>1, ItemIs
    <2>2. since[i.room] \in 0..MaxTime /\ since'[i.room] \in 0..MaxTime /\ MaxTime \in Nat
      BY <2>1, BoundsAssumption DEF IInv, TypeOK
    <2>3. since[i.room] <= since'[i.room]
      BY <2>1
    <2>4. i.ts <= since'[i.room]
      BY <1>1, <2>1, <2>2, <2>3
    <2> QED BY <1>1, <2>4 DEF Past
  <1>2. CASE i \in store \/ \E j \in store : j.own /\ j.room = i.room /\ j.ts > i.ts
    BY <1>2 DEF Past
  <1> QED BY <1>1, <1>2 DEF Past

\* A message, if any, goes behind those under way.
LEMMA PushKeeps ==
  ASSUME IInv, NEW e \in ToDaemon, toDaemon' = toDaemon \/ toDaemon' = Append(toDaemon, e)
  PROVE  /\ \A n \in 1..Len(toDaemon) : n \in 1..Len(toDaemon') /\ toDaemon'[n] = toDaemon[n]
         /\ \A n \in 1..Len(toDaemon') :
              \/ n \in 1..Len(toDaemon)
              \/ /\ toDaemon' = Append(toDaemon, e) /\ toDaemon'[n] = e
                 /\ \A m \in 1..Len(toDaemon) : m < n
         /\ \A i : OnItsWay(i) => OnItsWay(i)'
         /\ \A i, k : \A n \in 1..Len(toDaemon) : Ahead(i, n, k) => Ahead(i, n, k)'
  <1>1. toDaemon \in Seq(ToDaemon)
    BY DEF IInv, TypeOK
  <1>2. \A n \in 1..Len(toDaemon) : n \in 1..Len(toDaemon') /\ toDaemon'[n] = toDaemon[n]
    <2>1. CASE toDaemon' = toDaemon
      BY <2>1
    <2>2. CASE toDaemon' = Append(toDaemon, e)
      BY <1>1, <2>2, AppendIs
    <2> QED BY <2>1, <2>2
  <1>3. \A n \in 1..Len(toDaemon') :
          \/ n \in 1..Len(toDaemon)
          \/ /\ toDaemon' = Append(toDaemon, e) /\ toDaemon'[n] = e
             /\ \A m \in 1..Len(toDaemon) : m < n
    <2>1. CASE toDaemon' = toDaemon
      BY <2>1
    <2>2. CASE toDaemon' = Append(toDaemon, e)
      <3>1. /\ Len(toDaemon) \in Nat
            /\ toDaemon'[Len(toDaemon) + 1] = e
            /\ 1..Len(toDaemon') = (1..Len(toDaemon)) \cup {Len(toDaemon) + 1}
        BY <1>1, <2>2, AppendIs
      <3>2. \A m \in 1..Len(toDaemon) : m < Len(toDaemon) + 1
        BY <3>1
      <3> QED BY <2>2, <3>1, <3>2
    <2> QED BY <2>1, <2>2
  <1>4. \A i : OnItsWay(i) => OnItsWay(i)'
    BY <1>2 DEF OnItsWay, Brings
  <1>5. \A i, k : \A n \in 1..Len(toDaemon) : Ahead(i, n, k) => Ahead(i, n, k)'
    BY <1>2 DEF Ahead, Brings
  <1> QED BY <1>2, <1>3, <1>4, <1>5

\* Steps that send no items and store nobody else's.
LEMMA QuietKeeps ==
  ASSUME IInv, ResyncInv, IInv', served' = served, log \subseteq log', store \subseteq store',
         \A j \in store' : j \in store \/ j.own,
         \A c \in Channels : since[c] <= since'[c],
         \A i \in log' : i \in log \/ i \in store',
         \A i \in log : i.room \in member' => i.room \in member \/ i.ts <= since'[i.room],
         NEW e \in ToDaemon, e.t # "items", toDaemon' = toDaemon \/ toDaemon' = Append(toDaemon, e)
  PROVE  AllSent' /\ StoreInOrder' /\ SentInOrder'
  <1>1. \A i \in log' : Past(i)' \/ (i \in log /\ ~Past(i))
    <2> SUFFICES ASSUME NEW i \in log' PROVE Past(i)' \/ (i \in log /\ ~Past(i))
      OBVIOUS
    <2>1. since' \in [Channels -> 0..MaxTime]
      BY DEF IInv, TypeOK
    <2>2. i \in log /\ Past(i) => Past(i)'
      BY <2>1, PastStays
    <2>3. i \in store' => Past(i)'
      BY DEF Past
    <2> QED BY <2>2, <2>3
  <1>2. AllSent'
    <2> SUFFICES ASSUME served', NEW i \in log', i.room \in member' \cup {Dm}, ~(Past(i)')
                 PROVE  OnItsWay(i)'
      BY DEF AllSent
    <2>1. i \in log /\ ~Past(i)
      BY <1>1
    <2>2. i.room # Dm /\ i.room \notin member => i.ts <= since'[i.room]
      BY <2>1
    <2>3. i.room \in member \cup {Dm}
      BY <2>2 DEF Past
    <2>4. OnItsWay(i)
      BY <2>1, <2>3 DEF ResyncInv, AllSent
    <2> QED BY <2>4, PushKeeps
  <1>3. StoreInOrder'
    <2> SUFFICES ASSUME NEW j \in store', NEW i \in log', ~j.own, Older(i, j), ~(Past(i)')
                 PROVE  FALSE
      BY DEF StoreInOrder, Older
    <2>1. i \in log /\ ~Past(i) /\ j \in store
      BY <1>1
    <2> QED BY <2>1 DEF ResyncInv, StoreInOrder
  <1>4. SentInOrder'
    <2> SUFFICES ASSUME NEW n \in 1..Len(toDaemon'), toDaemon'[n].t = "items",
                        NEW k \in 1..Len(toDaemon'[n].items), NEW i \in log',
                        Older(i, toDaemon'[n].items[k]), ~(Past(i)')
                 PROVE  Ahead(i, n, k)'
      BY DEF SentInOrder, Older
    <2>1. i \in log /\ ~Past(i)
      BY <1>1
    <2>2. n \in 1..Len(toDaemon) /\ toDaemon'[n] = toDaemon[n]
      BY PushKeeps
    <2>3. Ahead(i, n, k)
      BY <2>1, <2>2 DEF ResyncInv, SentInOrder
    <2> QED BY <2>2, <2>3, PushKeeps
  <1> QED BY <1>2, <1>3, <1>4

LEMMA CursorsKeep ==
  ASSUME IInv, ResyncInv, IInv', up' = up, served' = served, log' = log, now' = now \/ now' = now + 1,
         up /\ ~served => toService'[1] = toService[1], store \subseteq store', since' = since
  PROVE  CursorsPast' /\ CursorsKnown'
  <1>1. CursorsPast'
    <2> SUFFICES ASSUME up', ~served', NEW i \in log', i.room \in DOMAIN toService'[1].cc \cup {Dm},
                        i.ts <= CursorOf(toService'[1], i.room)
                 PROVE  Past(i)'
      BY DEF CursorsPast, CursorOf
    <2>1. Past(i)
      BY DEF ResyncInv, CursorsPast
    <2>2. since' \in [Channels -> 0..MaxTime] /\ \A c \in Channels : since[c] <= since'[c]
      <3>1. \A c \in Channels : since[c] \in 0..MaxTime
        BY DEF IInv, TypeOK
      <3>2. \A t \in 0..MaxTime : t <= t
        BY BoundsAssumption
      <3> QED BY <3>1, <3>2 DEF IInv, TypeOK
    <2> QED BY <2>1, <2>2, PastStays
  <1>2. CursorsKnown'
    <2> SUFFICES ASSUME up', ~served', NEW r \in DOMAIN toService'[1].cc \cup {Dm}
                 PROVE  CursorOf(toService'[1], r) <= now'
      BY DEF CursorsKnown, CursorOf
    <2>1. CursorOf(toService[1], r) <= now /\ toService[1] \in ConnectObject
          /\ r \in DOMAIN toService[1].cc \cup {Dm} /\ toService'[1] = toService[1]
      BY DEF ResyncInv, CursorsKnown, IInv, SessionInv
    <2>2. CursorOf(toService[1], r) \in Cursors
      BY <2>1, ConnectObjectIs
    <2>3. now \in Nat /\ MaxTime \in Nat
      BY BoundsAssumption DEF IInv, TypeOK
    <2> HIDE DEF CursorOf
    <2> QED BY <2>1, <2>2, <2>3 DEF Cursors
  <1> QED BY <1>1, <1>2

\* A connect object asks from the newest item held, and what is older than that one is
\* not missing.
LEMMA ConnectSync ==
  ASSUME IInv, ResyncInv, IInv', Connect
  PROVE  CursorsPast' /\ CursorsKnown'
  <1> DEFINE msg == [t |-> "c", lm |-> Cursor(Dm), cc |-> [c \in subscribed |-> Cursor(c)]]
  <1>1. toService' = <<msg>> /\ UNCHANGED <<store, log, now, since>>
    BY DEF Connect, tableVars, serviceVars
  <1>2. msg.lm = Cursor(Dm) /\ DOMAIN msg.cc = subscribed /\ \A c \in subscribed : msg.cc[c] = Cursor(c)
    OBVIOUS
  <1> HIDE DEF msg
  <1>3. toService'[1] = msg
    BY <1>1, SingleQueue
  <1>4. \A r \in DOMAIN msg.cc \cup {Dm} : CursorOf(msg, r) = Cursor(r)
    BY <1>2 DEF CursorOf
  <1>5. ASSUME NEW i \in log, i.ts <= Cursor(i.room) PROVE Past(i)
    <2>1. /\ \A j \in store : j.room = i.room => j.ts <= Cursor(i.room)
          /\ Cursor(i.room) = 0 \/ \E j \in store : j.room = i.room /\ j.ts = Cursor(i.room)
      BY CursorIs DEF IInv, TypeOK
    <2>2. i.ts \in Nat /\ i.ts >= 1
      BY ItemIs
    <2>3. Cursor(i.room) # 0
      BY <1>5, <2>2
    <2>4. PICK j \in store : j.room = i.room /\ j.ts = Cursor(i.room)
      BY <2>1, <2>3
    <2>5. j.ts \in Nat
      BY ItemIs
    <2>6. CASE i.ts = j.ts
      BY <2>4, <2>6 DEF IInv, ItemsInv, Past
    <2>7. CASE i.ts # j.ts
      <3>1. i.ts < j.ts
        BY <1>5, <2>2, <2>4, <2>5, <2>7
      <3>2. CASE j.own
        BY <2>2, <2>4, <2>5, <3>1, <3>2 DEF Past
      <3>3. CASE ~j.own
        BY <2>4, <3>1, <3>3 DEF ResyncInv, StoreInOrder, Older
      <3> QED BY <3>2, <3>3
    <2> QED BY <2>6, <2>7
  <1>6. CursorsPast'
    <2> SUFFICES ASSUME NEW i \in log, i.room \in DOMAIN toService'[1].cc \cup {Dm},
                        i.ts <= CursorOf(toService'[1], i.room)
                 PROVE  Past(i)'
      BY <1>1 DEF CursorsPast, CursorOf
    <2>1. i.ts <= Cursor(i.room)
      BY <1>3, <1>4
    <2> QED BY <1>1, <1>5, <2>1 DEF Past
  <1>7. \A r : Cursor(r) <= now
    <2> TAKE r
    <2>1. Cursor(r) = 0 \/ \E j \in store : j.room = r /\ j.ts = Cursor(r)
      BY CursorIs DEF IInv, TypeOK
    <2>2. now \in Nat /\ \A j \in store : j.ts <= now
      BY ItemIs, BoundsAssumption DEF IInv, TypeOK
    <2> QED BY <2>1, <2>2
  <1>8. CursorsKnown'
    <2> SUFFICES ASSUME NEW r \in DOMAIN toService'[1].cc \cup {Dm}
                 PROVE  CursorOf(toService'[1], r) <= now'
      BY DEF CursorsKnown, CursorOf
    <2> QED BY <1>1, <1>3, <1>4, <1>7
  <1> QED BY <1>6, <1>8

\* What another user sends goes behind everything older of its room.
LEMMA OtherSendsSync ==
  ASSUME IInv, ResyncInv, IInv', NEW r \in Rooms, OtherSends(r)
  PROVE  ResyncInv'
  <1> DEFINE new == Item(r, now + 1, FALSE)
             e == [t |-> "items", items |-> <<new>>]
  <1>1. /\ now' = now + 1 /\ log' = log \cup {new} /\ e \in ToDaemon /\ new \in Items
        /\ toDaemon' = IF served /\ r \in member \cup {Dm} THEN Append(toDaemon, e) ELSE toDaemon
    BY OtherSendsIs DEF IInv
  <1>2. UNCHANGED <<store, since, toService, served, member, up>>
    BY DEF OtherSends, tableVars
  <1>3. new.ts = now + 1 /\ new.room = r
    BY DEF Item
  <1>4. e.items = <<new>> /\ e.t = "items"
    OBVIOUS
  <1> HIDE DEF e, new
  <1>5. Len(e.items) = 1 /\ e.items[1] = new
    BY <1>1, <1>4, SingleQueue
  <1>6. \A j \in log \cup store : ~Older(new, j) /\ j # new
    <2> TAKE j \in log \cup store
    <2>1. j.ts \in Nat /\ j.ts <= now /\ now \in Nat
      BY ItemIs
    <2> QED BY <1>3, <2>1 DEF Older
  <1>7. \A i : Past(i)' <=> Past(i)
    BY <1>2 DEF Past
  <1>8. toDaemon' = toDaemon \/ toDaemon' = Append(toDaemon, e)
    BY <1>1
  <1>9. AllSent'
    <2> SUFFICES ASSUME served, NEW i \in log', i.room \in member \cup {Dm}, ~Past(i)
                 PROVE  OnItsWay(i)'
      BY <1>2, <1>7 DEF AllSent
    <2>1. CASE i \in log
      <3>1. OnItsWay(i)
        BY <2>1 DEF ResyncInv, AllSent
      <3> QED BY <1>1, <1>8, <3>1, PushKeeps
    <2>2. CASE i = new
      <3>1. toDaemon' = Append(toDaemon, e) /\ toDaemon \in Seq(ToDaemon)
        BY <1>1, <1>3, <2>2 DEF IInv, TypeOK
      <3>2. Len(toDaemon) + 1 \in 1..Len(toDaemon') /\ toDaemon'[Len(toDaemon) + 1] = e
        BY <1>1, <3>1, AppendIs
      <3>3. Brings(e, i)
        BY <1>4, <1>5, <2>2 DEF Brings
      <3> QED BY <3>2, <3>3 DEF OnItsWay, Brings
    <2> QED BY <1>1, <2>1, <2>2
  <1>10. StoreInOrder'
    <2> SUFFICES ASSUME NEW j \in store, NEW i \in log', ~j.own, Older(i, j)
                 PROVE  Past(i)
      BY <1>2, <1>7 DEF StoreInOrder, Older
    <2>1. i \in log
      BY <1>1, <1>6
    <2> QED BY <2>1 DEF ResyncInv, StoreInOrder
  <1>11. SentInOrder'
    <2> SUFFICES ASSUME NEW n \in 1..Len(toDaemon'), toDaemon'[n].t = "items",
                        NEW k \in 1..Len(toDaemon'[n].items), NEW i \in log',
                        Older(i, toDaemon'[n].items[k]), ~Past(i)
                 PROVE  Ahead(i, n, k)'
      BY <1>7 DEF SentInOrder, Older
    <2>1. CASE n \in 1..Len(toDaemon)
      <3>1. toDaemon'[n] = toDaemon[n]
        BY <1>1, <1>8, <2>1, PushKeeps
      <3>2. toDaemon[n].items[k] \in log
        BY <2>1, <3>1 DEF IInv, ItemsInv
      <3>3. i \in log
        BY <1>1, <1>6, <3>1, <3>2
      <3>4. Ahead(i, n, k)
        BY <2>1, <3>1, <3>3 DEF ResyncInv, SentInOrder
      <3> QED BY <1>1, <1>8, <2>1, <3>4, PushKeeps
    <2>2. CASE n \notin 1..Len(toDaemon)
      <3>1. toDaemon' = Append(toDaemon, e) /\ toDaemon'[n] = e /\ \A m \in 1..Len(toDaemon) : m < n
        BY <1>1, <1>8, <2>2, PushKeeps
      <3>2. served /\ r \in member \cup {Dm}
        <4>1. toDaemon' # toDaemon
          BY <2>2
        <4> QED BY <1>1, <4>1
      <3>3. toDaemon'[n].items[k] = new
        BY <1>5, <3>1
      <3>4. i.room = r /\ i \in log
        <4>1. i.room = r /\ i.ts < now + 1
          BY <1>3, <3>3 DEF Older
        <4>2. now \in Nat
          BY BoundsAssumption DEF IInv, TypeOK
        <4>3. i # new
          BY <1>3, <4>1, <4>2
        <4> QED BY <1>1, <4>1, <4>3
      <3>5. OnItsWay(i)
        BY <3>2, <3>4 DEF ResyncInv, AllSent
      <3>6. PICK m \in 1..Len(toDaemon) : Brings(toDaemon[m], i)
        BY <3>5 DEF OnItsWay
      <3>7. m \in 1..Len(toDaemon') /\ toDaemon'[m] = toDaemon[m] /\ m < n
        BY <1>1, <1>8, <3>1, PushKeeps
      <3> QED BY <3>6, <3>7 DEF Ahead, Brings
    <2> QED BY <2>1, <2>2
  <1>12. CursorsPast'
    <2> SUFFICES ASSUME up, ~served, NEW i \in log', i.room \in DOMAIN toService[1].cc \cup {Dm},
                        i.ts <= CursorOf(toService[1], i.room)
                 PROVE  Past(i)
      BY <1>2, <1>7 DEF CursorsPast, CursorOf
    <2>1. CASE i \in log
      BY <2>1 DEF ResyncInv, CursorsPast
    <2>2. CASE i = new
      <3>1. CursorOf(toService[1], i.room) <= now /\ toService[1] \in ConnectObject
        BY DEF ResyncInv, CursorsKnown, IInv, SessionInv
      <3>a. CursorOf(toService[1], i.room) \in Cursors
        BY <3>1, ConnectObjectIs
      <3>2. CursorOf(toService[1], i.room) \in Cursors /\ now \in Nat /\ MaxTime \in Nat
        BY <3>a, BoundsAssumption DEF IInv, TypeOK
      <3>3. i.ts = now + 1
        BY <1>3, <2>2
      <3> DEFINE cursor == CursorOf(toService[1], i.room)
      <3>4. cursor <= now /\ cursor \in Int /\ i.ts <= cursor
        BY <3>1, <3>2 DEF Cursors
      <3> HIDE DEF cursor
      <3> QED BY <3>2, <3>3, <3>4
    <2> QED BY <1>1, <2>1, <2>2
  <1>13. CursorsKnown'
    <2> SUFFICES ASSUME up, ~served, NEW x \in DOMAIN toService[1].cc \cup {Dm}
                 PROVE  CursorOf(toService[1], x) <= now + 1
      BY <1>1, <1>2 DEF CursorsKnown, CursorOf
    <2>1. CursorOf(toService[1], x) <= now /\ toService[1] \in ConnectObject
      BY DEF ResyncInv, CursorsKnown, IInv, SessionInv
    <2>a. CursorOf(toService[1], x) \in Cursors
      BY <2>1, ConnectObjectIs
    <2>2. CursorOf(toService[1], x) \in Cursors /\ now \in Nat /\ MaxTime \in Nat
      BY <2>a, BoundsAssumption DEF IInv, TypeOK
    <2> HIDE DEF CursorOf
    <2> QED BY <2>1, <2>2 DEF Cursors
  <1> QED BY <1>9, <1>10, <1>11, <1>12, <1>13 DEF ResyncInv

\* The backfill holds everything newer than the cursors, each room's oldest first.
LEMMA BackfillSync ==
  ASSUME IInv, ResyncInv, IInv', ServiceReads, ServiceReadsConnect(Head(toService)), ~served
  PROVE  AllSent' /\ StoreInOrder' /\ SentInOrder'
  <1> DEFINE msg == Head(toService)
  <1>1. /\ msg \in ConnectObject /\ msg = toService[1] /\ up /\ served'
    BY ReadsInOrder DEF IInv
  <1>2. member' = DOMAIN msg.cc /\ UNCHANGED <<store, log, since>>
    BY ConnectIsRead DEF ServiceReads, tableVars
  <1>a. \A i, j \in log : i.ts = j.ts => i = j
    BY DEF IInv, ItemsInv
  <1>3. PICK order \in Orders(News(msg)) :
          /\ Len(Batches(msg, order)) \in Nat
          /\ toDaemon'[1] = [t |-> "o", users |-> present]
          /\ \A k \in 1..Len(Batches(msg, order)) : toDaemon'[k + 1] = Batches(msg, order)[k]
          /\ \A n \in 1..Len(toDaemon') : n = 1 \/ \E k \in 1..Len(Batches(msg, order)) : n = k + 1
          /\ \A k \in 1..Len(Batches(msg, order)) : k + 1 \in 1..Len(toDaemon')
    BY <1>a, ConnectAnswered DEF IInv
  <1>4. /\ \A n \in 1..Len(Batches(msg, order)) :
             \E r \in DOMAIN msg.cc \cup {Dm} : Batches(msg, order)[n] = Batch(msg, r)
        /\ \A i \in log : i.room \in DOMAIN msg.cc \cup {Dm} /\ i.ts > CursorOf(msg, i.room)
             => \E n \in 1..Len(Batches(msg, order)) : Batches(msg, order)[n] = Batch(msg, i.room)
    BY <1>1, <1>a, BatchesAre DEF IInv, TypeOK
  <1>5. \A i : Past(i)' <=> Past(i)
    BY <1>2 DEF Past
  <1>6. \A r \in DOMAIN msg.cc \cup {Dm} :
          /\ Batch(msg, r).t = "items"
          /\ \A k \in 1..Len(Batch(msg, r).items) :
               /\ Batch(msg, r).items[k].room = r
               /\ \A i \in log : /\ i.room = r /\ i.ts > CursorOf(msg, r)
                                 /\ i.ts < Batch(msg, r).items[k].ts
                    => \E j \in 1..Len(Batch(msg, r).items) : j < k /\ Batch(msg, r).items[j] = i
          /\ \A i \in log : i.room = r /\ i.ts > CursorOf(msg, r)
               => \E k \in 1..Len(Batch(msg, r).items) : Batch(msg, r).items[k] = i
    <2>1. log \subseteq Items /\ msg \in ConnectObject
      BY <1>1 DEF IInv, TypeOK
    <2> HIDE DEF msg
    <2> QED BY <2>1, <1>a, BatchIs
  <1>7. \A i \in log : i.room \in DOMAIN msg.cc \cup {Dm} /\ ~Past(i) => i.ts > CursorOf(msg, i.room)
    <2> SUFFICES ASSUME NEW i \in log, i.room \in DOMAIN msg.cc \cup {Dm}, ~Past(i)
                 PROVE  i.ts > CursorOf(msg, i.room)
      OBVIOUS
    <2> HIDE DEF msg
    <2>1. ~(i.ts <= CursorOf(msg, i.room))
      BY <1>1 DEF ResyncInv, CursorsPast
    <2>2. i.ts \in Nat
      BY ItemIs
    <2>3. CursorOf(msg, i.room) \in Cursors
      BY <1>1, ConnectObjectIs
    <2>4. MaxTime \in Nat
      BY BoundsAssumption
    <2> QED BY <2>1, <2>2, <2>3, <2>4 DEF Cursors
  <1> HIDE DEF msg
  <1>8. AllSent'
    <2> SUFFICES ASSUME NEW i \in log, i.room \in DOMAIN msg.cc \cup {Dm}, ~Past(i)
                 PROVE  OnItsWay(i)'
      BY <1>2, <1>5 DEF AllSent
    <2>1. i.ts > CursorOf(msg, i.room)
      BY <1>7
    <2>2. PICK k \in 1..Len(Batch(msg, i.room).items) : Batch(msg, i.room).items[k] = i
      BY <1>6, <2>1
    <2>3. PICK n \in 1..Len(Batches(msg, order)) : Batches(msg, order)[n] = Batch(msg, i.room)
      BY <1>4, <2>1
    <2>4. n + 1 \in 1..Len(toDaemon') /\ toDaemon'[n + 1] = Batch(msg, i.room)
      BY <1>3, <2>3
    <2>5. Batch(msg, i.room).t = "items"
      BY <1>6
    <2> QED BY <2>2, <2>4, <2>5 DEF OnItsWay, Brings
  <1>9. StoreInOrder'
    <2>1. StoreInOrder
      BY DEF ResyncInv
    <2> QED BY <1>2, <1>5, <2>1 DEF StoreInOrder, Older
  <1>10. SentInOrder'
    <2> SUFFICES ASSUME NEW n \in 1..Len(toDaemon'), toDaemon'[n].t = "items",
                        NEW k \in 1..Len(toDaemon'[n].items), NEW i \in log,
                        Older(i, toDaemon'[n].items[k]), ~Past(i)
                 PROVE  Ahead(i, n, k)'
      BY <1>2, <1>5 DEF SentInOrder, Older
    <2>1. n # 1
      BY <1>3
    <2>2. PICK m \in 1..Len(Batches(msg, order)) : toDaemon'[n] = Batches(msg, order)[m]
      BY <1>3, <2>1
    <2>3. PICK r \in DOMAIN msg.cc \cup {Dm} : toDaemon'[n] = Batch(msg, r)
      BY <1>4, <2>2
    <2>4. k \in 1..Len(Batch(msg, r).items) /\ Older(i, Batch(msg, r).items[k])
      BY <2>3
    <2>5. i.room = r /\ i.ts < Batch(msg, r).items[k].ts
      BY <1>6, <2>4 DEF Older
    <2>6. i.ts > CursorOf(msg, r)
      BY <1>7, <2>5
    <2>7. \E j \in 1..Len(Batch(msg, r).items) : j < k /\ Batch(msg, r).items[j] = i
      BY <1>6, <2>4, <2>5, <2>6
    <2> QED BY <2>3, <2>7 DEF Ahead
  <1> QED BY <1>8, <1>9, <1>10

\* However much of a batch is stored, what is older than an item of it is stored before it.
LEMMA PrefixStored ==
  ASSUME IInv, ResyncInv, toDaemon # <<>>, Head(toDaemon).t = "items",
         NEW k \in 0..Len(Head(toDaemon).items),
         log' = log, since' = since, store' = store \cup Inserted(Head(toDaemon).items, k)
  PROVE  StoreInOrder' /\ \A i \in log : Past(i) => Past(i)'
  <1> DEFINE msg == Head(toDaemon)
  <1>1. /\ msg = toDaemon[1] /\ 1 \in 1..Len(toDaemon) /\ Len(msg.items) \in Nat
        /\ \A m \in 1..k : m \in 1..Len(msg.items)
    BY LoggedItems DEF IInv
  <1>2. store' = store \cup {msg.items[m] : m \in 1..k} /\ msg.t = "items"
    BY DEF Inserted
  <1> HIDE DEF msg
  <1>3. \A i \in log : Past(i) => Past(i)'
    BY <1>2 DEF Past
  <1>4. StoreInOrder'
    <2> SUFFICES ASSUME NEW j \in store', NEW i \in log, ~j.own, Older(i, j), ~Past(i)
                 PROVE  i \in store'
      BY <1>3 DEF StoreInOrder, Older, Past
    <2>1. j \notin store
      BY DEF ResyncInv, StoreInOrder
    <2>2. PICK m \in 1..k : j = msg.items[m]
      BY <1>2, <2>1
    <2>3. m \in 1..Len(msg.items)
      BY <1>1
    <2>4. Ahead(i, 1, m)
      BY <1>1, <1>2, <2>2, <2>3 DEF ResyncInv, SentInOrder
    <2>5. PICK l \in 1..Len(msg.items) : l < m /\ msg.items[l] = i
      <3>1. \A x \in 1..Len(toDaemon) : ~(x < 1)
        OBVIOUS
      <3> QED BY <1>1, <2>4, <3>1 DEF Ahead
    <2>6. l \in 1..k
      BY <1>1, <2>5
    <2> QED BY <1>2, <2>5, <2>6
  <1> QED BY <1>3, <1>4

LEMMA DispatchSync ==
  ASSUME IInv, ResyncInv, IInv', Dispatch
  PROVE  AllSent' /\ StoreInOrder' /\ SentInOrder'
  <1> DEFINE msg == Head(toDaemon)
             rest == Tail(toDaemon)
  <1>1. /\ toDaemon # <<>> /\ toDaemon' = rest /\ UNCHANGED <<log, since, served, member>>
        /\ store' = IF msg.t = "items" THEN store \cup Inserted(msg.items, Len(msg.items)) ELSE store
    BY DEF Dispatch, serviceVars
  <1>2. toDaemon \in Seq(ToDaemon)
    BY DEF IInv, TypeOK
  <1>3. /\ \A n \in 1..Len(rest) : rest[n] = toDaemon[n + 1] /\ n + 1 \in 1..Len(toDaemon) /\ n \in Nat
        /\ msg = toDaemon[1] /\ msg \in ToDaemon
        /\ \A m \in 1..Len(toDaemon) : m = 1 \/ (m - 1 \in 1..Len(rest) /\ toDaemon[m] = rest[m - 1])
    BY <1>1, <1>2, TailIs
  <1>4. StoreInOrder' /\ \A i \in log : Past(i) => Past(i)'
    <2>1. CASE msg.t = "items"
      <3>1. Len(msg.items) \in Nat
        BY <1>3, <2>1, MessagesDiffer, LenProperties
      <3>2. Len(msg.items) \in 0..Len(msg.items)
        BY <3>1
      <3>3. log' = log /\ since' = since /\ store' = store \cup Inserted(msg.items, Len(msg.items))
        BY <1>1, <2>1
      <3> QED BY <1>1, <2>1, <3>2, <3>3, PrefixStored
    <2>2. CASE msg.t # "items"
      <3>1. store' = store
        BY <1>1, <2>2
      <3>2. \A i : Past(i) <=> Past(i)'
        BY <1>1, <3>1 DEF Past
      <3> QED BY <1>1, <3>1, <3>2 DEF ResyncInv, StoreInOrder, Older
    <2> QED BY <2>1, <2>2
  <1>5. \A i : Brings(msg, i) => i \in store'
    <2> SUFFICES ASSUME NEW i, Brings(msg, i) PROVE i \in store'
      OBVIOUS
    <2> HIDE DEF msg
    <2>1. msg.t = "items" /\ \E k \in 1..Len(msg.items) : msg.items[k] = i
      BY DEF Brings
    <2>2. i \in Inserted(msg.items, Len(msg.items))
      BY <2>1 DEF Inserted
    <2> QED BY <1>1, <2>1, <2>2
  <1> HIDE DEF msg, rest
  <1>6. AllSent'
    <2> SUFFICES ASSUME served, NEW i \in log, i.room \in member \cup {Dm}, ~(Past(i)')
                 PROVE  OnItsWay(i)'
      BY <1>1 DEF AllSent
    <2>1. ~Past(i) /\ i \notin store'
      BY <1>4 DEF Past
    <2>2. OnItsWay(i)
      BY <2>1 DEF ResyncInv, AllSent
    <2>3. PICK m \in 1..Len(toDaemon) : Brings(toDaemon[m], i)
      BY <2>2 DEF OnItsWay
    <2>4. m # 1
      BY <1>3, <1>5, <2>1, <2>3
    <2>5. m - 1 \in 1..Len(toDaemon') /\ toDaemon'[m - 1] = toDaemon[m]
      BY <1>1, <1>3, <2>4
    <2> QED BY <2>3, <2>5 DEF OnItsWay, Brings
  <1>7. SentInOrder'
    <2> SUFFICES ASSUME NEW n \in 1..Len(toDaemon'), toDaemon'[n].t = "items",
                        NEW k \in 1..Len(toDaemon'[n].items), NEW i \in log,
                        Older(i, toDaemon'[n].items[k]), ~(Past(i)')
                 PROVE  Ahead(i, n, k)'
      BY <1>1 DEF SentInOrder, Older
    <2>1. ~Past(i) /\ i \notin store'
      BY <1>4 DEF Past
    <2>2. n + 1 \in 1..Len(toDaemon) /\ toDaemon'[n] = toDaemon[n + 1] /\ n \in Nat
      BY <1>1, <1>3
    <2>3. Ahead(i, n + 1, k)
      BY <2>1, <2>2 DEF ResyncInv, SentInOrder
    <2>4. CASE \E j \in 1..Len(toDaemon[n + 1].items) : j < k /\ toDaemon[n + 1].items[j] = i
      BY <2>2, <2>4 DEF Ahead
    <2>5. CASE \E m \in 1..Len(toDaemon) : m < n + 1 /\ Brings(toDaemon[m], i)
      <3>1. PICK m \in 1..Len(toDaemon) : m < n + 1 /\ Brings(toDaemon[m], i)
        BY <2>5
      <3>2. m # 1
        BY <1>3, <1>5, <2>1, <3>1
      <3>3. m - 1 \in 1..Len(toDaemon') /\ toDaemon'[m - 1] = toDaemon[m]
        BY <1>1, <1>3, <3>2
      <3>4. m - 1 < n
        <4>1. m \in Int
          OBVIOUS
        <4> QED BY <2>2, <3>1, <4>1
      <3> QED BY <3>1, <3>3, <3>4 DEF Ahead, Brings
    <2> QED BY <2>3, <2>4, <2>5 DEF Ahead
  <1> QED BY <1>4, <1>6, <1>7

LEMMA FirstStays ==
  ASSUME IInv, up, ~served, NEW e \in ToService, toService' = Append(toService, e)
  PROVE  toService'[1] = toService[1]
  <1>1. toService # <<>> /\ toService \in Seq(ToService)
    BY DEF IInv, SessionInv, TypeOK
  <1>2. 1 \in 1..Len(toService)
    BY <1>1, TailIs
  <1> QED BY <1>1, <1>2, AppendIs

\* Steps of the daemon that leave the service and its messages alone.
LEMMA StillKeeps ==
  ASSUME IInv, ResyncInv, IInv', toDaemon' = toDaemon, store \subseteq store',
         \A j \in store' : j \in store \/ j.own, UNCHANGED <<served, member, log, since>>
  PROVE  AllSent' /\ StoreInOrder' /\ SentInOrder'
  <1> DEFINE e == [t |-> "o", users |-> {}]
  <1>1. e \in ToDaemon /\ e.t # "items"
    BY DEF ToDaemon, OnlineList
  <1> HIDE DEF e
  <1>2. \A c \in Channels : since[c] <= since'[c]
    <2>1. \A c \in Channels : since[c] \in 0..MaxTime
      BY DEF IInv, TypeOK
    <2>2. \A t \in 0..MaxTime : t <= t
      BY BoundsAssumption
    <2> QED BY <2>1, <2>2
  <1> QED BY <1>1, <1>2, QuietKeeps

\* Once the connect object was read, what the heads sent brings nothing that is missing,
\* and a channel is not missing what was there before it was subscribed to.
LEMMA ReadsSync ==
  ASSUME IInv, ResyncInv, IInv', ServiceReads
  PROVE  ResyncInv'
  <1> DEFINE msg == Head(toService)
  <1>1. /\ store' = store /\ msg \in ToService /\ served'
        /\ msg = toService[1] /\ 1 \in 1..Len(toService)
        /\ \/ ~served /\ ServiceReadsConnect(msg)
           \/ served /\ (ServiceReadsItem(msg) \/ ServiceReadsCs(msg))
    BY ReadsInOrder DEF IInv, ServiceReads, tableVars
  <1>2. CursorsPast' /\ CursorsKnown'
    BY <1>1 DEF CursorsPast, CursorsKnown
  <1>3. CASE ~served /\ ServiceReadsConnect(msg)
    BY <1>2, <1>3, BackfillSync DEF ResyncInv
  <1>4. CASE served /\ ServiceReadsItem(msg)
    <2> DEFINE e == [t |-> "o", users |-> {}]
    <2>1. e \in ToDaemon /\ e.t # "items"
      BY DEF ToDaemon, OnlineList
    <2> HIDE DEF e
    <2>2. /\ log' = log \cup {msg.item} /\ msg.item \in store
          /\ UNCHANGED <<toDaemon, served, member, since>>
      BY <1>1, <1>4 DEF ServiceReadsItem, IInv, ItemsInv
    <2> HIDE DEF msg
    <2>3. \A c \in Channels : since[c] <= since'[c]
      <3>1. \A c \in Channels : since[c] \in 0..MaxTime
        BY DEF IInv, TypeOK
      <3>2. \A t \in 0..MaxTime : t <= t
        BY BoundsAssumption
      <3> QED BY <2>2, <3>1, <3>2
    <2> QED BY <1>1, <1>2, <2>1, <2>2, <2>3, QuietKeeps DEF ResyncInv
  <1>5. CASE served /\ ServiceReadsCs(msg)
    <2> DEFINE e == [t |-> "cs", cid |-> msg.cid, s |-> msg.s]
    <2>1. /\ msg.t = "cs" /\ toDaemon' = Append(toDaemon, e) /\ log' = log /\ served' = served
          /\ member' = IF msg.s THEN member \cup {msg.cid} ELSE member \ {msg.cid}
          /\ since' = IF msg.s /\ msg.cid \notin member THEN [since EXCEPT ![msg.cid] = now] ELSE since
      BY <1>5 DEF ServiceReadsCs
    <2>2. e \in ToDaemon /\ e.t # "items" /\ msg.cid \in Channels
      BY <1>1, <2>1, MessagesDiffer DEF ToDaemon, Subscription
    <2> HIDE DEF e, msg
    <2>3. \A c \in Channels : since[c] <= since'[c]
      <3>1. \A c \in Channels : since[c] \in 0..MaxTime /\ since[c] <= now
        BY DEF IInv, TypeOK, ItemsInv
      <3>2. \A t \in 0..MaxTime : t <= t
        BY BoundsAssumption
      <3>3. since \in [Channels -> 0..MaxTime]
        BY DEF IInv, TypeOK
      <3>4. \A c \in Channels : since'[c] = since[c] \/ since'[c] = now
        BY <2>1, <3>3
      <3> QED BY <3>1, <3>2, <3>4
    <2>4. \A i \in log : i.room \in member' => i.room \in member \/ i.ts <= since'[i.room]
      <3> SUFFICES ASSUME NEW i \in log, i.room \in member', i.room \notin member
                   PROVE  i.ts <= since'[i.room]
        OBVIOUS
      <3>1. i.room = msg.cid /\ msg.s
        BY <2>1
      <3>2. since \in [Channels -> 0..MaxTime]
        BY DEF IInv, TypeOK
      <3>3. since'[i.room] = now
        BY <2>1, <2>2, <3>1, <3>2
      <3> QED BY <3>3, ItemIs
    <2> QED BY <1>1, <1>2, <2>1, <2>2, <2>3, <2>4, QuietKeeps DEF ResyncInv
  <1> QED BY <1>1, <1>3, <1>4, <1>5

LEMMA GoneSync ==
  ASSUME IInv, ResyncInv, LinkGone, StoreInOrder'
  PROVE  ResyncInv'
  <1>1. ~up' /\ ~served' /\ 1..Len(toDaemon') = {}
    BY EmptyQueue DEF LinkGone
  <1>2. AllSent'
    BY <1>1 DEF AllSent
  <1>3. SentInOrder'
    BY <1>1 DEF SentInOrder
  <1>4. CursorsPast' /\ CursorsKnown'
    BY <1>1 DEF CursorsPast, CursorsKnown
  <1> QED BY <1>2, <1>3, <1>4 DEF ResyncInv

LEMMA NextResync == IInv /\ ResyncInv /\ [Next]_vars => ResyncInv'
  <1> SUFFICES ASSUME IInv, ResyncInv, [Next]_vars PROVE ResyncInv'
    OBVIOUS
  <1>0. IInv'
    BY NextIInv
  <1>1. CASE UNCHANGED vars \/ \E n \in 1..MaxCalls : CallSucceeds(n) \/ CallFails(n)
    <2>1. UNCHANGED <<store, up, toService, toDaemon, log, now, served, member, since>>
      BY <1>1 DEF vars, tableVars, callVars, serviceVars, CallSucceeds, CallFails
    <2>2. AllSent' /\ StoreInOrder' /\ SentInOrder'
      BY <1>0, <2>1, StillKeeps
    <2>3. CursorsPast' /\ CursorsKnown'
      BY <1>0, <2>1, CursorsKeep
    <2> QED BY <2>2, <2>3 DEF ResyncInv
  <1>2. CASE Connect
    <2>1. UNCHANGED <<store, toDaemon, log, served, member, since>>
      BY <1>2 DEF Connect, tableVars, serviceVars
    <2>2. AllSent' /\ StoreInOrder' /\ SentInOrder'
      BY <1>0, <2>1, StillKeeps
    <2> QED BY <1>0, <1>2, <2>2, ConnectSync DEF ResyncInv
  <1>3. ASSUME NEW r \in Rooms, HeadSends(r) PROVE ResyncInv'
    <2> DEFINE new == Item(r, now + 1, TRUE)
               e == [t |-> "item", item |-> new]
    <2>1. /\ UNCHANGED <<up, toDaemon, log, served, member, since>> /\ now' = now + 1
          /\ store' = store \cup {new} /\ toService' = IF up THEN Append(toService, e) ELSE toService
      BY <1>3 DEF HeadSends
    <2>2. new.own = TRUE
      BY DEF Item
    <2>3. new \in Items
      BY <1>0, <2>1 DEF IInv, TypeOK
    <2>4. e \in ToService
      BY <2>3 DEF ToService
    <2> HIDE DEF e, new
    <2>5. AllSent' /\ StoreInOrder' /\ SentInOrder'
      BY <1>0, <2>1, <2>2, StillKeeps
    <2>6. up /\ ~served => toService'[1] = toService[1]
      BY <2>1, <2>4, FirstStays
    <2>7. CursorsPast' /\ CursorsKnown'
      BY <1>0, <2>1, <2>6, CursorsKeep
    <2> QED BY <2>5, <2>7 DEF ResyncInv
  <1>4. ASSUME NEW c \in Channels, NEW s \in BOOLEAN, HeadCalls(c, s) PROVE ResyncInv'
    <2> DEFINE e == [t |-> "cs", cid |-> c, s |-> s]
    <2>1. /\ UNCHANGED <<store, up, toDaemon, log, now, served, member, since>>
          /\ toService' = Append(toService, e)
      BY <1>4 DEF HeadCalls, tableVars, serviceVars
    <2>2. e \in ToService
      BY DEF ToService, Subscription
    <2> HIDE DEF e
    <2>3. AllSent' /\ StoreInOrder' /\ SentInOrder'
      BY <1>0, <2>1, StillKeeps
    <2>4. up /\ ~served => toService'[1] = toService[1]
      BY <2>1, <2>2, FirstStays
    <2>5. CursorsPast' /\ CursorsKnown'
      BY <1>0, <2>1, <2>4, CursorsKeep
    <2> QED BY <2>3, <2>5 DEF ResyncInv
  <1>5. CASE Dispatch
    <2>1. UNCHANGED <<up, toService, log, now, served, since>>
      BY <1>5 DEF Dispatch, serviceVars
    <2>2. store \subseteq store'
      BY <1>5 DEF Dispatch
    <2>3. CursorsPast' /\ CursorsKnown'
      BY <1>0, <2>1, <2>2, CursorsKeep
    <2> QED BY <1>0, <1>5, <2>3, DispatchSync DEF ResyncInv
  <1>6. CASE Drop
    <2>1. LinkGone /\ store' = store /\ UNCHANGED <<log, since>>
      BY <1>6 DEF Drop, LinkGone, tableVars
    <2>2. StoreInOrder'
      BY <2>1 DEF ResyncInv, StoreInOrder, Older, Past
    <2> QED BY <2>1, <2>2, GoneSync
  <1>7. ASSUME NEW k \in 0..MaxTime, Crash(k) PROVE ResyncInv'
    <2>1. /\ LinkGone /\ toDaemon # <<>> /\ Head(toDaemon).t = "items" /\ k < Len(Head(toDaemon).items)
          /\ store' = store \cup Inserted(Head(toDaemon).items, k) /\ log' = log /\ since' = since
      BY <1>7 DEF Crash, LinkGone
    <2>2. Head(toDaemon) \in ToDaemon
      BY <2>1, TailIs DEF IInv, TypeOK
    <2>3. Len(Head(toDaemon).items) \in Nat
      BY <2>1, <2>2, MessagesDiffer, LenProperties
    <2>4. k \in 0..Len(Head(toDaemon).items)
      BY <2>1, <2>3, BoundsAssumption
    <2>5. StoreInOrder'
      BY <2>1, <2>4, PrefixStored
    <2> QED BY <2>1, <2>5, GoneSync
  <1>8. CASE ServiceReads
    BY <1>0, <1>8, ReadsSync
  <1>9. ASSUME NEW r \in Rooms, OtherSends(r) PROVE ResyncInv'
    BY <1>0, <1>9, OtherSendsSync
  <1>10. ASSUME NEW u \in Users, ComesOrGoes(u) PROVE ResyncInv'
    <2> DEFINE e == [t |-> IF u \in present THEN "ud" ELSE "uc", user |-> u]
    <2>1. /\ now' = now + 1 /\ e \in ToDaemon /\ (toDaemon' = toDaemon \/ toDaemon' = Append(toDaemon, e))
      BY <1>10, ComesOrGoesIs DEF IInv
    <2>2. e.t # "items"
      OBVIOUS
    <2> HIDE DEF e
    <2>3. UNCHANGED <<store, up, toService, log, served, member, since>>
      BY <1>10 DEF ComesOrGoes, tableVars
    <2>4. \A c \in Channels : since[c] <= since'[c]
      <3>1. \A c \in Channels : since[c] \in 0..MaxTime
        BY DEF IInv, TypeOK
      <3>2. \A t \in 0..MaxTime : t <= t
        BY BoundsAssumption
      <3> QED BY <2>3, <3>1, <3>2
    <2>5. AllSent' /\ StoreInOrder' /\ SentInOrder'
      BY <1>0, <2>1, <2>2, <2>3, <2>4, QuietKeeps
    <2>6. CursorsPast' /\ CursorsKnown'
      BY <1>0, <2>1, <2>3, CursorsKeep
    <2> QED BY <2>5, <2>6 DEF ResyncInv
  <1> QED BY <1>1, <1>2, <1>3, <1>4, <1>5, <1>6, <1>7, <1>8, <1>9, <1>10 DEF Next

\* getConnectCursors() and dispatch() together: once the backfill has arrived the store
\* has what the service has, through any sequence of drops and crashes in the middle of a
\* batch, but for what is older than the subscription or than an item of one's own.
THEOREM ResyncHolds == Spec => []ResyncComplete
  <1>1. Init => ResyncInv
    <2> SUFFICES ASSUME Init PROVE ResyncInv
      OBVIOUS
    <2>1. log = {} /\ ~served /\ ~up /\ 1..Len(toDaemon) = {}
      BY EmptyQueue, Zenon DEF Init
    <2> QED BY <2>1 DEF ResyncInv, AllSent, StoreInOrder, SentInOrder, CursorsPast, CursorsKnown
  <1>2. IInv /\ ResyncInv => ResyncComplete
    <2> SUFFICES ASSUME IInv, ResyncInv, Settled, NEW i \in log \ store, i.room \in member \cup {Dm}
                 PROVE  \/ i.room # Dm /\ i.ts <= since[i.room]
                        \/ \E j \in store : j.own /\ j.room = i.room /\ j.ts > i.ts
      BY DEF ResyncComplete
    <2>1. served /\ 1..Len(toDaemon) = {}
      BY EmptyQueue DEF Settled
    <2>2. ~OnItsWay(i)
      BY <2>1 DEF OnItsWay
    <2>3. Past(i)
      BY <2>1, <2>2 DEF ResyncInv, AllSent
    <2> QED BY <2>3 DEF Past
  <1> QED BY Inductive, NextResync, <1>1, <1>2, PTL DEF Spec
=============================================================================
