---------------------------- MODULE RfHeadProofs ----------------------------
(***************************************************************************)
(* Proofs about the RF terminal head: its types; that no line of a user is *)
(* lost or run twice; that a session listens for its room only and shows   *)
(* the room completely; that nobody who left is written to; and that O n   *)
(* opens what was listed as n.                                             *)
(*                                                                         *)
(* The text of a user, buffered and on its way, is one sequence of tokens  *)
(* to the proof (TextInv); chunks only move its parts.  What is read is    *)
(* proved per user (ViewInv), from the room, the listener and the history. *)
(***************************************************************************)
EXTENDS RfHead, FiniteSetTheorems, FunctionTheorems, SequenceTheorems,
        WellFoundedInduction, TLAPS

-----------------------------------------------------------------------------
(* Text: sequences of tokens, and the commands in them.                    *)

\* The commands of a text, by position.
At(text) == {k \in 1..Len(text) : text[k] \in Commands}

LEMMA TokensDiffer ==
  Newline \notin Commands /\ HeaderText \notin Commands /\ Newline # HeaderText
  BY DEF Newline, HeaderText, Commands

LEMMA AtFinite ==
  ASSUME NEW text \in Seq(Tokens)
  PROVE  IsFiniteSet(At(text)) /\ Typed(text) = Cardinality(At(text)) /\ Typed(text) \in Nat
  <1>1. IsFiniteSet(1..Len(text)) /\ At(text) \in SUBSET (1..Len(text))
    BY FS_Interval, LenProperties DEF At
  <1>2. IsFiniteSet(At(text))
    BY <1>1, FS_Subset
  <1> QED BY <1>2, FS_CardinalityType DEF Typed, At

\* A text that grows by one token.
LEMMA TypedAppend ==
  ASSUME NEW text \in Seq(Tokens), NEW token \in Tokens
  PROVE  /\ text \o <<token>> \in Seq(Tokens)
         /\ Typed(text \o <<token>>) = IF token \in Commands THEN Typed(text) + 1 ELSE Typed(text)
  <1> DEFINE longer == text \o <<token>>
  <1>1. /\ longer \in Seq(Tokens) /\ Len(longer) = Len(text) + 1 /\ Len(text) \in Nat
        /\ longer[Len(text) + 1] = token /\ \A k \in 1..Len(text) : longer[k] = text[k]
    OBVIOUS
  <1>2. At(longer) = IF token \in Commands THEN At(text) \cup {Len(text) + 1} ELSE At(text)
    <2> HIDE DEF longer
    <2> QED BY <1>1 DEF At
  <1>3. Len(text) + 1 \notin At(text)
    BY <1>1 DEF At
  <1> HIDE DEF longer
  <1>4. /\ Typed(longer) = Cardinality(At(longer)) /\ Typed(text) = Cardinality(At(text))
        /\ IsFiniteSet(At(text))
    BY <1>1, AtFinite
  <1>5. Cardinality(At(text) \cup {Len(text) + 1}) = Cardinality(At(text)) + 1
    BY <1>3, <1>4, FS_AddElement
  <1> QED BY <1>1, <1>2, <1>4, <1>5 DEF longer

\* A text without its first n tokens: what is after them stays.
LEMMA AfterIs ==
  ASSUME NEW text \in Seq(Tokens), NEW n \in 0..Len(text)
  PROVE  /\ After(text, n) \in Seq(Tokens) /\ Len(After(text, n)) = Len(text) - n
         /\ \A k \in 1..(Len(text) - n) : After(text, n)[k] = text[k + n]
  <1>1. Len(text) \in Nat /\ n \in Nat /\ \A k \in (n + 1)..Len(text) : text[k] \in Tokens
    BY LenProperties, ElementOfSeq
  <1>2. n + 1 \in Int /\ Len(text) \in Int
    BY <1>1
  <1>3. /\ SubSeq(text, n + 1, Len(text)) \in Seq(Tokens)
        /\ Len(SubSeq(text, n + 1, Len(text))) =
             IF n + 1 <= Len(text) THEN Len(text) - (n + 1) + 1 ELSE 0
        /\ \A k \in 1..(Len(text) - (n + 1) + 1) :
             SubSeq(text, n + 1, Len(text))[k] = text[n + 1 + k - 1]
    BY <1>1, <1>2, SubSeqProperties
  <1> QED BY <1>1, <1>3 DEF After

LEMMA TypedAfter ==
  ASSUME NEW text \in Seq(Tokens), NEW n \in 0..Len(text)
  PROVE  Typed(After(text, n)) = Cardinality({k \in At(text) : k > n})
  <1> DEFINE rest == After(text, n)
             later == {k \in At(text) : k > n}
             f == [k \in later |-> k - n]
  <1>1. /\ rest \in Seq(Tokens) /\ Len(rest) = Len(text) - n /\ Len(text) \in Nat /\ n \in Nat
        /\ \A k \in 1..(Len(text) - n) : rest[k] = text[k + n]
    BY AfterIs, LenProperties
  <1>2. IsFiniteSet(later)
    BY AtFinite, FS_Subset
  <1> HIDE DEF rest
  <1>3. \A k \in later : k \in Nat /\ k - n \in At(rest)
    BY <1>1 DEF At
  <1>4. \A j \in At(rest) : j + n \in later /\ (j + n) - n = j
    BY <1>1 DEF At
  <1>5. f \in Bijection(later, At(rest))
    <2>1. f \in [later -> At(rest)]
      BY <1>3
    <2>2. \A a, b \in later : f[a] = f[b] => a = b
      BY <1>1, <1>3
    <2>3. \A t \in At(rest) : \E s \in later : f[s] = t
      BY <1>4
    <2> HIDE DEF f, later
    <2> QED BY <2>1, <2>2, <2>3, Fun_IsBij
  <1>6. Cardinality(At(rest)) = Cardinality(later)
    BY <1>2, <1>5, FS_Bijection, Fun_ExistsBij
  <1> QED BY <1>1, <1>6, AtFinite DEF rest

\* What is dropped takes its commands with it and no other.
LEMMA TypedDrop ==
  ASSUME NEW text \in Seq(Tokens), NEW n \in 0..Len(text)
  PROVE  /\ Typed(After(text, n)) <= Typed(text)
         /\ (\A k \in 1..n : text[k] \notin Commands) => Typed(After(text, n)) = Typed(text)
  <1>1. {k \in At(text) : k > n} \subseteq At(text)
    OBVIOUS
  <1>2. Cardinality({k \in At(text) : k > n}) <= Cardinality(At(text))
    BY <1>1, AtFinite, FS_Subset
  <1>3. ASSUME \A k \in 1..n : text[k] \notin Commands
        PROVE  {k \in At(text) : k > n} = At(text)
    BY <1>3, LenProperties DEF At
  <1> QED BY <1>2, <1>3, AtFinite, TypedAfter

LEMMA TypedLine ==
  ASSUME NEW text \in Seq(Tokens), 2 <= Len(text), text[1] \in Commands, text[2] \notin Commands
  PROVE  Typed(text) = Typed(After(text, 2)) + 1 /\ Typed(After(text, 2)) \in Nat
  <1>1. {k \in At(text) : k > 2} = At(text) \ {1} /\ 1 \in At(text)
    BY LenProperties DEF At
  <1>2. Cardinality(At(text) \ {1}) = Cardinality(At(text)) - 1
    BY <1>1, AtFinite, FS_RemoveElement
  <1>3. 2 \in 0..Len(text)
    BY LenProperties
  <1>4. After(text, 2) \in Seq(Tokens)
    BY <1>3, AfterIs
  <1>5. Typed(After(text, 2)) = Cardinality(At(text) \ {1})
    BY <1>1, <1>3, TypedAfter
  <1> QED BY <1>2, <1>4, <1>5, AtFinite

\* Every command is followed by the end of its line.
Paired(text) ==
  \A k \in 1..Len(text) : text[k] \in Commands => k < Len(text) /\ text[k + 1] = Newline

LEMMA PairedAfter ==
  ASSUME NEW text \in Seq(Tokens), NEW n \in 0..Len(text), Paired(text)
  PROVE  Paired(After(text, n))
  <1> DEFINE rest == After(text, n)
  <1>1. /\ Len(rest) = Len(text) - n /\ Len(text) \in Nat /\ n \in Nat
        /\ \A k \in 1..(Len(text) - n) : rest[k] = text[k + n]
    BY AfterIs, LenProperties
  <1> HIDE DEF rest
  <1>2. ASSUME NEW k \in 1..Len(rest), rest[k] \in Commands
        PROVE  k < Len(rest) /\ rest[k + 1] = Newline
    <2>1. k + n \in 1..Len(text) /\ text[k + n] \in Commands /\ (k + n) + 1 = (k + 1) + n
      BY <1>1, <1>2
    <2>2. k + n < Len(text) /\ text[(k + 1) + n] = Newline
      BY <2>1 DEF Paired
    <2>3. k < Len(rest) /\ k + 1 \in 1..(Len(text) - n)
      BY <1>1, <2>2
    <2> QED BY <1>1, <2>2, <2>3
  <1> QED BY <1>2 DEF Paired, rest

LEMMA TokensTyped ==
  Newline \in Tokens /\ HeaderText \in Tokens /\ Commands \subseteq Tokens
  BY DEF Tokens

LEMMA PairedLine ==
  ASSUME NEW text \in Seq(Tokens), Paired(text), NEW cmd \in Commands
  PROVE  /\ text \o <<cmd, Newline>> \in Seq(Tokens) /\ Paired(text \o <<cmd, Newline>>)
         /\ Typed(text \o <<cmd, Newline>>) = Typed(text) + 1
  <1>1. cmd \in Tokens /\ Newline \in Tokens /\ Newline \notin Commands
    BY TokensTyped, TokensDiffer
  <1>2. text \o <<cmd, Newline>> = (text \o <<cmd>>) \o <<Newline>>
    BY <1>1
  <1>3. /\ text \o <<cmd>> \in Seq(Tokens) /\ (text \o <<cmd>>) \o <<Newline>> \in Seq(Tokens)
        /\ Typed((text \o <<cmd>>) \o <<Newline>>) = Typed(text \o <<cmd>>)
        /\ Typed(text \o <<cmd>>) = Typed(text) + 1
    BY <1>1, TypedAppend
  <1>4. Paired(text \o <<cmd, Newline>>)
    BY <1>1 DEF Paired
  <1> QED BY <1>2, <1>3, <1>4

LEMMA PairedNewline ==
  ASSUME NEW text \in Seq(Tokens), Paired(text)
  PROVE  /\ text \o <<Newline>> \in Seq(Tokens) /\ Paired(text \o <<Newline>>)
         /\ Typed(text \o <<Newline>>) = Typed(text)
  <1>1. Newline \in Tokens /\ Newline \notin Commands
    BY TokensTyped, TokensDiffer
  <1>2. Paired(text \o <<Newline>>)
    BY <1>1 DEF Paired
  <1> QED BY <1>1, <1>2, TypedAppend

\* Text cut in two, and text taken off its front part.
LEMMA AfterFront ==
  ASSUME NEW front \in Seq(Tokens), NEW back \in Seq(Tokens), NEW n \in 0..Len(front)
  PROVE  After(front, n) \o back = After(front \o back, n) /\ n \in 0..Len(front \o back)
  <1>1. /\ front \o back \in Seq(Tokens) /\ Len(front \o back) = Len(front) + Len(back)
        /\ \A i \in 1..(Len(front) + Len(back)) :
             (front \o back)[i] = IF i <= Len(front) THEN front[i] ELSE back[i - Len(front)]
        /\ Len(front) \in Nat /\ Len(back) \in Nat
    BY ConcatProperties, LenProperties
  <1>2. n \in 0..Len(front \o back)
    BY <1>1
  <1> DEFINE a == After(front, n)
             b == After(front \o back, n)
  <1>3. /\ a \in Seq(Tokens) /\ Len(a) = Len(front) - n
        /\ \A k \in 1..(Len(front) - n) : a[k] = front[k + n]
    BY AfterIs
  <1>4. /\ b \in Seq(Tokens) /\ Len(b) = Len(front) + Len(back) - n
        /\ \A k \in 1..(Len(front) + Len(back) - n) : b[k] = (front \o back)[k + n]
    <2> DEFINE text == front \o back
    <2>1. text \in Seq(Tokens) /\ n \in 0..Len(text) /\ Len(text) = Len(front) + Len(back)
      BY <1>1, <1>2
    <2> HIDE DEF text
    <2>2. /\ After(text, n) \in Seq(Tokens) /\ Len(After(text, n)) = Len(text) - n
          /\ \A k \in 1..(Len(text) - n) : After(text, n)[k] = text[k + n]
      BY <2>1, AfterIs
    <2> QED BY <2>1, <2>2 DEF text
  <1> HIDE DEF a, b
  <1>5. /\ a \o back \in Seq(Tokens) /\ Len(a \o back) = Len(a) + Len(back)
        /\ \A i \in 1..(Len(a) + Len(back)) :
             (a \o back)[i] = IF i <= Len(a) THEN a[i] ELSE back[i - Len(a)]
    BY <1>3, ConcatProperties
  <1>6. \A i \in 1..Len(b) : (a \o back)[i] = b[i]
    <2> TAKE i \in 1..Len(b)
    <2>1. i \in Nat /\ i >= 1 /\ i <= Len(front) + Len(back) - n
      BY <1>1, <1>4
    <2>2. b[i] = IF i + n <= Len(front) THEN front[i + n] ELSE back[i + n - Len(front)]
      <3>1. b[i] = (front \o back)[i + n] /\ i + n \in 1..(Len(front) + Len(back))
        BY <1>1, <1>4, <2>1
      <3> QED BY <1>1, <3>1
    <2>3. (a \o back)[i] = IF i <= Len(front) - n THEN a[i] ELSE back[i - (Len(front) - n)]
      BY <1>1, <1>3, <1>5, <2>1
    <2>4. i - (Len(front) - n) = i + n - Len(front)
      BY <1>1, <2>1
    <2> QED BY <1>1, <1>3, <2>1, <2>2, <2>3, <2>4
  <1>7. Len(a \o back) = Len(b)
    BY <1>1, <1>3, <1>4, <1>5
  <1>8. a \o back = b
    BY <1>4, <1>5, <1>6, <1>7, SeqEqual
  <1> QED BY <1>2, <1>8 DEF a, b

LEMMA Associates ==
  \A a, b, c \in Seq(Tokens) : (a \o b) \o c = a \o (b \o c)
  BY ConcatAssociative

LEMMA ChunkMoved ==
  ASSUME NEW front \in Seq(Tokens), NEW back \in Seq(Tokens), NEW k \in 1..Len(back)
  PROVE  /\ front \o SubSeq(back, 1, k) \in Seq(Tokens) /\ After(back, k) \in Seq(Tokens)
         /\ (front \o SubSeq(back, 1, k)) \o After(back, k) = front \o back
  <1>1. Len(back) \in Nat
    BY LenProperties
  <1>2. SubSeq(back, 1, k) \in Seq(Tokens)
    BY <1>1, ElementOfSeq, SubSeqProperties
  <1>3. After(back, k) \in Seq(Tokens)
    BY <1>1, AfterIs
  <1>4. 1 \in 1..(Len(back) + 1) /\ k \in (1 - 1)..Len(back) /\ Len(back) \in k..Len(back)
    BY <1>1
  <1>5. SubSeq(back, 1, k) \o After(back, k) = SubSeq(back, 1, Len(back))
    BY <1>4, ConcatAdjacentSubSeq DEF After
  <1>6. SubSeq(back, 1, k) \o After(back, k) = back
    BY <1>5, SubSeqFull
  <1>7. front \o SubSeq(back, 1, k) \in Seq(Tokens)
    BY <1>2, ConcatProperties
  <1> DEFINE chunk == SubSeq(back, 1, k)
             rest == After(back, k)
  <1>8. chunk \in Seq(Tokens) /\ rest \in Seq(Tokens) /\ chunk \o rest = back
    BY <1>2, <1>3, <1>6
  <1> HIDE DEF chunk, rest
  <1>9. (front \o chunk) \o rest = front \o (chunk \o rest)
    BY <1>8, Associates
  <1>10. (front \o chunk) \o rest = front \o back
    BY <1>8, <1>9
  <1> QED BY <1>3, <1>7, <1>10 DEF chunk, rest

\* First() finds the least of a set.
LEMMA FirstIs ==
  ASSUME NEW ks, ks \subseteq Nat, ks # {}
  PROVE  First(ks) \in ks /\ \A j \in ks : First(ks) <= j
  <1> DEFINE less == OpToRel(<, Nat)
  <1>1. IsWellFoundedOn(less, Nat)
    BY NatLessThanWellFounded
  <1>2. \A m, n \in Nat : m < n => <<m, n>> \in less
    BY DEF OpToRel
  <1> HIDE DEF less
  <1>3. PICK k \in ks : \A j \in ks : ~(<<j, k>> \in less)
    BY <1>1, WFMin
  <1>4. \A j \in ks : k <= j
    <2> TAKE j \in ks
    <2>1. j \in Nat /\ k \in Nat
      OBVIOUS
    <2>2. ~(j < k)
      BY <1>2, <1>3, <2>1, Zenon
    <2> QED BY <2>1, <2>2
  <1> QED BY <1>3, <1>4, Zenon DEF First

-----------------------------------------------------------------------------
(* The numbered list of channels.                                          *)

\* A finite set of numbers can be listed in ascending order: an element goes where
\* the number of those up to it says.
LEMMA Ascending ==
  ASSUME NEW S, S \subseteq Nat, IsFiniteSet(S)
  PROVE  \E l \in [1..Cardinality(S) -> S] : \A j, k \in DOMAIN l : j < k => l[j] < l[k]
  <1> DEFINE n == Cardinality(S)
             Upto(x) == {y \in S : y <= x}
             rank == [x \in S |-> Cardinality(Upto(x))]
  <1>1. n \in Nat /\ IsFiniteSet(1..n) /\ Cardinality(1..n) = n
    <2>1. n \in Nat
      BY FS_CardinalityType
    <2>2. IsFiniteSet(1..n) /\ Cardinality(1..n) = IF 1 > n THEN 0 ELSE n - 1 + 1
      BY <2>1, FS_Interval
    <2> QED BY <2>1, <2>2
  <1>2. \A x \in S : /\ IsFiniteSet(Upto(x)) /\ Cardinality(Upto(x)) <= n
                     /\ Cardinality(Upto(x)) \in Nat
    <2> TAKE x \in S
    <2>1. Upto(x) \in SUBSET S
      OBVIOUS
    <2> QED BY <2>1, FS_Subset, FS_CardinalityType
  <1>3. \A x \in S : Cardinality(Upto(x)) \in 1..n
    <2> TAKE x \in S
    <2>1. x \in Upto(x)
      OBVIOUS
    <2>2. Cardinality(Upto(x)) # 0
      BY <1>2, <2>1, FS_EmptySet
    <2>3. \A c \in Nat : c # 0 /\ c <= n => c \in 1..n
      BY <1>1
    <2> QED BY <1>2, <2>2, <2>3
  <1>4. \A x, z \in S : x < z => Cardinality(Upto(x)) < Cardinality(Upto(z))
    <2> SUFFICES ASSUME NEW x \in S, NEW z \in S, x < z
                 PROVE  Cardinality(Upto(x)) < Cardinality(Upto(z))
      OBVIOUS
    <2>a. x \in Nat /\ z \in Nat /\ \A y \in S : y \in Nat
      OBVIOUS
    <2>b. z <= z /\ ~(z <= x) /\ \A y \in Nat : y <= x => y <= z
      BY <2>a
    <2>1. Upto(x) \in SUBSET Upto(z) /\ z \in Upto(z) /\ z \notin Upto(x)
      BY <2>a, <2>b
    <2>2. /\ Cardinality(Upto(x)) <= Cardinality(Upto(z))
          /\ Cardinality(Upto(z)) = Cardinality(Upto(x)) => Upto(z) = Upto(x)
      BY <1>2, <2>1, FS_Subset
    <2> QED BY <1>2, <2>1, <2>2
  <1> HIDE DEF Upto
  <1>5. rank \in [S -> 1..n] /\ \A x, z \in S : x < z => rank[x] < rank[z]
    BY <1>3, <1>4
  <1>6. \A x, z \in S : rank[x] = rank[z] => x = z
    <2> SUFFICES ASSUME NEW x \in S, NEW z \in S, rank[x] = rank[z]
                 PROVE  x = z
      OBVIOUS
    <2> HIDE DEF rank, n
    <2>1. rank[x] \in Nat /\ rank[z] \in Nat /\ x \in Nat /\ z \in Nat
      BY <1>1, <1>5
    <2>2. ~(x < z) /\ ~(z < x)
      BY <1>5, <2>1
    <2> QED BY <2>1, <2>2
  <1> HIDE DEF rank
  <1>7. rank \in Surjection(S, 1..n)
    <2>1. rank \in Injection(S, 1..n)
      BY <1>5, <1>6, Fun_IsInj
    <2> QED BY <1>1, <2>1, FS_Injection
  <1>8. \A k \in 1..n : \E x \in S : rank[x] = k
    BY <1>7, Fun_SurjectionProperties
  <1> DEFINE l == [k \in 1..n |-> CHOOSE x \in S : rank[x] = k]
  <1>9. l \in [1..n -> S] /\ \A k \in 1..n : l[k] \in S /\ rank[l[k]] = k
    BY <1>8
  <1> HIDE DEF l
  <1>10. \A j, k \in 1..n : j < k => l[j] < l[k]
    <2> SUFFICES ASSUME NEW j \in 1..n, NEW k \in 1..n, j < k
                 PROVE  l[j] < l[k]
      OBVIOUS
    <2> HIDE DEF n
    <2>a. l[j] \in S /\ l[k] \in S
      BY <1>9
    <2>b. l[j] \in Nat /\ l[k] \in Nat
      BY <2>a
    <2>c. j \in Nat /\ k \in Nat
      BY <1>1
    <2>1. l[j] \in Nat /\ l[k] \in Nat /\ j \in Nat /\ k \in Nat
      BY <2>b, <2>c
    <2>2. l[k] < l[j] => k < j
      BY <1>5, <1>9
    <2>3. l[k] # l[j]
      BY <1>9, <2>1
    <2> QED BY <2>1, <2>2, <2>3
  <1>11. DOMAIN l = 1..n
    BY <1>9
  <1> QED BY <1>9, <1>10, <1>11

LEMMA ChannelListIs ==
  ASSUME known \subseteq Channels
  PROVE  /\ ChannelList \in Seq(Channels)
         /\ \A n \in 1..Len(ChannelList) : ChannelList[n] \in known
  <1>1. known \subseteq Nat /\ IsFiniteSet(known)
    BY ChannelsAssumption, FS_Subset
  <1>2. \E l \in [1..Cardinality(known) -> known] : \A j, k \in DOMAIN l : j < k => l[j] < l[k]
    BY <1>1, Ascending
  <1>3. ChannelList \in [1..Cardinality(known) -> known] /\ Cardinality(known) \in Nat
    BY <1>1, <1>2, FS_CardinalityType, Zenon DEF ChannelList
  <1>4. ChannelList \in Seq(known)
    BY <1>3, SeqDef
  <1> QED BY <1>4, SeqMonotonic, ElementOfSeq

-----------------------------------------------------------------------------
(***************************************************************************)
(* What a user's text is made of, from the header on.  Commands stay in    *)
(* one piece with the end of their line, the first empty line is the one   *)
(* after the header, and a line left in the buffer is one that its session *)
(* is about to be fed.                                                     *)
(***************************************************************************)

Text(u) == buffer[u] \o wire[u]

\* The header is complete at its second newline in a row and at no earlier one; no
\* command is in it.
HeaderAhead(text) ==
  /\ 2 * HeaderLines + 1 <= Len(text)
  /\ \A k \in 1..(2 * HeaderLines + 1) : text[k] \notin Commands
  /\ \A k \in 1..(2 * HeaderLines) :
       text[k] = Newline /\ text[k + 1] = Newline <=> k = 2 * HeaderLines

\* Commands are executed once.  (An empty header, which pdn does not send, could take
\* the first commands with it.)
Conserved(done, text, total) ==
  /\ done + Typed(text) <= total
  /\ HeaderLines # 0 => total = done + Typed(text)

TextOf(u) ==
  /\ sock[u] = "open" => Paired(Text(u)) /\ Conserved(fed[u], Text(u), typed[u])
  /\ sock[u] = "open" /\ session[u] = "none" => HeaderAhead(Text(u))
  /\ sock[u] # "open" => ~Ready(u)
  /\ sock[u] = "none" => session[u] = "none" /\ buffer[u] = <<>> /\ fed[u] = 0 /\ typed[u] = 0

TextInv == \A u \in Users : TextOf(u)

LEMMA TextType ==
  ASSUME TypeOK, NEW u \in Users
  PROVE  /\ buffer[u] \in Seq(Tokens) /\ wire[u] \in Seq(Tokens) /\ Text(u) \in Seq(Tokens)
         /\ fed[u] \in Nat /\ typed[u] \in Nat /\ typed[u] <= MaxLines
  <1>1. buffer[u] \in Seq(Tokens) /\ wire[u] \in Seq(Tokens)
    BY DEF TypeOK
  <1>2. fed[u] \in 0..MaxLines /\ typed[u] \in 0..MaxLines
    BY DEF TypeOK
  <1> QED BY <1>1, <1>2, ConcatProperties, BoundsAssumption DEF Text

\* A user nothing happens to.
LEMMA TextKept ==
  ASSUME NEW u \in Users, TextOf(u), sock'[u] = sock[u], session'[u] = session[u],
         buffer'[u] = buffer[u], wire'[u] = wire[u], typed'[u] = typed[u], fed'[u] = fed[u]
  PROVE  TextOf(u)'
  BY DEF TextOf, Text, Ready

\* The next line of the text, a command and its newline, is in the buffer.
LEMMA LineIs ==
  ASSUME TypeOK, NEW u \in Users, TextOf(u), NEW cmd \in Commands, Ready(u), buffer[u][1] = cmd
  PROVE  /\ sock[u] = "open" /\ session[u] = "live" /\ First(Breaks(buffer[u])) = 2
         /\ 2 \in 0..Len(buffer[u])
         /\ After(buffer[u], 2) \in Seq(Tokens)
         /\ After(buffer[u], 2) \o wire[u] = After(Text(u), 2)
         /\ Paired(After(Text(u), 2)) /\ Conserved(fed[u] + 1, After(Text(u), 2), typed[u])
         /\ fed[u] + 1 <= MaxLines
  <1> DEFINE b == buffer[u]
             w == wire[u]
  <1>1. /\ b \in Seq(Tokens) /\ w \in Seq(Tokens) /\ Text(u) = b \o w /\ Text(u) \in Seq(Tokens)
        /\ Len(b) \in Nat /\ Len(w) \in Nat
        /\ fed[u] \in Nat /\ typed[u] \in Nat /\ typed[u] <= MaxLines
    BY TextType, LenProperties DEF Text
  <1>2. sock[u] = "open" /\ session[u] = "live" /\ Breaks(b) # {}
    BY DEF TextOf, Ready
  <1>3. Paired(Text(u)) /\ Conserved(fed[u], Text(u), typed[u])
    BY <1>2 DEF TextOf
  <1>4. b[1] = cmd
    OBVIOUS
  <1> HIDE DEF b, w
  <1>5. PICK k \in 1..Len(b) : b[k] = Newline
    BY <1>2 DEF Breaks
  <1>6. Len(b) >= 2 /\ Newline \notin Commands
    BY <1>1, <1>4, <1>5, TokensDiffer
  <1>7. /\ Len(Text(u)) = Len(b) + Len(w)
        /\ Text(u)[1] = cmd /\ Text(u)[2] = b[2]
    BY <1>1, <1>4, <1>6, ConcatProperties
  <1>8. b[2] = Newline
    <2>1. 1 \in 1..Len(Text(u)) /\ 1 + 1 = 2
      BY <1>1, <1>6, <1>7
    <2> QED BY <1>3, <1>7, <2>1 DEF Paired
  <1>9. First(Breaks(b)) = 2
    <2>1. 2 \in Breaks(b) /\ 1 \notin Breaks(b)
      BY <1>1, <1>4, <1>6, <1>8 DEF Breaks
    <2>2. Breaks(b) \subseteq Nat
      BY <1>1 DEF Breaks
    <2>3. First(Breaks(b)) \in Breaks(b) /\ First(Breaks(b)) <= 2
      BY <2>1, <2>2, FirstIs
    <2>4. First(Breaks(b)) \in 1..Len(b)
      BY <2>3 DEF Breaks
    <2> QED BY <1>1, <2>1, <2>3, <2>4
  <1>10. 2 \in 0..Len(b) /\ 2 \in 0..Len(Text(u))
    BY <1>1, <1>6, <1>7
  <1>11. After(b, 2) \in Seq(Tokens) /\ After(b, 2) \o w = After(Text(u), 2)
    <2>1. After(b, 2) \in Seq(Tokens)
      BY <1>1, <1>10, AfterIs
    <2>2. After(b, 2) \o w = After(b \o w, 2)
      BY <1>1, <1>10, AfterFront
    <2> QED BY <1>1, <2>1, <2>2
  <1>12. Paired(After(Text(u), 2))
    BY <1>1, <1>3, <1>10, PairedAfter
  <1>13. Typed(Text(u)) = Typed(After(Text(u), 2)) + 1 /\ Typed(After(Text(u), 2)) \in Nat
    <2>1. 2 <= Len(Text(u)) /\ Text(u)[1] \in Commands /\ Text(u)[2] \notin Commands
      BY <1>1, <1>6, <1>7, <1>8
    <2> QED BY <1>1, <2>1, TypedLine
  <1>14. Conserved(fed[u] + 1, After(Text(u), 2), typed[u]) /\ fed[u] + 1 <= MaxLines
    <2> DEFINE rest == Typed(After(Text(u), 2))
    <2>1. rest \in Nat /\ fed[u] + (rest + 1) <= typed[u]
      BY <1>3, <1>13 DEF Conserved
    <2>2. HeaderLines # 0 => typed[u] = fed[u] + (rest + 1)
      BY <1>3, <1>13 DEF Conserved
    <2> HIDE DEF rest
    <2>a. MaxLines \in Nat
      BY BoundsAssumption
    <2>3. fed[u] + 1 + rest <= typed[u] /\ fed[u] + 1 <= MaxLines
      BY <1>1, <2>1, <2>a
    <2>4. HeaderLines # 0 => typed[u] = fed[u] + 1 + rest
      <3>a. fed[u] \in Nat /\ rest \in Nat
        BY <1>1, <2>1
      <3>1. fed[u] + (rest + 1) = (fed[u] + 1) + rest
        BY <3>a
      <3> QED BY <2>2, <3>1
    <2> QED BY <2>3, <2>4 DEF Conserved, rest
  <1> QED BY <1>2, <1>9, <1>10, <1>11, <1>12, <1>14 DEF b, w

-----------------------------------------------------------------------------
(* Types.                                                                  *)

ConnectionTypes ==
  /\ known \subseteq Channels /\ stored \subseteq Items /\ closing \in BOOLEAN
  /\ sock \in [Users -> {"none", "open", "destroyed", "closed"}]
  /\ session \in [Users -> {"none", "live", "disposed"}]
InputTypes ==
  /\ wire \in [Users -> Seq(Tokens)] /\ buffer \in [Users -> Seq(Tokens)]
  /\ typed \in [Users -> 0..MaxLines] /\ fed \in [Users -> 0..MaxLines]
ViewTypes ==
  /\ view \in [Users -> Rooms \cup {NoRoom}]
  /\ live \in [Users -> SUBSET Rooms]
  /\ shown \in [Users -> [Items -> 0..Many]] /\ again \in [Users -> SUBSET Items]
ListTypes ==
  /\ index \in [Users -> Seq(Channels)] /\ listed \in [Users -> Seq(Channels)]

LEMMA TypeParts ==
  TypeOK <=> ConnectionTypes /\ InputTypes /\ ViewTypes /\ ListTypes
  BY DEF TypeOK, ConnectionTypes, InputTypes, ViewTypes, ListTypes

LEMMA TypePartsNext ==
  TypeOK' <=> ConnectionTypes' /\ InputTypes' /\ ViewTypes' /\ ListTypes'
  BY DEF TypeOK, ConnectionTypes, InputTypes, ViewTypes, ListTypes

Header ==
  [k \in 1..(2 * HeaderLines) |-> IF k % 2 = 1 THEN HeaderText ELSE Newline] \o <<Newline>>

\* The header pdn writes: lines and the empty line, in which two newlines follow each
\* other at the end only.
LEMMA HeaderIs ==
  /\ Header \in Seq(Tokens) /\ Len(Header) = 2 * HeaderLines + 1
  /\ \A k \in 1..(2 * HeaderLines + 1) : Header[k] \notin Commands
  /\ \A k \in 1..(2 * HeaderLines) :
       Header[k] = Newline /\ Header[k + 1] = Newline <=> k = 2 * HeaderLines
  <1> DEFINE n == 2 * HeaderLines
             lines == [k \in 1..n |-> IF k % 2 = 1 THEN HeaderText ELSE Newline]
  <1>1. HeaderLines \in Nat /\ n \in Nat
    BY BoundsAssumption
  <1>2. lines \in Seq(Tokens) /\ Len(lines) = n
    BY <1>1, TokensTyped
  <1>3. \A k \in 1..n : lines[k] = IF k % 2 = 1 THEN HeaderText ELSE Newline
    OBVIOUS
  <1>4. n % 2 = 0 /\ \A k \in 1..n : k % 2 \in {0, 1} /\ (k % 2 = 0 => (k + 1) % 2 = 1)
    BY <1>1
  <1>5. <<Newline>> \in Seq(Tokens) /\ Len(<<Newline>>) = 1 /\ <<Newline>>[1] = Newline
    BY TokensTyped
  <1> HIDE DEF n, lines
  <1>6. /\ lines \o <<Newline>> \in Seq(Tokens) /\ Len(lines \o <<Newline>>) = n + 1
        /\ \A k \in 1..(n + 1) : (lines \o <<Newline>>)[k] = IF k <= n THEN lines[k] ELSE Newline
    BY <1>1, <1>2, <1>5, ConcatProperties
  <1>7. \A k \in 1..n : (lines \o <<Newline>>)[k] \notin Commands
    BY <1>1, <1>3, <1>6, TokensDiffer
  <1>8. (lines \o <<Newline>>)[n + 1] = Newline
    BY <1>1, <1>6
  <1>9. \A k \in 1..(n + 1) : (lines \o <<Newline>>)[k] \notin Commands
    <2>1. \A k \in 1..(n + 1) : k \in 1..n \/ k = n + 1
      BY <1>1
    <2> QED BY <1>7, <1>8, <2>1, TokensDiffer
  <1>10. ASSUME NEW k \in 1..n
         PROVE  (lines \o <<Newline>>)[k] = Newline /\ (lines \o <<Newline>>)[k + 1] = Newline
                <=> k = n
    <2>1. (lines \o <<Newline>>)[k] = IF k % 2 = 1 THEN HeaderText ELSE Newline
      BY <1>1, <1>3, <1>6
    <2>2. CASE k = n
      <3>1. k % 2 # 1
        <4>1. n % 2 = 0
          BY <1>4
        <4>2. k % 2 = n % 2
          BY <2>2
        <4> QED BY <4>1, <4>2
      <3>2. (lines \o <<Newline>>)[k] = Newline
        BY <2>1, <3>1
      <3>a. k + 1 = n + 1
        BY <2>2
      <3>3. (lines \o <<Newline>>)[k + 1] = Newline
        BY <1>8, <3>a
      <3> QED BY <2>2, <3>2, <3>3
    <2>3. CASE k # n
      <3>1. k + 1 \in 1..n
        BY <1>1, <2>3
      <3>2. (lines \o <<Newline>>)[k + 1] = IF (k + 1) % 2 = 1 THEN HeaderText ELSE Newline
        BY <1>1, <1>3, <1>6, <3>1
      <3> QED BY <1>4, <2>1, <2>3, <3>2, TokensDiffer
    <2> QED BY <2>2, <2>3
  <1> QED BY <1>6, <1>9, <1>10 DEF Header, n, lines

LEMMA InitType == Init => TypeOK
  <1> SUFFICES ASSUME Init PROVE TypeOK
    OBVIOUS
  <1>1. ConnectionTypes
    BY KnownAssumption DEF Init, ConnectionTypes
  <1>2. InputTypes
    BY BoundsAssumption DEF Init, InputTypes
  <1>3. ViewTypes
    BY DEF Init, ViewTypes, NothingShown, Many
  <1>4. ListTypes
    BY DEF Init, ListTypes
  <1> QED BY <1>1, <1>2, <1>3, <1>4, TypeParts

LEMMA SetViewType ==
  ASSUME TypeOK, NEW u \in Users, NEW v \in Rooms \cup {NoRoom}, NEW history, SetView(u, v, history)
  PROVE  ViewTypes'
  <1>1. view' \in [Users -> Rooms \cup {NoRoom}]
    BY DEF SetView, TypeOK
  <1>2. live' \in [Users -> SUBSET Rooms]
    BY DEF SetView, TypeOK
  <1>3. shown' \in [Users -> [Items -> 0..Many]]
    <2> DEFINE s == [i \in Items |-> IF i \in history THEN 1 ELSE 0]
    <2>1. s \in [Items -> 0..Many] /\ shown' = [shown EXCEPT ![u] = s]
      BY DEF SetView, Many
    <2> HIDE DEF s
    <2> QED BY <2>1 DEF TypeOK
  <1>4. again' \in [Users -> SUBSET Items]
    BY DEF SetView, TypeOK
  <1> QED BY <1>1, <1>2, <1>3, <1>4 DEF ViewTypes

LEMMA NumberingIs ==
  ASSUME TypeOK, NEW u \in Users
  PROVE  /\ Numbering(u) \in Seq(Channels) /\ ChannelList \in Seq(Channels)
         /\ \A n \in 1..Cardinality(Channels) : n <= Len(Numbering(u)) => Numbering(u)[n] \in Channels
  <1>1. Numbering(u) \in Seq(Channels) /\ ChannelList \in Seq(Channels)
    BY ChannelListIs DEF Numbering, TypeOK
  <1>2. Cardinality(Channels) \in Nat
    BY ChannelsAssumption, FS_CardinalityType
  <1> QED BY <1>1, <1>2, ElementOfSeq, LenProperties

\* A line fed is taken off the buffer and counted.
LEMMA LineType ==
  ASSUME TypeOK, NEW u \in Users, TextOf(u), NEW cmd \in Commands, Line(u, cmd)
  PROVE  InputTypes' /\ (stored' \subseteq Items => ConnectionTypes')
  <1>1. First(Breaks(buffer[u])) = 2 /\ After(buffer[u], 2) \in Seq(Tokens) /\ fed[u] + 1 <= MaxLines
    BY LineIs DEF Line
  <1>2. buffer' = [buffer EXCEPT ![u] = After(buffer[u], 2)]
    BY <1>1 DEF Line
  <1>3. fed' \in [Users -> 0..MaxLines]
    <2>1. fed[u] + 1 \in 0..MaxLines
      BY <1>1, TextType, BoundsAssumption
    <2> QED BY <2>1 DEF Line, TypeOK
  <1>4. buffer' \in [Users -> Seq(Tokens)]
    BY <1>1, <1>2 DEF TypeOK
  <1> QED BY <1>3, <1>4 DEF Line, TypeOK, InputTypes, ConnectionTypes

\* Every step keeps the types; TextInv bounds the commands executed by those typed.
LEMMA NextType == TypeOK /\ TextInv /\ [Next]_vars => TypeOK'
  <1> SUFFICES ASSUME TypeOK, TextInv, [Next]_vars PROVE TypeOK'
    OBVIOUS
  <1> USE DEF storeVars, inputVars
  <1>a. ConnectionTypes /\ InputTypes /\ ViewTypes /\ ListTypes
    BY TypeParts
  <1>c. UNCHANGED <<view, live, shown, again>> => ViewTypes'
    BY <1>a DEF ViewTypes
  <1>d. UNCHANGED <<index, listed>> => ListTypes'
    BY <1>a DEF ListTypes
  <1>f. UNCHANGED <<wire, buffer, typed, fed>> => InputTypes'
    BY <1>a DEF InputTypes
  <1>1. CASE CloseHead
    <2>1. ConnectionTypes'
      BY <1>1, <1>a DEF CloseHead, Destroyed, ConnectionTypes
    <2> QED BY <1>1, <2>1, <1>c, <1>d, <1>f, TypePartsNext DEF CloseHead
  <1>2. ASSUME NEW i \in Items, Arrive(i) PROVE TypeOK'
    <2>1. ConnectionTypes'
      BY <1>2, <1>a DEF Arrive, ConnectionTypes
    <2>2. ViewTypes'
      <3> DEFINE told == {u \in Users : RoomOf[i] \in live[u] /\ i \notin Mine /\ Spoken(u)}
      <3>1. ASSUME NEW u \in Users, shown[u][i] < Many
            PROVE  [shown[u] EXCEPT ![i] = @ + 1] \in [Items -> 0..Many]
        <4>1. shown[u] \in [Items -> 0..Many] /\ shown[u][i] + 1 \in 0..Many
          BY <3>1, <1>2, <1>a DEF ViewTypes, Many
        <4> QED BY <4>1
      <3>2. shown' = [u \in Users |-> IF u \in told /\ shown[u][i] < Many
                                      THEN [shown[u] EXCEPT ![i] = @ + 1] ELSE shown[u]]
        BY <1>2 DEF Arrive
      <3> HIDE DEF told
      <3>3. shown' \in [Users -> [Items -> 0..Many]]
        BY <3>1, <3>2, <1>a DEF ViewTypes
      <3>4. again' \in [Users -> SUBSET Items]
        BY <1>2, <1>a DEF Arrive, ViewTypes
      <3> QED BY <1>2, <3>3, <3>4, <1>a DEF Arrive, ViewTypes
    <2> QED BY <1>2, <2>1, <2>2, <1>d, <1>f, TypePartsNext DEF Arrive
  <1>3. ASSUME NEW c \in Channels, NewChannel(c) PROVE TypeOK'
    <2>1. ConnectionTypes'
      BY <1>3, <1>a DEF NewChannel, ConnectionTypes
    <2> QED BY <1>3, <2>1, <1>c, <1>d, <1>f, TypePartsNext DEF NewChannel
  <1>4. ASSUME NEW u \in Users, Connect(u) PROVE TypeOK'
    <2>1. ConnectionTypes'
      BY <1>4, <1>a DEF Connect, ConnectionTypes
    <2>2. InputTypes'
      <3>1. wire' = [wire EXCEPT ![u] = Header]
        BY <1>4 DEF Connect, Header
      <3> QED BY <1>4, <3>1, <1>a, HeaderIs DEF Connect, InputTypes
    <2> QED BY <1>4, <2>1, <2>2, <1>c, <1>d, TypePartsNext DEF Connect
  <1>5. ASSUME NEW u \in Users, Finish(u) PROVE TypeOK'
    <2>1. ConnectionTypes'
      BY <1>5, <1>a DEF Finish, ConnectionTypes
    <2>2. InputTypes'
      BY <1>5, <1>a DEF Finish, InputTypes
    <2>3. ViewTypes'
      BY <1>5, <1>a DEF Finish, Unlistened, ViewTypes
    <2> QED BY <1>5, <2>1, <2>2, <2>3, <1>d, TypePartsNext DEF Finish
  <1>6. ASSUME NEW u \in Users, TypeEmpty(u) PROVE TypeOK'
    <2>1. ConnectionTypes'
      BY <1>6, <1>a DEF TypeEmpty, ConnectionTypes
    <2>2. InputTypes'
      <3>1. <<Newline>> \in Seq(Tokens)
        BY TokensTyped
      <3> QED BY <1>6, <3>1, <1>a DEF TypeEmpty, InputTypes
    <2> QED BY <1>6, <2>1, <2>2, <1>c, <1>d, TypePartsNext DEF TypeEmpty
  <1>7. ASSUME NEW u \in Users, NEW cmd \in Commands, Type(u, cmd) PROVE TypeOK'
    <2>1. ConnectionTypes'
      BY <1>7, <1>a DEF Type, ConnectionTypes
    <2>2. InputTypes'
      <3>1. wire[u] \o <<cmd, Newline>> \in Seq(Tokens)
        <4>1. wire[u] \in Seq(Tokens) /\ <<cmd, Newline>> \in Seq(Tokens)
          BY <1>7, <1>a, TokensTyped DEF InputTypes
        <4> QED BY <4>1, ConcatProperties
      <3>2. typed[u] + 1 \in 0..MaxLines
        BY <1>7, TextType, BoundsAssumption DEF Type
      <3> QED BY <1>7, <3>1, <3>2, <1>a DEF Type, InputTypes
    <2> QED BY <1>7, <2>1, <2>2, <1>c, <1>d, TypePartsNext DEF Type
  <1>8. ASSUME NEW u \in Users, NEW k \in Chunks, ReadHeader(u, k) PROVE TypeOK'
    <2>1. ConnectionTypes'
      BY <1>8, <1>a DEF ReadHeader, ConnectionTypes
    <2>2. InputTypes'
      <3> DEFINE b == Received(u, k)
      <3>1. b \in Seq(Tokens) /\ After(wire[u], k) \in Seq(Tokens)
        BY <1>8, TextType, ChunkMoved DEF ReadHeader, Received
      <3>2. HeaderEnds(b) # {} => After(b, First(HeaderEnds(b)) + 1) \in Seq(Tokens)
        <4>1. Len(b) \in Nat /\ HeaderEnds(b) \subseteq Nat
          BY <3>1, LenProperties DEF HeaderEnds, Breaks
        <4>2. HeaderEnds(b) # {} => First(HeaderEnds(b)) \in HeaderEnds(b)
          BY <4>1, FirstIs
        <4>3. \A n \in HeaderEnds(b) : n + 1 \in 0..Len(b)
          BY <4>1 DEF HeaderEnds, Breaks
        <4> HIDE DEF b
        <4> QED BY <3>1, <4>2, <4>3, AfterIs
      <3> HIDE DEF b
      <3>3. buffer' = [buffer EXCEPT ![u] = IF HeaderEnds(b) = {} THEN b
                                            ELSE After(b, First(HeaderEnds(b)) + 1)]
        BY <1>8 DEF ReadHeader, b
      <3>4. buffer' \in [Users -> Seq(Tokens)]
        BY <3>1, <3>2, <3>3, <1>a DEF InputTypes
      <3>5. wire' \in [Users -> Seq(Tokens)]
        BY <1>8, <3>1, <1>a DEF ReadHeader, InputTypes
      <3> QED BY <1>8, <3>4, <3>5, <1>a DEF ReadHeader, InputTypes
    <2>3. UNCHANGED <<view, live, shown, again, index, listed>>
      BY <1>8 DEF ReadHeader
    <2> QED BY <2>1, <2>2, <2>3, <1>c, <1>d, TypePartsNext
  <1>9. ASSUME NEW u \in Users, NEW k \in Chunks, ReadLines(u, k) PROVE TypeOK'
    <2>1. ConnectionTypes'
      BY <1>9, <1>a DEF ReadLines, ConnectionTypes
    <2>2. InputTypes'
      <3>1. Received(u, k) \in Seq(Tokens) /\ After(wire[u], k) \in Seq(Tokens)
        BY <1>9, TextType, ChunkMoved DEF ReadLines, Received
      <3> QED BY <1>9, <3>1, <1>a DEF ReadLines, InputTypes
    <2> QED BY <1>9, <2>1, <2>2, <1>c, <1>d, TypePartsNext DEF ReadLines
  <1>11. ASSUME NEW u \in Users, Blank(u) PROVE TypeOK'
    <2>1. ConnectionTypes'
      BY <1>11, <1>a DEF Blank, ConnectionTypes
    <2>2. InputTypes'
      <3>1. buffer[u] \in Seq(Tokens) /\ buffer[u] # <<>>
        BY <1>11, TextType, LenProperties DEF Blank, Ready, Breaks
      <3>2. Tail(buffer[u]) \in Seq(Tokens)
        BY <3>1, HeadTailProperties
      <3> QED BY <1>11, <3>2, <1>a DEF Blank, InputTypes
    <2> QED BY <1>11, <2>1, <2>2, <1>c, <1>d, TypePartsNext DEF Blank
  <1>12. ASSUME NEW u \in Users, NEW cmd \in Commands, Line(u, cmd), stored' = stored
         PROVE  ConnectionTypes' /\ InputTypes'
    BY <1>12, <1>a, LineType DEF TextInv, ConnectionTypes
  <1>13. ASSUME NEW u \in Users, Menu(u) PROVE TypeOK'
    <2>1. ConnectionTypes' /\ InputTypes'
      BY <1>13, <1>12 DEF Menu, Commands
    <2>2. ViewTypes'
      BY <1>13, SetViewType DEF Menu
    <2> QED BY <1>13, <2>1, <2>2, <1>d, TypePartsNext DEF Menu
  <1>14. ASSUME NEW u \in Users, ListChannels(u) PROVE TypeOK'
    <2>1. ConnectionTypes' /\ InputTypes'
      BY <1>14, <1>12 DEF ListChannels, Commands
    <2>2. ListTypes'
      BY <1>14, <1>a, NumberingIs DEF ListChannels, ListTypes
    <2> QED BY <1>14, <2>1, <2>2, <1>c, TypePartsNext DEF ListChannels
  <1>15. ASSUME NEW u \in Users, Answer(u) PROVE TypeOK'
    <2>1. ConnectionTypes' /\ InputTypes'
      BY <1>15, <1>12 DEF Answer, Commands
    <2> QED BY <1>15, <2>1, <1>c, <1>d, TypePartsNext DEF Answer
  <1>16. ASSUME NEW u \in Users, NEW n \in 1..Cardinality(Channels), OpenChannel(u, n)
         PROVE  TypeOK'
    <2>1. ConnectionTypes' /\ InputTypes'
      BY <1>16, <1>12 DEF OpenChannel, Commands
    <2>2. ViewTypes'
      <3>1. CASE n <= Len(Numbering(u))
        <4>1. Numbering(u)[n] \in Rooms \cup {NoRoom}
          BY <3>1, NumberingIs DEF Rooms
        <4> QED BY <1>16, <3>1, <4>1, SetViewType DEF OpenChannel
      <3>2. CASE ~(n <= Len(Numbering(u)))
        BY <1>16, <3>2, <1>c DEF OpenChannel
      <3> QED BY <3>1, <3>2
    <2>3. ListTypes'
      BY <1>16, <1>a, NumberingIs DEF OpenChannel, ListTypes
    <2> QED BY <1>16, <2>1, <2>2, <2>3, TypePartsNext DEF OpenChannel
  <1>17. ASSUME NEW u \in Users, NEW p \in Peers, OpenDm(u, p) PROVE TypeOK'
    <2>1. ConnectionTypes' /\ InputTypes'
      BY <1>17, <1>12 DEF OpenDm, Commands
    <2>2. ViewTypes'
      BY <1>17, SetViewType DEF OpenDm, Rooms
    <2> QED BY <1>17, <2>1, <2>2, <1>d, TypePartsNext DEF OpenDm
  <1>18. ASSUME NEW u \in Users, NEW op \in Sends, Send(u, op) PROVE TypeOK'
    <2>1. [verb |-> op] \in Commands
      BY <1>18 DEF Commands, Sends
    <2>2. stored' \subseteq Items
      <3>1. stored' = stored \/ \E i \in Mine : stored' = stored \cup {i}
        BY <1>18 DEF Send
      <3> QED BY <3>1, <1>a, ItemsAssumption DEF ConnectionTypes
    <2>3. Line(u, [verb |-> op])
      BY <1>18 DEF Send
    <2>4. ConnectionTypes' /\ InputTypes'
      BY <2>1, <2>2, <2>3, LineType DEF TextInv
    <2> QED BY <1>18, <2>4, <1>c, <1>d, TypePartsNext DEF Send
  <1>19. CASE UNCHANGED vars
    <2>1. ConnectionTypes'
      BY <1>19, <1>a DEF vars, ConnectionTypes
    <2> QED BY <1>19, <2>1, <1>c, <1>d, <1>f, TypePartsNext DEF vars
  <1> QED
    BY <1>1, <1>2, <1>3, <1>4, <1>5, <1>6, <1>7, <1>8, <1>9, <1>11, <1>13, <1>14,
       <1>15, <1>16, <1>17, <1>18, <1>19 DEF Next, Feed

-----------------------------------------------------------------------------
(* The text of a user, action by action.                                   *)

LEMMA HeaderStays ==
  ASSUME NEW text \in Seq(Tokens), NEW more \in Seq(Tokens), HeaderAhead(text)
  PROVE  HeaderAhead(text \o more)
  <1> DEFINE n == 2 * HeaderLines
             longer == text \o more
  <1>1. n \in Nat /\ Len(text) \in Nat /\ Len(more) \in Nat /\ n + 1 <= Len(text)
    BY BoundsAssumption, LenProperties DEF HeaderAhead
  <1>2. /\ Len(longer) = Len(text) + Len(more)
        /\ \A k \in 1..Len(text) : longer[k] = text[k]
    BY <1>1, ConcatProperties
  <1> HIDE DEF longer
  <1>3. \A k \in 1..(n + 1) : longer[k] = text[k]
    <2> HIDE DEF n
    <2> QED BY <1>1, <1>2
  <1>4. \A k \in 1..n : k \in 1..(n + 1) /\ k + 1 \in 1..(n + 1)
    <2> HIDE DEF n
    <2> QED BY <1>1
  <1>5. n + 1 <= Len(longer)
    <2> HIDE DEF n
    <2> QED BY <1>1, <1>2
  <1>6. \A k \in 1..(n + 1) : longer[k] \notin Commands
    BY <1>3 DEF HeaderAhead
  <1>7. \A k \in 1..n : longer[k] = Newline /\ longer[k + 1] = Newline <=> k = n
    BY <1>3, <1>4 DEF HeaderAhead
  <1> QED BY <1>5, <1>6, <1>7 DEF HeaderAhead, longer

\* Text of which a quiet part was taken off the front.
LEMMA ConservedAfter ==
  ASSUME NEW text \in Seq(Tokens), NEW n \in 0..Len(text), NEW done \in Nat, NEW total \in Nat,
         Conserved(done, text, total),
         HeaderLines # 0 => \A k \in 1..n : text[k] \notin Commands
  PROVE  Conserved(done, After(text, n), total)
  <1>1. After(text, n) \in Seq(Tokens)
    BY AfterIs
  <1>2. Typed(text) \in Nat /\ Typed(After(text, n)) \in Nat
    BY <1>1, AtFinite
  <1>3. /\ Typed(After(text, n)) <= Typed(text)
        /\ HeaderLines # 0 => Typed(After(text, n)) = Typed(text)
    BY TypedDrop
  <1>4. done + Typed(After(text, n)) <= total
    BY <1>2, <1>3 DEF Conserved
  <1> QED BY <1>3, <1>4 DEF Conserved

LEMMA LineText ==
  ASSUME TypeOK, TextInv, NEW u \in Users, NEW cmd \in Commands, Line(u, cmd)
  PROVE  TextInv'
  <1> SUFFICES ASSUME NEW v \in Users PROVE TextOf(v)'
    BY DEF TextInv
  <1>1. CASE v # u
    BY <1>1, TextKept DEF TextInv, Line, TypeOK
  <1>2. CASE v = u
    <2>1. /\ sock[u] = "open" /\ session[u] = "live" /\ First(Breaks(buffer[u])) = 2
          /\ After(buffer[u], 2) \o wire[u] = After(Text(u), 2)
          /\ Paired(After(Text(u), 2)) /\ Conserved(fed[u] + 1, After(Text(u), 2), typed[u])
      BY LineIs DEF Line, TextInv
    <2>2. /\ buffer'[u] = After(buffer[u], 2) /\ wire'[u] = wire[u]
          /\ fed'[u] = fed[u] + 1 /\ typed'[u] = typed[u]
          /\ sock'[u] = "open" /\ session'[u] = "live"
      BY <2>1 DEF Line, TypeOK
    <2>3. Text(u)' = After(Text(u), 2)
      BY <2>1, <2>2 DEF Text
    <2>4. Paired(Text(u)') /\ Conserved(fed'[u], Text(u)', typed'[u])
      BY <2>1, <2>2, <2>3
    <2> QED BY <1>2, <2>2, <2>4 DEF TextOf
  <1> QED BY <1>1, <1>2

LEMMA BlankText ==
  ASSUME TypeOK, TextInv, NEW u \in Users, Blank(u)
  PROVE  TextInv'
  <1> SUFFICES ASSUME NEW v \in Users PROVE TextOf(v)'
    BY DEF TextInv
  <1>1. CASE v # u
    BY <1>1, TextKept DEF TextInv, Blank, TypeOK
  <1>2. CASE v = u
    <2>1. /\ sock[u] = "open" /\ session[u] = "live" /\ Paired(Text(u))
          /\ Conserved(fed[u], Text(u), typed[u])
      BY DEF Blank, Ready, TextInv, TextOf
    <2>2. /\ buffer[u] \in Seq(Tokens) /\ wire[u] \in Seq(Tokens) /\ Text(u) \in Seq(Tokens)
          /\ fed[u] \in Nat /\ typed[u] \in Nat
      BY TextType
    <2>3. /\ buffer[u] # <<>> /\ buffer[u][1] = Newline
      BY <2>2, LenProperties DEF Blank, Ready, Breaks
    <2>4. 1 \in 0..Len(buffer[u])
      BY <2>2, <2>3, EmptySeq
    <2>5. Tail(buffer[u]) = After(buffer[u], 1)
      BY <2>2, <2>3, TailIsSubSeq DEF After
    <2>6. After(buffer[u], 1) \o wire[u] = After(Text(u), 1) /\ 1 \in 0..Len(Text(u))
      BY <2>2, <2>4, AfterFront DEF Text
    <2>7. /\ buffer'[u] = After(buffer[u], 1) /\ wire'[u] = wire[u]
          /\ fed'[u] = fed[u] /\ typed'[u] = typed[u]
          /\ sock'[u] = "open" /\ session'[u] = "live"
      BY <2>1, <2>5 DEF Blank, TypeOK
    <2>8. Text(u)' = After(Text(u), 1)
      BY <2>6, <2>7 DEF Text
    <2>9. \A k \in 1..1 : Text(u)[k] \notin Commands
      <3>1. Text(u)[1] = Newline
        <4>1. Len(buffer[u]) \in Nat /\ Len(wire[u]) \in Nat /\ 1 <= Len(buffer[u])
          BY <2>2, <2>4, LenProperties
        <4>2. \A i \in 1..(Len(buffer[u]) + Len(wire[u])) :
                (buffer[u] \o wire[u])[i] = IF i <= Len(buffer[u]) THEN buffer[u][i]
                                            ELSE wire[u][i - Len(buffer[u])]
          BY <2>2, ConcatProperties
        <4>3. 1 \in 1..(Len(buffer[u]) + Len(wire[u]))
          <5> DEFINE m == Len(buffer[u])
                     n == Len(wire[u])
          <5>1. m \in Nat /\ n \in Nat /\ 1 <= m
            BY <4>1
          <5> HIDE DEF m, n
          <5>2. 1 \in 1..(m + n)
            BY <5>1
          <5> QED BY <5>2 DEF m, n
        <4>4. (buffer[u] \o wire[u])[1] = buffer[u][1]
          BY <4>1, <4>2, <4>3
        <4> QED BY <2>3, <4>4 DEF Text
      <3> QED BY <3>1, TokensDiffer
    <2>10. Paired(After(Text(u), 1)) /\ Conserved(fed[u], After(Text(u), 1), typed[u])
      BY <2>1, <2>2, <2>6, <2>9, PairedAfter, ConservedAfter
    <2>11. Paired(Text(u)') /\ Conserved(fed'[u], Text(u)', typed'[u])
      BY <2>7, <2>8, <2>10
    <2> QED BY <1>2, <2>7, <2>11 DEF TextOf
  <1> QED BY <1>1, <1>2

\* A text that was extended on the wire.
LEMMA MoreText ==
  ASSUME TypeOK, TextInv, NEW u \in Users, NEW more \in Seq(Tokens),
         sock[u] = "open", sock' = sock, session' = session, buffer' = buffer, fed' = fed,
         wire' = [wire EXCEPT ![u] = wire[u] \o more],
         \A v \in Users : v # u => typed'[v] = typed[v],
         Paired(Text(u) \o more), Conserved(fed[u], Text(u) \o more, typed'[u])
  PROVE  TextInv'
  <1> SUFFICES ASSUME NEW v \in Users PROVE TextOf(v)'
    BY DEF TextInv
  <1>1. CASE v # u
    BY <1>1, TextKept DEF TextInv, TypeOK
  <1>2. CASE v = u
    <2>1. buffer[u] \in Seq(Tokens) /\ wire[u] \in Seq(Tokens) /\ Text(u) \in Seq(Tokens)
      BY TextType
    <2>2. wire'[u] = wire[u] \o more
      BY DEF TypeOK
    <2>3. Text(u)' = Text(u) \o more
      <3>1. (buffer[u] \o wire[u]) \o more = buffer[u] \o (wire[u] \o more)
        BY <2>1, Associates
      <3>2. Text(u)' = buffer[u] \o (wire[u] \o more)
        BY <2>2 DEF Text
      <3> QED BY <3>1, <3>2 DEF Text
    <2>4. session[u] = "none" => HeaderAhead(Text(u) \o more)
      BY <2>1, HeaderStays DEF TextInv, TextOf
    <2>5. /\ Paired(Text(u)') /\ Conserved(fed'[u], Text(u)', typed'[u])
          /\ session'[u] = "none" => HeaderAhead(Text(u)')
      BY <2>3, <2>4
    <2> QED BY <1>2, <2>5 DEF TextOf
  <1> QED BY <1>1, <1>2

LEMMA TypeText ==
  ASSUME TypeOK, TextInv, NEW u \in Users, NEW cmd \in Commands, Type(u, cmd)
  PROVE  TextInv'
  <1>1. Paired(Text(u)) /\ Conserved(fed[u], Text(u), typed[u]) /\ sock[u] = "open"
    BY DEF Type, TextInv, TextOf
  <1>2. Text(u) \in Seq(Tokens) /\ fed[u] \in Nat /\ typed[u] \in Nat
    BY TextType
  <1>3. /\ Paired(Text(u) \o <<cmd, Newline>>)
        /\ Typed(Text(u) \o <<cmd, Newline>>) = Typed(Text(u)) + 1
    BY <1>1, <1>2, PairedLine
  <1>4. <<cmd, Newline>> \in Seq(Tokens)
    BY TokensTyped
  <1>5. typed'[u] = typed[u] + 1 /\ \A v \in Users : v # u => typed'[v] = typed[v]
    BY DEF Type, TypeOK
  <1>6. Conserved(fed[u], Text(u) \o <<cmd, Newline>>, typed[u] + 1)
    <2>1. Typed(Text(u)) \in Nat
      BY <1>2, AtFinite
    <2>2. fed[u] + Typed(Text(u)) <= typed[u]
          /\ (HeaderLines # 0 => typed[u] = fed[u] + Typed(Text(u)))
      BY <1>1 DEF Conserved
    <2>3. fed[u] + (Typed(Text(u)) + 1) <= typed[u] + 1
      BY <1>2, <2>1, <2>2
    <2>4. HeaderLines # 0 => typed[u] + 1 = fed[u] + (Typed(Text(u)) + 1)
      <3>1. (fed[u] + Typed(Text(u))) + 1 = fed[u] + (Typed(Text(u)) + 1)
        BY <1>2, <2>1
      <3> QED BY <2>2, <3>1
    <2> QED BY <1>3, <2>3, <2>4 DEF Conserved
  <1>7. Conserved(fed[u], Text(u) \o <<cmd, Newline>>, typed'[u])
    BY <1>5, <1>6
  <1>8. /\ sock[u] = "open" /\ sock' = sock /\ session' = session /\ buffer' = buffer
        /\ fed' = fed /\ wire' = [wire EXCEPT ![u] = wire[u] \o <<cmd, Newline>>]
    BY DEF Type
  <1> QED BY <1>3, <1>4, <1>5, <1>7, <1>8, MoreText

LEMMA TypeEmptyText ==
  ASSUME TypeOK, TextInv, NEW u \in Users, TypeEmpty(u)
  PROVE  TextInv'
  <1>1. Paired(Text(u)) /\ Conserved(fed[u], Text(u), typed[u]) /\ sock[u] = "open"
    BY DEF TypeEmpty, TextInv, TextOf
  <1>2. Text(u) \in Seq(Tokens) /\ <<Newline>> \in Seq(Tokens)
    BY TextType, TokensTyped
  <1>3. Paired(Text(u) \o <<Newline>>) /\ Typed(Text(u) \o <<Newline>>) = Typed(Text(u))
    BY <1>1, <1>2, PairedNewline
  <1>4. Conserved(fed[u], Text(u) \o <<Newline>>, typed'[u])
    BY <1>1, <1>3 DEF Conserved, TypeEmpty
  <1>5. wire' = [wire EXCEPT ![u] = wire[u] \o <<Newline>>]
    <2>1. wire[u] = <<>> /\ wire' = [wire EXCEPT ![u] = <<Newline>>]
      BY DEF TypeEmpty
    <2>2. <<>> \o <<Newline>> = <<Newline>>
      BY <1>2, ConcatEmptySeq
    <2> QED BY <2>1, <2>2
  <1>6. /\ sock' = sock /\ session' = session /\ buffer' = buffer /\ fed' = fed
        /\ \A v \in Users : v # u => typed'[v] = typed[v]
    BY DEF TypeEmpty
  <1> QED BY <1>1, <1>2, <1>3, <1>4, <1>5, <1>6, MoreText

LEMMA ConnectText ==
  ASSUME TypeOK, TextInv, NEW u \in Users, Connect(u)
  PROVE  TextInv'
  <1> SUFFICES ASSUME NEW v \in Users PROVE TextOf(v)'
    BY DEF TextInv
  <1>1. CASE v # u
    BY <1>1, TextKept DEF TextInv, Connect, TypeOK
  <1>2. CASE v = u
    <2>1. session[u] = "none" /\ buffer[u] = <<>> /\ fed[u] = 0 /\ typed[u] = 0
      BY DEF Connect, TextInv, TextOf
    <2>2. /\ wire'[u] = Header /\ buffer'[u] = <<>> /\ sock'[u] = "open"
          /\ session'[u] = "none" /\ fed'[u] = 0 /\ typed'[u] = 0
      BY <2>1 DEF Connect, Header, TypeOK
    <2>3. <<>> \o Header = Header
      BY HeaderIs, ConcatEmptySeq
    <2>4. Text(u)' = Header
      BY <2>2, <2>3 DEF Text
    <2>5. HeaderAhead(Header) /\ Paired(Header)
      BY HeaderIs DEF HeaderAhead, Paired
    <2>6. Typed(Header) = 0
      <3>1. At(Header) = {}
        BY HeaderIs DEF At
      <3> QED BY <3>1, HeaderIs, AtFinite, FS_EmptySet
    <2>7. Conserved(0, Header, 0)
      BY <2>6 DEF Conserved
    <2>8. Paired(Text(u)') /\ Conserved(fed'[u], Text(u)', typed'[u]) /\ HeaderAhead(Text(u)')
      BY <2>2, <2>4, <2>5, <2>7
    <2> QED BY <1>2, <2>2, <2>8 DEF TextOf
  <1> QED BY <1>1, <1>2

LEMMA FinishText ==
  ASSUME TypeOK, TextInv, NEW u \in Users, Finish(u)
  PROVE  TextInv'
  <1> SUFFICES ASSUME NEW v \in Users PROVE TextOf(v)'
    BY DEF TextInv
  <1>1. CASE v # u
    BY <1>1, TextKept DEF TextInv, Finish, TypeOK
  <1>2. CASE v = u
    <2>1. sock'[u] = "closed" /\ buffer'[u] = <<>>
      BY DEF Finish, TypeOK
    <2>2. Breaks(buffer'[u]) = {}
      BY <2>1, EmptySeq DEF Breaks
    <2> QED BY <1>2, <2>1, <2>2 DEF TextOf, Ready
  <1> QED BY <1>1, <1>2

LEMMA CloseHeadText ==
  ASSUME TypeOK, TextInv, CloseHead
  PROVE  TextInv'
  <1> SUFFICES ASSUME NEW u \in Users PROVE TextOf(u)'
    BY DEF TextInv
  <1>1. /\ buffer' = buffer /\ session' = session /\ fed' = fed /\ typed' = typed
        /\ sock'[u] = (IF sock[u] = "open" THEN "destroyed" ELSE sock[u]) /\ ~Ready(u)
    BY DEF CloseHead, Destroyed, inputVars
  <1> QED BY <1>1 DEF TextInv, TextOf, Ready

\* The header comes off as a whole: the first empty line is the one that ends it.
LEMMA HeaderOff ==
  ASSUME NEW b \in Seq(Tokens), NEW rest \in Seq(Tokens), HeaderEnds(b) # {},
         HeaderAhead(b \o rest)
  PROVE  /\ First(HeaderEnds(b)) + 1 \in 0..Len(b)
         /\ HeaderLines # 0 => First(HeaderEnds(b)) = 2 * HeaderLines
  <1> DEFINE n == 2 * HeaderLines
             f == First(HeaderEnds(b))
  <1>1. Len(b) \in Nat /\ Len(rest) \in Nat /\ HeaderLines \in Nat /\ n \in Nat
    BY LenProperties, BoundsAssumption
  <1>2. HeaderEnds(b) \subseteq Nat
    BY <1>1 DEF HeaderEnds, Breaks
  <1>3. f \in HeaderEnds(b) /\ \A j \in HeaderEnds(b) : f <= j
    BY <1>2, FirstIs
  <1>4. f \in Nat /\ 1 <= f /\ f < Len(b) /\ b[f] = Newline /\ b[f + 1] = Newline
    BY <1>1, <1>3 DEF HeaderEnds, Breaks
  <1> HIDE DEF f
  <1>5. f + 1 \in 0..Len(b)
    BY <1>1, <1>4
  <1>6. \A k \in 1..Len(b) : (b \o rest)[k] = b[k]
    BY <1>1, ConcatProperties
  <1>7. ASSUME HeaderLines # 0 PROVE f = n
    <2>1. n >= 1
      BY <1>1, <1>7
    <2>2. \A k \in 1..n : (b \o rest)[k] = Newline /\ (b \o rest)[k + 1] = Newline <=> k = n
      BY DEF HeaderAhead
    <2> HIDE DEF n
    <2>3. (b \o rest)[f] = Newline /\ (b \o rest)[f + 1] = Newline
      <3>1. f \in 1..Len(b) /\ f + 1 \in 1..Len(b)
        BY <1>1, <1>4
      <3> QED BY <1>4, <1>6, <3>1
    <2>4. CASE f <= n
      <3>1. f \in 1..n
        BY <1>1, <1>4, <2>4
      <3> QED BY <2>2, <2>3, <3>1
    <2>5. CASE f > n
      <3>1. n \in 1..Len(b) /\ n + 1 \in 1..Len(b) /\ n \in 1..n
        BY <1>1, <1>4, <2>1, <2>5
      <3>2. b[n] = Newline /\ b[n + 1] = Newline
        BY <1>6, <2>2, <3>1
      <3>3. n \in HeaderEnds(b)
        <4>1. n < Len(b)
          BY <1>1, <1>4, <2>5
        <4> QED BY <3>1, <3>2, <4>1 DEF HeaderEnds, Breaks
      <3>4. f <= n
        BY <1>3, <3>3
      <3> QED BY <1>1, <1>4, <2>5, <3>4
    <2> QED BY <1>1, <1>4, <2>4, <2>5
  <1> QED BY <1>5, <1>7 DEF f, n

LEMMA ReadHeaderText ==
  ASSUME TypeOK, TextInv, NEW u \in Users, NEW k \in Chunks, ReadHeader(u, k)
  PROVE  TextInv'
  <1> SUFFICES ASSUME NEW v \in Users PROVE TextOf(v)'
    BY DEF TextInv
  <1> DEFINE b == Received(u, k)
             rest == After(wire[u], k)
             f == First(HeaderEnds(b))
  <1>1. CASE v # u
    <2>1. /\ wire' = [wire EXCEPT ![u] = rest]
          /\ buffer' = [buffer EXCEPT ![u] = IF HeaderEnds(b) = {} THEN b ELSE After(b, f + 1)]
          /\ session' = [session EXCEPT ![u] = IF HeaderEnds(b) = {} THEN @ ELSE "live"]
          /\ sock' = sock /\ typed' = typed /\ fed' = fed
      BY DEF ReadHeader, TypeOK
    <2> HIDE DEF b, rest, f
    <2>2. /\ wire'[v] = wire[v] /\ buffer'[v] = buffer[v] /\ session'[v] = session[v]
          /\ sock'[v] = sock[v] /\ typed'[v] = typed[v] /\ fed'[v] = fed[v]
      BY <1>1, <2>1 DEF TypeOK
    <2> QED BY <2>2, TextKept DEF TextInv
  <1>2. CASE v = u
    <2>1. /\ Paired(Text(u)) /\ Conserved(fed[u], Text(u), typed[u]) /\ HeaderAhead(Text(u))
      BY DEF ReadHeader, TextInv, TextOf
    <2>2. Text(u) \in Seq(Tokens) /\ fed[u] \in Nat /\ typed[u] \in Nat
      BY TextType
    <2>3. b \in Seq(Tokens) /\ rest \in Seq(Tokens) /\ b \o rest = Text(u)
      BY TextType, ChunkMoved DEF ReadHeader, Received, Text
    <2>4. sock[u] = "open" /\ session[u] = "none" /\ sock' = sock /\ fed' = fed /\ typed' = typed
      BY DEF ReadHeader
    <2>5. wire'[u] = rest
      BY DEF ReadHeader, TypeOK
    <2>6. CASE HeaderEnds(b) = {}
      <3>1. buffer'[u] = b /\ session' = session
        BY <2>6 DEF ReadHeader, TypeOK
      <3> HIDE DEF b, rest
      <3>2. Text(u)' = Text(u)
        BY <2>3, <2>5, <3>1 DEF Text
      <3>3. /\ Paired(Text(u)') /\ Conserved(fed'[u], Text(u)', typed'[u])
            /\ HeaderAhead(Text(u)')
        BY <2>1, <2>4, <3>2
      <3> QED BY <1>2, <2>4, <3>1, <3>3 DEF TextOf
    <2>7. CASE HeaderEnds(b) # {}
      <3>1. buffer'[u] = After(b, f + 1) /\ session'[u] = "live"
        BY <2>7 DEF ReadHeader, TypeOK
      <3>2. HeaderAhead(b \o rest)
        BY <2>1, <2>3
      <3> HIDE DEF b, rest
      <3>3. f + 1 \in 0..Len(b) /\ (HeaderLines # 0 => f = 2 * HeaderLines)
        BY <2>3, <2>7, <3>2, HeaderOff
      <3> HIDE DEF f
      <3>4. After(b, f + 1) \o rest = After(Text(u), f + 1) /\ f + 1 \in 0..Len(Text(u))
        BY <2>3, <3>3, AfterFront
      <3>5. Text(u)' = After(Text(u), f + 1)
        BY <2>5, <3>1, <3>4 DEF Text
      <3>6. HeaderLines # 0 => \A j \in 1..(f + 1) : Text(u)[j] \notin Commands
        BY <2>1, <3>3 DEF HeaderAhead
      <3>7. Paired(After(Text(u), f + 1)) /\ Conserved(fed[u], After(Text(u), f + 1), typed[u])
        BY <2>1, <2>2, <3>4, <3>6, PairedAfter, ConservedAfter
      <3>8. Paired(Text(u)') /\ Conserved(fed'[u], Text(u)', typed'[u])
        BY <2>4, <3>5, <3>7
      <3> QED BY <1>2, <2>4, <3>1, <3>8 DEF TextOf
    <2> QED BY <2>6, <2>7
  <1> QED BY <1>1, <1>2

LEMMA ReadLinesText ==
  ASSUME TypeOK, TextInv, NEW u \in Users, NEW k \in Chunks, ReadLines(u, k)
  PROVE  TextInv'
  <1> SUFFICES ASSUME NEW v \in Users PROVE TextOf(v)'
    BY DEF TextInv
  <1>1. CASE v # u
    BY <1>1, TextKept DEF TextInv, ReadLines, TypeOK
  <1>2. CASE v = u
    <2>1. /\ sock[u] = "open" /\ session[u] = "live" /\ UNCHANGED <<sock, session, fed, typed>>
          /\ buffer'[u] = Received(u, k) /\ wire'[u] = After(wire[u], k)
      BY DEF ReadLines, TypeOK
    <2>2. Received(u, k) \o After(wire[u], k) = Text(u)
      BY TextType, ChunkMoved DEF ReadLines, Received, Text
    <2>3. Text(u)' = Text(u)
      BY <2>1, <2>2 DEF Text
    <2>4. Paired(Text(u)') /\ Conserved(fed'[u], Text(u)', typed'[u])
      BY <2>1, <2>3 DEF TextInv, TextOf
    <2> QED BY <1>2, <2>1, <2>4 DEF TextOf
  <1> QED BY <1>1, <1>2

LEMMA SameText ==
  ASSUME TextInv, sock' = sock, session' = session, UNCHANGED inputVars
  PROVE  TextInv'
  <1> SUFFICES ASSUME NEW u \in Users PROVE TextOf(u)'
    BY DEF TextInv
  <1> QED BY TextKept DEF TextInv, inputVars

LEMMA NextText == TypeOK /\ TextInv /\ [Next]_vars => TextInv'
  <1> SUFFICES ASSUME TypeOK, TextInv, [Next]_vars PROVE TextInv'
    OBVIOUS
  <1>1. CASE CloseHead
    BY <1>1, CloseHeadText
  <1>2. ASSUME NEW i \in Items, Arrive(i) PROVE TextInv'
    BY <1>2, SameText DEF Arrive
  <1>3. ASSUME NEW c \in Channels, NewChannel(c) PROVE TextInv'
    BY <1>3, SameText DEF NewChannel
  <1>4. ASSUME NEW u \in Users, Connect(u) PROVE TextInv'
    BY <1>4, ConnectText
  <1>5. ASSUME NEW u \in Users, Finish(u) PROVE TextInv'
    BY <1>5, FinishText
  <1>6. ASSUME NEW u \in Users, TypeEmpty(u) PROVE TextInv'
    BY <1>6, TypeEmptyText
  <1>7. ASSUME NEW u \in Users, NEW cmd \in Commands, Type(u, cmd) PROVE TextInv'
    BY <1>7, TypeText
  <1>8. ASSUME NEW u \in Users, NEW k \in Chunks, ReadHeader(u, k) PROVE TextInv'
    BY <1>8, ReadHeaderText
  <1>9. ASSUME NEW u \in Users, NEW k \in Chunks, ReadLines(u, k) PROVE TextInv'
    BY <1>9, ReadLinesText
  <1>11. ASSUME NEW u \in Users, Blank(u) PROVE TextInv'
    BY <1>11, BlankText
  <1>12. ASSUME NEW u \in Users, Menu(u) \/ ListChannels(u) \/ Answer(u)
         PROVE  TextInv'
    <2>1. \E verb \in {"M", "CH", "other"} : Line(u, [verb |-> verb])
      BY <1>12 DEF Menu, ListChannels, Answer
    <2>2. \E cmd \in Commands : Line(u, cmd)
      BY <2>1 DEF Commands
    <2> QED BY <2>2, LineText
  <1>13. ASSUME NEW u \in Users, NEW n \in 1..Cardinality(Channels), OpenChannel(u, n)
         PROVE  TextInv'
    BY <1>13, LineText DEF OpenChannel, Commands
  <1>14. ASSUME NEW u \in Users, NEW p \in Peers, OpenDm(u, p) PROVE TextInv'
    BY <1>14, LineText DEF OpenDm, Commands
  <1>15. ASSUME NEW u \in Users, NEW op \in Sends, Send(u, op) PROVE TextInv'
    BY <1>15, LineText DEF Send, Commands, Sends
  <1>16. CASE UNCHANGED vars
    BY <1>16, SameText DEF vars, inputVars
  <1> QED
    BY <1>1, <1>2, <1>3, <1>4, <1>5, <1>6, <1>7, <1>8, <1>9, <1>11, <1>12, <1>13,
       <1>14, <1>15, <1>16 DEF Next, Feed

LEMMA InitText == Init => TextInv
  <1> SUFFICES ASSUME Init, NEW u \in Users PROVE TextOf(u)
    BY DEF TextInv
  <1>1. sock[u] = "none" /\ session[u] = "none" /\ buffer[u] = <<>> /\ fed[u] = 0 /\ typed[u] = 0
    BY DEF Init
  <1> QED BY <1>1 DEF TextOf, Ready

LEMMA TypedInvariant == Spec => [](TypeOK /\ TextInv)
  <1>1. Init => TypeOK /\ TextInv
    BY InitType, InitText
  <1>2. TypeOK /\ TextInv /\ [Next]_vars => (TypeOK /\ TextInv)'
    BY NextType, NextText
  <1> QED BY <1>1, <1>2, PTL DEF Spec

\* Every variable keeps its type; no user has more commands executed than typed.
THEOREM TypeCorrect == Spec => []TypeOK
  BY TypedInvariant, PTL

\* Behind a connect header of at least one line, nothing a user typed is lost or run
\* twice, however findHeaderEnd() and the line splitter of handleConnection() meet the
\* chunks.  pdn always writes such a line.
THEOREM LinesKept ==
  ASSUME HeaderLines # 0
  PROVE  Spec => []LinesConserved
  <1>1. TypeOK /\ TextInv => LinesConserved
    BY DEF TextInv, TextOf, Conserved, Text, LinesConserved
  <1> QED BY <1>1, TypedInvariant, PTL

-----------------------------------------------------------------------------
(***************************************************************************)
(* What a user reads.  Before the header is complete there is no view; with *)
(* one, the session's only listener is the one for the room of the view, so *)
(* that an item is either in the history shown on entry or told later.      *)
(***************************************************************************)

NoViewYet(u) == session[u] = "none" => view[u] = NoRoom /\ shown[u] = NothingShown

Listens(u) ==
  live[u] = IF session[u] = "live" /\ view[u] # NoRoom THEN {view[u]} ELSE {}

ReadsRoom(u) ==
  sock[u] = "open" /\ session[u] = "live" =>
    /\ \A i \in Items : shown[u][i] > 0 =>
         i \in stored /\ RoomOf[i] = view[u] /\ (shown[u][i] = 1 \/ i \in again[u])
    /\ \A i \in stored \ Mine : RoomOf[i] = view[u] =>
         shown[u][i] > 0 \/ i \notin History(view[u])

ViewOf(u) == NoViewYet(u) /\ Listens(u) /\ ReadsRoom(u)
ViewInv == \A u \in Users : ViewOf(u)

\* The history shown on entry only ever loses items: newer ones push them out.
LEMMA HistoryShrinks ==
  ASSUME TypeOK, stored \subseteq stored', stored' \subseteq Items, NEW r, NEW i \in stored,
         i \in History(r)'
  PROVE  i \in History(r)
  <1> DEFINE old == {j \in InRoom(r) : j > i}
             new == {j \in stored' : RoomOf[j] = r /\ j > i}
  <1>1. old \subseteq new
    BY DEF InRoom
  <1>2. IsFiniteSet(new)
    BY ItemsAssumption, FS_Subset
  <1>3. Cardinality(old) <= Cardinality(new) /\ Cardinality(old) \in Nat /\ Cardinality(new) \in Nat
    BY <1>1, <1>2, FS_Subset, FS_CardinalityType
  <1>4. /\ i \in stored' /\ RoomOf[i] = r
        /\ Cardinality({j \in {k \in stored' : RoomOf[k] = r} : j > i}) < HistoryLimit
    BY DEF History, InRoom
  <1>5. {j \in {k \in stored' : RoomOf[k] = r} : j > i} = new
    OBVIOUS
  <1>6. Cardinality(new) < HistoryLimit
    BY <1>4, <1>5
  <1> HIDE DEF old, new
  <1>7. Cardinality(old) < HistoryLimit
    BY <1>3, <1>6, BoundsAssumption
  <1> QED BY <1>4, <1>7 DEF History, InRoom, old

\* A user whose view stays, while items of others only come in elsewhere.
LEMMA ViewKept ==
  ASSUME TypeOK, NEW u \in Users, ViewOf(u), stored \subseteq stored', stored' \subseteq Items,
         \A i \in stored' \ stored : i \in Mine \/ RoomOf[i] # view[u],
         sock'[u] = sock[u] \/ sock'[u] # "open" \/ session'[u] = "none",
         session'[u] = session[u], view'[u] = view[u], live'[u] = live[u], shown'[u] = shown[u],
         again[u] \subseteq again'[u]
  PROVE  ViewOf(u)'
  <1>1. NoViewYet(u)' /\ Listens(u)'
    BY DEF ViewOf, NoViewYet, Listens, NothingShown
  <1>2. ASSUME sock'[u] = "open", session'[u] = "live"
        PROVE  /\ \A i \in Items : shown'[u][i] > 0 =>
                    /\ i \in stored' /\ RoomOf[i] = view'[u]
                    /\ shown'[u][i] = 1 \/ i \in again'[u]
               /\ \A i \in stored' \ Mine : RoomOf[i] = view'[u] =>
                    shown'[u][i] > 0 \/ i \notin History(view[u])'
    <2>1. sock[u] = "open" /\ session[u] = "live"
      BY <1>2
    <2>2. /\ \A i \in Items : shown[u][i] > 0 =>
               /\ i \in stored /\ RoomOf[i] = view[u]
               /\ shown[u][i] = 1 \/ i \in again[u]
          /\ \A i \in stored \ Mine : RoomOf[i] = view[u] =>
               shown[u][i] > 0 \/ i \notin History(view[u])
      BY <2>1 DEF ViewOf, ReadsRoom
    <2> QED BY <2>2, HistoryShrinks
  <1>3. ReadsRoom(u)'
    BY <1>2 DEF ReadsRoom, History, InRoom
  <1> QED BY <1>1, <1>3 DEF ViewOf

\* setView() with the history of its room, or the menu.
LEMMA ViewSet ==
  ASSUME TypeOK, ViewInv, NEW u \in Users, NEW v \in Rooms \cup {NoRoom},
         session[u] = "live", session' = session, sock' = sock, stored' = stored,
         SetView(u, v, IF v = NoRoom THEN {} ELSE History(v))
  PROVE  ViewInv'
  <1> SUFFICES ASSUME NEW w \in Users PROVE ViewOf(w)'
    BY DEF ViewInv
  <1> DEFINE history == IF v = NoRoom THEN {} ELSE History(v)
             s == [i \in Items |-> IF i \in history THEN 1 ELSE 0]
  <1>1. /\ view' = [view EXCEPT ![u] = v] /\ shown' = [shown EXCEPT ![u] = s]
        /\ live' = [live EXCEPT ![u] = IF v = NoRoom THEN {} ELSE {v}]
        /\ again' = [again EXCEPT ![u] = {}]
    BY DEF SetView
  <1>2. \A i \in Items : s[i] = IF i \in history THEN 1 ELSE 0
    OBVIOUS
  <1>3. stored \subseteq Items /\ RoomOf \in [Items -> Rooms] /\ NoRoom \notin Rooms
    BY RoomOfAssumption, PeersAssumption DEF TypeOK
  <1>4. \A i \in history : i \in stored /\ RoomOf[i] = v
    BY DEF History, InRoom
  <1>5. CASE w # u
    <2> HIDE DEF s
    <2>1. /\ view'[w] = view[w] /\ live'[w] = live[w] /\ shown'[w] = shown[w]
          /\ again'[w] = again[w]
      BY <1>1, <1>5 DEF TypeOK
    <2> QED BY <1>3, <2>1, ViewKept DEF ViewInv
  <1>6. CASE w = u
    <2>1. NoViewYet(u)'
      BY DEF NoViewYet
    <2> HIDE DEF s
    <2>2. view'[u] = v /\ shown'[u] = s /\ live'[u] = IF v = NoRoom THEN {} ELSE {v}
      BY <1>1 DEF TypeOK
    <2>3. Listens(u)'
      BY <2>2 DEF Listens
    <2>4. \A i \in Items : shown'[u][i] > 0 =>
            i \in stored' /\ RoomOf[i] = view'[u] /\ shown'[u][i] = 1
      BY <1>2, <1>4, <2>2
    <2>5. \A i \in stored' \ Mine : RoomOf[i] = view'[u] =>
            shown'[u][i] > 0 \/ i \notin History(v)
      BY <1>2, <1>3, <2>2
    <2>6. History(view[u])' = History(v)
      BY <2>2 DEF History, InRoom
    <2>7. ReadsRoom(u)'
      BY <2>4, <2>5, <2>6 DEF ReadsRoom
    <2> QED BY <1>6, <2>1, <2>3, <2>7 DEF ViewOf
  <1> QED BY <1>5, <1>6

\* The session is greeted in the menu, where nothing is to be read.
LEMMA ViewBegins ==
  ASSUME TypeOK, ViewInv, NEW u \in Users, NEW k \in Chunks, ReadHeader(u, k)
  PROVE  ViewInv'
  <1> SUFFICES ASSUME NEW v \in Users PROVE ViewOf(v)'
    BY DEF ViewInv
  <1>1. UNCHANGED <<stored, view, live, shown, again, sock>>
    BY DEF ReadHeader, storeVars
  <1>2. session' = session \/ session' = [session EXCEPT ![u] = "live"]
    BY DEF ReadHeader
  <1>3. session[u] = "none"
    BY DEF ReadHeader
  <1>4. stored \subseteq Items
    BY DEF TypeOK
  <1>5. CASE session'[v] = session[v]
    BY <1>1, <1>4, <1>5, ViewKept DEF ViewInv
  <1>6. CASE session'[v] # session[v]
    <2>1. v = u /\ session'[u] = "live"
      BY <1>2, <1>6 DEF TypeOK
    <2>2. view[u] = NoRoom /\ shown[u] = NothingShown /\ live[u] = {}
      BY <1>3 DEF ViewInv, ViewOf, NoViewYet, Listens
    <2>3. NoViewYet(u)' /\ Listens(u)'
      BY <1>1, <2>1, <2>2 DEF NoViewYet, Listens
    <2>4. \A i \in Items : RoomOf[i] # NoRoom
      BY RoomOfAssumption, PeersAssumption
    <2>5. \A i \in Items : shown'[u][i] = 0
      BY <1>1, <2>2 DEF NothingShown
    <2>6. ReadsRoom(u)'
      BY <1>1, <1>4, <2>2, <2>4, <2>5 DEF ReadsRoom
    <2> QED BY <2>1, <2>3, <2>6 DEF ViewOf
  <1> QED BY <1>5, <1>6

LEMMA ViewEnds ==
  ASSUME TypeOK, ViewInv, NEW u \in Users, Finish(u)
  PROVE  ViewInv'
  <1> SUFFICES ASSUME NEW v \in Users PROVE ViewOf(v)'
    BY DEF ViewInv
  <1>1. UNCHANGED <<stored, view, shown, again>> /\ sock' = [sock EXCEPT ![u] = "closed"]
    BY DEF Finish, storeVars
  <1>2. stored \subseteq Items
    BY DEF TypeOK
  <1>3. CASE v # u \/ session[u] # "live"
    <2>1. session'[v] = session[v] /\ live'[v] = live[v]
      BY <1>3 DEF Finish, TypeOK
    <2>2. sock'[v] = sock[v] \/ sock'[v] # "open"
      BY <1>1 DEF TypeOK
    <2> QED BY <1>1, <1>2, <2>1, <2>2, ViewKept DEF ViewInv
  <1>4. CASE v = u /\ session[u] = "live"
    <2>1. session'[u] = "disposed" /\ live'[u] = {}
      BY <1>4 DEF Finish, Unlistened, TypeOK
    <2> QED BY <1>4, <2>1 DEF ViewOf, NoViewYet, Listens, ReadsRoom
  <1> QED BY <1>3, <1>4

\* An item that is received is told to each user who is in its room, and to no other: once
\* more than it was, so that it was received again if it had been shown.
LEMMA ViewTold ==
  ASSUME TypeOK, ViewInv, NEW i \in Items, Arrive(i)
  PROVE  ViewInv'
  <1> SUFFICES ASSUME NEW v \in Users PROVE ViewOf(v)'
    BY DEF ViewInv
  <1> DEFINE told == {u \in Users : RoomOf[i] \in live[u] /\ i \notin Mine /\ Spoken(u)}
  <1>1. /\ stored' = stored \cup {i} /\ UNCHANGED <<sock, session, view, live>>
        /\ shown'[v] = IF v \in told /\ shown[v][i] < Many
                       THEN [shown[v] EXCEPT ![i] = @ + 1] ELSE shown[v]
        /\ again'[v] = again[v] \cup (IF i \in stored /\ RoomOf[i] = view[v] THEN {i} ELSE {})
    BY DEF Arrive
  <1>2. stored \subseteq stored' /\ stored' \subseteq Items /\ again[v] \subseteq again'[v]
    BY <1>1 DEF TypeOK
  <1>3. RoomOf[i] # NoRoom
    BY RoomOfAssumption, PeersAssumption
  <1>4. CASE v \notin told
    <2>1. shown'[v] = shown[v]
      BY <1>1, <1>4
    <2>2. ~(sock[v] = "open" /\ session[v] = "live" /\ RoomOf[i] = view[v] /\ i \notin Mine)
      BY <1>3, <1>4 DEF ViewInv, ViewOf, Listens, Spoken
    <2>3. CASE i \in Mine \/ RoomOf[i] # view[v]
      BY <1>1, <1>2, <2>1, <2>3, ViewKept DEF ViewInv
    <2>4. CASE i \notin Mine /\ RoomOf[i] = view[v]
      BY <1>1, <2>1, <2>2, <2>4 DEF ViewInv, ViewOf, NoViewYet, Listens, ReadsRoom, NothingShown
    <2> QED BY <2>3, <2>4
  <1>5. CASE v \in told
    <2>1. sock[v] = "open" /\ session[v] = "live" /\ RoomOf[i] = view[v]
      BY <1>5 DEF ViewInv, ViewOf, Listens, Spoken
    <2>2. /\ \A j \in Items : shown[v][j] > 0 =>
               /\ j \in stored /\ RoomOf[j] = view[v]
               /\ shown[v][j] = 1 \/ j \in again[v]
          /\ \A j \in stored \ Mine : RoomOf[j] = view[v] =>
               shown[v][j] > 0 \/ j \notin History(view[v])
      BY <2>1 DEF ViewInv, ViewOf, ReadsRoom
    <2>3. shown[v] \in [Items -> 0..Many]
      BY DEF TypeOK
    <2>4. /\ shown'[v][i] > 0 /\ (shown'[v][i] = 1 \/ shown[v][i] > 0)
          /\ \A j \in Items : j # i => shown'[v][j] = shown[v][j]
      <3>1. shown[v][i] \in 0..Many
        BY <2>3
      <3>2. CASE shown[v][i] < Many
        <4>1. shown'[v] = [shown[v] EXCEPT ![i] = shown[v][i] + 1]
          BY <1>1, <1>5, <3>2
        <4> QED BY <2>3, <3>1, <4>1 DEF Many
      <3>3. CASE ~(shown[v][i] < Many)
        BY <1>1, <3>1, <3>3 DEF Many
      <3> QED BY <3>2, <3>3
    <2>5. ASSUME NEW j \in Items, shown'[v][j] > 0
          PROVE  /\ j \in stored' /\ RoomOf[j] = view'[v]
                 /\ shown'[v][j] = 1 \/ j \in again'[v]
      <3>1. CASE j = i
        BY <1>1, <2>1, <2>2, <2>4, <3>1
      <3>2. CASE j # i
        BY <1>1, <1>2, <2>2, <2>4, <2>5, <3>2
      <3> QED BY <3>1, <3>2
    <2>6. \A j \in stored' \ Mine : RoomOf[j] = view'[v] =>
            shown'[v][j] > 0 \/ j \notin History(view[v])'
      <3> SUFFICES ASSUME NEW j \in stored' \ Mine, RoomOf[j] = view'[v], j \in History(view[v])'
                   PROVE  shown'[v][j] > 0
        OBVIOUS
      <3>1. CASE j = i
        BY <2>4, <3>1
      <3>2. CASE j # i
        <4>1. j \in stored /\ RoomOf[j] = view[v]
          BY <1>1, <3>2
        <4> DEFINE r == view[v]
        <4>2. PICK room : room = r
          OBVIOUS
        <4>3. History(r)' = History(room)'
          BY <1>1, <4>2 DEF History, InRoom
        <4>4. j \in History(room)
          BY <1>2, <4>1, <4>3, HistoryShrinks
        <4>5. shown[v][j] > 0
          BY <2>2, <4>1, <4>2, <4>4
        <4> QED BY <1>2, <2>4, <3>2, <4>5
      <3> QED BY <3>1, <3>2
    <2>7. ReadsRoom(v)'
      BY <2>5, <2>6 DEF ReadsRoom
    <2>8. NoViewYet(v)' /\ Listens(v)'
      BY <1>1, <2>1 DEF ViewInv, ViewOf, NoViewYet, Listens
    <2> QED BY <2>7, <2>8 DEF ViewOf
  <1> QED BY <1>4, <1>5

\* Nothing of what a user sees changes, and only own items are stored.
LEMMA ViewSame ==
  ASSUME TypeOK, ViewInv, UNCHANGED <<session, view, live, shown, again>>,
         \A u \in Users : sock'[u] = sock[u] \/ sock'[u] # "open" \/ session'[u] = "none",
         stored' = stored \/ \E i \in Mine : stored' = stored \cup {i}
  PROVE  ViewInv'
  <1> SUFFICES ASSUME NEW u \in Users PROVE ViewOf(u)'
    BY DEF ViewInv
  <1>1. stored \subseteq stored' /\ stored' \subseteq Items /\ stored' \ stored \subseteq Mine
    BY ItemsAssumption DEF TypeOK
  <1> QED BY <1>1, ViewKept DEF ViewInv

LEMMA NextView == TypeOK /\ TextInv /\ ViewInv /\ [Next]_vars => ViewInv'
  <1> SUFFICES ASSUME TypeOK, TextInv, ViewInv, [Next]_vars PROVE ViewInv'
    OBVIOUS
  <1> USE DEF storeVars, inputVars
  <1>1. CASE CloseHead
    <2>1. \A u \in Users : sock'[u] = sock[u] \/ sock'[u] # "open"
      BY <1>1 DEF CloseHead, Destroyed
    <2> QED BY <1>1, <2>1, ViewSame DEF CloseHead
  <1>2. ASSUME NEW i \in Items, Arrive(i) PROVE ViewInv'
    BY <1>2, ViewTold
  <1>3. ASSUME NEW c \in Channels, NewChannel(c) PROVE ViewInv'
    BY <1>3, ViewSame DEF NewChannel
  <1>4. ASSUME NEW u \in Users, Connect(u) PROVE ViewInv'
    <2>1. session[u] = "none"
      BY <1>4 DEF Connect, TextInv, TextOf
    <2>2. \A v \in Users : sock'[v] = sock[v] \/ session[v] = "none"
      BY <1>4, <2>1 DEF Connect, TypeOK
    <2> QED BY <1>4, <2>2, ViewSame DEF Connect
  <1>5. ASSUME NEW u \in Users, Finish(u) PROVE ViewInv'
    BY <1>5, ViewEnds
  <1>6. ASSUME NEW u \in Users, TypeEmpty(u) PROVE ViewInv'
    BY <1>6, ViewSame DEF TypeEmpty
  <1>7. ASSUME NEW u \in Users, NEW cmd \in Commands, Type(u, cmd) PROVE ViewInv'
    BY <1>7, ViewSame DEF Type
  <1>8. ASSUME NEW u \in Users, NEW k \in Chunks, ReadHeader(u, k) PROVE ViewInv'
    BY <1>8, ViewBegins
  <1>9. ASSUME NEW u \in Users, NEW k \in Chunks, ReadLines(u, k) PROVE ViewInv'
    BY <1>9, ViewSame DEF ReadLines
  <1>11. ASSUME NEW u \in Users, Blank(u) PROVE ViewInv'
    BY <1>11, ViewSame DEF Blank
  <1>12. ASSUME NEW u \in Users, NEW v \in Rooms \cup {NoRoom}, NEW cmd, Line(u, cmd),
                stored' = stored, SetView(u, v, IF v = NoRoom THEN {} ELSE History(v))
         PROVE  ViewInv'
    BY <1>12, ViewSet DEF Line, Ready
  <1>13. ASSUME NEW u \in Users, Menu(u) PROVE ViewInv'
    BY <1>12, <1>13 DEF Menu
  <1>14. ASSUME NEW u \in Users, ListChannels(u) PROVE ViewInv'
    BY <1>14, ViewSame DEF ListChannels, Line
  <1>15. ASSUME NEW u \in Users, Answer(u) PROVE ViewInv'
    BY <1>15, ViewSame DEF Answer, Line
  <1>16. ASSUME NEW u \in Users, NEW n \in 1..Cardinality(Channels), OpenChannel(u, n)
         PROVE  ViewInv'
    <2>1. CASE n <= Len(Numbering(u))
      <3>1. Numbering(u)[n] \in Rooms /\ Numbering(u)[n] # NoRoom
        BY <2>1, NumberingIs, PeersAssumption DEF Rooms
      <3> QED BY <1>12, <1>16, <2>1, <3>1 DEF OpenChannel
    <2>2. CASE ~(n <= Len(Numbering(u)))
      BY <1>16, <2>2, ViewSame DEF OpenChannel, Line
    <2> QED BY <2>1, <2>2
  <1>17. ASSUME NEW u \in Users, NEW p \in Peers, OpenDm(u, p) PROVE ViewInv'
    <2>1. p \in Rooms /\ p # NoRoom
      BY PeersAssumption DEF Rooms
    <2> QED BY <1>12, <1>17, <2>1 DEF OpenDm
  <1>18. ASSUME NEW u \in Users, NEW op \in Sends, Send(u, op) PROVE ViewInv'
    <2>1. stored' = stored \/ \E i \in Mine : stored' = stored \cup {i}
      BY <1>18 DEF Send
    <2> QED BY <1>18, <2>1, ViewSame DEF Send, Line
  <1>19. CASE UNCHANGED vars
    BY <1>19, ViewSame DEF vars
  <1> QED
    BY <1>1, <1>2, <1>3, <1>4, <1>5, <1>6, <1>7, <1>8, <1>9, <1>11, <1>13, <1>14,
       <1>15, <1>16, <1>17, <1>18, <1>19 DEF Next, Feed

LEMMA InitView == Init => ViewInv
  <1> SUFFICES ASSUME Init, NEW u \in Users PROVE ViewOf(u)
    BY DEF ViewInv
  <1>1. session[u] = "none" /\ view[u] = NoRoom /\ live[u] = {} /\ shown[u] = NothingShown
    BY DEF Init
  <1> QED BY <1>1 DEF ViewOf, NoViewYet, Listens, ReadsRoom

LEMMA ViewInvariant == Spec => []ViewInv
  <1>1. Init => ViewInv
    BY InitView
  <1>2. TypeOK /\ TextInv /\ ViewInv /\ [Next]_vars => ViewInv'
    BY NextView
  <1> QED BY <1>1, <1>2, TypedInvariant, PTL DEF Spec

\* A session listens for the room of its view and for nothing else, and for nothing
\* once it is disposed of: setView() and dispose() tear down what they replace.
THEOREM LiveView == Spec => []LiveIsView
  <1>1. ViewInv => LiveIsView
    BY DEF ViewInv, ViewOf, Listens, LiveIsView
  <1> QED BY <1>1, ViewInvariant, PTL

\* What is shown in a room is the room: between the history that setView()'s callers
\* write and the listener it adds, no item of somebody else is missed, and none is shown
\* twice unless the agent received it again meanwhile (dispatch() emits it again).
THEOREM ViewComplete == Spec => []ViewIsComplete
  <1>1. ViewInv => ViewIsComplete
    BY DEF ViewInv, ViewOf, ReadsRoom, ViewIsComplete
  <1> QED BY <1>1, ViewInvariant, PTL

-----------------------------------------------------------------------------
(* The numbers of O.                                                       *)

\* The list the user saw last is the one the session numbers by.
ListedIsIndex == \A u \in Users : listed[u] # <<>> => index[u] = listed[u]

LEMMA NextListed == TypeOK /\ ListedIsIndex /\ [Next]_vars => ListedIsIndex'
  <1> SUFFICES ASSUME TypeOK, ListedIsIndex, [Next]_vars PROVE ListedIsIndex'
    OBVIOUS
  <1>1. ASSUME NEW u \in Users, ListChannels(u) PROVE ListedIsIndex'
    BY <1>1 DEF ListChannels, ListedIsIndex, TypeOK
  <1>2. ASSUME NEW u \in Users, NEW n \in 1..Cardinality(Channels), OpenChannel(u, n)
        PROVE  ListedIsIndex'
    BY <1>2 DEF OpenChannel, Numbering, ListedIsIndex, TypeOK
  <1>3. UNCHANGED <<index, listed>> => ListedIsIndex'
    BY DEF ListedIsIndex
  <1>4. ASSUME NEW u \in Users, Feed(u) PROVE ListedIsIndex'
    BY <1>1, <1>2, <1>3, <1>4 DEF Feed, Blank, Menu, Answer, OpenDm, Send
  <1>5. CASE (\E u \in Users : \/ Connect(u) \/ Finish(u) \/ TypeEmpty(u)
                               \/ \E cmd \in Commands : Type(u, cmd)
                               \/ \E k \in Chunks : ReadHeader(u, k) \/ ReadLines(u, k))
    BY <1>3, <1>5 DEF Connect, Finish, TypeEmpty, Type, ReadHeader, ReadLines
  <1>6. CASE CloseHead \/ (\E i \in Items : Arrive(i)) \/ (\E c \in Channels : NewChannel(c))
    BY <1>3, <1>6 DEF CloseHead, Arrive, NewChannel
  <1>7. CASE UNCHANGED vars
    BY <1>3, <1>7 DEF vars
  <1> QED BY <1>4, <1>5, <1>6, <1>7 DEF Next

\* O n opens what the user saw as n: channelIndex is taken anew only by CH and by an O
\* that finds it empty, whatever channels the service adds in between.
THEOREM Listed == Spec => OpensListed
  <1> DEFINE Opens == \A u \in Users, n \in 1..Cardinality(Channels) :
               OpenChannel(u, n) /\ n <= Len(listed[u]) => view'[u] = listed[u][n]
  <1>1. Init => ListedIsIndex
    BY DEF Init, ListedIsIndex
  <1>2. TypeOK /\ ListedIsIndex /\ [Next]_vars => [Opens]_vars
    <2> SUFFICES ASSUME TypeOK, ListedIsIndex, NEW u \in Users, NEW n \in 1..Cardinality(Channels),
                        OpenChannel(u, n), n <= Len(listed[u])
                 PROVE  view'[u] = listed[u][n]
      OBVIOUS
    <2>1. n \in Nat /\ n >= 1
      OBVIOUS
    <2>2. listed[u] # <<>>
      BY <2>1, EmptySeq
    <2>3. Numbering(u) = listed[u]
      BY <2>2 DEF ListedIsIndex, Numbering
    <2> QED BY <2>3 DEF OpenChannel, SetView, TypeOK
  <1>3. Spec => [][Opens]_vars
    BY <1>1, <1>2, NextListed, TypedInvariant, PTL DEF Spec
  <1> QED BY <1>3 DEF OpensListed
=============================================================================
