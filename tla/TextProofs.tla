----------------------------- MODULE TextProofs -----------------------------
(***************************************************************************)
(* Proofs about SpeakerAlignment, LiveText and ChunkText: how words become   *)
(* the text of a meeting, for any segments, turns, words and chunks.        *)
(***************************************************************************)
EXTENDS SpeakerAlignment, LiveText, ChunkText,
        FiniteSetTheorems, SequenceTheorems, WellFoundedInduction, TLAPS

-----------------------------------------------------------------------------
(* Counting up.                                                            *)
LEMMA Lowest ==
  ASSUME NEW X, X \subseteq Nat, X # {}
  PROVE  \E x \in X : \A y \in X : x <= y
<1>1. PICK x \in X : \A y \in X : ~ (<<y, x>> \in OpToRel(<, Nat))
  BY WFMin, NatLessThanWellFounded
<1>2. ASSUME NEW y \in X PROVE x <= y
  <2>1. y \in Nat /\ x \in Nat
    OBVIOUS
  <2>2. ~ (<<y, x>> \in {ss \in Nat \X Nat : ss[1] < ss[2]})
    BY <1>1 DEF OpToRel
  <2>3. ~ (y < x)
    BY <2>1, <2>2
  <2> QED
    BY <2>1, <2>3
<1> QED
  BY <1>2

(* What holds at 0 and is passed on from each number to the next holds up to *)
(* N.                                                                       *)
LEMMA CountingUp ==
  ASSUME NEW N \in Nat, NEW P, 0 \in P, \A n \in 1..N : n - 1 \in P => n \in P
  PROVE  \A n \in 0..N : n \in P
<1> DEFINE X == {n \in 0..N : n \notin P}
<1> SUFFICES ASSUME X # {} PROVE FALSE
  OBVIOUS
<1>1. X \subseteq Nat
  OBVIOUS
<1>2. PICK n \in X : \A y \in X : n <= y
  BY <1>1, Lowest
<1>3. n \in 1..N /\ n - 1 \in 0..N /\ n - 1 \notin X
  BY <1>2
<1>4. n - 1 \in P
  BY <1>3
<1> QED
  BY <1>3, <1>4, <1>2

(* A loop has its values: T says what they may be after each round.         *)
Rounds(N, T, base, step) ==
  N \in Nat /\ base \in T[0] /\ \A n \in 1..N : \A x \in T[n - 1] : step[<<x, n>>] \in T[n]
Runs(m, N, T, base, step) ==
  /\ m = [n \in 0..N |-> IF n = 0 THEN base ELSE step[<<m[n - 1], n>>]]
  /\ \A n \in 0..N : m[n] \in T[n]

LEMMA LoopRuns ==
  ASSUME NEW N, NEW T, NEW base, NEW step, Rounds(N, T, base, step)
  PROVE  \E m : Runs(m, N, T, base, step)
<1> USE DEF Rounds
<1> DEFINE Goes(m, n) == /\ m[0] = base
                         /\ \A k \in 1..n : m[k] = step[<<m[k - 1], k>>]
                         /\ \A k \in 0..n : m[k] \in T[k]
           P == {n \in 0..N : \E m : Goes(m, n)}
<1>1. 0 \in P
  <2>1. Goes([n \in {0} |-> base], 0)
    OBVIOUS
  <2> HIDE DEF Goes
  <2> QED
    BY <2>1
<1>2. ASSUME NEW n \in 1..N, n - 1 \in P PROVE n \in P
  <2>1. PICK m : Goes(m, n - 1)
    BY <1>2
  <2> DEFINE w == [k \in 0..n |-> IF k = n THEN step[<<m[n - 1], n>>] ELSE m[k]]
  <2>2. w[0] = base
    BY <2>1
  <2>3. step[<<m[n - 1], n>>] \in T[n]
    BY <2>1
  <2>4. ASSUME NEW k \in 0..n PROVE w[k] \in T[k]
    <3>1. k = n \/ k \in 0..(n - 1)
      OBVIOUS
    <3> QED
      BY <3>1, <2>1, <2>3
  <2>5. ASSUME NEW k \in 1..n PROVE w[k] = step[<<w[k - 1], k>>]
    <3>1. CASE k = n
      <4>1. w[n - 1] = m[n - 1] /\ w[n] = step[<<m[n - 1], n>>]
        OBVIOUS
      <4> QED
        BY <3>1, <4>1
    <3>2. CASE k # n
      <4>1. k \in 1..(n - 1) /\ w[k] = m[k] /\ w[k - 1] = m[k - 1]
        BY <3>2
      <4> QED
        BY <4>1, <2>1
    <3> QED
      BY <3>1, <3>2
  <2>6. Goes(w, n)
    BY <2>2, <2>4, <2>5
  <2> HIDE DEF Goes
  <2> QED
    BY <2>6
<1>3. N \in P
  <2> HIDE DEF P
  <2> QED
    BY <1>1, <1>2, CountingUp
<1>4. PICK m : Goes(m, N)
  BY <1>3
<1> DEFINE f == [n \in 0..N |-> m[n]]
<1>5. f = [n \in 0..N |-> IF n = 0 THEN base ELSE step[<<f[n - 1], n>>]]
  <2>1. ASSUME NEW n \in 0..N PROVE f[n] = IF n = 0 THEN base ELSE step[<<f[n - 1], n>>]
    <3>1. CASE n = 0
      BY <3>1, <1>4
    <3>2. CASE n # 0
      <4>1. n \in 1..N /\ f[n - 1] = m[n - 1] /\ f[n] = m[n]
        BY <3>2
      <4> QED
        BY <4>1, <1>4
    <3> QED
      BY <3>1, <3>2
  <2> QED
    BY <2>1
<1>6. \A n \in 0..N : f[n] \in T[n]
  BY <1>4
<1>7. Runs(f, N, T, base, step)
  BY <1>5, <1>6 DEF Runs
<1> QED
  BY <1>7

-----------------------------------------------------------------------------
(* Time shared with the turns.                                             *)
Interval(i) == i.from \in Nat /\ i.to \in Nat

LEMMA MostOfTwo == ASSUME NEW a \in Int, NEW b \in Int PROVE Max({a, b}) = IF a >= b THEN a ELSE b
BY DEF Max

LEMMA LeastOfTwo == ASSUME NEW a \in Int, NEW b \in Int PROVE Min({a, b}) = IF a <= b THEN a ELSE b
BY DEF Min

LEMMA SharedTimeIsNatural ==
  ASSUME NEW i, Interval(i), NEW t \in Turn PROVE SharedTime(i, t) \in Nat
<1>1. t.from \in Int /\ t.to \in Int /\ i.from \in Int /\ i.to \in Int
  BY AlignmentAssumption DEF Turn, Interval
<1> DEFINE d == Min({i.to, t.to}) - Max({i.from, t.from})
<1>2. d \in Int
  BY <1>1, MostOfTwo, LeastOfTwo
<1> HIDE DEF d
<1>3. Max({0, d}) \in Nat
  BY <1>2, MostOfTwo
<1> QED
  BY <1>3 DEF SharedTime, d

LEMMA OverlapIsNatural ==
  ASSUME turns \in Seq(Turn), NEW i, Interval(i), NEW s
  PROVE  OverlapOf(i, s) \in Nat /\ (turns = <<>> => OverlapOf(i, s) = 0)
<1> DEFINE N == Len(turns)
           part == [n \in 1..N |-> IF turns[n].speaker = s THEN SharedTime(i, turns[n]) ELSE 0]
           step == [p \in Nat \X (1..N) |-> p[1] + part[p[2]]]
           T == [n \in 0..N |-> Nat]
           sum[n \in 0..N] ==
             IF n = 0 THEN 0
             ELSE sum[n - 1] + (IF turns[n].speaker = s THEN SharedTime(i, turns[n]) ELSE 0)
<1>1. N \in Nat /\ \A n \in 1..N : part[n] \in Nat
  <2>1. ASSUME NEW n \in 1..N PROVE part[n] \in Nat
    <3>1. turns[n] \in Turn
      OBVIOUS
    <3> QED
      BY <3>1, SharedTimeIsNatural
  <2> QED
    BY <2>1
<1> DEFINE Rec(g) == g = [n \in 0..N |-> IF n = 0 THEN 0 ELSE g[n - 1]
                                          + (IF turns[n].speaker = s THEN SharedTime(i, turns[n]) ELSE 0)]
<1>2. \E g : Rec(g)
  <2> HIDE DEF N
  <2>1. \A n \in 1..N : \A x \in T[n - 1] : step[<<x, n>>] \in T[n]
    <3> HIDE DEF part
    <3>1. ASSUME NEW n \in 1..N, NEW x \in T[n - 1] PROVE step[<<x, n>>] \in T[n]
      <4>1. x \in Nat /\ part[n] \in Nat /\ n \in 0..N /\ n - 1 \in 0..N
        BY <1>1
      <4>2. step[<<x, n>>] = x + part[n]
        BY <4>1
      <4> QED
        BY <4>1, <4>2
    <3> QED
      BY <3>1
  <2>2. 0 \in T[0]
    BY <1>1
  <2> HIDE DEF T, step
  <2>3. PICK m : Runs(m, N, T, 0, step)
    <3>1. Rounds(N, T, 0, step)
      BY <1>1, <2>1, <2>2 DEF Rounds
    <3> QED
      BY <3>1, LoopRuns
  <2>4. ASSUME NEW n \in 0..N
        PROVE  (IF n = 0 THEN 0 ELSE step[<<m[n - 1], n>>]) =
               (IF n = 0 THEN 0 ELSE m[n - 1] + (IF turns[n].speaker = s THEN SharedTime(i, turns[n]) ELSE 0))
    <3>1. CASE n = 0
      BY <3>1
    <3>2. CASE n # 0
      <4>1. n \in 1..N /\ n - 1 \in 0..N
        BY <3>2, <1>1
      <4>2. m[n - 1] \in Nat
        BY <2>3, <4>1 DEF T, Runs
      <4>3. step[<<m[n - 1], n>>] = m[n - 1] + part[n]
        BY <4>1, <4>2 DEF step
      <4>4. part[n] = IF turns[n].speaker = s THEN SharedTime(i, turns[n]) ELSE 0
        BY <4>1
      <4> QED
        BY <3>2, <4>3, <4>4
    <3> QED
      BY <3>1, <3>2
  <2>5. Rec(m)
    BY <2>3, <2>4 DEF Runs
  <2> QED
    BY <2>5
<1>3. Rec(sum)
  <2>1. Rec(CHOOSE g : Rec(g))
    BY <1>2
  <2> QED
    BY <2>1
<1>4. OverlapOf(i, s) = sum[N]
  BY DEF OverlapOf
<1> HIDE DEF sum
<1>5. \A n \in 0..N : sum[n] \in Nat
  <2> DEFINE P == {n \in 0..N : sum[n] \in Nat}
  <2> HIDE DEF N
  <2>1. 0 \in P
    BY <1>1, <1>3
  <2>2. ASSUME NEW n \in 1..N, n - 1 \in P PROVE n \in P
    <3>1. part[n] \in Nat /\ sum[n - 1] \in Nat
      BY <1>1, <2>2
    <3>2. sum[n] = sum[n - 1] + part[n]
      BY <1>1, <1>3
    <3> QED
      BY <3>1, <3>2
  <2> HIDE DEF P
  <2>3. \A n \in 0..N : n \in P
    BY <1>1, <2>1, <2>2, CountingUp
  <2> QED
    BY <2>3 DEF P
<1>6. turns = <<>> => sum[N] = 0
  BY <1>3
<1> QED
  BY <1>1, <1>4, <1>5, <1>6

(* Somebody surpasses all.                                                 *)
LEMMA SomebodyIsGreatest ==
  ASSUME turns \in Seq(Turn), NEW i, Interval(i), NEW N \in Nat, N # 0
  PROVE  \E s \in 1..N : \A r \in 1..N : Surpasses(i, s, r)
<1> DEFINE Best(s, n) == s \in 1..n /\ \A r \in 1..n : Surpasses(i, s, r)
           P == {0} \cup {n \in 1..N : \E s : Best(s, n)}
<1>1. \A r : OverlapOf(i, r) \in Nat
  BY OverlapIsNatural
<1>2. ASSUME NEW n \in 1..N, n - 1 \in P PROVE n \in P
  <2>1. CASE n = 1
    <3>1. Best(1, 1)
      BY <1>1 DEF Surpasses
    <3> HIDE DEF Best
    <3> QED
      BY <2>1, <3>1
  <2>2. CASE n # 1
    <3>1. PICK s : Best(s, n - 1)
      BY <1>2, <2>2
    <3>2. CASE Surpasses(i, n, s)
      <4>1. ASSUME NEW r \in 1..n PROVE Surpasses(i, n, r)
        <5>1. r = n \/ (r \in 1..(n - 1) /\ Surpasses(i, s, r))
          BY <3>1
        <5>2. OverlapOf(i, r) \in Nat /\ OverlapOf(i, s) \in Nat /\ OverlapOf(i, n) \in Nat /\ s \in 1..n
          BY <1>1, <3>1
        <5> QED
          BY <5>1, <5>2, <3>2 DEF Surpasses
      <4>2. Best(n, n)
        BY <4>1
      <4> HIDE DEF Best
      <4> QED
        BY <4>2
    <3>3. CASE ~Surpasses(i, n, s)
      <4>1. OverlapOf(i, s) \in Nat /\ OverlapOf(i, n) \in Nat /\ s \in 1..n
        BY <1>1, <3>1
      <4>2. Surpasses(i, s, n)
        BY <3>3, <4>1 DEF Surpasses
      <4>3. \A r \in 1..n : r = n \/ r \in 1..(n - 1)
        OBVIOUS
      <4>4. Best(s, n)
        BY <3>1, <4>1, <4>2, <4>3
      <4> HIDE DEF Best
      <4> QED
        BY <4>4
    <3> QED
      BY <3>2, <3>3
  <2> QED
    BY <2>1, <2>2
<1>3. N \in P
  <2> HIDE DEF P
  <2>1. 0 \in P
    BY DEF P
  <2>2. \A n \in 0..N : n \in P
    BY <2>1, <1>2, CountingUp
  <2> QED
    BY <2>2
<1>4. \E s : Best(s, N)
  BY <1>3
<1> QED
  BY <1>4

LEMMA DistanceIsNatural ==
  ASSUME NEW i, Interval(i), NEW t \in Turn PROVE DistanceTo(i, t) \in Nat
<1>1. t.from \in Int /\ t.to \in Int /\ i.from \in Int /\ i.to \in Int
  BY AlignmentAssumption DEF Turn, Interval
<1> DEFINE a == t.from - i.to
           b == i.from - t.to
<1>2. a \in Int /\ b \in Int
  BY <1>1
<1> HIDE DEF a, b
<1>3. Max({a, b, 0}) \in Nat
  <2>1. \E x \in {a, b, 0} : \A y \in {a, b, 0} : x >= y
    <3>1. CASE a >= b /\ a >= 0
      BY <3>1, <1>2
    <3>2. CASE b >= a /\ b >= 0
      BY <3>2, <1>2
    <3>3. CASE 0 >= a /\ 0 >= b
      BY <3>3, <1>2
    <3> QED
      BY <1>2, <3>1, <3>2, <3>3
  <2>2. Max({a, b, 0}) \in {a, b, 0} /\ Max({a, b, 0}) >= 0
    BY <2>1 DEF Max
  <2> QED
    BY <1>2, <2>2
<1> QED
  BY <1>3 DEF DistanceTo, a, b

LEMMA LeastOf ==
  ASSUME NEW X, X \subseteq Nat, X # {} PROVE Min(X) \in X
BY Lowest DEF Min

(* An interval's speaker is one of the labels or nobody, and the one who     *)
(* alone overlaps it.                                                        *)
LEMMA IntervalHasSpeaker ==
  ASSUME turns \in Seq(Turn), turns # <<>>, NEW i, Interval(i)
  PROVE  SpeakerOfInterval(i) \in 0..Speakers
<1>0. Speakers \in Nat
  BY AlignmentAssumption
<1>1. CASE \E s \in 1..Speakers : OverlapOf(i, s) > 0
  <2>1. SpeakerOfInterval(i) = CHOOSE s \in 1..Speakers : \A r \in 1..Speakers : Surpasses(i, s, r)
    BY <1>1 DEF SpeakerOfInterval
  <2>2. \E s \in 1..Speakers : \A r \in 1..Speakers : Surpasses(i, s, r)
    <3>1. Speakers # 0
      BY <1>0, <1>1
    <3> QED
      BY <1>0, <3>1, SomebodyIsGreatest
  <2>3. SpeakerOfInterval(i) \in 1..Speakers
    BY <2>1, <2>2
  <2> QED
    BY <1>0, <2>3
<1>2. CASE ~ \E s \in 1..Speakers : OverlapOf(i, s) > 0
  <2> DEFINE D == {DistanceTo(i, turns[n]) : n \in DOMAIN turns}
             near == Min(D)
             S == {turns[n].speaker : n \in {m \in DOMAIN turns : DistanceTo(i, turns[m]) = near}}
  <2>1. DOMAIN turns # {} /\ \A n \in DOMAIN turns : turns[n] \in Turn
    <3>1. Len(turns) \in Nat /\ DOMAIN turns = 1..Len(turns) /\ Len(turns) # 0
      OBVIOUS
    <3>2. 1 \in DOMAIN turns
      BY <3>1
    <3> QED
      BY <3>2
  <2>2. D \subseteq Nat /\ D # {}
    BY <2>1, DistanceIsNatural
  <2>3. near \in D
    <3> HIDE DEF D
    <3> QED
      BY <2>2, LeastOf
  <2>4. S \subseteq 1..Speakers
    BY <2>1 DEF Turn
  <2>5. S # {}
    <3> HIDE DEF near
    <3> QED
      BY <2>3
  <2>6. Min(S) \in S
    <3> HIDE DEF S
    <3>1. S \subseteq Nat
      BY <2>4, <1>0
    <3> QED
      BY <3>1, <2>5, LeastOf
  <2>7. SpeakerOfInterval(i) = IF near <= GapTolerance THEN Min(S) ELSE NoSpeaker
    BY <1>2 DEF SpeakerOfInterval
  <2> HIDE DEF S, near
  <2> QED
    <3>1. Min(S) \in 1..Speakers
      BY <2>4, <2>6, Zenon
    <3>2. NoSpeaker \in 0..Speakers /\ 1..Speakers \subseteq 0..Speakers
      BY <1>0 DEF NoSpeaker
    <3> QED
      BY <2>7, <3>1, <3>2
<1> QED
  BY <1>1, <1>2

LEMMA AloneIsSpeaker ==
  ASSUME turns \in Seq(Turn), NEW i, Interval(i), NEW s \in 1..Speakers,
         OverlappedBy(i, s)
  PROVE  SpeakerOfInterval(i) = s
<1>0. Speakers \in Nat /\ \A r : OverlapOf(i, r) \in Nat
  BY AlignmentAssumption, OverlapIsNatural
<1>1. OverlapOf(i, s) > 0 /\ \A r \in 1..Speakers : r # s => OverlapOf(i, r) = 0
  BY <1>0 DEF OverlappedBy
<1> DEFINE Greatest(x) == x \in 1..Speakers /\ \A r \in 1..Speakers : Surpasses(i, x, r)
<1>2. Greatest(s)
  BY <1>0, <1>1 DEF Surpasses
<1>3. ASSUME NEW x, Greatest(x) PROVE x = s
  BY <1>0, <1>1, <1>3 DEF Surpasses
<1>4. SpeakerOfInterval(i) = CHOOSE x \in 1..Speakers : \A r \in 1..Speakers : Surpasses(i, x, r)
  BY <1>1 DEF SpeakerOfInterval
<1>5. Greatest(CHOOSE x \in 1..Speakers : \A r \in 1..Speakers : Surpasses(i, x, r))
  BY <1>2
<1> QED
  BY <1>3, <1>4, <1>5
-----------------------------------------------------------------------------
(* Items, and lists of items.                                              *)
TimedWord == [id : Nat, from : Nat, to : Nat]
Item == [from : Nat, to : Nat, speaker : 0..Speakers, text : Seq(Nat), words : Seq(TimedWord)]

(* A word with times that one speaker alone overlaps.                      *)
Claims(id, s) ==
  \E i \in DOMAIN asrSegments : \E k \in DOMAIN asrSegments[i].words :
    /\ ~SeemsRelative(asrSegments[i]) /\ asrSegments[i].words[k].id = id
    /\ s \in 1..Speakers
    /\ OverlappedBy(asrSegments[i].words[k], s)

FirstOf(x) == x.text[1]
LastOf(x) == x.text[Len(x.text)]

(* An item counts on, has the words of its text or none, and is said by      *)
(* whoever alone was heard with one of its words.                            *)
CountsOn(text) == Len(text) # 0 /\ \A k \in 2..Len(text) : text[k] = text[k - 1] + 1
Spells(x) == Len(x.words) # 0 => Len(x.words) = Len(x.text) /\ \A k \in 1..Len(x.text) : x.words[k].id = x.text[k]
Rightly(x) == \A k \in 1..Len(x.text) : \A s : Claims(x.text[k], s) => x.speaker = s
Sound(x) == x \in Item /\ x.from <= x.to /\ CountsOn(x.text) /\ Spells(x) /\ Rightly(x)

(* Sound items that count the words after a up to n.                        *)
Reads(L, a, n) ==
  /\ L \in Seq(Item) /\ \A i \in 1..Len(L) : Sound(L[i])
  /\ \A i \in 2..Len(L) : FirstOf(L[i]) = LastOf(L[i - 1]) + 1
  /\ Len(L) = 0 => a = n
  /\ Len(L) # 0 => FirstOf(L[1]) = a + 1 /\ LastOf(L[Len(L)]) = n

LEMMA NothingRead == ASSUME NEW a PROVE Reads(<<>>, a, a)
BY DEF Reads

LEMMA ItemAdded ==
  ASSUME NEW L, NEW a \in Nat, NEW n \in Nat, Reads(L, a, n), NEW x, Sound(x), FirstOf(x) = n + 1
  PROVE  Reads(Append(L, x), a, LastOf(x))
<1> DEFINE M == Append(L, x)
<1>1. L \in Seq(Item) /\ x \in Item /\ Len(L) \in Nat
  BY DEF Reads, Sound
<1>2. M \in Seq(Item) /\ Len(M) = Len(L) + 1 /\ M[Len(L) + 1] = x /\ \A i \in 1..Len(L) : M[i] = L[i]
  BY <1>1
<1> HIDE DEF M
<1>3. ASSUME NEW i \in 1..Len(M) PROVE Sound(M[i])
  <2>1. i \in 1..Len(L) \/ i = Len(L) + 1
    BY <1>1, <1>2
  <2> QED
    BY <2>1, <1>2 DEF Reads
<1>4. ASSUME NEW i \in 2..Len(M) PROVE FirstOf(M[i]) = LastOf(M[i - 1]) + 1
  <2>1. CASE i \in 2..Len(L)
    <3>1. i \in 1..Len(L) /\ i - 1 \in 1..Len(L)
      BY <2>1, <1>1
    <3> QED
      BY <2>1, <3>1, <1>2 DEF Reads
  <2>2. CASE i = Len(L) + 1
    <3>1. Len(L) # 0 /\ Len(L) \in 1..Len(L) /\ i - 1 = Len(L)
      BY <2>2, <1>1
    <3> QED
      BY <2>2, <3>1, <1>2 DEF Reads
  <2> QED
    BY <2>1, <2>2, <1>1, <1>2
<1>5. FirstOf(M[1]) = a + 1 /\ LastOf(M[Len(M)]) = LastOf(x)
  <2>1. CASE Len(L) = 0
    BY <2>1, <1>2 DEF Reads
  <2>2. CASE Len(L) # 0
    <3>1. 1 \in 1..Len(L)
      BY <1>1, <2>2
    <3> QED
      BY <3>1, <2>2, <1>2 DEF Reads
  <2> QED
    BY <2>1, <2>2
<1>6. Reads(M, a, LastOf(x))
  BY <1>1, <1>2, <1>3, <1>4, <1>5 DEF Reads
<1> QED
  BY <1>6 DEF M

LEMMA LastReplaced ==
  ASSUME NEW L, NEW a \in Nat, NEW n \in Nat, Reads(L, a, n), Len(L) # 0,
         NEW x, Sound(x), FirstOf(x) = FirstOf(L[Len(L)])
  PROVE  Reads([L EXCEPT ![Len(L)] = x], a, LastOf(x))
<1> DEFINE M == [L EXCEPT ![Len(L)] = x]
<1>1. L \in Seq(Item) /\ x \in Item /\ Len(L) \in Nat /\ Len(L) \in 1..Len(L)
  BY DEF Reads, Sound
<1>2. M \in Seq(Item) /\ Len(M) = Len(L) /\ \A i \in 1..Len(L) : M[i] = IF i = Len(L) THEN x ELSE L[i]
  BY <1>1
<1> HIDE DEF M
<1>3. ASSUME NEW i \in 1..Len(M) PROVE Sound(M[i])
  BY <1>2 DEF Reads
<1>4. ASSUME NEW i \in 1..Len(M) PROVE FirstOf(M[i]) = FirstOf(L[i])
  BY <1>2
<1>5. ASSUME NEW i \in 2..Len(M) PROVE FirstOf(M[i]) = LastOf(M[i - 1]) + 1
  <2>1. i \in 1..Len(L) /\ i - 1 \in 1..Len(L) /\ i - 1 # Len(L) /\ i \in 2..Len(L)
    BY <1>1, <1>2
  <2>2. M[i - 1] = L[i - 1] /\ FirstOf(M[i]) = FirstOf(L[i])
    BY <2>1, <1>2, <1>4
  <2> QED
    BY <2>1, <2>2 DEF Reads
<1>6. 1 \in 1..Len(M) /\ FirstOf(M[1]) = a + 1 /\ M[Len(M)] = x
  <2>1. 1 \in 1..Len(M)
    BY <1>1, <1>2
  <2> QED
    BY <2>1, <1>1, <1>2, <1>4 DEF Reads
<1>7. Reads(M, a, LastOf(x))
  BY <1>1, <1>2, <1>3, <1>5, <1>6 DEF Reads
<1> QED
  BY <1>7 DEF M

LEMMA ListsJoined ==
  ASSUME NEW L, NEW M, NEW a \in Nat, NEW n \in Nat, NEW m \in Nat, Reads(L, a, n), Reads(M, n, m)
  PROVE  Reads(L \o M, a, m)
<1> DEFINE K == L \o M
<1>1. L \in Seq(Item) /\ M \in Seq(Item) /\ Len(L) \in Nat /\ Len(M) \in Nat
  BY DEF Reads
<1>2. /\ K \in Seq(Item) /\ Len(K) = Len(L) + Len(M)
      /\ \A i \in 1..Len(L) : K[i] = L[i]
      /\ \A i \in (Len(L) + 1)..(Len(L) + Len(M)) : K[i] = M[i - Len(L)]
  BY <1>1
<1> HIDE DEF K
<1>3. ASSUME NEW i \in 1..Len(K) PROVE Sound(K[i])
  <2>1. CASE i \in 1..Len(L)
    BY <2>1, <1>2 DEF Reads
  <2>2. CASE i \notin 1..Len(L)
    <3>1. i \in (Len(L) + 1)..(Len(L) + Len(M)) /\ i - Len(L) \in 1..Len(M)
      BY <2>2, <1>1, <1>2
    <3> QED
      BY <3>1, <1>2 DEF Reads
  <2> QED
    BY <2>1, <2>2
<1>4. ASSUME NEW i \in 2..Len(K) PROVE FirstOf(K[i]) = LastOf(K[i - 1]) + 1
  <2>1. CASE i <= Len(L)
    <3>1. i \in 2..Len(L) /\ i \in 1..Len(L) /\ i - 1 \in 1..Len(L)
      BY <2>1, <1>1
    <3> QED
      BY <3>1, <1>2 DEF Reads
  <2>2. CASE i = Len(L) + 1
    <3>1. Len(L) # 0 /\ Len(M) # 0 /\ i - 1 = Len(L) /\ Len(L) \in 1..Len(L)
          /\ i \in (Len(L) + 1)..(Len(L) + Len(M)) /\ i - Len(L) = 1
      BY <2>2, <1>1, <1>2
    <3>2. K[i] = M[1] /\ K[i - 1] = L[Len(L)]
      BY <3>1, <1>2
    <3> QED
      BY <3>1, <3>2 DEF Reads
  <2>3. CASE i > Len(L) + 1
    <3> DEFINE j == i - Len(L)
    <3>1. /\ i \in (Len(L) + 1)..(Len(L) + Len(M)) /\ i - 1 \in (Len(L) + 1)..(Len(L) + Len(M))
          /\ j \in 2..Len(M) /\ i - 1 - Len(L) = j - 1
      BY <2>3, <1>1, <1>2
    <3>2. K[i] = M[j] /\ K[i - 1] = M[j - 1]
      BY <3>1, <1>2
    <3> HIDE DEF j
    <3> QED
      BY <3>1, <3>2 DEF Reads
  <2> QED
    BY <2>1, <2>2, <2>3, <1>1, <1>2
<1>5. Len(K) = 0 => a = m
  BY <1>1, <1>2 DEF Reads
<1>6. ASSUME Len(K) # 0 PROVE FirstOf(K[1]) = a + 1 /\ LastOf(K[Len(K)]) = m
  <2>1. FirstOf(K[1]) = a + 1
    <3>1. CASE Len(L) # 0
      <4>1. 1 \in 1..Len(L)
        BY <3>1, <1>1
      <4> QED
        BY <4>1, <3>1, <1>2 DEF Reads
    <3>2. CASE Len(L) = 0
      <4>1. Len(M) # 0 /\ 1 \in (Len(L) + 1)..(Len(L) + Len(M)) /\ 1 - Len(L) = 1
        BY <3>2, <1>1, <1>2, <1>6
      <4>2. K[1] = M[1]
        BY <4>1, <1>2
      <4> QED
        BY <4>1, <4>2, <3>2 DEF Reads
    <3> QED
      BY <3>1, <3>2
  <2>2. LastOf(K[Len(K)]) = m
    <3>1. CASE Len(M) # 0
      <4>1. Len(K) \in (Len(L) + 1)..(Len(L) + Len(M)) /\ Len(K) - Len(L) = Len(M)
        BY <3>1, <1>1, <1>2
      <4>2. K[Len(K)] = M[Len(M)]
        BY <4>1, <1>2
      <4> QED
        BY <3>1, <4>2 DEF Reads
    <3>2. CASE Len(M) = 0
      <4>1. Len(L) # 0 /\ Len(K) = Len(L) /\ Len(L) \in 1..Len(L)
        BY <3>2, <1>1, <1>2, <1>6
      <4>2. K[Len(K)] = L[Len(L)]
        BY <4>1, <1>2
      <4> QED
        BY <4>1, <4>2, <3>2 DEF Reads
    <3> QED
      BY <3>1, <3>2
  <2> QED
    BY <2>1, <2>2
<1>7. Reads(K, a, m)
  BY <1>2, <1>3, <1>4, <1>5, <1>6 DEF Reads
<1> QED
  BY <1>7 DEF K

(* Where the elements of the second of two joined sequences are.            *)
LEMMA PlaceInSecond ==
  ASSUME NEW a \in Nat, NEW b \in Nat, NEW k \in 2..(a + b), k > a + 1
  PROVE  /\ k \in (a + 1)..(a + b) /\ k - 1 \in (a + 1)..(a + b)
         /\ k - a \in 2..b /\ k - 1 - a = (k - a) - 1
OBVIOUS

(* Two items of one speaker that follow each other are one sound item.      *)
LEMMA TextsJoined ==
  ASSUME NEW p \in Seq(Nat), NEW q \in Seq(Nat), CountsOn(p), CountsOn(q), q[1] = p[Len(p)] + 1
  PROVE  /\ CountsOn(p \o q) /\ p \o q \in Seq(Nat) /\ Len(p \o q) = Len(p) + Len(q)
         /\ (p \o q)[1] = p[1] /\ (p \o q)[Len(p \o q)] = q[Len(q)]
         /\ \A k \in 1..Len(p) : (p \o q)[k] = p[k]
         /\ \A k \in (Len(p) + 1)..(Len(p) + Len(q)) : (p \o q)[k] = q[k - Len(p)]
<1> DEFINE r == p \o q
<1>1. Len(p) \in Nat \ {0} /\ Len(q) \in Nat \ {0}
  BY DEF CountsOn
<1>2. /\ r \in Seq(Nat) /\ Len(r) = Len(p) + Len(q)
      /\ \A k \in 1..Len(p) : r[k] = p[k]
      /\ \A k \in (Len(p) + 1)..(Len(p) + Len(q)) : r[k] = q[k - Len(p)]
  OBVIOUS
<1> HIDE DEF r
<1>3. ASSUME NEW k \in 2..Len(r) PROVE r[k] = r[k - 1] + 1
  <2>1. CASE k <= Len(p)
    <3>1. k \in 2..Len(p) /\ k \in 1..Len(p) /\ k - 1 \in 1..Len(p)
      BY <2>1, <1>1
    <3> QED
      BY <3>1, <1>2 DEF CountsOn
  <2>2. CASE k = Len(p) + 1
    <3>1. k - 1 \in 1..Len(p) /\ k - 1 = Len(p) /\ k \in (Len(p) + 1)..(Len(p) + Len(q)) /\ k - Len(p) = 1
      BY <2>2, <1>1
    <3> QED
      BY <3>1, <1>2
  <2>3. CASE k > Len(p) + 1
    <3> DEFINE j == k - Len(p)
    <3>1. /\ k \in (Len(p) + 1)..(Len(p) + Len(q)) /\ k - 1 \in (Len(p) + 1)..(Len(p) + Len(q))
          /\ j \in 2..Len(q) /\ k - 1 - Len(p) = j - 1
      <4> k \in 2..(Len(p) + Len(q)) /\ Len(p) \in Nat /\ Len(q) \in Nat
        BY <1>1, <1>2
      <4> QED
        BY <2>3, PlaceInSecond
    <3>2. r[k] = q[j] /\ r[k - 1] = q[j - 1]
      BY <3>1, <1>2
    <3> HIDE DEF j
    <3> QED
      BY <3>1, <3>2 DEF CountsOn
  <2> QED
    BY <2>1, <2>2, <2>3, <1>1, <1>2
<1>4. r[1] = p[1] /\ r[Len(r)] = q[Len(q)]
  <2>1. 1 \in 1..Len(p) /\ Len(r) \in (Len(p) + 1)..(Len(p) + Len(q)) /\ Len(r) - Len(p) = Len(q)
    BY <1>1, <1>2
  <2> QED
    BY <2>1, <1>2
<1>5. CountsOn(r)
  BY <1>1, <1>2, <1>3 DEF CountsOn
<1> QED
  BY <1>2, <1>4, <1>5 DEF r

LEMMA ItemsJoined ==
  ASSUME NEW x, NEW y, Sound(x), Sound(y), x.speaker = y.speaker, FirstOf(y) = LastOf(x) + 1
  PROVE  Sound(Joined(x, y)) /\ FirstOf(Joined(x, y)) = FirstOf(x) /\ LastOf(Joined(x, y)) = LastOf(y)
<1> DEFINE j == Joined(x, y)
           p == x.text
           q == y.text
<1>1. /\ x.from \in Nat /\ x.to \in Nat /\ x.speaker \in 0..Speakers /\ p \in Seq(Nat)
      /\ x.words \in Seq(TimedWord) /\ x.from <= x.to /\ CountsOn(p)
  BY DEF Sound, Item
<1>2. /\ y.from \in Nat /\ y.to \in Nat /\ q \in Seq(Nat)
      /\ y.words \in Seq(TimedWord) /\ y.from <= y.to /\ CountsOn(q)
  BY DEF Sound, Item
<1>3. /\ j.from = x.from /\ j.to = Max({x.to, y.to}) /\ j.speaker = x.speaker /\ j.text = p \o q
      /\ j.words = IF x.words # <<>> /\ y.words # <<>> THEN x.words \o y.words ELSE <<>>
      /\ j = [from |-> j.from, to |-> j.to, speaker |-> j.speaker, text |-> j.text, words |-> j.words]
  <2>2. j = [from |-> x.from, to |-> Max({x.to, y.to}), speaker |-> x.speaker, text |-> p \o q,
             words |-> IF x.words # <<>> /\ y.words # <<>> THEN x.words \o y.words ELSE <<>>]
    BY DEF Joined
  <2> HIDE DEF j, p, q
  <2> QED
    BY <2>2
<1>4. j.to \in Nat /\ j.from <= j.to
  <2>1. Max({x.to, y.to}) = IF x.to >= y.to THEN x.to ELSE y.to
    <3>1. x.to \in Int /\ y.to \in Int
      BY <1>1, <1>2
    <3> QED
      BY <3>1, MostOfTwo
  <2> QED
    BY <2>1, <1>1, <1>2, <1>3
<1>5. q[1] = p[Len(p)] + 1
  BY DEF FirstOf, LastOf
<1>6. /\ CountsOn(p \o q) /\ p \o q \in Seq(Nat) /\ Len(p \o q) = Len(p) + Len(q)
      /\ (p \o q)[1] = p[1] /\ (p \o q)[Len(p \o q)] = q[Len(q)]
      /\ \A k \in 1..Len(p) : (p \o q)[k] = p[k]
      /\ \A k \in (Len(p) + 1)..(Len(p) + Len(q)) : (p \o q)[k] = q[k - Len(p)]
  <2> HIDE DEF p, q
  <2> QED
    BY <1>1, <1>2, <1>5, TextsJoined
<1> HIDE DEF j, p, q
<1>7. Len(p) \in Nat /\ Len(q) \in Nat
  BY <1>1, <1>2
<1>8. j.words \in Seq(TimedWord)
  BY <1>1, <1>2, <1>3
<1>9. j \in Item
  BY <1>1, <1>3, <1>4, <1>6, <1>8 DEF Item
<1>10. Rightly(j)
  <2>1. ASSUME NEW k \in 1..Len(j.text), NEW s, Claims(j.text[k], s) PROVE j.speaker = s
    <3>1. CASE k \in 1..Len(p)
      BY <3>1, <2>1, <1>3, <1>6 DEF Sound, Rightly, p
    <3>2. CASE k \notin 1..Len(p)
      <4>1. k \in (Len(p) + 1)..(Len(p) + Len(q)) /\ k - Len(p) \in 1..Len(q)
        BY <3>2, <1>3, <1>6, <1>7
      <4>2. Claims(q[k - Len(p)], s)
        BY <4>1, <2>1, <1>3, <1>6
      <4> QED
        BY <4>1, <4>2, <1>3 DEF Sound, Rightly, q
    <3> QED
      BY <3>1, <3>2
  <2> QED
    BY <2>1 DEF Rightly
<1>11. Spells(j)
  <2>1. CASE x.words # <<>> /\ y.words # <<>>
    <3> DEFINE u == x.words
               v == y.words
    <3>1. u \in Seq(TimedWord) /\ v \in Seq(TimedWord) /\ Len(u) # 0 /\ Len(v) # 0
      BY <1>1, <1>2, <2>1, EmptySeq
    <3>2. /\ Len(u) = Len(p) /\ \A k \in 1..Len(p) : u[k].id = p[k]
          /\ Len(v) = Len(q) /\ \A k \in 1..Len(q) : v[k].id = q[k]
      BY <3>1 DEF Sound, Spells, p, q
    <3>3. j.words = u \o v
      BY <2>1, <1>3
    <3> HIDE DEF u, v
    <3>4. /\ Len(u \o v) = Len(p) + Len(q)
          /\ \A k \in 1..Len(p) : (u \o v)[k] = u[k]
          /\ \A k \in (Len(p) + 1)..(Len(p) + Len(q)) : (u \o v)[k] = v[k - Len(p)]
      <4>1. /\ Len(u \o v) = Len(u) + Len(v)
            /\ \A k \in 1..Len(u) : (u \o v)[k] = u[k]
            /\ \A k \in (Len(u) + 1)..(Len(u) + Len(v)) : (u \o v)[k] = v[k - Len(u)]
        BY <3>1
      <4> QED
        BY <4>1, <3>2
    <3>5. ASSUME NEW k \in 1..(Len(p) + Len(q)) PROVE (u \o v)[k].id = (p \o q)[k]
      <4>1. CASE k \in 1..Len(p)
        BY <4>1, <3>2, <3>4, <1>6
      <4>2. CASE k \notin 1..Len(p)
        <5>1. k \in (Len(p) + 1)..(Len(p) + Len(q)) /\ k - Len(p) \in 1..Len(q)
          BY <4>2, <1>7
        <5> QED
          BY <5>1, <3>2, <3>4, <1>6
      <4> QED
        BY <4>1, <4>2
    <3> QED
      BY <3>3, <3>4, <3>5, <1>3, <1>6 DEF Spells
  <2>2. CASE ~(x.words # <<>> /\ y.words # <<>>)
    <3>1. j.words = <<>> /\ Len(<<>>) = 0
      BY <2>2, <1>3
    <3> QED
      BY <3>1 DEF Spells
  <2> QED
    BY <2>1, <2>2
<1>12. Sound(j)
  BY <1>1, <1>3, <1>4, <1>6, <1>9, <1>10, <1>11 DEF Sound
<1>13. FirstOf(j) = FirstOf(x) /\ LastOf(j) = LastOf(y)
  BY <1>3, <1>6 DEF FirstOf, LastOf, p, q
<1> QED
  BY <1>12, <1>13 DEF j

LEMMA MergingReads ==
  ASSUME NEW L, NEW a \in Nat, NEW n \in Nat, Reads(L, a, n), NEW x, Sound(x), FirstOf(x) = n + 1
  PROVE  Reads(MergeOne(L, x), a, LastOf(x))
<1> DEFINE joins == L # <<>> /\ Last(L).speaker = x.speaker /\ x.from <= Last(L).to + GapTolerance
<1>0. L \in Seq(Item) /\ Len(L) \in Nat
  BY DEF Reads
<1>1. CASE joins
  <2> DEFINE y == L[Len(L)]
  <2>1. Len(L) # 0 /\ Len(L) \in 1..Len(L)
    BY <1>0, <1>1, EmptySeq
  <2>2. Sound(y) /\ LastOf(y) = n /\ y.speaker = x.speaker
    BY <2>1, <1>1 DEF Reads, Last
  <2>3. MergeOne(L, x) = [L EXCEPT ![Len(L)] = Joined(y, x)]
    BY <1>1 DEF MergeOne
  <2>4. Sound(Joined(y, x)) /\ FirstOf(Joined(y, x)) = FirstOf(y) /\ LastOf(Joined(y, x)) = LastOf(x)
    <3> HIDE DEF y
    <3> QED
      BY <2>2, ItemsJoined
  <2>5. Reads([L EXCEPT ![Len(L)] = Joined(y, x)], a, LastOf(Joined(y, x)))
    <3> DEFINE z == Joined(y, x)
    <3>1. Sound(z) /\ FirstOf(z) = FirstOf(L[Len(L)])
      BY <2>4
    <3>2. Len(L) # 0
      BY <2>1
    <3> HIDE DEF z
    <3>3. Reads([L EXCEPT ![Len(L)] = z], a, LastOf(z))
      BY <3>1, <3>2, LastReplaced
    <3> QED
      BY <3>3 DEF z
  <2> QED
    BY <2>3, <2>4, <2>5
<1>2. CASE ~joins
  BY <1>2, ItemAdded DEF MergeOne
<1> QED
  BY <1>1, <1>2

LEMMA MergedReads ==
  ASSUME NEW L, Reads(L, 0, WordCount), WordCount \in Nat
  PROVE  Reads(Merged(L), 0, WordCount)
<1> DEFINE N == Len(L)
           read(n) == IF n = 0 THEN 0 ELSE LastOf(L[n])
           T == [n \in 0..N |-> {M \in Seq(Item) : Reads(M, 0, read(n))}]
           step == [p \in Seq(Item) \X (1..N) |-> MergeOne(p[1], L[p[2]])]
           merged[n \in 0..N] == IF n = 0 THEN <<>> ELSE MergeOne(merged[n - 1], L[n])
           Rec(g) == g = [n \in 0..N |-> IF n = 0 THEN <<>> ELSE MergeOne(g[n - 1], L[n])]
<1>0. N \in Nat /\ L \in Seq(Item)
  BY DEF Reads
<1>1. ASSUME NEW n \in 1..N
      PROVE  Sound(L[n]) /\ FirstOf(L[n]) = read(n - 1) + 1 /\ read(n) = LastOf(L[n]) /\ read(n) \in Nat
  <2>1. Sound(L[n]) /\ (n = 1 => FirstOf(L[n]) = 1) /\ (n # 1 => FirstOf(L[n]) = LastOf(L[n - 1]) + 1)
    BY <1>0 DEF Reads
  <2>2. LastOf(L[n]) \in Nat
    <3>1. L[n].text \in Seq(Nat) /\ Len(L[n].text) # 0
      BY <2>1 DEF Sound, Item, CountsOn
    <3>2. Len(L[n].text) \in 1..Len(L[n].text)
      BY <3>1
    <3> QED
      BY <3>1, <3>2 DEF LastOf
  <2> QED
    BY <1>0, <2>1, <2>2
<1>2. \A n \in 0..N : read(n) \in Nat
  BY <1>1, <1>0
<1>3. ASSUME NEW n \in 1..N, NEW M, Reads(M, 0, read(n - 1)) PROVE Reads(MergeOne(M, L[n]), 0, read(n))
  <2>1. n - 1 \in 0..N /\ read(n - 1) \in Nat
    BY <1>0, <1>2
  <2> HIDE DEF read
  <2> QED
    BY <2>1, <1>1, <1>3, MergingReads
<1> HIDE DEF N, read
<1>4. 0 \in 0..N /\ \A n \in 1..N : n \in 0..N /\ n - 1 \in 0..N
  BY <1>0
<1>5. T[0] = {M \in Seq(Item) : Reads(M, 0, 0)} /\ <<>> \in T[0]
  <2>1. read(0) = 0
    BY DEF read
  <2>2. Reads(<<>>, 0, 0)
    BY NothingRead
  <2> QED
    BY <2>1, <2>2, <1>4
<1>6. ASSUME NEW n \in 1..N, NEW x \in T[n - 1] PROVE MergeOne(x, L[n]) \in T[n]
  <2>1. Reads(x, 0, read(n - 1))
    BY <1>4
  <2>2. Reads(MergeOne(x, L[n]), 0, read(n))
    BY <2>1, <1>3
  <2> QED
    BY <1>4, <2>2 DEF Reads
<1>7. \E g : Rec(g)
  <2>1. ASSUME NEW n \in 1..N, NEW x \in T[n - 1] PROVE step[<<x, n>>] = MergeOne(x, L[n])
    <3>1. x \in Seq(Item)
      BY <1>4
    <3> QED
      BY <3>1
  <2> HIDE DEF T, step
  <2>2. Rounds(N, T, <<>>, step)
    BY <1>0, <1>5, <1>6, <2>1 DEF Rounds
  <2>3. PICK m : Runs(m, N, T, <<>>, step)
    BY <2>2, LoopRuns
  <2>4. \A n \in 0..N : (IF n = 0 THEN <<>> ELSE step[<<m[n - 1], n>>])
                        = (IF n = 0 THEN <<>> ELSE MergeOne(m[n - 1], L[n]))
    <3>1. ASSUME NEW n \in 0..N, n # 0 PROVE step[<<m[n - 1], n>>] = MergeOne(m[n - 1], L[n])
      <4>1. n \in 1..N /\ m[n - 1] \in T[n - 1]
        BY <1>0, <2>3, <3>1, <1>4 DEF Runs
      <4> QED
        BY <4>1, <2>1
    <3> QED
      BY <3>1
  <2>5. Rec(m)
    BY <2>3, <2>4 DEF Runs
  <2> QED
    BY <2>5
<1>8. Rec(merged)
  <2>1. Rec(CHOOSE g : Rec(g))
    BY <1>7
  <2> QED
    BY <2>1
<1> HIDE DEF merged
<1>9. \A n \in 0..N : merged[n] \in T[n]
  <2> DEFINE P == {n \in 0..N : merged[n] \in T[n]}
  <2>1. 0 \in P
    BY <1>4, <1>5, <1>8
  <2>2. ASSUME NEW n \in 1..N, n - 1 \in P PROVE n \in P
    <3>1. merged[n] = MergeOne(merged[n - 1], L[n])
      BY <1>4, <1>8
    <3>2. merged[n - 1] \in T[n - 1]
      BY <2>2
    <3> HIDE DEF T
    <3> QED
      BY <3>1, <3>2, <1>4, <1>6
  <2> HIDE DEF P
  <2>3. \A n \in 0..N : n \in P
    BY <1>0, <2>1, <2>2, CountingUp
  <2> QED
    BY <2>3 DEF P
<1>10. Merged(L) = merged[N]
  BY DEF Merged, merged, N
<1>11. read(N) = WordCount
  BY <1>0 DEF read, N, Reads
<1> QED
  BY <1>0, <1>4, <1>9, <1>10, <1>11

(* A group takes the next word of its speaker, or a new one begins.         *)
GroupsTo(G, a, n, to) ==
  Reads(G, a, n) /\ (Len(G) # 0 => G[Len(G)].to <= to /\ Len(G[Len(G)].words) # 0)

LEMMA WordIsItem ==
  ASSUME NEW w \in TimedWord, w.from <= w.to, NEW s \in 0..Speakers, \A t : Claims(w.id, t) => s = t,
         NEW x, x = [from |-> w.from, to |-> w.to, speaker |-> s, text |-> <<w.id>>, words |-> <<w>>]
  PROVE  Sound(x) /\ FirstOf(x) = w.id /\ LastOf(x) = w.id /\ x.to = w.to /\ Len(x.words) # 0
<1>1. w.id \in Nat /\ w.from \in Nat /\ w.to \in Nat
  BY DEF TimedWord
<1>2. /\ x.from = w.from /\ x.to = w.to /\ x.speaker = s /\ x.text = <<w.id>> /\ x.words = <<w>>
  OBVIOUS
<1>3. /\ <<w.id>> \in Seq(Nat) /\ Len(<<w.id>>) = 1 /\ <<w.id>>[1] = w.id
      /\ <<w>> \in Seq(TimedWord) /\ Len(<<w>>) = 1 /\ <<w>>[1] = w
  BY <1>1
<1>4. x \in Item
  BY <1>1, <1>3 DEF Item
<1>5. CountsOn(x.text) /\ Spells(x) /\ Rightly(x)
  BY <1>2, <1>3 DEF CountsOn, Spells, Rightly
<1> QED
  BY <1>2, <1>3, <1>4, <1>5 DEF Sound, FirstOf, LastOf

LEMMA WordJoinsGroup ==
  ASSUME NEW g, Sound(g), Len(g.words) # 0, NEW w \in TimedWord, g.to <= w.to, w.id = LastOf(g) + 1,
         \A t : Claims(w.id, t) => g.speaker = t
  PROVE  /\ Sound(Longer(g, w)) /\ FirstOf(Longer(g, w)) = FirstOf(g) /\ LastOf(Longer(g, w)) = w.id
         /\ Longer(g, w).to = w.to /\ Len(Longer(g, w).words) # 0
<1> DEFINE j == Longer(g, w)
           p == g.text
           u == g.words
           n == Len(p)
<1>1. w.id \in Nat /\ w.from \in Nat /\ w.to \in Nat
  BY DEF TimedWord
<1>2. /\ g.from \in Nat /\ g.to \in Nat /\ g.speaker \in 0..Speakers /\ g.from <= g.to
      /\ p \in Seq(Nat) /\ CountsOn(p) /\ u \in Seq(TimedWord) /\ Len(u) = Len(p)
      /\ \A k \in 1..Len(p) : u[k].id = p[k]
  BY DEF Sound, Item, Spells
<1>3. j = [from |-> g.from, to |-> w.to, speaker |-> g.speaker, text |-> Append(p, w.id), words |-> Append(u, w)]
  BY DEF Longer
<1> DEFINE q == Append(p, w.id)
           v == Append(u, w)
<1>4. n \in Nat /\ n # 0 /\ p[n] + 1 = w.id
  BY <1>2 DEF CountsOn, LastOf
<1> HIDE DEF j, p, u
<1>5. /\ q \in Seq(Nat) /\ Len(q) = n + 1 /\ q[n + 1] = w.id /\ \A k \in 1..n : q[k] = p[k]
      /\ v \in Seq(TimedWord) /\ Len(v) = n + 1 /\ v[n + 1] = w /\ \A k \in 1..n : v[k] = u[k]
  BY <1>1, <1>2
<1> HIDE DEF q, v
<1>6. j.from = g.from /\ j.to = w.to /\ j.speaker = g.speaker /\ j.text = q /\ j.words = v
  BY <1>3 DEF q, v
<1>7. \A k \in 1..(n + 1) : k \in 1..n \/ k = n + 1
  BY <1>4
<1>8. CountsOn(q)
  <2>1. ASSUME NEW k \in 2..Len(q) PROVE q[k] = q[k - 1] + 1
    <3>1. CASE k = n + 1
      <4>1. k - 1 = n /\ n \in 1..n
        BY <3>1, <1>4
      <4> QED
        BY <3>1, <4>1, <1>4, <1>5
    <3>2. CASE k # n + 1
      <4>1. k \in 2..n /\ k \in 1..n /\ k - 1 \in 1..n
        BY <3>2, <1>4, <1>5
      <4> QED
        BY <4>1, <1>2, <1>5 DEF CountsOn, n
    <3> QED
      BY <3>1, <3>2
  <2> QED
    BY <2>1, <1>4, <1>5 DEF CountsOn
<1>9. Spells(j)
  <2>1. \A k \in 1..(n + 1) : v[k].id = q[k]
    BY <1>2, <1>5, <1>7 DEF n
  <2> QED
    BY <2>1, <1>5, <1>6 DEF Spells
<1>10. Rightly(j)
  <2>1. ASSUME NEW k \in 1..(n + 1), NEW s, Claims(q[k], s) PROVE g.speaker = s
    <3>1. CASE k \in 1..n
      BY <3>1, <2>1, <1>5 DEF Sound, Rightly, p, n
    <3>2. CASE k = n + 1
      BY <3>2, <2>1, <1>5
    <3> QED
      BY <3>1, <3>2, <1>7
  <2> QED
    BY <2>1, <1>5, <1>6 DEF Rightly
<1>11. j \in Item /\ j.from <= j.to
  BY <1>1, <1>2, <1>3, <1>5 DEF Item, q, v
<1>12. Sound(j)
  BY <1>6, <1>8, <1>9, <1>10, <1>11 DEF Sound
<1>13. FirstOf(j) = FirstOf(g) /\ LastOf(j) = w.id /\ j.to = w.to /\ Len(j.words) # 0
  <2>1. 1 \in 1..n
    BY <1>4
  <2> QED
    BY <2>1, <1>4, <1>5, <1>6 DEF FirstOf, LastOf, p
<1> QED
  BY <1>12, <1>13 DEF j

LEMMA WordAdded ==
  ASSUME NEW G, NEW a \in Nat, NEW n \in Nat, NEW w \in TimedWord, GroupsTo(G, a, n, w.to),
         w.from <= w.to, w.id = n + 1, NEW s \in 0..Speakers, \A t : Claims(w.id, t) => s = t
  PROVE  GroupsTo(WithWord(G, w, s), a, n + 1, w.to)
<1>0. G \in Seq(Item) /\ Len(G) \in Nat /\ w.to \in Nat
  BY DEF GroupsTo, Reads, TimedWord
<1> DEFINE joins == G # <<>> /\ Last(G).speaker = s
<1>1. CASE joins
  <2> DEFINE g == G[Len(G)]
             z == Longer(g, w)
  <2>1. Len(G) # 0 /\ Len(G) \in 1..Len(G)
    BY <1>0, <1>1, EmptySeq
  <2>2. Sound(g) /\ LastOf(g) = n /\ g.speaker = s /\ g.to <= w.to /\ Len(g.words) # 0
    BY <2>1, <1>1 DEF Reads, Last, GroupsTo
  <2>3. WithWord(G, w, s) = [G EXCEPT ![Len(G)] = z]
    BY <1>1 DEF WithWord
  <2>4. Sound(z) /\ FirstOf(z) = FirstOf(g) /\ LastOf(z) = n + 1 /\ z.to = w.to /\ Len(z.words) # 0
    <3> HIDE DEF g
    <3> QED
      BY <2>2, WordJoinsGroup
  <2>5. FirstOf(z) = FirstOf(G[Len(G)])
    BY <2>4
  <2> HIDE DEF g, z
  <2>6. Reads([G EXCEPT ![Len(G)] = z], a, LastOf(z))
    <3>1. Reads(G, a, n) /\ Len(G) # 0 /\ Sound(z)
      BY <2>1, <2>4 DEF GroupsTo
    <3> QED
      BY <3>1, <2>5, LastReplaced
  <2> DEFINE H == [G EXCEPT ![Len(G)] = z]
  <2>7. Len(H) = Len(G) /\ H[Len(H)] = z
    BY <1>0, <2>1
  <2> HIDE DEF H
  <2>8. H[Len(H)].to <= w.to /\ Len(H[Len(H)].words) # 0
    BY <2>7, <2>4, <1>0
  <2>9. GroupsTo(H, a, n + 1, w.to)
    BY <2>4, <2>6, <2>8 DEF GroupsTo, H
  <2> QED
    BY <2>3, <2>9 DEF H
<1>2. CASE ~joins
  <2> DEFINE z == [from |-> w.from, to |-> w.to, speaker |-> s, text |-> <<w.id>>, words |-> <<w>>]
             H == Append(G, z)
  <2>1. WithWord(G, w, s) = H
    BY <1>2 DEF WithWord
  <2>2. Sound(z) /\ FirstOf(z) = n + 1 /\ LastOf(z) = n + 1 /\ z.to = w.to /\ Len(z.words) # 0
    <3> HIDE DEF z
    <3>1. z = [from |-> w.from, to |-> w.to, speaker |-> s, text |-> <<w.id>>, words |-> <<w>>]
      BY DEF z
    <3> QED
      BY <3>1, WordIsItem
  <2> HIDE DEF z
  <2>3. Reads(H, a, n + 1)
    <3>1. Reads(G, a, n)
      BY DEF GroupsTo
    <3> QED
      BY <3>1, <2>2, ItemAdded
  <2>4. H[Len(H)] = z
    BY <1>0
  <2> HIDE DEF H
  <2>5. H[Len(H)].to <= w.to /\ Len(H[Len(H)].words) # 0
    BY <2>4, <2>2, <1>0
  <2> QED
    BY <2>1, <2>3, <2>5 DEF GroupsTo
<1> QED
  BY <1>1, <1>2

-----------------------------------------------------------------------------
(* What the transcription gives.                                           *)

(* A segment of the words after a up to b.                                 *)
Spans(seg, a, b) ==
  /\ a \in Nat /\ b \in Nat /\ a < b
  /\ seg.from \in Nat /\ seg.to \in Nat /\ seg.from <= seg.to
  /\ seg.text \in Seq(Nat) /\ Len(seg.text) = b - a /\ \A k \in 1..(b - a) : seg.text[k] = a + k
  /\ seg.words \in Seq(TimedWord)
  /\ Len(seg.words) # 0 =>
       /\ Len(seg.words) = b - a /\ \A k \in 1..(b - a) : seg.words[k].id = a + k
       /\ \A k \in 1..(b - a) : seg.words[k].from <= seg.words[k].to
       /\ \A k \in 2..(b - a) : seg.words[k - 1].to <= seg.words[k].to

(* The segments follow each other; end[i] is the last word of the i-th.     *)
InOrder(end) ==
  /\ Len(asrSegments) \in Nat /\ DOMAIN asrSegments = 1..Len(asrSegments)
  /\ end \in [0..Len(asrSegments) -> Nat] /\ Rising(end)
  /\ end[0] = 0 /\ end[Len(asrSegments)] = WordCount
  /\ \A i \in 1..Len(asrSegments) : Spans(asrSegments[i], end[i - 1], end[i])

(* A word's number tells its segment.                                      *)
LEMMA NumbersTell ==
  ASSUME NEW end, InOrder(end), NEW i \in 1..Len(asrSegments), NEW j \in 1..Len(asrSegments),
         NEW x \in Nat, x > end[i - 1], x <= end[i], x > end[j - 1], x <= end[j]
  PROVE  i = j
<1>1. ASSUME NEW k \in 1..Len(asrSegments), NEW l \in 1..Len(asrSegments), k < l PROVE end[k] <= end[l - 1]
  <2>1. k \in 0..Len(asrSegments) /\ l - 1 \in 0..Len(asrSegments) /\ k <= l - 1
    BY <1>1 DEF InOrder
  <2>2. CASE k = l - 1
    BY <2>1, <2>2 DEF InOrder
  <2>3. CASE k < l - 1
    <3>1. end[k] < end[l - 1]
      BY <2>1, <2>3 DEF InOrder, Rising
    <3>2. end[k] \in Nat /\ end[l - 1] \in Nat
      BY <2>1 DEF InOrder
    <3> QED
      BY <3>1, <3>2
  <2>4. k \in Int /\ l \in Int
    BY DEF InOrder
  <2> QED
    BY <2>1, <2>2, <2>3, <2>4
<1>2. i \in Int /\ j \in Int
  BY DEF InOrder
<1>3. /\ end[i] \in Nat /\ end[i - 1] \in Nat /\ end[j] \in Nat /\ end[j - 1] \in Nat
  <2>1. i \in 0..Len(asrSegments) /\ i - 1 \in 0..Len(asrSegments)
        /\ j \in 0..Len(asrSegments) /\ j - 1 \in 0..Len(asrSegments)
    BY DEF InOrder
  <2> QED
    BY <2>1 DEF InOrder
<1>4. ~(i < j)
  BY <1>1, <1>3
<1>5. ~(j < i)
  BY <1>1, <1>3
<1> QED
  BY <1>2, <1>4, <1>5

(* A claim on a word is about that word.                                   *)
LEMMA ClaimsAreOfTheWord ==
  ASSUME NEW end, InOrder(end), NEW i \in 1..Len(asrSegments), NEW k \in 1..(end[i] - end[i - 1]),
         NEW s, Claims(end[i - 1] + k, s)
  PROVE  /\ Len(asrSegments[i].words) # 0 /\ ~SeemsRelative(asrSegments[i]) /\ s \in 1..Speakers
         /\ OverlappedBy(asrSegments[i].words[k], s)
<1> DEFINE x == end[i - 1] + k
<1>0. PICK j \in DOMAIN asrSegments : \E l \in DOMAIN asrSegments[j].words :
        /\ ~SeemsRelative(asrSegments[j]) /\ asrSegments[j].words[l].id = x
        /\ s \in 1..Speakers
        /\ OverlappedBy(asrSegments[j].words[l], s)
  BY DEF Claims
<1>1. PICK l \in DOMAIN asrSegments[j].words :
        /\ ~SeemsRelative(asrSegments[j]) /\ asrSegments[j].words[l].id = x
        /\ s \in 1..Speakers
        /\ OverlappedBy(asrSegments[j].words[l], s)
  BY <1>0
<1>2. j \in 1..Len(asrSegments) /\ Spans(asrSegments[j], end[j - 1], end[j]) /\ Spans(asrSegments[i], end[i - 1], end[i])
  BY DEF InOrder
<1>3. end[j - 1] \in Nat /\ end[j] \in Nat /\ end[i - 1] \in Nat /\ end[i] \in Nat
  BY <1>2 DEF Spans
<1>4. Len(asrSegments[j].words) # 0 /\ l \in 1..(end[j] - end[j - 1])
  <2>1. asrSegments[j].words \in Seq(TimedWord)
    BY <1>2 DEF Spans
  <2>2. Len(asrSegments[j].words) \in Nat /\ l \in 1..Len(asrSegments[j].words)
    BY <2>1
  <2> QED
    BY <1>2, <2>2 DEF Spans
<1>5. x = end[j - 1] + l
  BY <1>1, <1>2, <1>4 DEF Spans
<1>6. x \in Nat /\ x > end[i - 1] /\ x <= end[i] /\ x > end[j - 1] /\ x <= end[j]
  <2> DEFINE d == end[i - 1]
             e == end[i]
             f == end[j - 1]
             g == end[j]
  <2>1. d \in Nat /\ e \in Nat /\ f \in Nat /\ g \in Nat /\ k \in 1..(e - d) /\ l \in 1..(g - f)
    BY <1>3, <1>4
  <2>2. x = d + k /\ x = f + l
    BY <1>5
  <2> HIDE DEF d, e, f, g, x
  <2>3. x \in Nat /\ x > d /\ x <= e /\ x > f /\ x <= g
    BY <2>1, <2>2
  <2> QED
    BY <2>3 DEF d, e, f, g
<1>7. i = j
  <2> HIDE DEF x
  <2> QED
    BY <1>2, <1>6, NumbersTell
<1>8. k = l
  BY <1>3, <1>4, <1>5, <1>7
<1> QED
  BY <1>1, <1>4, <1>7, <1>8

LEMMA TimesAreAbsolute ==
  ASSUME NEW seg, NEW a, NEW b, Spans(seg, a, b), Len(seg.words) # 0
  PROVE  /\ Absolute(seg) \in Seq(TimedWord) /\ Len(Absolute(seg)) = b - a
         /\ \A k \in 1..(b - a) : Absolute(seg)[k].id = a + k /\ Absolute(seg)[k].from <= Absolute(seg)[k].to
         /\ \A k \in 2..(b - a) : Absolute(seg)[k - 1].to <= Absolute(seg)[k].to
         /\ ~SeemsRelative(seg) => \A k \in 1..(b - a) : Absolute(seg)[k] = seg.words[k]
<1> DEFINE moved == IF SeemsRelative(seg) THEN seg.from ELSE 0
           u == seg.words
           N == b - a
           v == [k \in 1..N |-> [id |-> u[k].id, from |-> u[k].from + moved, to |-> u[k].to + moved]]
<1>1. /\ a \in Nat /\ b \in Nat /\ N \in Nat /\ moved \in Nat
      /\ u \in Seq(TimedWord) /\ Len(u) = N /\ \A k \in 1..N : u[k].id = a + k
      /\ \A k \in 1..N : u[k].from <= u[k].to
      /\ \A k \in 2..N : u[k - 1].to <= u[k].to
  BY DEF Spans
<1>2. DOMAIN u = 1..N /\ \A k \in 1..N : u[k] \in TimedWord
  BY <1>1
<1>3. Absolute(seg) = v
  BY <1>2 DEF Absolute
<1>4. ~SeemsRelative(seg) => moved = 0
  OBVIOUS
<1> HIDE DEF moved, u, N
<1>5. ASSUME NEW k \in 1..N
      PROVE  v[k] \in TimedWord /\ v[k].id = u[k].id /\ v[k].from = u[k].from + moved /\ v[k].to = u[k].to + moved
             /\ (moved = 0 => v[k] = u[k])
  <2>1. /\ u[k].id \in Nat /\ u[k].from \in Nat /\ u[k].to \in Nat
        /\ u[k] = [id |-> u[k].id, from |-> u[k].from, to |-> u[k].to]
    BY <1>2 DEF TimedWord
  <2>2. v[k] = [id |-> u[k].id, from |-> u[k].from + moved, to |-> u[k].to + moved]
    OBVIOUS
  <2>3. u[k].from + moved \in Nat /\ u[k].to + moved \in Nat
    BY <2>1, <1>1
  <2>4. moved = 0 => u[k].from + moved = u[k].from /\ u[k].to + moved = u[k].to
    BY <2>1
  <2> HIDE DEF v
  <2> QED
    BY <2>1, <2>2, <2>3, <2>4 DEF TimedWord
<1>6. v \in Seq(TimedWord) /\ Len(v) = N
  <2>1. v \in [1..N -> TimedWord]
    BY <1>5
  <2> QED
    BY <2>1, <1>1
<1> HIDE DEF v
<1>7. \A k \in 1..N : v[k].id = a + k /\ v[k].from <= v[k].to
  <2>1. ASSUME NEW k \in 1..N PROVE v[k].from <= v[k].to
    <3>1. u[k].from \in Nat /\ u[k].to \in Nat /\ u[k].from <= u[k].to
      BY <1>1, <1>2 DEF TimedWord
    <3> QED
      BY <3>1, <1>1, <1>5
  <2> QED
    BY <2>1, <1>1, <1>5
<1>8. ASSUME NEW k \in 2..N PROVE v[k - 1].to <= v[k].to
  <2>1. k \in 1..N /\ k - 1 \in 1..N
    BY <1>1
  <2>2. u[k].to \in Nat /\ u[k - 1].to \in Nat /\ u[k - 1].to <= u[k].to
    BY <2>1, <1>1, <1>2 DEF TimedWord
  <2>3. v[k].to = u[k].to + moved /\ v[k - 1].to = u[k - 1].to + moved
    BY <2>1, <1>5
  <2> QED
    BY <2>2, <2>3, <1>1
<1>9. ~SeemsRelative(seg) => \A k \in 1..N : v[k] = u[k]
  BY <1>4, <1>5
<1> QED
  BY <1>3, <1>6, <1>7, <1>8, <1>9 DEF u, N

Placed(seg, w, id) ==
  /\ w \in TimedWord /\ w.from <= w.to /\ w.id = id
  /\ SpeakerOfWord(seg, w) \in 0..Speakers
  /\ \A t : Claims(w.id, t) => SpeakerOfWord(seg, w) = t

LEMMA WordHasSpeaker ==
  ASSUME turns \in Seq(Turn), turns # <<>>, NEW end, InOrder(end), NEW i \in 1..Len(asrSegments),
         NEW k \in 1..(end[i] - end[i - 1]), Len(asrSegments[i].words) # 0
  PROVE  Placed(asrSegments[i], Absolute(asrSegments[i])[k], end[i - 1] + k)
<1> DEFINE seg == asrSegments[i]
           w == Absolute(seg)[k]
<1>1. Spans(seg, end[i - 1], end[i])
  BY DEF InOrder
<1>2. /\ w \in TimedWord /\ w.from <= w.to /\ w.id = end[i - 1] + k
      /\ ~SeemsRelative(seg) => w = seg.words[k]
  <2>1. /\ Absolute(seg) \in Seq(TimedWord) /\ Len(Absolute(seg)) = end[i] - end[i - 1]
        /\ \A l \in 1..(end[i] - end[i - 1]) :
             Absolute(seg)[l].id = end[i - 1] + l /\ Absolute(seg)[l].from <= Absolute(seg)[l].to
        /\ ~SeemsRelative(seg) => \A l \in 1..(end[i] - end[i - 1]) : Absolute(seg)[l] = seg.words[l]
    <3> HIDE DEF seg
    <3>1. Len(seg.words) # 0
      BY DEF seg
    <3> QED
      BY <1>1, <3>1, TimesAreAbsolute
  <2>2. Absolute(seg)[k] \in TimedWord
    <3> DEFINE A == Absolute(seg)
    <3>1. A \in Seq(TimedWord) /\ k \in 1..Len(A)
      BY <2>1
    <3> HIDE DEF A
    <3>2. A[k] \in TimedWord
      BY <3>1
    <3> QED
      BY <3>2 DEF A
  <2> QED
    BY <2>1, <2>2
<1> HIDE DEF w
<1>3. Interval(w) /\ Interval(seg)
  BY <1>1, <1>2 DEF Interval, TimedWord, Spans
<1>4. SpeakerOfInterval(w) \in 0..Speakers /\ SpeakerOfInterval(seg) \in 0..Speakers
  <2> HIDE DEF seg
  <2> QED
    BY <1>3, IntervalHasSpeaker
<1>5. ASSUME NEW t, Claims(w.id, t) PROVE SpeakerOfWord(seg, w) = t
  <2>1. Claims(end[i - 1] + k, t)
    BY <1>2, <1>5
  <2>2. /\ ~SeemsRelative(seg) /\ t \in 1..Speakers
        /\ OverlappedBy(seg.words[k], t)
    BY <2>1, ClaimsAreOfTheWord
  <2>3. OverlappedBy(w, t)
    BY <1>2, <2>2
  <2>4. SpeakerOfInterval(w) = t
    BY <1>3, <2>2, <2>3, AloneIsSpeaker
  <2>5. t # NoSpeaker
    BY <2>2 DEF NoSpeaker
  <2> QED
    BY <2>4, <2>5 DEF SpeakerOfWord
<1>6. SpeakerOfWord(seg, w) \in 0..Speakers
  BY <1>4 DEF SpeakerOfWord
<1>7. Placed(seg, w, end[i - 1] + k)
  BY <1>2, <1>5, <1>6 DEF Placed
<1> QED
  BY <1>7 DEF w

(* A segment becomes items that read as it did.                            *)
LEMMA WholeReads ==
  ASSUME turns \in Seq(Turn), turns # <<>>, NEW end, InOrder(end), NEW i \in 1..Len(asrSegments),
         Len(asrSegments[i].words) = 0
  PROVE  Reads(ByWords(asrSegments[i]), end[i - 1], end[i])
<1> DEFINE seg == asrSegments[i]
           a == end[i - 1]
           b == end[i]
           z == [from |-> seg.from, to |-> seg.to, speaker |-> SpeakerOfInterval(seg),
                 text |-> seg.text, words |-> <<>>]
<1>1. Spans(seg, a, b)
  BY DEF InOrder
<1>2. seg.words = <<>>
  BY <1>1, EmptySeq DEF Spans
<1>3. Absolute(seg) = <<>>
  BY <1>2 DEF Absolute
<1>4. ByWords(seg) = <<z>>
  BY <1>3 DEF ByWords
<1>5. /\ seg.from \in Nat /\ seg.to \in Nat /\ seg.from <= seg.to /\ a \in Nat /\ b \in Nat /\ a < b
      /\ seg.text \in Seq(Nat) /\ Len(seg.text) = b - a /\ \A k \in 1..(b - a) : seg.text[k] = a + k
  BY <1>1 DEF Spans
<1>6. SpeakerOfInterval(seg) \in 0..Speakers
  <2> HIDE DEF seg
  <2>1. Interval(seg)
    BY <1>5 DEF Interval
  <2> QED
    BY <2>1, IntervalHasSpeaker
<1>7. \A k \in 1..(b - a) : \A s : ~Claims(a + k, s)
  BY ClaimsAreOfTheWord
<1> HIDE DEF a, b, seg
<1>8. z \in Item /\ z.text = seg.text /\ z.words = <<>> /\ Len(<<>>) = 0 /\ z.from <= z.to
  BY <1>5, <1>6 DEF Item
<1> HIDE DEF z
<1>9. CountsOn(z.text)
  <2>1. ASSUME NEW k \in 2..(b - a) PROVE seg.text[k] = seg.text[k - 1] + 1
    <3>1. k \in 1..(b - a) /\ k - 1 \in 1..(b - a)
      BY <1>5
    <3>2. seg.text[k] = a + k /\ seg.text[k - 1] = a + (k - 1)
      BY <3>1, <1>5
    <3> QED
      BY <3>1, <3>2, <1>5
  <2>2. b - a # 0
    BY <1>5
  <2>3. CountsOn(seg.text)
    BY <2>1, <2>2, <1>5 DEF CountsOn
  <2> QED
    BY <2>3, <1>8
<1>10. Spells(z) /\ Rightly(z)
  <2>1. ASSUME NEW k \in 1..Len(z.text), NEW s PROVE ~Claims(z.text[k], s)
    BY <1>5, <1>7, <1>8
  <2> QED
    BY <2>1, <1>8 DEF Spells, Rightly
<1>11. FirstOf(z) = a + 1 /\ LastOf(z) = b
  <2>1. a \in Nat /\ b \in Nat /\ a < b
    BY <1>5
  <2>2. 1 \in 1..(b - a) /\ b - a \in 1..(b - a) /\ a + (b - a) = b
    BY ONLY <2>1
  <2> QED
    BY <2>2, <1>5, <1>8 DEF FirstOf, LastOf
<1>12. Sound(z)
  BY <1>8, <1>9, <1>10 DEF Sound
<1>13. Reads(Append(<<>>, z), a, LastOf(z))
  <2>1. Reads(<<>>, a, a)
    BY NothingRead
  <2> QED
    BY <2>1, <1>5, <1>11, <1>12, ItemAdded
<1>14. Append(<<>>, z) = <<z>>
  OBVIOUS
<1> QED
  BY <1>4, <1>11, <1>13, <1>14 DEF a, b, seg

LEMMA GroupsRead ==
  ASSUME turns \in Seq(Turn), turns # <<>>, NEW end, InOrder(end), NEW i \in 1..Len(asrSegments),
         Len(asrSegments[i].words) # 0
  PROVE  Reads(ByWords(asrSegments[i]), end[i - 1], end[i])
<1> DEFINE seg == asrSegments[i]
           a == end[i - 1]
           words == Absolute(seg)
           N == Len(words)
           who(n) == SpeakerOfWord(seg, words[n])
           T == [n \in 0..N |-> IF n = 0 THEN {<<>>} ELSE {G \in Seq(Item) : GroupsTo(G, a, a + n, words[n].to)}]
           step == [p \in Seq(Item) \X (1..N) |-> WithWord(p[1], words[p[2]], who(p[2]))]
           groups[n \in 0..N] ==
             IF n = 0 THEN <<>> ELSE WithWord(groups[n - 1], words[n], SpeakerOfWord(seg, words[n]))
           Rec(g) == g = [n \in 0..N |->
             IF n = 0 THEN <<>> ELSE WithWord(g[n - 1], words[n], SpeakerOfWord(seg, words[n]))]
<1>1. Spans(seg, a, end[i]) /\ Len(seg.words) # 0
  BY DEF InOrder
<1>2. a \in Nat /\ end[i] \in Nat /\ a < end[i] /\ end[i] - a \in Nat
  BY <1>1 DEF Spans
<1>3. /\ words \in Seq(TimedWord) /\ N = end[i] - a
      /\ \A k \in 2..N : words[k - 1].to <= words[k].to
  <2> HIDE DEF seg, a
  <2>1. /\ words \in Seq(TimedWord) /\ N = end[i] - a
        /\ \A k \in 2..(end[i] - a) : words[k - 1].to <= words[k].to
    BY <1>1, TimesAreAbsolute
  <2> QED
    BY <2>1
<1>4. ASSUME NEW k \in 1..N
      PROVE  /\ words[k] \in TimedWord /\ words[k].from <= words[k].to /\ words[k].id = a + k
             /\ who(k) \in 0..Speakers /\ \A t : Claims(words[k].id, t) => who(k) = t
  <2>1. k \in 1..(end[i] - end[i - 1])
    BY <1>3
  <2>2. Placed(seg, words[k], a + k)
    BY <2>1, WordHasSpeaker
  <2> QED
    BY <2>2 DEF Placed
<1>5. N \in Nat /\ N # 0 /\ words # <<>>
  BY <1>2, <1>3, EmptySeq
<1> HIDE DEF words, N, a, who, seg
<1>6. 0 \in 0..N /\ \A n \in 1..N : n \in 0..N /\ n - 1 \in 0..N
  BY <1>5
<1>7. \A n \in 0..N : T[n] \subseteq Seq(Item)
  <2>1. <<>> \in Seq(Item)
    OBVIOUS
  <2> QED
    BY <2>1
<1>8. ASSUME NEW n \in 1..N, NEW x \in T[n - 1]
      PROVE  WithWord(x, words[n], who(n)) \in T[n]
  <2> DEFINE w == words[n]
             s == who(n)
  <2>1. w \in TimedWord /\ w.from <= w.to /\ w.id = a + n /\ s \in 0..Speakers /\ \A t : Claims(w.id, t) => s = t
    BY <1>4
  <2>2. GroupsTo(x, a, a + (n - 1), w.to)
    <3>1. CASE n = 1
      <4>1. x = <<>> /\ a + (n - 1) = a /\ Len(<<>>) = 0
        BY <1>2, <1>6, <3>1
      <4>2. Reads(<<>>, a, a)
        BY NothingRead
      <4> QED
        BY <4>1, <4>2 DEF GroupsTo
    <3>2. CASE n # 1
      <4>1. n \in 2..N /\ n - 1 \in 1..N /\ n - 1 # 0
        BY <1>5, <3>2
      <4>2. x \in Seq(Item) /\ GroupsTo(x, a, a + (n - 1), words[n - 1].to)
        BY <4>1, <1>6
      <4>3. words[n - 1].to <= w.to /\ words[n - 1].to \in Nat /\ w.to \in Nat
        BY <4>1, <1>3, <1>4 DEF TimedWord
      <4>4. Len(x) # 0 => x[Len(x)].to \in Nat
        <5>1. Len(x) # 0 => Len(x) \in 1..Len(x)
          BY <4>2
        <5>2. Len(x) # 0 => x[Len(x)] \in Item
          BY <5>1, <4>2
        <5> QED
          BY <5>2 DEF Item
      <4> HIDE DEF w
      <4>5. Len(x) # 0 => x[Len(x)].to <= w.to
        BY <4>2, <4>3, <4>4 DEF GroupsTo
      <4> QED
        BY <4>2, <4>5 DEF GroupsTo
    <3> QED
      BY <3>1, <3>2
  <2>3. a + (n - 1) \in Nat /\ w.id = a + (n - 1) + 1 /\ a + (n - 1) + 1 = a + n
    BY <1>2, <1>5, <2>1
  <2> HIDE DEF w, s
  <2>4. GroupsTo(WithWord(x, w, s), a, a + (n - 1) + 1, w.to)
    <3> DEFINE m == a + (n - 1)
    <3>1. m \in Nat /\ GroupsTo(x, a, m, w.to) /\ w.id = m + 1 /\ a \in Nat
      BY <2>2, <2>3, <1>2
    <3> HIDE DEF m
    <3>2. GroupsTo(WithWord(x, w, s), a, m + 1, w.to)
      BY <2>1, <3>1, WordAdded
    <3> QED
      BY <3>2 DEF m
  <2>5. GroupsTo(WithWord(x, w, s), a, a + n, words[n].to) /\ WithWord(x, w, s) \in Seq(Item)
    BY <2>3, <2>4 DEF GroupsTo, Reads, w
  <2>6. n # 0 /\ n \in 0..N
    BY <1>5
  <2> QED
    BY <2>5, <2>6 DEF w, s
<1>9. \E g : Rec(g)
  <2>1. ASSUME NEW n \in 1..N, NEW x \in T[n - 1] PROVE step[<<x, n>>] = WithWord(x, words[n], who(n))
    <3>1. x \in Seq(Item)
      BY <1>6, <1>7
    <3> QED
      BY <3>1
  <2>2. <<>> \in T[0]
    BY <1>6
  <2> HIDE DEF T, step
  <2>3. Rounds(N, T, <<>>, step)
    BY <1>5, <2>2, <1>8, <2>1 DEF Rounds
  <2>4. PICK m : Runs(m, N, T, <<>>, step)
    BY <2>3, LoopRuns
  <2>5. \A n \in 0..N : (IF n = 0 THEN <<>> ELSE step[<<m[n - 1], n>>])
                        = (IF n = 0 THEN <<>> ELSE WithWord(m[n - 1], words[n], SpeakerOfWord(seg, words[n])))
    <3>1. ASSUME NEW n \in 0..N, n # 0
          PROVE  step[<<m[n - 1], n>>] = WithWord(m[n - 1], words[n], SpeakerOfWord(seg, words[n]))
      <4>1. n \in 1..N /\ m[n - 1] \in T[n - 1]
        BY <1>5, <2>4, <3>1, <1>6 DEF Runs
      <4> QED
        BY <4>1, <2>1 DEF who
    <3> QED
      BY <3>1
  <2>6. Rec(m)
    BY <2>4, <2>5 DEF Runs
  <2> QED
    BY <2>6
<1>10. Rec(groups)
  <2>1. Rec(CHOOSE g : Rec(g))
    BY <1>9
  <2> QED
    BY <2>1
<1> HIDE DEF groups
<1>11. \A n \in 0..N : groups[n] \in T[n]
  <2> DEFINE P == {n \in 0..N : groups[n] \in T[n]}
  <2>1. 0 \in P
    BY <1>6, <1>10
  <2>2. ASSUME NEW n \in 1..N, n - 1 \in P PROVE n \in P
    <3>1. groups[n] = WithWord(groups[n - 1], words[n], who(n))
      <4>1. n # 0 /\ n \in 0..N
        BY <1>5
      <4> QED
        BY <4>1, <1>10 DEF who
    <3>2. groups[n - 1] \in T[n - 1]
      BY <2>2
    <3> HIDE DEF T
    <3> QED
      BY <3>1, <3>2, <1>6, <1>8
  <2> HIDE DEF P
  <2>3. \A n \in 0..N : n \in P
    BY <1>5, <2>1, <2>2, CountingUp
  <2> QED
    BY <2>3 DEF P
<1>12. ByWords(seg) = groups[N]
  BY <1>5 DEF ByWords, groups, words, N
<1>13. Reads(groups[N], a, a + N)
  <2>1. N \in 0..N
    BY <1>5
  <2> QED
    BY <2>1, <1>5, <1>11 DEF GroupsTo
<1>14. a + N = end[i]
  BY <1>2, <1>3
<1> QED
  BY <1>12, <1>13, <1>14 DEF seg, a

LEMMA SegmentReads ==
  ASSUME turns \in Seq(Turn), turns # <<>>, NEW end, InOrder(end), NEW i \in 1..Len(asrSegments)
  PROVE  Reads(ByWords(asrSegments[i]), end[i - 1], end[i])
BY WholeReads, GroupsRead

LEMMA OutputReads ==
  ASSUME turns \in Seq(Turn), turns # <<>>, NEW end, InOrder(end)
  PROVE  Reads(Output, 0, WordCount)
<1> DEFINE N == Len(asrSegments)
           T == [n \in 0..N |-> {M \in Seq(Item) : Reads(M, 0, end[n])}]
           step == [p \in Seq(Item) \X (1..N) |-> p[1] \o ByWords(asrSegments[p[2]])]
           output[n \in 0..N] == IF n = 0 THEN <<>> ELSE output[n - 1] \o ByWords(asrSegments[n])
           Rec(g) == g = [n \in 0..N |-> IF n = 0 THEN <<>> ELSE g[n - 1] \o ByWords(asrSegments[n])]
<1>1. N \in Nat /\ end[0] = 0 /\ end[N] = WordCount
  BY DEF InOrder
<1>2. \A n \in 0..N : end[n] \in Nat
  BY DEF InOrder
<1>3. ASSUME NEW n \in 1..N PROVE Reads(ByWords(asrSegments[n]), end[n - 1], end[n])
  BY SegmentReads
<1> HIDE DEF N
<1>4. 0 \in 0..N /\ \A n \in 1..N : n \in 0..N /\ n - 1 \in 0..N
  BY <1>1
<1>5. <<>> \in T[0]
  <2>1. Reads(<<>>, 0, 0)
    BY NothingRead
  <2> QED
    BY <2>1, <1>1, <1>4
<1>6. ASSUME NEW n \in 1..N, NEW x \in T[n - 1] PROVE x \o ByWords(asrSegments[n]) \in T[n]
  <2> DEFINE y == ByWords(asrSegments[n])
             c == end[n - 1]
             d == end[n]
  <2>1. Reads(x, 0, c) /\ Reads(y, c, d) /\ c \in Nat /\ d \in Nat
    BY <1>2, <1>3, <1>4
  <2> HIDE DEF y, c, d
  <2>2. Reads(x \o y, 0, d)
    BY <2>1, ListsJoined
  <2> QED
    BY <1>4, <2>2 DEF Reads, y, d
<1>7. \E g : Rec(g)
  <2>1. ASSUME NEW n \in 1..N, NEW x \in T[n - 1] PROVE step[<<x, n>>] = x \o ByWords(asrSegments[n])
    <3>1. x \in Seq(Item)
      BY <1>4
    <3> QED
      BY <3>1
  <2> HIDE DEF T, step
  <2>2. Rounds(N, T, <<>>, step)
    BY <1>1, <1>5, <1>6, <2>1 DEF Rounds
  <2>3. PICK m : Runs(m, N, T, <<>>, step)
    BY <2>2, LoopRuns
  <2>4. \A n \in 0..N : (IF n = 0 THEN <<>> ELSE step[<<m[n - 1], n>>])
                        = (IF n = 0 THEN <<>> ELSE m[n - 1] \o ByWords(asrSegments[n]))
    <3>1. ASSUME NEW n \in 0..N, n # 0 PROVE step[<<m[n - 1], n>>] = m[n - 1] \o ByWords(asrSegments[n])
      <4>1. n \in 1..N /\ m[n - 1] \in T[n - 1]
        BY <1>1, <2>3, <3>1, <1>4 DEF Runs
      <4> QED
        BY <4>1, <2>1
    <3> QED
      BY <3>1
  <2>5. Rec(m)
    BY <2>3, <2>4 DEF Runs
  <2> QED
    BY <2>5
<1>8. Rec(output)
  <2>1. Rec(CHOOSE g : Rec(g))
    BY <1>7
  <2> QED
    BY <2>1
<1> HIDE DEF output
<1>9. \A n \in 0..N : output[n] \in T[n]
  <2> DEFINE P == {n \in 0..N : output[n] \in T[n]}
  <2>1. 0 \in P
    BY <1>4, <1>5, <1>8
  <2>2. ASSUME NEW n \in 1..N, n - 1 \in P PROVE n \in P
    <3>1. output[n] = output[n - 1] \o ByWords(asrSegments[n])
      <4>1. n # 0 /\ n \in 0..N
        BY <1>1
      <4> QED
        BY <4>1, <1>8
    <3>2. output[n - 1] \in T[n - 1]
      BY <2>2
    <3> HIDE DEF T
    <3> QED
      BY <3>1, <3>2, <1>4, <1>6
  <2> HIDE DEF P
  <2>3. \A n \in 0..N : n \in P
    BY <1>1, <2>1, <2>2, CountingUp
  <2> QED
    BY <2>3 DEF P
<1>10. Output = output[N]
  BY DEF Output, output, N
<1> QED
  BY <1>1, <1>9, <1>10

-----------------------------------------------------------------------------
(* Nobody was diarized: the segments go out as they are.                    *)
LEMMA SilenceReads ==
  ASSUME turns = <<>>, NEW end, InOrder(end), WordCount # 0,
         NEW L, L = [i \in DOMAIN asrSegments |->
                       [from |-> asrSegments[i].from, to |-> asrSegments[i].to, speaker |-> NoSpeaker,
                        text |-> asrSegments[i].text, words |-> asrSegments[i].words]]
  PROVE  Reads(L, 0, WordCount)
<1> DEFINE N == Len(asrSegments)
<1>1. /\ N \in Nat /\ DOMAIN asrSegments = 1..N /\ end[0] = 0 /\ end[N] = WordCount
      /\ \A n \in 0..N : end[n] \in Nat
      /\ \A n \in 1..N : Spans(asrSegments[n], end[n - 1], end[n])
  BY DEF InOrder
<1>2. \A id, s : ~Claims(id, s)
  <2> SUFFICES ASSUME NEW id, NEW s, Claims(id, s) PROVE FALSE
    OBVIOUS
  <2>1. turns \in Seq(Turn)
    OBVIOUS
  <2>2. PICK i \in DOMAIN asrSegments : \E k \in DOMAIN asrSegments[i].words :
          s \in 1..Speakers /\ OverlappedBy(asrSegments[i].words[k], s)
    BY DEF Claims
  <2>3. PICK k \in DOMAIN asrSegments[i].words :
          s \in 1..Speakers /\ OverlappedBy(asrSegments[i].words[k], s)
    BY <2>2
  <2> DEFINE w == asrSegments[i].words[k]
  <2>4. w \in TimedWord
    <3>1. asrSegments[i].words \in Seq(TimedWord)
      BY <1>1 DEF Spans
    <3> QED
      BY <3>1
  <2> HIDE DEF w
  <2>5. Interval(w)
    BY <2>4 DEF Interval, TimedWord
  <2>6. OverlapOf(w, s) = 0 /\ OverlapOf(w, s) > 0
    <3>1. OverlappedBy(w, s) /\ s \in 1..Speakers
      BY <2>3 DEF w
    <3>2. OverlapOf(w, s) > 0
      BY <3>1 DEF OverlappedBy
    <3> QED
      BY <3>2, <2>1, <2>5, OverlapIsNatural
  <2> QED
    BY <2>6
<1> HIDE DEF N
<1>3. ASSUME NEW i \in 1..N
      PROVE  Sound(L[i]) /\ FirstOf(L[i]) = end[i - 1] + 1 /\ LastOf(L[i]) = end[i]
  <2> DEFINE seg == asrSegments[i]
             a == end[i - 1]
             b == end[i]
             x == L[i]
  <2>1. x = [from |-> seg.from, to |-> seg.to, speaker |-> NoSpeaker, text |-> seg.text, words |-> seg.words]
    BY <1>1
  <2>2. Spans(seg, a, b)
    BY <1>1
  <2> HIDE DEF seg, a, b, x
  <2>3. /\ a \in Nat /\ b \in Nat /\ a < b /\ b - a \in Nat /\ b - a # 0
        /\ seg.from \in Nat /\ seg.to \in Nat /\ seg.from <= seg.to
        /\ seg.text \in Seq(Nat) /\ Len(seg.text) = b - a /\ \A k \in 1..(b - a) : seg.text[k] = a + k
        /\ seg.words \in Seq(TimedWord)
        /\ Len(seg.words) # 0 =>
             /\ Len(seg.words) = b - a /\ \A k \in 1..(b - a) : seg.words[k].id = a + k
    BY <2>2 DEF Spans
  <2>4. NoSpeaker \in 0..Speakers
    BY AlignmentAssumption DEF NoSpeaker
  <2>5. x \in Item /\ x.from <= x.to /\ x.text = seg.text /\ x.words = seg.words
    BY <2>1, <2>3, <2>4 DEF Item
  <2>6. CountsOn(seg.text)
    <3>1. ASSUME NEW k \in 2..(b - a) PROVE seg.text[k] = seg.text[k - 1] + 1
      <4>1. k \in 1..(b - a) /\ k - 1 \in 1..(b - a)
        BY <2>3
      <4>2. seg.text[k] = a + k /\ seg.text[k - 1] = a + (k - 1)
        BY <4>1, <2>3
      <4> QED
        BY <4>1, <4>2, <2>3
    <3> QED
      BY <3>1, <2>3 DEF CountsOn
  <2>7. Spells(x)
    BY <2>3, <2>5 DEF Spells
  <2>8. Rightly(x)
    BY <1>2 DEF Rightly
  <2>9. FirstOf(x) = a + 1 /\ LastOf(x) = b
    <3>0. a \in Nat /\ b \in Nat /\ a < b
      BY <2>3
    <3>1. 1 \in 1..(b - a) /\ b - a \in 1..(b - a) /\ a + (b - a) = b
      BY ONLY <3>0
    <3> QED
      BY <3>1, <2>3, <2>5 DEF FirstOf, LastOf
  <2> QED
    BY <2>5, <2>6, <2>7, <2>8, <2>9 DEF Sound, x, a, b
<1>4. L \in Seq(Item) /\ Len(L) = N
  <2>1. L \in [1..N -> Item]
    <3>1. DOMAIN L = 1..N /\ L = [i \in 1..N |-> L[i]]
      BY <1>1
    <3>2. \A i \in 1..N : L[i] \in Item
      BY <1>3 DEF Sound
    <3> QED
      BY <3>1, <3>2
  <2> QED
    BY <2>1, <1>1
<1>5. ASSUME NEW i \in 2..Len(L) PROVE FirstOf(L[i]) = LastOf(L[i - 1]) + 1
  <2>1. i \in 1..N /\ i - 1 \in 1..N
    BY <1>1, <1>4
  <2> QED
    BY <2>1, <1>3
<1>6. N # 0
  BY <1>1
<1>7. FirstOf(L[1]) = 1 /\ LastOf(L[Len(L)]) = WordCount
  <2>1. 1 \in 1..N /\ N \in 1..N
    BY <1>1, <1>6
  <2>2. 1 - 1 = 0 /\ 0 + 1 = 1
    OBVIOUS
  <2> QED
    BY <2>1, <2>2, <1>1, <1>3, <1>4
<1> QED
  BY <1>3, <1>4, <1>5, <1>6, <1>7 DEF Reads

(* What the algorithm is given, and what it has made of it.                 *)
AlignInv ==
  /\ \E end : InOrder(end)
  /\ turns \in Seq(Turn)
  /\ IF stage = "aligned" THEN Reads(aligned, 0, WordCount) ELSE aligned = <<>>

LEMMA OverlapKept ==
  ASSUME turns' = turns, NEW i, NEW s
  PROVE  OverlapOf(i, s)' = OverlapOf(i, s)
<1> DEFINE F(q) ==
      LET sum[n \in 0..Len(q)] ==
            IF n = 0 THEN 0
            ELSE sum[n - 1] + (IF q[n].speaker = s THEN SharedTime(i, q[n]) ELSE 0)
      IN sum[Len(q)]
<1>1. OverlapOf(i, s) = F(turns)
  BY DEF OverlapOf
<1>2. OverlapOf(i, s)' = F(turns')
  BY DEF OverlapOf
<1> HIDE DEF F
<1> QED
  BY <1>1, <1>2

LEMMA ClaimsKept ==
  ASSUME turns' = turns, asrSegments' = asrSegments, NEW id, NEW s
  PROVE  Claims(id, s)' <=> Claims(id, s)
<1>1. ASSUME NEW w PROVE OverlappedBy(w, s)' <=> OverlappedBy(w, s)
  BY OverlapKept DEF OverlappedBy
<1>2. Claims(id, s)' <=>
        \E i \in DOMAIN asrSegments : \E k \in DOMAIN asrSegments[i].words :
          /\ ~SeemsRelative(asrSegments[i]) /\ asrSegments[i].words[k].id = id
          /\ s \in 1..Speakers /\ \E w : w = asrSegments[i].words[k] /\ OverlappedBy(w, s)'
  BY DEF Claims, SeemsRelative, OverlappedBy
<1> QED
  BY <1>1, <1>2 DEF Claims

LEMMA ReadsKept ==
  ASSUME turns' = turns, asrSegments' = asrSegments, Reads(aligned', 0, WordCount)
  PROVE  Reads(aligned, 0, WordCount)'
<1>1. ASSUME NEW x, Sound(x) PROVE Sound(x)'
  <2>1. Rightly(x)'
    BY <1>1, ClaimsKept DEF Sound, Rightly
  <2> QED
    BY <1>1, <2>1 DEF Sound, Spells, CountsOn, Item, TimedWord
<1> QED
  BY <1>1 DEF Reads, FirstOf, LastOf, Item, TimedWord

LEMMA InOrderKept ==
  ASSUME asrSegments' = asrSegments, NEW end, InOrder(end)
  PROVE  InOrder(end)'
BY DEF InOrder, Spans, Rising, TimedWord

LEMMA PieceSpans ==
  ASSUME NEW start \in [1..WordCount -> 0..(Duration - 1)], Rising(start),
         NEW a \in Nat, NEW b \in Nat, a < b, b <= WordCount,
         NEW before \in Nat, NEW after \in Nat, NEW timed \in BOOLEAN
  PROVE  Spans(Piece(start, a + 1, b, before, after, timed), a, b)
<1> DEFINE p == Piece(start, a + 1, b, before, after, timed)
           N == b - a
           W == [k \in 1..N |-> [id |-> a + k, from |-> start[a + k], to |-> start[a + k] + 1]]
<1>0. WordCount \in Nat /\ Duration \in Nat /\ WordCount \in 1..Duration
  BY AlignmentAssumption
<1>1. N \in Nat /\ N # 0
  OBVIOUS
<1>2. b - (a + 1) + 1 = N /\ \A k \in 1..N : (a + 1) + k - 1 = a + k
  OBVIOUS
<1>3. /\ p.from = Max({0, start[a + 1] - before}) /\ p.to = Min({Duration, start[b] + 1 + after})
      /\ p.text = [k \in 1..N |-> a + k]
      /\ p.words = IF timed THEN W ELSE <<>>
  <2>1. [k \in 1..(b - (a + 1) + 1) |-> a + 1 + k - 1] = [k \in 1..N |-> a + k]
    BY <1>2
  <2>2. WordsFrom(start, a + 1, b) = W
    BY <1>2 DEF WordsFrom
  <2> HIDE DEF W, N
  <2> QED
    BY <2>1, <2>2 DEF Piece
<1>4. \A k \in 1..N : a + k \in 1..WordCount /\ start[a + k] \in Nat /\ start[a + k] < Duration
  <2>1. ASSUME NEW k \in 1..N PROVE a + k \in 1..WordCount
    BY <1>0
  <2> QED
    BY <2>1, <1>0
<1>5. \A k, l \in 1..N : k < l => start[a + k] + 1 <= start[a + l]
  <2>1. ASSUME NEW k \in 1..N, NEW l \in 1..N, k < l PROVE start[a + k] + 1 <= start[a + l]
    <3>1. a + k \in 1..WordCount /\ a + l \in 1..WordCount /\ a + k < a + l
      BY <1>4, <2>1
    <3>2. start[a + k] < start[a + l]
      BY <3>1 DEF Rising
    <3>3. start[a + k] \in Nat /\ start[a + l] \in Nat
      BY <1>4
    <3> QED
      BY <3>2, <3>3
  <2> QED
    BY <2>1
<1>6. p.from \in Nat /\ p.to \in Nat /\ p.from <= p.to
  <2> DEFINE c == start[a + 1]
             d == start[b]
  <2>1. c \in Nat /\ d \in Nat /\ c < Duration /\ c <= d
    <3>1. 1 \in 1..N /\ N \in 1..N /\ a + N = b
      BY <1>1
    <3>2. c \in Nat /\ d \in Nat /\ c < Duration
      BY <3>1, <1>4
    <3>3. CASE N = 1
      BY <3>1, <3>2, <3>3
    <3>4. CASE N # 1
      <4>1. 1 < N
        BY <1>1, <3>4
      <4>2. c + 1 <= d
        BY <4>1, <3>1, <1>5
      <4> QED
        BY <3>2, <4>2
    <3> QED
      BY <3>2, <3>3, <3>4
  <2> HIDE DEF c, d
  <2>2. c - before \in Int /\ d + 1 + after \in Int /\ 0 \in Int /\ Duration \in Int
    BY <2>1, <1>0
  <2>3. Max({0, c - before}) = IF 0 >= c - before THEN 0 ELSE c - before
    BY <2>2, MostOfTwo
  <2>4. Min({Duration, d + 1 + after}) = IF Duration <= d + 1 + after THEN Duration ELSE d + 1 + after
    BY <2>2, LeastOfTwo
  <2>5. p.from = Max({0, c - before}) /\ p.to = Min({Duration, d + 1 + after})
    BY <1>3 DEF c, d
  <2> HIDE DEF p
  <2> QED
    BY <1>0, <2>1, <2>3, <2>4, <2>5
<1>7. /\ p.text \in Seq(Nat) /\ Len(p.text) = N /\ \A k \in 1..N : p.text[k] = a + k
  <2> DEFINE q == [k \in 1..N |-> a + k]
  <2>1. q \in [1..N -> Nat]
    OBVIOUS
  <2>2. q \in Seq(Nat) /\ Len(q) = N
    BY <2>1, <1>1
  <2> QED
    BY <2>2, <1>3
<1>8. /\ p.words \in Seq(TimedWord)
      /\ Len(p.words) # 0 =>
           /\ Len(p.words) = N /\ \A k \in 1..N : p.words[k].id = a + k
           /\ \A k \in 1..N : p.words[k].from <= p.words[k].to
           /\ \A k \in 2..N : p.words[k - 1].to <= p.words[k].to
  <2>1. CASE timed
    <3>1. \A k \in 1..N : W[k] \in TimedWord
      <4>1. ASSUME NEW k \in 1..N PROVE W[k] \in TimedWord
        <5>1. a + k \in Nat /\ start[a + k] \in Nat /\ start[a + k] + 1 \in Nat
          BY <1>4
        <5> QED
          BY <5>1 DEF TimedWord
      <4> QED
        BY <4>1
    <3>2. W \in Seq(TimedWord) /\ Len(W) = N
      <4>1. W \in [1..N -> TimedWord]
        BY <3>1
      <4> QED
        BY <4>1, <1>1
    <3>3. \A k \in 1..N : W[k].id = a + k /\ W[k].from = start[a + k] /\ W[k].to = start[a + k] + 1
      OBVIOUS
    <3> HIDE DEF W
    <3>4. \A k \in 1..N : W[k].from <= W[k].to
      BY <3>3, <1>4
    <3>5. ASSUME NEW k \in 2..N PROVE W[k - 1].to <= W[k].to
      <4>1. k \in 1..N /\ k - 1 \in 1..N /\ k - 1 < k
        BY <1>1
      <4>2. start[a + (k - 1)] + 1 <= start[a + k] /\ start[a + k] \in Nat
        BY <4>1, <1>4, <1>5
      <4>3. W[k - 1].to = start[a + (k - 1)] + 1 /\ W[k].to = start[a + k] + 1
        BY <4>1, <3>3
      <4>4. start[a + k] <= start[a + k] + 1
        BY <4>2
      <4>5. start[a + (k - 1)] \in Nat
        BY <4>1, <1>4
      <4> QED
        BY <4>2, <4>3, <4>4, <4>5
    <3>6. p.words = W
      BY <2>1, <1>3
    <3> HIDE DEF p, N
    <3> QED
      BY <3>2, <3>3, <3>4, <3>5, <3>6
  <2>2. CASE ~timed
    <3>1. p.words = <<>> /\ Len(<<>>) = 0 /\ <<>> \in Seq(TimedWord)
      BY <2>2, <1>3
    <3> QED
      BY <3>1
  <2> QED
    BY <2>1, <2>2
<1> HIDE DEF p
<1>9. Spans(p, a, b)
  BY <1>6, <1>7, <1>8 DEF Spans
<1> QED
  BY <1>9 DEF p

LEMMA AlignStarts == AlignInit => AlignInv
<1> SUFFICES ASSUME AlignInit PROVE AlignInv
  OBVIOUS
<1>1. PICK start \in {f \in [1..WordCount -> 0..(Duration - 1)] : Rising(f)}, n \in 1..WordCount :
        \E end \in {f \in [0..n -> 0..WordCount] : f[0] = 0 /\ f[n] = WordCount /\ Rising(f)},
           timed \in [1..n -> BOOLEAN], before, after \in 0..MaxMargin :
          asrSegments =
            [i \in 1..n |-> Piece(start, end[i - 1] + 1, end[i], before, after, timed[i])]
  BY DEF AlignInit
<1>2. PICK end \in {f \in [0..n -> 0..WordCount] : f[0] = 0 /\ f[n] = WordCount /\ Rising(f)},
           timed \in [1..n -> BOOLEAN], before \in 0..MaxMargin, after \in 0..MaxMargin :
          asrSegments =
            [i \in 1..n |-> Piece(start, end[i - 1] + 1, end[i], before, after, timed[i])]
  BY <1>1
<1>3. WordCount \in Nat /\ n \in Nat /\ before \in Nat /\ after \in Nat
  BY AlignmentAssumption
<1>4. Len(asrSegments) = n /\ DOMAIN asrSegments = 1..n
  BY <1>2, <1>3
<1>5. /\ end \in [0..n -> Nat] /\ Rising(end) /\ end[0] = 0 /\ end[n] = WordCount
      /\ \A i \in 0..n : end[i] \in 0..WordCount
  BY <1>3
<1>6. ASSUME NEW i \in 1..n PROVE Spans(asrSegments[i], end[i - 1], end[i])
  <2> DEFINE a == end[i - 1]
             b == end[i]
             t == timed[i]
  <2>1. i \in 0..n /\ i - 1 \in 0..n /\ i - 1 < i
    BY <1>3
  <2>2. a \in Nat /\ b \in Nat /\ b <= WordCount
    BY <2>1, <1>3, <1>5
  <2>3. a < b
    BY <2>1, <1>5 DEF Rising
  <2>4. t \in BOOLEAN /\ start \in [1..WordCount -> 0..(Duration - 1)] /\ Rising(start)
    OBVIOUS
  <2>5. asrSegments[i] = Piece(start, a + 1, b, before, after, t)
    BY <1>2
  <2> HIDE DEF a, b, t
  <2>6. Spans(Piece(start, a + 1, b, before, after, t), a, b)
    BY <2>2, <2>3, <2>4, <1>3, PieceSpans
  <2> QED
    BY <2>5, <2>6 DEF a, b
<1>7. InOrder(end)
  BY <1>3, <1>4, <1>5, <1>6 DEF InOrder
<1>8. turns \in Seq(Turn) /\ stage # "aligned" /\ aligned = <<>>
  BY DEF AlignInit
<1> QED
  BY <1>7, <1>8 DEF AlignInv

LEMMA AlignSteps == AlignInv /\ [AlignNext]_alignVars => AlignInv'
<1> SUFFICES ASSUME AlignInv, [AlignNext]_alignVars PROVE AlignInv'
  OBVIOUS
<1>1. PICK end : InOrder(end)
  BY DEF AlignInv
<1>2. CASE Diarize
  <2>1. asrSegments' = asrSegments /\ stage' # "aligned" /\ stage # "aligned" /\ aligned' = aligned
    BY <1>2 DEF Diarize
  <2>2. turns' \in Seq(Turn)
    <3>1. PICK n \in 0..MaxTurns : \E found \in [1..n -> Turn] : turns' = found
      BY <1>2 DEF Diarize
    <3>2. n \in Nat
      BY AlignmentAssumption
    <3> QED
      BY <3>1, <3>2
  <2>3. InOrder(end)'
    BY <1>1, <2>1, InOrderKept
  <2> QED
    BY <2>1, <2>2, <2>3 DEF AlignInv
<1>3. CASE Align
  <2>0. WordCount \in Nat /\ WordCount # 0 /\ turns \in Seq(Turn)
    BY AlignmentAssumption DEF AlignInv
  <2>1. asrSegments' = asrSegments /\ turns' = turns /\ stage' = "aligned"
    BY <1>3 DEF Align
  <2>2. Reads(aligned', 0, WordCount)
    <3>1. CASE turns = <<>>
      <4> DEFINE L == [i \in DOMAIN asrSegments |->
                         [from |-> asrSegments[i].from, to |-> asrSegments[i].to, speaker |-> NoSpeaker,
                          text |-> asrSegments[i].text, words |-> asrSegments[i].words]]
      <4>1. aligned' = L
        BY <1>3, <3>1 DEF Align
      <4>2. Reads(L, 0, WordCount)
        BY <1>1, <2>0, <3>1, SilenceReads
      <4> HIDE DEF L
      <4> QED
        BY <4>1, <4>2
    <3>2. CASE turns # <<>>
      <4>1. aligned' = Merged(Output)
        BY <1>3, <3>2 DEF Align
      <4>2. Reads(Output, 0, WordCount)
        BY <1>1, <2>0, <3>2, OutputReads
      <4>3. Reads(Merged(Output), 0, WordCount)
        BY <2>0, <4>2, MergedReads
      <4> QED
        BY <4>1, <4>3
    <3> QED
      BY <3>1, <3>2
  <2>3. Reads(aligned, 0, WordCount)'
    BY <2>1, <2>2, ReadsKept
  <2>4. InOrder(end)'
    BY <1>1, <2>1, InOrderKept
  <2> QED
    BY <2>0, <2>1, <2>3, <2>4 DEF AlignInv
<1>4. CASE UNCHANGED alignVars
  <2>1. asrSegments' = asrSegments /\ turns' = turns /\ stage' = stage /\ aligned' = aligned
    BY <1>4 DEF alignVars
  <2>2. InOrder(end)'
    BY <1>1, <2>1, InOrderKept
  <2>3. stage = "aligned" => Reads(aligned, 0, WordCount)'
    <3>1. stage = "aligned" => Reads(aligned', 0, WordCount)
      BY <2>1 DEF AlignInv
    <3> QED
      BY <2>1, <3>1, ReadsKept
  <2> QED
    BY <2>1, <2>2, <2>3 DEF AlignInv
<1> QED
  BY <1>2, <1>3, <1>4 DEF AlignNext

LEMMA AlignInvSound == AlignInv => AlignmentSound
<1> SUFFICES ASSUME AlignInv PROVE AlignmentSound
  OBVIOUS
<1>1. CASE stage # "aligned"
  BY <1>1 DEF AlignInv, AlignmentSound, AlignTypes, TextSurvives, SaidByWhoSpoke
<1>2. CASE stage = "aligned"
  <2>1. Reads(aligned, 0, WordCount) /\ WordCount \in Nat /\ WordCount # 0
    BY <1>2, AlignmentAssumption DEF AlignInv
  <2>2. /\ aligned \in Seq(Item) /\ Len(aligned) \in Nat /\ DOMAIN aligned = 1..Len(aligned)
        /\ \A i \in 1..Len(aligned) : Sound(aligned[i])
        /\ \A i \in 2..Len(aligned) : FirstOf(aligned[i]) = LastOf(aligned[i - 1]) + 1
        /\ Len(aligned) # 0 /\ FirstOf(aligned[1]) = 1 /\ LastOf(aligned[Len(aligned)]) = WordCount
    BY <2>1 DEF Reads
  <2>3. AlignTypes
    <3>1. ASSUME NEW i \in 1..Len(aligned)
          PROVE  aligned[i].speaker \in 0..Speakers /\ aligned[i].from <= aligned[i].to
      BY <2>2 DEF Sound, Item
    <3> QED
      BY <2>2, <3>1 DEF AlignTypes
  <2>4. TextSurvives
    <3>1. Head(aligned[1].text) = 1 /\ Last(Last(aligned).text) = WordCount /\ aligned # <<>>
      BY <2>2 DEF FirstOf, LastOf, Last
    <3>2. ASSUME NEW i \in 2..Len(aligned) PROVE Head(aligned[i].text) = Last(aligned[i - 1].text) + 1
      BY <2>2 DEF FirstOf, LastOf, Last
    <3>3. ASSUME NEW i \in 1..Len(aligned)
          PROVE  LET a == aligned[i]
                 IN /\ a.text # <<>> /\ \A k \in 2..Len(a.text) : a.text[k] = a.text[k - 1] + 1
                    /\ a.words # <<>> => a.text = [k \in DOMAIN a.words |-> a.words[k].id]
      <4> DEFINE p == aligned[i].text
                 u == aligned[i].words
      <4>1. /\ p \in Seq(Nat) /\ u \in Seq(TimedWord) /\ CountsOn(p)
            /\ Len(u) # 0 => Len(u) = Len(p) /\ \A k \in 1..Len(p) : u[k].id = p[k]
        BY <2>2 DEF Sound, Spells, Item
      <4> HIDE DEF p, u
      <4>2. p # <<>> /\ \A k \in 2..Len(p) : p[k] = p[k - 1] + 1
        BY <4>1 DEF CountsOn
      <4>3. ASSUME u # <<>> PROVE p = [k \in DOMAIN u |-> u[k].id]
        <5>1. Len(u) # 0 /\ DOMAIN u = 1..Len(u) /\ DOMAIN p = 1..Len(p)
          BY <4>1, <4>3, EmptySeq
        <5>2. p = [k \in 1..Len(p) |-> p[k]]
          BY <4>1, <5>1
        <5> QED
          BY <4>1, <5>1, <5>2
      <4> QED
        BY <4>2, <4>3 DEF p, u
    <3> QED
      BY <2>2, <3>1, <3>2, <3>3 DEF TextSurvives
  <2>5. SaidByWhoSpoke
    <3>1. ASSUME NEW i \in DOMAIN asrSegments, ~SeemsRelative(asrSegments[i]),
                 NEW k \in DOMAIN asrSegments[i].words, NEW s \in 1..Speakers,
                 OverlappedBy(asrSegments[i].words[k], s),
                 NEW j \in DOMAIN aligned, asrSegments[i].words[k].id \in Range(aligned[j].text)
          PROVE  aligned[j].speaker = s
      <4>1. Claims(asrSegments[i].words[k].id, s)
        BY <3>1 DEF Claims
      <4>2. Sound(aligned[j])
        BY <2>2
      <4>3. PICK l \in DOMAIN aligned[j].text : aligned[j].text[l] = asrSegments[i].words[k].id
        BY <3>1 DEF Range
      <4>4. l \in 1..Len(aligned[j].text)
        BY <4>2 DEF Sound, Item
      <4> QED
        BY <4>1, <4>2, <4>3, <4>4 DEF Sound, Rightly
    <3> QED
      BY <3>1 DEF SaidByWhoSpoke
  <2> QED
    BY <2>3, <2>4, <2>5 DEF AlignmentSound
<1> QED
  BY <1>1, <1>2

(* The aligned transcript is the text it was made of, word for word, in      *)
(* order, by whoever alone was heard with a word, however many words,        *)
(* segments, turns and speakers there are (align_speakers_to_segments).      *)
THEOREM AlignmentKeepsText == AlignSpec => []AlignmentSound
<1>1. AlignInit => AlignInv
  BY AlignStarts
<1>2. AlignInv /\ [AlignNext]_alignVars => AlignInv'
  BY AlignSteps
<1>3. AlignInv => AlignmentSound
  BY AlignInvSound
<1> QED
  BY <1>1, <1>2, <1>3, PTL DEF AlignSpec

-----------------------------------------------------------------------------
(* Words and marks.                                                        *)
Char == Letter \cup {"."}

KeptBy(text, kept) ==
  /\ kept = [n \in 0..Len(text) |->
               IF n = 0 THEN <<>> ELSE IF text[n] = "." THEN kept[n - 1] ELSE Append(kept[n - 1], text[n])]
  /\ \A n \in 0..Len(text) : kept[n] \in Seq(Letter)
  /\ Normal(text) = kept[Len(text)]

LEMMA NormalRuns ==
  ASSUME NEW text \in Seq(Char) PROVE \E kept : KeptBy(text, kept)
<1> DEFINE N == Len(text)
           step == [p \in Seq(Letter) \X (1..N) |-> IF text[p[2]] = "." THEN p[1] ELSE Append(p[1], text[p[2]])]
           T == [n \in 0..N |-> Seq(Letter)]
           kept[n \in 0..N] ==
             IF n = 0 THEN <<>> ELSE IF text[n] = "." THEN kept[n - 1] ELSE Append(kept[n - 1], text[n])
           Rec(g) == g = [n \in 0..N |-> IF n = 0 THEN <<>> ELSE IF text[n] = "." THEN g[n - 1]
                                         ELSE Append(g[n - 1], text[n])]
<1>1. N \in Nat /\ \A n \in 1..N : text[n] \in Char
  OBVIOUS
<1>2. \A n \in 1..N : \A x \in Seq(Letter) :
        step[<<x, n>>] = (IF text[n] = "." THEN x ELSE Append(x, text[n])) /\ step[<<x, n>>] \in Seq(Letter)
  <2> HIDE DEF N
  <2>1. ASSUME NEW n \in 1..N, NEW x \in Seq(Letter)
        PROVE  step[<<x, n>>] = (IF text[n] = "." THEN x ELSE Append(x, text[n])) /\ step[<<x, n>>] \in Seq(Letter)
    <3>1. step[<<x, n>>] = (IF text[n] = "." THEN x ELSE Append(x, text[n]))
      OBVIOUS
    <3>2. text[n] = "." \/ text[n] \in Letter
      BY <1>1 DEF Char
    <3> HIDE DEF step
    <3> QED
      BY <3>1, <3>2, AppendProperties
  <2> QED
    BY <2>1
<1>3. \E g : Rec(g) /\ \A n \in 0..N : g[n] \in Seq(Letter)
  <2> HIDE DEF N
  <2>1. \A n \in 1..N : \A x \in T[n - 1] : step[<<x, n>>] \in T[n]
    <3> HIDE DEF step
    <3>1. ASSUME NEW n \in 1..N, NEW x \in T[n - 1] PROVE step[<<x, n>>] \in T[n]
      <4>1. n \in 0..N /\ n - 1 \in 0..N
        BY <1>1
      <4> QED
        BY <4>1, <1>2
    <3> QED
      BY <3>1
  <2>2. <<>> \in T[0]
    BY <1>1
  <2> HIDE DEF T, step
  <2>3. PICK m : Runs(m, N, T, <<>>, step)
    <3>1. Rounds(N, T, <<>>, step)
      BY <1>1, <2>1, <2>2 DEF Rounds
    <3> QED
      BY <3>1, LoopRuns
  <2>4. \A n \in 0..N : m[n] \in Seq(Letter)
    BY <2>3 DEF T, Runs
  <2>5. ASSUME NEW n \in 0..N
        PROVE  (IF n = 0 THEN <<>> ELSE step[<<m[n - 1], n>>]) =
               (IF n = 0 THEN <<>> ELSE IF text[n] = "." THEN m[n - 1] ELSE Append(m[n - 1], text[n]))
    <3>1. CASE n = 0
      BY <3>1
    <3>2. CASE n # 0
      <4>1. n \in 1..N /\ n - 1 \in 0..N
        BY <3>2, <1>1
      <4> QED
        BY <4>1, <2>4, <1>2, <3>2
    <3> QED
      BY <3>1, <3>2
  <2>6. Rec(m)
    BY <2>3, <2>5 DEF Runs
  <2> QED
    BY <2>6, <2>4
<1>4. Rec(kept)
  <2>1. Rec(CHOOSE g : Rec(g))
    BY <1>3
  <2> QED
    BY <2>1
<1>5. Normal(text) = kept[N]
  BY DEF Normal
<1> HIDE DEF kept
<1>6. \A n \in 0..N : kept[n] \in Seq(Letter)
  <2> DEFINE P == {n \in 0..N : kept[n] \in Seq(Letter)}
  <2> HIDE DEF N
  <2>1. 0 \in P
    BY <1>1, <1>4
  <2>2. ASSUME NEW n \in 1..N, n - 1 \in P PROVE n \in P
    <3>1. kept[n - 1] \in Seq(Letter) /\ n \in 0..N
      BY <1>1, <2>2
    <3>2. kept[n] = IF text[n] = "." THEN kept[n - 1] ELSE Append(kept[n - 1], text[n])
      <4>1. n # 0
        BY <1>1
      <4> QED
        BY <4>1, <3>1, <1>4
    <3>3. text[n] = "." \/ text[n] \in Letter
      BY <1>1 DEF Char
    <3>4. kept[n] \in Seq(Letter)
      BY <3>1, <3>2, <3>3, AppendProperties
    <3> QED
      BY <3>1, <3>4
  <2> HIDE DEF P
  <2>3. \A n \in 0..N : n \in P
    BY <1>1, <2>1, <2>2, CountingUp
  <2> QED
    BY <2>3 DEF P
<1>7. KeptBy(text, kept)
  BY <1>4, <1>5, <1>6 DEF KeptBy
<1> QED
  BY <1>7

(* What a character adds.                                                  *)
LEMMA NothingIsNormal == Normal(<<>>) = <<>>
<1>1. <<>> \in Seq(Char) /\ Len(<<>>) = 0
  OBVIOUS
<1>2. PICK kept : KeptBy(<<>>, kept)
  BY <1>1, NormalRuns
<1> QED
  BY <1>1, <1>2 DEF KeptBy

LEMMA NormalIsWords ==
  ASSUME NEW text \in Seq(Char) PROVE Normal(text) \in Seq(Letter)
<1>1. PICK kept : KeptBy(text, kept)
  BY NormalRuns
<1>2. Len(text) \in 0..Len(text)
  OBVIOUS
<1> QED
  BY <1>1, <1>2 DEF KeptBy

LEMMA NormalGrows ==
  ASSUME NEW text \in Seq(Char), NEW c \in Char
  PROVE  Normal(Append(text, c)) = IF c = "." THEN Normal(text) ELSE Append(Normal(text), c)
<1> DEFINE N == Len(text)
           longer == Append(text, c)
<1>1. /\ longer \in Seq(Char) /\ Len(longer) = N + 1 /\ N \in Nat
      /\ longer[N + 1] = c /\ \A n \in 1..N : longer[n] = text[n]
  BY AppendProperties
<1> HIDE DEF longer
<1>2. PICK kept : KeptBy(text, kept)
  BY NormalRuns
<1>3. PICK more : KeptBy(longer, more)
  BY <1>1, NormalRuns
<1> HIDE DEF N
<1>4. \A n \in 0..N :
        kept[n] = IF n = 0 THEN <<>> ELSE IF text[n] = "." THEN kept[n - 1] ELSE Append(kept[n - 1], text[n])
  BY <1>2 DEF KeptBy, N
<1>5. \A n \in 0..(N + 1) :
        more[n] = IF n = 0 THEN <<>> ELSE IF longer[n] = "." THEN more[n - 1] ELSE Append(more[n - 1], longer[n])
  BY <1>3, <1>1 DEF KeptBy
<1> DEFINE P == {n \in 0..N : more[n] = kept[n]}
<1>6. 0 \in P
  BY <1>4, <1>5, <1>1
<1>7. ASSUME NEW n \in 1..N, n - 1 \in P PROVE n \in P
  <2>1. n \in 0..N /\ n \in 0..(N + 1) /\ n # 0 /\ longer[n] = text[n] /\ more[n - 1] = kept[n - 1]
    BY <1>1, <1>7
  <2>2. more[n] = kept[n]
    BY <2>1, <1>4, <1>5
  <2> QED
    BY <2>1, <2>2
<1> HIDE DEF P
<1>8. \A n \in 0..N : n \in P
  BY <1>1, <1>6, <1>7, CountingUp
<1>9. more[N] = kept[N] /\ N + 1 \in 0..(N + 1) /\ N + 1 # 0 /\ N + 1 - 1 = N
  BY <1>8, <1>1 DEF P
<1>10. more[N + 1] = IF c = "." THEN more[N] ELSE Append(more[N], c)
  BY <1>9, <1>5, <1>1
<1> QED
  BY <1>9, <1>10, <1>1, <1>2, <1>3 DEF KeptBy, N, longer

LEMMA PrefixGrows ==
  ASSUME NEW S, NEW s \in Seq(S), NEW n \in 1..Len(s)
  PROVE  /\ SubSeq(s, 1, n) = Append(SubSeq(s, 1, n - 1), s[n])
         /\ SubSeq(s, 1, n) \in Seq(S) /\ SubSeq(s, 1, n - 1) \in Seq(S) /\ s[n] \in S
<1>1. 1 \in 1..Len(s) /\ n \in 1..Len(s) /\ s[n] \in S
  OBVIOUS
<1>2. SubSeq(s, 1, n) = SubSeq(s, 1, n - 1) \o <<s[n]>>
  BY <1>1, SubSeqRecursiveSecond
<1>3. SubSeq(s, 1, n) \in Seq(S) /\ SubSeq(s, 1, n - 1) \in Seq(S)
  OBVIOUS
<1>4. Append(SubSeq(s, 1, n - 1), s[n]) = SubSeq(s, 1, n - 1) \o <<s[n]>>
  BY <1>1, <1>3, AppendIsConcat
<1> QED
  BY <1>1, <1>2, <1>3, <1>4

LEMMA NormalOfJoined ==
  ASSUME NEW text \in Seq(Char), NEW more \in Seq(Char)
  PROVE  Normal(text \o more) = Normal(text) \o Normal(more)
<1> DEFINE N == Len(more)
           Upto(n) == SubSeq(more, 1, n)
           P == {n \in 0..N : Normal(text \o Upto(n)) = Normal(text) \o Normal(Upto(n))}
<1>1. N \in Nat /\ Upto(N) = more /\ Upto(0) = <<>> /\ text \o <<>> = text
  BY SubSeqFull, SubSeqEmpty, ConcatEmptySeq
<1>2. Normal(text) \in Seq(Letter) /\ Normal(text) \o <<>> = Normal(text)
  BY NormalIsWords, ConcatEmptySeq
<1>3. 0 \in P
  <2>1. Normal(text \o Upto(0)) = Normal(text) \o Normal(Upto(0)) /\ 0 \in 0..N
    <3> HIDE DEF Upto, N
    <3>1. 0 \in 0..N
      BY <1>1
    <3>2. Normal(text \o Upto(0)) = Normal(text)
      BY <1>1
    <3>3. Normal(Upto(0)) = <<>>
      BY <1>1, NothingIsNormal
    <3> QED
      BY <3>1, <3>2, <3>3, <1>2
  <2> HIDE DEF Upto, N
  <2> QED
    BY <2>1
<1>4. ASSUME NEW n \in 1..N, n - 1 \in P PROVE n \in P
  <2> DEFINE u == Upto(n - 1)
             c == more[n]
  <2>1. Upto(n) = Append(u, c) /\ u \in Seq(Char) /\ c \in Char
    BY PrefixGrows
  <2>2. Normal(text \o u) = Normal(text) \o Normal(u)
    BY <1>4
  <2> HIDE DEF u, c
  <2>3. Normal(u) \in Seq(Letter) /\ text \o u \in Seq(Char)
    BY <2>1, NormalIsWords, ConcatProperties
  <2>4. text \o Append(u, c) = Append(text \o u, c)
    <3>1. <<c>> \in Seq(Char) /\ Append(u, c) = u \o <<c>> /\ Append(text \o u, c) = (text \o u) \o <<c>>
      BY <2>1, <2>3, AppendIsConcat
    <3> QED
      BY <3>1, <2>1, ConcatAssociative
  <2>5. Normal(text \o Append(u, c)) = Normal(text) \o Normal(Append(u, c))
    <3>1. CASE c = "."
      <4>1. Normal(Append(text \o u, c)) = Normal(text \o u) /\ Normal(Append(u, c)) = Normal(u)
        BY <3>1, <2>1, <2>3, NormalGrows
      <4> QED
        BY <4>1, <2>2, <2>4
    <3>2. CASE c # "."
      <4>1. c \in Letter
        BY <3>2, <2>1 DEF Char
      <4>2. Normal(Append(text \o u, c)) = Append(Normal(text \o u), c) /\ Normal(Append(u, c)) = Append(Normal(u), c)
        BY <3>2, <2>1, <2>3, NormalGrows
      <4>3. <<c>> \in Seq(Letter) /\ Normal(text \o u) \in Seq(Letter)
        <5>1. Normal(text \o u) \in Seq(Letter)
          BY <2>3, NormalIsWords
        <5> QED
          BY <4>1, <5>1
      <4>4. Append(Normal(u), c) = Normal(u) \o <<c>> /\ Append(Normal(text \o u), c) = Normal(text \o u) \o <<c>>
        BY <4>1, <4>3, <2>3, AppendIsConcat
      <4>5. (Normal(text) \o Normal(u)) \o <<c>> = Normal(text) \o (Normal(u) \o <<c>>)
        <5> DEFINE v == Normal(text)
                   z == Normal(u)
        <5>1. v \in Seq(Letter) /\ z \in Seq(Letter) /\ <<c>> \in Seq(Letter)
          BY <1>2, <2>3, <4>3
        <5> HIDE DEF v, z
        <5>2. (v \o z) \o <<c>> = v \o (z \o <<c>>)
          BY <5>1, ConcatAssociative
        <5> QED
          BY <5>2 DEF v, z
      <4> QED
        BY <4>2, <4>4, <4>5, <2>2, <2>4
    <3> QED
      BY <3>1, <3>2
  <2>6. n \in 0..N
    BY <1>1
  <2> HIDE DEF Upto, N
  <2> QED
    BY <2>1, <2>5, <2>6
<1> HIDE DEF P, Upto
<1>5. \A n \in 0..N : n \in P
  BY <1>1, <1>3, <1>4, CountingUp
<1> QED
  <2>1. N \in 0..N
    BY <1>1
  <2>2. Normal(text \o Upto(N)) = Normal(text) \o Normal(Upto(N))
    <3> HIDE DEF N
    <3> QED
      BY <2>1, <1>5 DEF P
  <2> HIDE DEF N
  <2> QED
    BY <2>2, <1>1

LEMMA WordsAreNormal ==
  ASSUME NEW heard \in Seq(Letter) PROVE heard \in Seq(Char) /\ Normal(heard) = heard
<1> DEFINE N == Len(heard)
           Upto(n) == SubSeq(heard, 1, n)
           P == {n \in 0..N : Normal(Upto(n)) = Upto(n)}
<1>1. heard \in Seq(Char) /\ N \in Nat /\ Upto(N) = heard /\ Upto(0) = <<>>
  BY SubSeqFull, SubSeqEmpty DEF Char
<1>2. 0 \in P
  <2>1. Normal(Upto(0)) = Upto(0) /\ 0 \in 0..N
    <3> HIDE DEF Upto, N
    <3> QED
      BY <1>1, NothingIsNormal
  <2> HIDE DEF Upto, N
  <2> QED
    BY <2>1
<1>3. ASSUME NEW n \in 1..N, n - 1 \in P PROVE n \in P
  <2> DEFINE u == Upto(n - 1)
             c == heard[n]
  <2>1. Upto(n) = Append(u, c) /\ u \in Seq(Char) /\ c \in Char
    BY PrefixGrows, <1>1
  <2>2. Normal(u) = u /\ c \in Letter /\ n \in 0..N
    BY <1>3, <1>1
  <2>3. c # "."
    BY <2>2, LiveTextAssumption
  <2> HIDE DEF u, c, Upto, N
  <2>4. Normal(Append(u, c)) = Append(u, c)
    BY <2>1, <2>2, <2>3, NormalGrows
  <2> QED
    BY <2>1, <2>2, <2>4
<1> HIDE DEF P, Upto
<1>4. \A n \in 0..N : n \in P
  BY <1>1, <1>2, <1>3, CountingUp
<1> QED
  BY <1>1, <1>4 DEF P

(* What the engine hears is in its text, whatever marks it sets.           *)
LEMMA TextIsHeard ==
  ASSUME NEW heard \in Seq(Letter), NEW text \in Texts(heard)
  PROVE  text \in Seq(Char) /\ Normal(text) = heard
<1>1. heard \in Seq(Char) /\ Normal(heard) = heard /\ Len(heard) \in Nat
  BY WordsAreNormal
<1>2. ASSUME NEW i \in 2..(Len(heard) + 1), text = InsertAt(heard, i, ".")
      PROVE  text \in Seq(Char) /\ Normal(text) = heard
  <2> DEFINE l == SubSeq(heard, 1, i - 1)
             r == SubSeq(heard, i, Len(heard))
             mark == <<".">>
  <2>1. l \in Seq(Letter) /\ r \in Seq(Letter)
    OBVIOUS
  <2>2. l \o r = heard
    <3>1. /\ 1 \in 1..(Len(heard) + 1) /\ i - 1 \in (1 - 1)..Len(heard) /\ Len(heard) \in (i - 1)..Len(heard)
          /\ (i - 1) + 1 = i
      BY <1>1
    <3>2. SubSeq(heard, 1, i - 1) \o SubSeq(heard, (i - 1) + 1, Len(heard)) = SubSeq(heard, 1, Len(heard))
      BY <3>1, ConcatAdjacentSubSeq
    <3> QED
      BY <3>1, <3>2, SubSeqFull
  <2>3. mark = Append(<<>>, ".") /\ <<>> \in Seq(Char) /\ "." \in Char /\ mark \in Seq(Char)
    BY DEF Char
  <2>4. Normal(mark) = <<>>
    <3> HIDE DEF mark
    <3> QED
      BY <2>3, NormalGrows, NothingIsNormal
  <2>5. text = (l \o mark) \o r
    BY <1>2 DEF InsertAt
  <2> HIDE DEF l, r, mark
  <2>6. l \in Seq(Char) /\ Normal(l) = l /\ r \in Seq(Char) /\ Normal(r) = r
    BY <2>1, WordsAreNormal
  <2>7. l \o mark \in Seq(Char) /\ (l \o mark) \o r \in Seq(Char)
    BY <2>3, <2>6, ConcatProperties
  <2>8. Normal(l \o mark) = l
    <3>1. Normal(l \o mark) = Normal(l) \o Normal(mark)
      BY <2>3, <2>6, NormalOfJoined
    <3> QED
      BY <3>1, <2>1, <2>4, <2>6, ConcatEmptySeq
  <2>9. Normal((l \o mark) \o r) = Normal(l \o mark) \o Normal(r)
    BY <2>6, <2>7, NormalOfJoined
  <2> QED
    BY <2>2, <2>5, <2>6, <2>7, <2>8, <2>9
<1> QED
  BY <1>1, <1>2 DEF Texts

(* What is left after the n-th word has the words after it.                *)
LEMMA AfterReads ==
  ASSUME NEW text \in Seq(Char), NEW n \in Nat \ {0}
  PROVE  /\ After(text, n) \in Seq(Char) /\ Len(After(text, n)) <= Len(text)
         /\ Normal(After(text, n)) = SubSeq(Normal(text), n + 1, Len(Normal(text)))
<1> DEFINE N == Len(text)
           whole == Normal(text)
           Upto(i) == SubSeq(text, 1, i)
           X == {i \in 1..N : Len(Normal(Upto(i))) >= n}
<1>1. N \in Nat /\ whole \in Seq(Letter) /\ Len(whole) \in Nat /\ Upto(N) = text /\ Upto(0) = <<>>
  BY NormalIsWords, SubSeqFull, SubSeqEmpty
<1>2. CASE n >= Len(whole)
  <2>1. After(text, n) = <<>>
    BY <1>2 DEF After
  <2>2. SubSeq(whole, n + 1, Len(whole)) = <<>>
    <3> HIDE DEF whole
    <3> QED
      BY <1>1, <1>2, SubSeqEmpty
  <2>3. Len(<<>>) <= Len(text) /\ <<>> \in Seq(Char)
    BY <1>1
  <2> QED
    BY <2>1, <2>2, <2>3, NothingIsNormal
<1>3. CASE ~ n >= Len(whole)
  <2>1. X \subseteq Nat /\ X # {}
    <3>1. N # 0
      <4>1. CASE N = 0
        <5>1. whole = <<>>
          <6>1. text = <<>>
            BY <4>1, <1>1
          <6> QED
            BY <6>1, NothingIsNormal
        <5>2. Len(whole) = 0
          BY <5>1
        <5> HIDE DEF whole
        <5> QED
          BY <5>2, <1>3
      <4> QED
        BY <4>1
    <3>2. N \in X
      <4>1. Len(Normal(Upto(N))) >= n
        <5>1. Normal(Upto(N)) = whole
          BY <1>1
        <5> HIDE DEF whole, Upto, N
        <5> QED
          BY <5>1, <1>1, <1>3
      <4> HIDE DEF Upto, N
      <4> QED
        BY <3>1, <4>1, <1>1
    <3> HIDE DEF Upto
    <3>3. X \subseteq Nat
      BY <1>1
    <3> QED
      BY <3>2, <3>3
  <2>2. PICK i \in X : \A y \in X : i <= y
    <3> HIDE DEF X
    <3> QED
      BY <2>1, Lowest
  <2>3. i \in 1..N /\ Len(Normal(Upto(i))) >= n
    <3> HIDE DEF Upto, N
    <3> QED
      BY <2>2
  <2> DEFINE u == Upto(i - 1)
             c == text[i]
  <2>4. Upto(i) = Append(u, c) /\ u \in Seq(Char) /\ c \in Char
    BY <2>3, PrefixGrows
  <2>5. Normal(u) \in Seq(Letter) /\ Len(Normal(u)) \in Nat /\ Len(Normal(u)) < n
    <3>1. Normal(u) \in Seq(Letter) /\ Len(Normal(u)) \in Nat
      <4> HIDE DEF u
      <4>1. Normal(u) \in Seq(Letter)
        BY <2>4, NormalIsWords
      <4> QED
        BY <4>1
    <3>2. CASE i = 1
      <4>1. i - 1 = 0
        BY <3>2
      <4>2. u = <<>>
        BY <4>1, <1>1
      <4>3. Len(Normal(u)) = 0
        <5> HIDE DEF u
        <5> QED
          BY <4>2, NothingIsNormal
      <4> HIDE DEF u
      <4> QED
        BY <4>3, <3>1
    <3>3. CASE i # 1
      <4>1. i - 1 \in 1..N /\ ~ (i <= i - 1)
        BY <3>3, <2>3, <1>1
      <4>2. i - 1 \notin X
        <5> HIDE DEF X
        <5> QED
          BY <4>1, <2>2
      <4>3. ~ (Len(Normal(Upto(i - 1))) >= n)
        <5> HIDE DEF Upto, N
        <5> QED
          BY <4>1, <4>2
      <4>4. ~ (Len(Normal(u)) >= n)
        BY <4>3
      <4> HIDE DEF u
      <4> QED
        BY <4>4, <3>1
    <3> QED
      BY <3>1, <3>2, <3>3
  <2> HIDE DEF u
  <2>6. c # "." /\ Normal(Upto(i)) = Append(Normal(u), c) /\ Len(Normal(Upto(i))) = n
    <3> DEFINE v == Normal(u)
               w == Normal(Upto(i))
    <3>1. w = IF c = "." THEN v ELSE Append(v, c)
      <4> HIDE DEF c, Upto
      <4> QED
        BY <2>4, NormalGrows
    <3>2. v \in Seq(Letter) /\ Len(v) \in Nat /\ Len(v) < n /\ Len(w) >= n
      BY <2>3, <2>5
    <3>3. Len(Append(v, c)) = Len(v) + 1
      <4> HIDE DEF v, c
      <4> QED
        BY <3>2
    <3> HIDE DEF v, w, c
    <3>4. c # "."
      BY <3>1, <3>2
    <3>5. w = Append(v, c) /\ Len(w) = n
      BY <3>1, <3>2, <3>3, <3>4
    <3> QED
      BY <3>4, <3>5 DEF v, w
  <2> DEFINE Stands(j) == text[j] # "." /\ Len(Normal(SubSeq(text, 1, j))) = n
             at == CHOOSE j \in DOMAIN text : Stands(j)
  <2>7. i \in DOMAIN text /\ Stands(i)
    BY <2>3, <2>6
  <2>8. at \in DOMAIN text /\ Stands(at)
    <3> HIDE DEF Stands
    <3> QED
      BY <2>7
  <2>9. After(text, n) = SubSeq(text, at + 1, N)
    BY <1>3 DEF After
  <2> HIDE DEF at
  <2> DEFINE pre == SubSeq(text, 1, at)
             post == SubSeq(text, at + 1, N)
  <2>10. at \in 1..N
    BY <2>8
  <2>11. pre \in Seq(Char) /\ post \in Seq(Char) /\ pre \o post = text /\ Len(post) <= Len(text)
    <3>1. 1 \in 1..(N + 1) /\ at \in (1 - 1)..N /\ N \in at..N
      BY <2>10, <1>1
    <3>2. pre \o post = SubSeq(text, 1, N)
      BY <3>1, ConcatAdjacentSubSeq
    <3>3. pre \in Seq(Char) /\ post \in Seq(Char) /\ Len(post) <= Len(text)
      BY <2>10
    <3> QED
      BY <3>2, <3>3, SubSeqFull
  <2>12. Len(Normal(pre)) = n
    BY <2>8
  <2> HIDE DEF pre, post
  <2> DEFINE p == Normal(pre)
             q == Normal(post)
  <2>13. whole = p \o q /\ p \in Seq(Letter) /\ q \in Seq(Letter) /\ Len(p) = n
    <3>1. p \in Seq(Letter) /\ q \in Seq(Letter)
      BY <2>11, NormalIsWords
    <3>2. Normal(pre \o post) = p \o q
      BY <2>11, NormalOfJoined
    <3> QED
      BY <3>1, <3>2, <2>11, <2>12
  <2>14. q = SubSeq(whole, n + 1, Len(whole))
    <3> HIDE DEF p, q, whole
    <3>1. Len(whole) = n + Len(q) /\ Len(q) \in Nat \ {0} /\ Len(whole) \in Nat
      <4>1. Len(p \o q) = Len(p) + Len(q)
        BY <2>13, ConcatProperties
      <4>2. Len(q) \in Nat /\ Len(whole) \in Nat /\ ~ n >= Len(whole)
        BY <2>13, <1>1, <1>3
      <4>3. Len(whole) = n + Len(q)
        BY <4>1, <2>13
      <4> QED
        BY <4>2, <4>3
    <3>2. /\ n + 1 \in (Len(p) + 1)..(Len(p) + Len(q)) /\ Len(whole) \in (Len(p) + 1)..(Len(p) + Len(q))
          /\ n + 1 - Len(p) = 1 /\ Len(whole) - Len(p) = Len(q)
      BY <3>1, <2>13
    <3>3. SubSeq(p \o q, n + 1, Len(whole)) = SubSeq(q, 1, Len(q))
      <4>1. SubSeq(p \o q, n + 1, Len(whole)) = SubSeq(q, n + 1 - Len(p), Len(whole) - Len(p))
        BY <3>2, <2>13, SubSeqOfConcat2
      <4> QED
        BY <4>1, <3>2
    <3> QED
      BY <3>3, <2>13, SubSeqFull
  <2> QED
    BY <2>9, <2>11, <2>14 DEF post
<1> QED
  BY <1>2, <1>3

-----------------------------------------------------------------------------
(* What is written of what was heard.                                      *)
\* The first k words of heard end o.
EndsIn(o, heard, k) == k <= Len(o) /\ \A j \in 1..k : heard[j] = o[Len(o) - k + j]
\* The words of heard after the first k are none of o.
Novel(o, heard, k) == \A j \in (k + 1)..Len(heard) : heard[j] \notin Range(o)

LEMMA Highest ==
  ASSUME NEW N \in Nat, NEW X, X \subseteq 0..N, X # {}
  PROVE  Max(X) \in X /\ \A y \in X : Max(X) >= y
<1> DEFINE Y == {N - x : x \in X}
<1>1. Y \subseteq Nat /\ Y # {}
  OBVIOUS
<1>2. PICK l \in Y : \A y \in Y : l <= y
  <2> HIDE DEF Y
  <2> QED
    BY <1>1, Lowest
<1>3. PICK x \in X : l = N - x
  BY <1>2
<1>4. ASSUME NEW y \in X PROVE x >= y
  <2>1. N - y \in Y /\ x \in 0..N /\ y \in 0..N
    OBVIOUS
  <2>2. N - x <= N - y
    BY <2>1, <1>2, <1>3
  <2> QED
    BY <2>1, <2>2
<1>5. \E m \in X : \A y \in X : m >= y
  BY <1>4
<1> QED
  BY <1>5 DEF Max

LEMMA EdgeTells ==
  ASSUME NEW o \in Seq(Letter), NEW n \in Seq(Letter), NEW k \in 1..Len(n), k <= Len(o)
  PROVE  SubSeq(o, Len(o) - k + 1, Len(o)) = SubSeq(n, 1, k) <=> EndsIn(o, n, k)
<1> DEFINE a == SubSeq(o, Len(o) - k + 1, Len(o))
           b == SubSeq(n, 1, k)
<1>1. /\ a \in Seq(Letter) /\ Len(a) = k /\ \A j \in 1..k : a[j] = o[Len(o) - k + j]
      /\ b \in Seq(Letter) /\ Len(b) = k /\ \A j \in 1..k : b[j] = n[j]
  OBVIOUS
<1> HIDE DEF a, b
<1>2. a = b => EndsIn(o, n, k)
  BY <1>1 DEF EndsIn
<1>3. EndsIn(o, n, k) => a = b
  <2>1. ASSUME EndsIn(o, n, k) PROVE a = b
    <3>1. \A j \in 1..k : a[j] = b[j]
      BY <2>1, <1>1 DEF EndsIn
    <3> QED
      BY <3>1, <1>1, SeqEqual
  <2> QED
    BY <2>1
<1>4. a = b <=> EndsIn(o, n, k)
  BY <1>2, <1>3
<1> QED
  BY <1>4 DEF a, b

LEMMA EdgeIsGreatest ==
  ASSUME NEW o \in Seq(Letter), NEW n \in Seq(Letter)
  PROVE  /\ CommonEdge(o, n) \in 0..Len(n) /\ EndsIn(o, n, CommonEdge(o, n))
         /\ \A k \in 1..Len(n) : EndsIn(o, n, k) => k <= CommonEdge(o, n)
<1> DEFINE L == Min({Len(o), Len(n)})
           E == {k \in 1..L : SubSeq(o, Len(o) - k + 1, Len(o)) = SubSeq(n, 1, k)} \cup {0}
           c == Max(E)
<1>1. Len(o) \in Nat /\ Len(n) \in Nat /\ L \in Nat /\ L <= Len(n) /\ L <= Len(o) /\ (L = Len(n) \/ L = Len(o))
  BY DEF Min
<1>2. \A k \in 1..L : k \in E <=> EndsIn(o, n, k)
  <2>1. ASSUME NEW k \in 1..L PROVE k \in E <=> EndsIn(o, n, k)
    <3>1. k \in 1..Len(n) /\ k <= Len(o) /\ k # 0
      <4> HIDE DEF L
      <4> QED
        BY <1>1
    <3>2. SubSeq(o, Len(o) - k + 1, Len(o)) = SubSeq(n, 1, k) <=> EndsIn(o, n, k)
      BY <3>1, EdgeTells
    <3>3. k \in E <=> SubSeq(o, Len(o) - k + 1, Len(o)) = SubSeq(n, 1, k)
      <4> HIDE DEF L
      <4> QED
        BY <3>1
    <3> HIDE DEF E
    <3> QED
      BY <3>2, <3>3
  <2> QED
    BY <2>1
<1>3. E \subseteq 0..L /\ 0 \in E
  <2> HIDE DEF L
  <2> QED
    BY <1>1
<1>4. CommonEdge(o, n) = c
  BY DEF CommonEdge
<1> HIDE DEF E, L
<1>5. c \in E /\ \A y \in E : c >= y
  BY <1>1, <1>3, Highest
<1> HIDE DEF c
<1>6. c \in 0..L /\ c \in 0..Len(n)
  BY <1>1, <1>3, <1>5
<1>7. EndsIn(o, n, c)
  <2>1. CASE c = 0
    BY <2>1, <1>1 DEF EndsIn
  <2>2. CASE c # 0
    <3>1. c \in 1..L
      BY <2>2, <1>6
    <3> QED
      BY <3>1, <1>2, <1>5
  <2> QED
    BY <2>1, <2>2
<1>8. ASSUME NEW k \in 1..Len(n), EndsIn(o, n, k) PROVE k <= c
  <2>1. k <= Len(o)
    BY <1>8 DEF EndsIn
  <2>2. k \in 1..L
    BY <2>1, <1>1
  <2>3. k \in E
    BY <2>2, <1>2, <1>8
  <2> QED
    BY <2>3, <1>5, <1>6
<1> QED
  BY <1>4, <1>6, <1>7, <1>8

(* Of what was heard, part is what follows the first k words: those, and    *)
(* only those, that end what was written before.                            *)
Follows(o, heard, a, part, k) ==
  /\ Normal(part) = SubSeq(heard, k + 1, Len(heard))
  /\ Novel(o, heard, a) => k = a
  /\ k = Len(heard) /\ Len(o) <= Len(heard) => EndsIn(o, heard, k)

LEMMA NovelBounds ==
  ASSUME NEW o \in Seq(Letter), NEW heard \in Seq(Letter), NEW a \in Nat, NEW k \in a..Len(heard),
         Novel(o, heard, a), k # a => heard[k] \in Range(o)
  PROVE  k = a
<1>1. k # a => k \in (a + 1)..Len(heard)
  OBVIOUS
<1> QED
  BY <1>1 DEF Novel

LEMMA IncrementFollows ==
  ASSUME NEW old \in Seq(Char), NEW heard \in Seq(Letter), heard # <<>>, NEW text \in Texts(heard),
         NEW a \in 0..Len(heard), EndsIn(Normal(old), heard, a)
  PROVE  LET part == Increment(old, text)
         IN /\ part \in Seq(Char) /\ (part = text \/ Len(part) <= Len(text))
            /\ \E k \in a..Len(heard) : Follows(Normal(old), heard, a, part, k)
<1> DEFINE o == Normal(old)
           part == Increment(old, text)
<1>1. /\ o \in Seq(Letter) /\ text \in Seq(Char) /\ Normal(text) = heard
      /\ Len(o) \in Nat /\ Len(heard) \in Nat \ {0} /\ EndsIn(o, heard, a) /\ a <= Len(o)
  <2>1. o \in Seq(Letter) /\ text \in Seq(Char) /\ Normal(text) = heard
    BY NormalIsWords, TextIsHeard
  <2>2. Len(heard) # 0
    OBVIOUS
  <2>3. EndsIn(o, heard, a)
    OBVIOUS
  <2>4. a <= Len(o)
    <3> HIDE DEF o
    <3> QED
      BY <2>3 DEF EndsIn
  <2> HIDE DEF o
  <2> QED
    BY <2>1, <2>2, <2>3, <2>4
<1>2. part = IF o = <<>> THEN text
             ELSE IF StartsWith(heard, o) THEN After(text, Len(o))
             ELSE IF Holds(o, heard) THEN <<>>
             ELSE IF CommonEdge(o, heard) > 0 THEN After(text, CommonEdge(o, heard)) ELSE text
  BY <1>1 DEF Increment
<1> HIDE DEF o, part
<1> SUFFICES /\ part \in Seq(Char) /\ (part = text \/ Len(part) <= Len(text))
             /\ \E k \in a..Len(heard) : Follows(o, heard, a, part, k)
  BY DEF o, part
<1>3. ASSUME part = text, a = 0
      PROVE  /\ part \in Seq(Char) /\ (part = text \/ Len(part) <= Len(text))
             /\ \E k \in a..Len(heard) : Follows(o, heard, a, part, k)
  <2>1. SubSeq(heard, 0 + 1, Len(heard)) = heard
    BY SubSeqFull
  <2>2. Follows(o, heard, a, part, 0)
    BY <1>1, <1>3, <2>1 DEF Follows
  <2>3. 0 \in a..Len(heard)
    BY <1>1, <1>3
  <2> QED
    BY <1>1, <1>3, <2>2, <2>3
<1>4. CASE o = <<>>
  <2>1. a = 0
    BY <1>4, <1>1
  <2> QED
    BY <1>4, <2>1, <1>2, <1>3
<1>5. ASSUME NEW k \in a..Len(heard), k # 0, part = After(text, k),
             k # a => heard[k] \in Range(o), k = Len(heard) /\ Len(o) <= Len(heard) => EndsIn(o, heard, k)
      PROVE  /\ part \in Seq(Char) /\ (part = text \/ Len(part) <= Len(text))
             /\ \E n \in a..Len(heard) : Follows(o, heard, a, part, n)
  <2>1. k \in Nat \ {0}
    BY <1>1, <1>5
  <2>2. /\ part \in Seq(Char) /\ Len(part) <= Len(text)
        /\ Normal(part) = SubSeq(heard, k + 1, Len(heard))
    BY <1>1, <1>5, <2>1, AfterReads
  <2>3. Novel(o, heard, a) => k = a
    BY <1>1, <1>5, NovelBounds
  <2>4. Follows(o, heard, a, part, k)
    BY <2>2, <2>3, <1>5 DEF Follows
  <2> QED
    BY <2>2, <2>4
<1>6. CASE o # <<>> /\ StartsWith(heard, o)
  <2>1. Len(o) # 0 /\ Len(o) <= Len(heard) /\ SubSeq(o, 1, Len(o)) = SubSeq(heard, 1, Len(o))
    BY <1>6, <1>1 DEF StartsWith, IsPrefix
  <2>2. SubSeq(heard, 1, Len(o)) = o
    BY <1>1, <2>1, SubSeqFull
  <2>3. \A j \in 1..Len(o) : heard[j] = o[j]
    BY <1>1, <2>1, <2>2
  <2>4. Len(o) \in a..Len(heard) /\ Len(o) \in 1..Len(o)
    BY <1>1, <2>1
  <2>5. heard[Len(o)] \in Range(o)
    BY <1>1, <2>3, <2>4 DEF Range
  <2>6. Len(o) = Len(heard) => EndsIn(o, heard, Len(o))
    BY <1>1, <2>3 DEF EndsIn
  <2>7. part = After(text, Len(o))
    BY <1>6, <1>2
  <2> QED
    BY <2>1, <2>4, <2>5, <2>6, <2>7, <1>5
<1>7. CASE o # <<>> /\ ~ StartsWith(heard, o) /\ Holds(o, heard)
  <2>1. PICK i \in 0..(Len(o) - Len(heard)) : SubSeq(o, i + 1, i + Len(heard)) = heard
    BY <1>7 DEF Holds
  <2> DEFINE k == Len(heard)
  <2>2. k \in 1..k /\ k \in a..k /\ i + k \in 1..Len(o)
    BY <1>1
  <2>3. \A j \in 1..k : heard[j] = o[i + j]
    <3>1. \A j \in 1..k : SubSeq(o, i + 1, i + k)[j] = o[i + j]
      BY <1>1
    <3> QED
      BY <3>1, <2>1
  <2>4. heard[k] \in Range(o)
    <3>1. heard[k] = o[i + k] /\ i + k \in DOMAIN o
      BY <2>2, <2>3, <1>1
    <3> QED
      BY <3>1 DEF Range
  <2>5. ASSUME Len(o) <= k PROVE EndsIn(o, heard, k)
    <3>1. i = 0 /\ Len(o) = k
      BY <2>5, <1>1
    <3> HIDE DEF k
    <3>2. k <= Len(o) /\ \A j \in 1..k : heard[j] = o[Len(o) - k + j]
      BY <3>1, <2>2, <2>3, <1>1
    <3> QED
      BY <3>2 DEF EndsIn
  <2>6. part = <<>>
    BY <1>7, <1>2
  <2>7. Normal(part) = SubSeq(heard, k + 1, Len(heard))
    <3>1. SubSeq(heard, k + 1, Len(heard)) = <<>>
      BY <1>1, SubSeqEmpty
    <3> QED
      BY <3>1, <2>6, NothingIsNormal
  <2>8. Novel(o, heard, a) => k = a
    BY <1>1, <2>2, <2>4, NovelBounds
  <2>9. Follows(o, heard, a, part, k)
    BY <2>5, <2>7, <2>8 DEF Follows
  <2>10. part \in Seq(Char) /\ Len(part) <= Len(text)
    BY <2>6, <1>1
  <2> QED
    BY <2>2, <2>9, <2>10
<1>8. CASE o # <<>> /\ ~ StartsWith(heard, o) /\ ~ Holds(o, heard)
  <2> DEFINE c == CommonEdge(o, heard)
  <2>1. c \in 0..Len(heard) /\ EndsIn(o, heard, c) /\ \A k \in 1..Len(heard) : EndsIn(o, heard, k) => k <= c
    BY <1>1, EdgeIsGreatest
  <2> HIDE DEF c
  <2>2. a <= c
    <3>1. a = 0 \/ a \in 1..Len(heard)
      OBVIOUS
    <3> QED
      BY <3>1, <2>1, <1>1
  <2>3. CASE c > 0
    <3>1. c \in a..Len(heard) /\ c # 0 /\ c \in 1..c /\ Len(o) - c + c = Len(o) /\ c <= Len(o)
      BY <2>1, <2>2, <2>3, <1>1 DEF EndsIn
    <3>2. heard[c] = o[Len(o)] /\ Len(o) \in 1..Len(o)
      BY <3>1, <2>1, <1>1 DEF EndsIn
    <3>3. heard[c] \in Range(o)
      BY <3>2, <1>1 DEF Range
    <3>4. part = After(text, c)
      BY <1>8, <2>3, <1>2 DEF c
    <3> QED
      BY <3>1, <3>3, <3>4, <2>1, <1>5
  <2>4. CASE ~ c > 0
    <3>1. a = 0
      BY <2>1, <2>2, <2>4
    <3>2. part = text
      BY <1>8, <2>4, <1>2 DEF c
    <3> QED
      BY <3>1, <3>2, <1>3
  <2> QED
    BY <2>3, <2>4
<1> QED
  BY <1>4, <1>6, <1>7, <1>8

(* The words of a row spell it.                                            *)
LEMMA WordsSpell ==
  ASSUME NEW heard \in Seq(Letter), NEW text \in Texts(heard), NEW part \in Seq(Char),
         part = text \/ Len(part) <= Len(text)
  PROVE  LET words == WordsFor(heard, text, part)
         IN words \in Seq(Letter) /\ (words # <<>> => words = Normal(part))
<1>1. text \in Seq(Char) /\ Normal(text) = heard
  BY TextIsHeard
<1>2. CASE part = text
  <2>1. WordsFor(heard, text, part) = heard
    BY <1>2 DEF WordsFor
  <2> QED
    BY <2>1, <1>1, <1>2
<1>3. CASE part # text
  <2> DEFINE from == Len(text) - Len(part)
             rest == SubSeq(heard, from + 1, Len(heard))
  <2>1. from \in Nat /\ WordsFor(heard, text, part) \in {part, <<>>}
    BY <1>1, <1>3 DEF WordsFor
  <2>2. WordsFor(heard, text, part) # <<>> => from <= Len(heard) /\ rest = part
    BY <1>3 DEF WordsFor
  <2>3. ASSUME WordsFor(heard, text, part) # <<>>
        PROVE  part \in Seq(Letter) /\ WordsFor(heard, text, part) = Normal(part)
    <3>1. rest \in Seq(Letter)
      BY <2>1
    <3>2. part \in Seq(Letter)
      BY <3>1, <2>2, <2>3
    <3>3. Normal(part) = part
      BY <3>2, WordsAreNormal
    <3> QED
      BY <3>2, <3>3, <2>1, <2>3
  <2>4. <<>> \in Seq(Letter)
    OBVIOUS
  <2> HIDE DEF from, rest
  <2> QED
    BY <2>1, <2>3, <2>4
<1> QED
  BY <1>2, <1>3

-----------------------------------------------------------------------------
(* What the rows show.                                                     *)
TextRow == [text : Seq(Char), words : Seq(Letter)]

ShownBy(list, shown) ==
  /\ shown = [n \in 0..Len(list) |-> IF n = 0 THEN <<>> ELSE shown[n - 1] \o Normal(list[n].text)]
  /\ \A n \in 0..Len(list) : shown[n] \in Seq(Letter)
  /\ Shown(list) = shown[Len(list)]

LEMMA ShownRuns ==
  ASSUME NEW list \in Seq(TextRow) PROVE \E shown : ShownBy(list, shown)
<1> DEFINE N == Len(list)
           step == [p \in Seq(Letter) \X (1..N) |-> p[1] \o Normal(list[p[2]].text)]
           T == [n \in 0..N |-> Seq(Letter)]
           shown[n \in 0..N] == IF n = 0 THEN <<>> ELSE shown[n - 1] \o Normal(list[n].text)
           Rec(g) == g = [n \in 0..N |-> IF n = 0 THEN <<>> ELSE g[n - 1] \o Normal(list[n].text)]
<1>1. N \in Nat /\ \A n \in 1..N : Normal(list[n].text) \in Seq(Letter)
  <2>1. ASSUME NEW n \in 1..N PROVE Normal(list[n].text) \in Seq(Letter)
    <3>1. list[n] \in TextRow
      OBVIOUS
    <3>2. list[n].text \in Seq(Char)
      BY <3>1 DEF TextRow
    <3> QED
      BY <3>2, NormalIsWords
  <2> QED
    BY <2>1
<1>2. \A n \in 1..N : \A x \in Seq(Letter) :
        step[<<x, n>>] = x \o Normal(list[n].text) /\ step[<<x, n>>] \in Seq(Letter)
  <2> HIDE DEF N
  <2>1. ASSUME NEW n \in 1..N, NEW x \in Seq(Letter)
        PROVE  step[<<x, n>>] = x \o Normal(list[n].text) /\ step[<<x, n>>] \in Seq(Letter)
    <3>1. step[<<x, n>>] = x \o Normal(list[n].text)
      OBVIOUS
    <3> HIDE DEF step
    <3>2. Normal(list[n].text) \in Seq(Letter)
      BY <1>1
    <3> QED
      BY <3>1, <3>2, ConcatProperties
  <2> QED
    BY <2>1
<1>3. \E g : Rec(g) /\ \A n \in 0..N : g[n] \in Seq(Letter)
  <2> HIDE DEF N
  <2>1. \A n \in 1..N : \A x \in T[n - 1] : step[<<x, n>>] \in T[n]
    <3> HIDE DEF step
    <3>1. ASSUME NEW n \in 1..N, NEW x \in T[n - 1] PROVE step[<<x, n>>] \in T[n]
      <4>1. n \in 0..N /\ n - 1 \in 0..N
        BY <1>1
      <4> QED
        BY <4>1, <1>2
    <3> QED
      BY <3>1
  <2>2. <<>> \in T[0]
    BY <1>1
  <2> HIDE DEF T, step
  <2>3. PICK m : Runs(m, N, T, <<>>, step)
    <3>1. Rounds(N, T, <<>>, step)
      BY <1>1, <2>1, <2>2 DEF Rounds
    <3> QED
      BY <3>1, LoopRuns
  <2>4. \A n \in 0..N : m[n] \in Seq(Letter)
    BY <2>3 DEF T, Runs
  <2>5. ASSUME NEW n \in 0..N
        PROVE  (IF n = 0 THEN <<>> ELSE step[<<m[n - 1], n>>]) =
               (IF n = 0 THEN <<>> ELSE m[n - 1] \o Normal(list[n].text))
    <3>1. CASE n = 0
      BY <3>1
    <3>2. CASE n # 0
      <4>1. n \in 1..N /\ n - 1 \in 0..N
        BY <3>2, <1>1
      <4> QED
        BY <4>1, <2>4, <1>2, <3>2
    <3> QED
      BY <3>1, <3>2
  <2>6. Rec(m)
    BY <2>3, <2>5 DEF Runs
  <2> QED
    BY <2>6, <2>4
<1>4. Rec(shown)
  <2>1. Rec(CHOOSE g : Rec(g))
    BY <1>3
  <2> QED
    BY <2>1
<1>5. Shown(list) = shown[N]
  BY DEF Shown
<1> HIDE DEF shown
<1>6. \A n \in 0..N : shown[n] \in Seq(Letter)
  <2> DEFINE P == {n \in 0..N : shown[n] \in Seq(Letter)}
  <2> HIDE DEF N
  <2>1. 0 \in P
    BY <1>1, <1>4
  <2>2. ASSUME NEW n \in 1..N, n - 1 \in P PROVE n \in P
    <3>1. shown[n - 1] \in Seq(Letter) /\ n \in 0..N /\ n # 0 /\ Normal(list[n].text) \in Seq(Letter)
      BY <1>1, <2>2
    <3>2. shown[n] = shown[n - 1] \o Normal(list[n].text)
      BY <3>1, <1>4
    <3>3. shown[n] \in Seq(Letter)
      BY <3>1, <3>2, ConcatProperties
    <3> QED
      BY <3>1, <3>3
  <2> HIDE DEF P
  <2>3. \A n \in 0..N : n \in P
    BY <1>1, <2>1, <2>2, CountingUp
  <2> QED
    BY <2>3 DEF P
<1>7. ShownBy(list, shown)
  BY <1>4, <1>5, <1>6 DEF ShownBy
<1> QED
  BY <1>7

LEMMA NothingShown == Shown(<<>>) = <<>>
<1>1. <<>> \in Seq(TextRow) /\ Len(<<>>) = 0
  OBVIOUS
<1>2. PICK shown : ShownBy(<<>>, shown)
  BY <1>1, ShownRuns
<1> QED
  BY <1>1, <1>2 DEF ShownBy

LEMMA ShownIsWords ==
  ASSUME NEW list \in Seq(TextRow) PROVE Shown(list) \in Seq(Letter)
<1>1. PICK shown : ShownBy(list, shown)
  BY ShownRuns
<1>2. Len(list) \in 0..Len(list)
  OBVIOUS
<1> QED
  BY <1>1, <1>2 DEF ShownBy

LEMMA ShownGrows ==
  ASSUME NEW list \in Seq(TextRow), NEW r \in TextRow
  PROVE  Shown(Append(list, r)) = Shown(list) \o Normal(r.text)
<1> DEFINE N == Len(list)
           longer == Append(list, r)
<1>1. /\ longer \in Seq(TextRow) /\ Len(longer) = N + 1 /\ N \in Nat
      /\ longer[N + 1] = r /\ \A n \in 1..N : longer[n] = list[n]
  BY AppendProperties
<1> HIDE DEF longer
<1>2. PICK shown : ShownBy(list, shown)
  BY ShownRuns
<1>3. PICK more : ShownBy(longer, more)
  BY <1>1, ShownRuns
<1> HIDE DEF N
<1>4. \A n \in 0..N : shown[n] = IF n = 0 THEN <<>> ELSE shown[n - 1] \o Normal(list[n].text)
  BY <1>2 DEF ShownBy, N
<1>5. \A n \in 0..(N + 1) : more[n] = IF n = 0 THEN <<>> ELSE more[n - 1] \o Normal(longer[n].text)
  BY <1>3, <1>1 DEF ShownBy
<1> DEFINE P == {n \in 0..N : more[n] = shown[n]}
<1>6. 0 \in P
  BY <1>4, <1>5, <1>1
<1>7. ASSUME NEW n \in 1..N, n - 1 \in P PROVE n \in P
  <2>1. n \in 0..N /\ n \in 0..(N + 1) /\ n # 0 /\ longer[n] = list[n] /\ more[n - 1] = shown[n - 1]
    BY <1>1, <1>7
  <2>2. more[n] = shown[n]
    BY <2>1, <1>4, <1>5
  <2> QED
    BY <2>1, <2>2
<1> HIDE DEF P
<1>8. \A n \in 0..N : n \in P
  BY <1>1, <1>6, <1>7, CountingUp
<1>9. more[N] = shown[N] /\ N + 1 \in 0..(N + 1) /\ N + 1 # 0 /\ N + 1 - 1 = N
  BY <1>8, <1>1 DEF P
<1>10. more[N + 1] = more[N] \o Normal(r.text)
  <2> DEFINE k == N + 1
  <2>0. k \in 0..(N + 1) /\ k # 0 /\ k - 1 = N
    BY <1>9, <1>1
  <2> HIDE DEF k
  <2>1. more[k] = more[k - 1] \o Normal(longer[k].text)
    BY <2>0, <1>5
  <2>2. longer[N + 1] = r
    BY <1>1
  <2> QED
    BY <2>0, <2>1, <2>2 DEF k
<1> QED
  BY <1>9, <1>10, <1>1, <1>2, <1>3 DEF ShownBy, N, longer

(* Whatever is left out before it, more can be added to both.              *)
LEMMA PartGrows ==
  ASSUME NEW a \in Seq(Letter), NEW b \in Seq(Letter), NEW d \in Seq(Letter), NEW c \in Seq(Letter),
         IsPartOf(a, b)
  PROVE  IsPartOf(a \o c, (b \o d) \o c)
<1> DEFINE x == a \o c
           y == (b \o d) \o c
           M == Len(b) + Len(d)
<1>1. PICK f \in [DOMAIN a -> DOMAIN b] :
        /\ \A i, j \in DOMAIN a : i < j => f[i] < f[j]
        /\ \A i \in DOMAIN a : a[i] = b[f[i]]
  BY DEF IsPartOf
<1>2. Len(a) \in Nat /\ Len(b) \in Nat /\ Len(c) \in Nat /\ Len(d) \in Nat /\ M \in Nat /\ Len(b) <= M
  OBVIOUS
<1>3. /\ Len(x) = Len(a) + Len(c) /\ DOMAIN x = 1..(Len(a) + Len(c))
      /\ \A i \in 1..Len(a) : x[i] = a[i]
      /\ \A i \in (Len(a) + 1)..(Len(a) + Len(c)) : x[i] = c[i - Len(a)]
  OBVIOUS
<1>4. /\ DOMAIN y = 1..(M + Len(c))
      /\ \A i \in 1..Len(b) : y[i] = b[i]
      /\ \A i \in (M + 1)..(M + Len(c)) : y[i] = c[i - M]
  <2> DEFINE e == b \o d
  <2>1. e \in Seq(Letter) /\ Len(e) = M /\ \A i \in 1..Len(b) : e[i] = b[i]
    OBVIOUS
  <2> HIDE DEF e, M
  <2>2. /\ Len(e \o c) = M + Len(c) /\ DOMAIN (e \o c) = 1..(M + Len(c))
        /\ \A i \in 1..M : (e \o c)[i] = e[i]
        /\ \A i \in (M + 1)..(M + Len(c)) : (e \o c)[i] = c[i - M]
    <3>1. /\ e \o c \in Seq(Letter) /\ Len(e \o c) = M + Len(c)
          /\ \A i \in 1..(M + Len(c)) : (e \o c)[i] = IF i <= M THEN e[i] ELSE c[i - M]
      BY <2>1, ConcatProperties
    <3>2. DOMAIN (e \o c) = 1..(M + Len(c))
      BY <3>1
    <3>3. \A i \in 1..M : i \in 1..(M + Len(c)) /\ i <= M
      BY <1>2
    <3>4. \A i \in (M + 1)..(M + Len(c)) : i \in 1..(M + Len(c)) /\ ~ i <= M
      BY <1>2
    <3> QED
      BY <3>1, <3>2, <3>3, <3>4
  <2>3. \A i \in 1..Len(b) : (e \o c)[i] = b[i]
    BY <2>1, <2>2, <1>2
  <2> QED
    BY <2>2, <2>3 DEF e
<1>5. DOMAIN a = 1..Len(a) /\ DOMAIN b = 1..Len(b)
  OBVIOUS
<1> HIDE DEF x, y, M
<1> DEFINE g == [i \in DOMAIN x |-> IF i <= Len(a) THEN f[i] ELSE M + (i - Len(a))]
<1>6. ASSUME NEW i \in DOMAIN x
      PROVE  /\ g[i] \in DOMAIN y /\ x[i] = y[g[i]]
             /\ i <= Len(a) => i \in DOMAIN a /\ g[i] = f[i] /\ g[i] \in 1..Len(b)
             /\ ~ i <= Len(a) => g[i] = M + (i - Len(a)) /\ g[i] > M
  <2>1. CASE i <= Len(a)
    <3>1. i \in DOMAIN a /\ g[i] = f[i]
      BY <2>1, <1>2, <1>3, <1>5
    <3>2. f[i] \in 1..Len(b) /\ f[i] \in DOMAIN y
      BY <3>1, <1>1, <1>2, <1>4, <1>5
    <3>3. x[i] = a[i] /\ a[i] = b[f[i]] /\ y[f[i]] = b[f[i]]
      BY <3>1, <3>2, <1>1, <1>3, <1>4, <1>5
    <3> HIDE DEF g
    <3> QED
      BY <2>1, <3>1, <3>2, <3>3
  <2>2. CASE ~ i <= Len(a)
    <3>1. /\ i \in (Len(a) + 1)..(Len(a) + Len(c)) /\ g[i] = M + (i - Len(a))
          /\ i \in Nat
      BY <2>2, <1>2, <1>3
    <3>2. /\ M + (i - Len(a)) \in (M + 1)..(M + Len(c)) /\ M + (i - Len(a)) \in 1..(M + Len(c))
          /\ M + (i - Len(a)) - M = i - Len(a) /\ M + (i - Len(a)) > M
      BY <3>1, <1>2
    <3> DEFINE k == M + (i - Len(a))
    <3>3. x[i] = c[i - Len(a)]
      BY <3>1, <1>3
    <3>4. k \in (M + 1)..(M + Len(c)) /\ k - M = i - Len(a)
      BY <3>1, <3>2, <1>2
    <3> HIDE DEF k
    <3>5. y[k] = c[i - Len(a)]
      BY <3>4, <1>4
    <3>6. y[M + (i - Len(a))] = c[i - Len(a)]
      BY <3>5 DEF k
    <3> HIDE DEF g
    <3> QED
      BY <2>2, <3>1, <3>2, <3>3, <3>6, <1>4
  <2> QED
    BY <2>1, <2>2
<1>7. g \in [DOMAIN x -> DOMAIN y]
  BY <1>6
<1> HIDE DEF g
<1>8. ASSUME NEW i \in DOMAIN x, NEW j \in DOMAIN x, i < j PROVE g[i] < g[j]
  <2>1. i \in Nat /\ j \in Nat
    BY <1>3
  <2>2. CASE j <= Len(a)
    <3>1. i <= Len(a)
      BY <2>1, <2>2, <1>2, <1>8
    <3> QED
      BY <3>1, <2>2, <1>1, <1>6, <1>8
  <2>3. CASE ~ j <= Len(a) /\ i <= Len(a)
    <3>1. g[i] \in 1..Len(b) /\ g[j] = M + (j - Len(a)) /\ g[j] > M
      BY <2>3, <1>6
    <3> QED
      BY <3>1, <1>2, <2>1
  <2>4. CASE ~ j <= Len(a) /\ ~ i <= Len(a)
    <3>1. g[i] = M + (i - Len(a)) /\ g[j] = M + (j - Len(a))
      BY <2>4, <1>6
    <3> QED
      BY <3>1, <1>2, <2>1, <1>8
  <2> QED
    BY <2>2, <2>3, <2>4
<1>9. IsPartOf(x, y)
  BY <1>6, <1>7, <1>8 DEF IsPartOf
<1> QED
  BY <1>9 DEF x, y

LEMMA NothingIsPart == IsPartOf(<<>>, <<>>)
<1> DEFINE f == [i \in {} |-> i]
<1>1. DOMAIN <<>> = {}
  OBVIOUS
<1>2. f \in [DOMAIN <<>> -> DOMAIN <<>>]
  BY <1>1
<1> QED
  BY <1>1, <1>2 DEF IsPartOf

(* One more row, or none.                                                  *)
Spelled(list) == \A i \in DOMAIN list : list[i].words # <<>> => list[i].words = Normal(list[i].text)

Grown(list, more, old, heard, text) ==
  LET part == Increment(old, text)
  IN more = IF Normal(part) = <<>> THEN list
            ELSE Append(list, [text |-> part, words |-> WordsFor(heard, text, part)])
AllTold(list, more, before, o, heard, a) ==
  LET told == before \o SubSeq(heard, a + 1, Len(heard))
  IN /\ more \in Seq(TextRow) /\ Spelled(more) /\ told \in Seq(Letter) /\ IsPartOf(Shown(more), told)
     /\ Novel(o, heard, a) /\ Shown(list) = before => Shown(more) = told

LEMMA RowsGrow ==
  ASSUME NEW list \in Seq(TextRow), Spelled(list), NEW before \in Seq(Letter), IsPartOf(Shown(list), before),
         NEW old \in Seq(Char), NEW heard \in Seq(Letter), heard # <<>>,
         NEW a \in 0..Len(heard), EndsIn(Normal(old), heard, a), NEW text \in Texts(heard), NEW more,
         Grown(list, more, old, heard, text)
  PROVE  /\ AllTold(list, more, before, Normal(old), heard, a)
         /\ Normal(Increment(old, text)) = <<>> /\ Len(Normal(old)) <= Len(heard)
              => EndsIn(Normal(old), heard, Len(heard))
<1> DEFINE part == Increment(old, text)
           o == Normal(old)
           words == WordsFor(heard, text, part)
           row == [text |-> part, words |-> words]
           new == SubSeq(heard, a + 1, Len(heard))
           told == before \o new
<1>1. /\ part \in Seq(Char) /\ (part = text \/ Len(part) <= Len(text))
      /\ \E k \in a..Len(heard) : Follows(o, heard, a, part, k)
  BY IncrementFollows
<1>2. more = IF Normal(part) = <<>> THEN list ELSE Append(list, row)
  BY DEF Grown
<1> HIDE DEF part
<1>3. words \in Seq(Letter) /\ (words # <<>> => words = Normal(part))
  BY <1>1, WordsSpell
<1>4. PICK k \in a..Len(heard) : Follows(o, heard, a, part, k)
  BY <1>1
<1> HIDE DEF words, o
<1>5. row \in TextRow /\ row.text = part /\ row.words = words
  BY <1>1, <1>3 DEF TextRow
<1> HIDE DEF row
<1>6. Normal(part) \in Seq(Letter) /\ Shown(list) \in Seq(Letter)
  BY <1>1, NormalIsWords, ShownIsWords
<1>7. Shown(more) = Shown(list) \o Normal(part)
  <2>1. CASE Normal(part) = <<>>
    BY <2>1, <1>2, <1>6, ConcatEmptySeq
  <2>2. CASE Normal(part) # <<>>
    BY <2>2, <1>2, <1>5, ShownGrows
  <2> QED
    BY <2>1, <2>2
<1>8. more \in Seq(TextRow) /\ Spelled(more)
  <2>1. CASE Normal(part) = <<>>
    BY <2>1, <1>2
  <2>2. CASE Normal(part) # <<>>
    <3>1. /\ more \in Seq(TextRow) /\ Len(more) = Len(list) + 1 /\ Len(list) \in Nat
          /\ \A i \in 1..Len(list) : more[i] = list[i]
          /\ more[Len(list) + 1] = row
      BY <2>2, <1>2, <1>5, AppendProperties
    <3>2. ASSUME NEW i \in DOMAIN more, more[i].words # <<>> PROVE more[i].words = Normal(more[i].text)
      <4>1. i \in 1..Len(list) \/ i = Len(list) + 1
        BY <3>1
      <4>2. CASE i \in 1..Len(list)
        <5>1. more[i] = list[i] /\ i \in DOMAIN list
          BY <4>2, <3>1
        <5> QED
          BY <5>1, <3>2 DEF Spelled
      <4>3. CASE i = Len(list) + 1
        <5>1. more[i] = row
          BY <4>3, <3>1
        <5> QED
          BY <5>1, <3>2, <1>3, <1>5
      <4> QED
        BY <4>1, <4>2, <4>3
    <3> QED
      BY <3>1, <3>2 DEF Spelled
  <2> QED
    BY <2>1, <2>2
<1> DEFINE skipped == SubSeq(heard, a + 1, k)
           rest == SubSeq(heard, k + 1, Len(heard))
<1>9. a \in Nat /\ k \in Nat /\ Len(heard) \in Nat
  OBVIOUS
<1>10. skipped \in Seq(Letter) /\ rest \in Seq(Letter) /\ new = skipped \o rest
  <2>1. skipped \in Seq(Letter) /\ rest \in Seq(Letter)
    BY <1>9
  <2> DEFINE m == a + 1
  <2>2. m \in 1..(Len(heard) + 1) /\ k \in (m - 1)..Len(heard) /\ Len(heard) \in k..Len(heard)
    BY <1>9
  <2> HIDE DEF m
  <2>3. SubSeq(heard, m, k) \o SubSeq(heard, k + 1, Len(heard)) = SubSeq(heard, m, Len(heard))
    BY <2>2, ConcatAdjacentSubSeq
  <2> QED
    BY <2>1, <2>3 DEF m
<1>11. Normal(part) = rest
  BY <1>4 DEF Follows
<1> HIDE DEF new, rest, skipped
<1>12. told \in Seq(Letter) /\ told = (before \o skipped) \o rest
  <2>1. skipped \o rest \in Seq(Letter)
    BY <1>10, ConcatProperties
  <2>2. (before \o skipped) \o rest = before \o (skipped \o rest)
    <3>1. skipped \in Seq(Letter) /\ rest \in Seq(Letter) /\ before \in Seq(Letter)
      BY <1>10
    <3> QED
      BY ONLY <3>1, ConcatAssociative
  <2> QED
    BY <2>1, <2>2, <1>10, ConcatProperties
<1>13. IsPartOf(Shown(more), told)
  <2>1. IsPartOf(Shown(list) \o rest, (before \o skipped) \o rest)
    BY <1>6, <1>10, PartGrows
  <2> HIDE DEF told
  <2> QED
    BY <2>1, <1>7, <1>11, <1>12
<1>14. ASSUME Novel(o, heard, a), Shown(list) = before PROVE Shown(more) = told
  <2>1. k = a
    BY <1>4, <1>14 DEF Follows
  <2>2. rest = new
    BY <2>1 DEF rest, new
  <2> QED
    BY <2>2, <1>7, <1>11, <1>14
<1>15. ASSUME Normal(part) = <<>>, Len(o) <= Len(heard) PROVE EndsIn(o, heard, Len(heard))
  <2>1. k = Len(heard)
    <3>1. CASE k + 1 <= Len(heard)
      <4>1. Len(rest) = Len(heard) - k
        BY <3>1, <1>9 DEF rest
      <4>2. Len(rest) = 0
        BY <1>11, <1>15
      <4> QED
        BY <4>1, <4>2, <3>1, <1>9
    <3> QED
      BY <3>1, <1>9
  <2> QED
    BY <2>1, <1>4, <1>15 DEF Follows
<1> HIDE DEF told
<1>16. /\ more \in Seq(TextRow) /\ Spelled(more) /\ told \in Seq(Letter) /\ IsPartOf(Shown(more), told)
       /\ Novel(o, heard, a) /\ Shown(list) = before => Shown(more) = told
       /\ Normal(part) = <<>> /\ Len(o) <= Len(heard) => EndsIn(o, heard, Len(heard))
  BY <1>8, <1>12, <1>13, <1>14, <1>15
<1> QED
  BY <1>16 DEF told, new, part, o, AllTold

-----------------------------------------------------------------------------
(* The rows show, once, what left the buffer.                              *)
LiveTyped ==
  /\ spoken \in Seq(Letter) /\ buffer \in Seq(Letter) /\ full \in Seq(Char) /\ lines \in Seq(TextRow)
  /\ hearing \in BOOLEAN /\ pause \in 0..PauseLength /\ stretch \subseteq Letter /\ repeats \in BOOLEAN
  /\ again \in 0..Carried /\ again <= Len(buffer) /\ Len(buffer) < LongSegment
  /\ hearing <=> buffer # <<>>

\* What was in the buffer before ends the last text.
ContextKnown == Len(Normal(full)) <= LongSegment /\ EndsIn(Normal(full), buffer, again)

\* The rest of the buffer is all that is not written.
WrittenBefore(before) ==
  /\ spoken = before \o SubSeq(buffer, again + 1, Len(buffer))
  /\ IsPartOf(Shown(lines), before) /\ (~repeats => Shown(lines) = before)
AllWritten == \E before \in Seq(Letter) : WrittenBefore(before)

\* Where nothing is said twice, the rest of the buffer is not in the last text.
WordsAreNew ==
  ~repeats => /\ Range(buffer) \subseteq stretch /\ Range(Normal(full)) \subseteq stretch
              /\ Novel(Normal(full), buffer, again)

LiveInv == LiveTyped /\ Spelled(lines) /\ ContextKnown /\ AllWritten /\ WordsAreNew

LEMMA LiveStarts == LiveTextInit => LiveInv
<1> SUFFICES ASSUME LiveTextInit PROVE LiveInv
  OBVIOUS
<1> USE DEF LiveTextInit
<1>0. LongSegment \in Nat /\ Carried \in Nat \ {0} /\ Carried < LongSegment /\ PauseLength \in Nat \ {0}
  BY LiveTextAssumption
<1>1. LiveTyped
  <2>1. <<>> \in Seq(Letter) /\ <<>> \in Seq(Char) /\ <<>> \in Seq(TextRow) /\ Len(<<>>) = 0
    OBVIOUS
  <2>2. again \in 0..Carried /\ again <= Len(buffer) /\ Len(buffer) < LongSegment /\ pause \in 0..PauseLength
    BY <1>0, <2>1
  <2> QED
    BY <2>1, <2>2 DEF LiveTyped
<1>2. Normal(full) = <<>> /\ Shown(lines) = <<>>
  BY NothingIsNormal, NothingShown
<1>3. ContextKnown
  BY <1>0, <1>2 DEF ContextKnown, EndsIn
<1>4. AllWritten
  <2>1. SubSeq(buffer, again + 1, Len(buffer)) = <<>> /\ spoken = <<>>
    OBVIOUS
  <2>2. WrittenBefore(<<>>)
    BY <2>1, <1>2, NothingIsPart DEF WrittenBefore
  <2> QED
    <3>1. <<>> \in Seq(Letter)
      OBVIOUS
    <3> QED
      BY <2>2, <3>1 DEF AllWritten
<1>5. WordsAreNew
  BY <1>2 DEF WordsAreNew, Novel, Range
<1>6. Spelled(lines)
  BY DEF Spelled
<1> QED
  BY <1>1, <1>3, <1>4, <1>5, <1>6 DEF LiveInv

(* One word more.                                                          *)
LEMMA WordHeard ==
  ASSUME LiveInv, NEW before \in Seq(Letter), WrittenBefore(before), NEW w \in Letter
  PROVE  LET heard == Append(buffer, w)
         IN /\ heard \in Seq(Letter) /\ Len(heard) = Len(buffer) + 1 /\ heard # <<>>
            /\ again \in 0..Len(heard) /\ EndsIn(Normal(full), heard, again)
            /\ Append(spoken, w) = before \o SubSeq(heard, again + 1, Len(heard))
            /\ ~repeats /\ w \notin stretch =>
                 Range(heard) \subseteq stretch \cup {w} /\ Novel(Normal(full), heard, again)
<1> DEFINE heard == Append(buffer, w)
           N == Len(buffer)
           o == Normal(full)
<1>1. spoken \in Seq(Letter) /\ buffer \in Seq(Letter) /\ again \in Nat /\ again <= N /\ N \in Nat
  BY LiveTextAssumption DEF LiveInv, LiveTyped
<1>2. /\ heard \in Seq(Letter) /\ Len(heard) = N + 1 /\ heard # <<>>
      /\ \A i \in 1..N : heard[i] = buffer[i]
      /\ heard[N + 1] = w
  BY <1>1, AppendProperties
<1> HIDE DEF heard
<1>3. EndsIn(o, heard, again)
  <2>1. EndsIn(o, buffer, again)
    BY DEF LiveInv, ContextKnown
  <2>2. \A j \in 1..again : heard[j] = buffer[j]
    BY <1>1, <1>2
  <2> HIDE DEF o
  <2> QED
    BY <2>1, <2>2 DEF EndsIn
<1>4. Append(spoken, w) = before \o SubSeq(heard, again + 1, Len(heard))
  <2> DEFINE m == again + 1
             t == SubSeq(buffer, m, N)
  <2>1. m \in 1..Len(heard) /\ Len(heard) \in m..Len(heard) /\ Len(heard) - 1 = N /\ m \in Nat
    BY <1>1, <1>2
  <2>2. SubSeq(heard, m, Len(heard)) = SubSeq(heard, m, Len(heard) - 1) \o <<heard[Len(heard)]>>
    <3> HIDE DEF m
    <3>1. heard \in Seq(Letter)
      BY <1>2
    <3> QED
      BY ONLY <3>1, <2>1, SubSeqRecursiveSecond
  <2>3. SubSeq(heard, m, N) = t
    <3> HIDE DEF m
    <3>1. \A i \in m..N : heard[i] = buffer[i] /\ heard[i] \in Letter /\ buffer[i] \in Letter
      BY <1>1, <1>2, <2>1
    <3> DEFINE x == SubSeq(heard, m, N)
    <3>2. /\ x \in Seq(Letter) /\ Len(x) = (IF m <= N THEN N - m + 1 ELSE 0)
          /\ \A i \in 1..(N - m + 1) : x[i] = heard[m + i - 1]
      BY <3>1, <1>1, <2>1, SubSeqProperties
    <3>3. /\ t \in Seq(Letter) /\ Len(t) = (IF m <= N THEN N - m + 1 ELSE 0)
          /\ \A i \in 1..(N - m + 1) : t[i] = buffer[m + i - 1]
      BY <3>1, <1>1, <2>1, SubSeqProperties
    <3> HIDE DEF x, t
    <3>4. ASSUME NEW i \in 1..Len(x) PROVE x[i] = t[i]
      <4>1. i \in 1..(N - m + 1) /\ m + i - 1 \in m..N
        BY <3>2, <1>1, <2>1
      <4> QED
        BY <4>1, <3>1, <3>2, <3>3
    <3>5. x = t
      BY <3>2, <3>3, <3>4, SeqEqual
    <3> QED
      BY <3>5 DEF x
  <2>4. t \in Seq(Letter) /\ <<w>> \in Seq(Letter)
    BY <1>1
  <2>5. spoken = before \o t
    BY DEF WrittenBefore
  <2>6. heard[Len(heard)] = w
    BY <1>2
  <2>7. Append(spoken, w) = spoken \o <<w>>
    BY <1>1, AppendIsConcat
  <2> HIDE DEF t, m
  <2>8. (before \o t) \o <<w>> = before \o (t \o <<w>>)
    BY ONLY <2>4, before \in Seq(Letter), ConcatAssociative
  <2>9. SubSeq(heard, m, Len(heard)) = t \o <<w>>
    BY <2>1, <2>2, <2>3, <2>6
  <2> QED
    BY <2>5, <2>7, <2>8, <2>9 DEF m
<1>5. ASSUME ~repeats, w \notin stretch
      PROVE  Range(heard) \subseteq stretch \cup {w} /\ Novel(o, heard, again)
  <2>1. Range(buffer) \subseteq stretch /\ Range(o) \subseteq stretch /\ Novel(o, buffer, again)
    BY <1>5 DEF LiveInv, WordsAreNew
  <2> HIDE DEF o
  <2>2. ASSUME NEW i \in 1..Len(heard)
        PROVE  heard[i] \in stretch \cup {w} /\ (i > again => heard[i] \notin Range(o))
    <3>1. CASE i \in 1..N
      <4>1. heard[i] = buffer[i] /\ buffer[i] \in Range(buffer)
        BY <3>1, <1>1, <1>2 DEF Range
      <4>2. i > again => i \in (again + 1)..N
        BY <3>1, <1>1
      <4> QED
        BY <4>1, <4>2, <2>1 DEF Novel
    <3>2. CASE i = N + 1
      BY <3>2, <1>2, <1>5, <2>1
    <3> QED
      BY <3>1, <3>2, <1>1, <1>2
  <2>3. DOMAIN heard = 1..Len(heard)
    BY <1>2
  <2>4. \A i \in (again + 1)..Len(heard) : i \in 1..Len(heard) /\ i > again
    BY <1>1, <1>2
  <2> QED
    BY <2>2, <2>3, <2>4 DEF Range, Novel
<1>6. again \in 0..Len(heard)
  BY <1>1, <1>2
<1> HIDE DEF o
<1>7. /\ heard \in Seq(Letter) /\ Len(heard) = N + 1 /\ heard # <<>>
      /\ again \in 0..Len(heard) /\ EndsIn(o, heard, again)
      /\ Append(spoken, w) = before \o SubSeq(heard, again + 1, Len(heard))
      /\ ~repeats /\ w \notin stretch => Range(heard) \subseteq stretch \cup {w} /\ Novel(o, heard, again)
  BY <1>2, <1>3, <1>4, <1>5, <1>6
<1> QED
  BY <1>7 DEF heard, o

(* What is recognized.                                                     *)
Recognized(before, heard, a) == AllTold(lines, lines', before, Normal(full), heard, a)

LEMMA RecognizeTells ==
  ASSUME lines \in Seq(TextRow), Spelled(lines), full \in Seq(Char),
         NEW before \in Seq(Letter), IsPartOf(Shown(lines), before),
         NEW heard \in Seq(Letter), heard # <<>>, NEW a \in 0..Len(heard), EndsIn(Normal(full), heard, a)
  PROVE  /\ Recognize(heard) =>
              /\ Recognized(before, heard, a) /\ full' \in Seq(Char)
              /\ \/ Normal(full') = heard
                 \/ full' = full /\ (Len(Normal(full)) <= Len(heard) => EndsIn(Normal(full), heard, Len(heard)))
         /\ RecognizeLast(heard) => Recognized(before, heard, a) /\ full' = <<>>
<1>1. ASSUME Recognize(heard)
      PROVE  /\ Recognized(before, heard, a) /\ full' \in Seq(Char)
             /\ \/ Normal(full') = heard
                \/ full' = full /\ (Len(Normal(full)) <= Len(heard) => EndsIn(Normal(full), heard, Len(heard)))
  <2>1. PICK text \in Texts(heard) :
          LET part == Increment(full, text)
          IN IF Normal(part) = <<>> THEN UNCHANGED <<full, lines>>
             ELSE /\ full' = text
                  /\ lines' = Append(lines, [text |-> part, words |-> WordsFor(heard, text, part)])
    BY <1>1 DEF Recognize
  <2> DEFINE part == Increment(full, text)
  <2>2. Grown(lines, lines', full, heard, text)
    BY <2>1 DEF Grown
  <2>3. /\ Recognized(before, heard, a)
        /\ Normal(part) = <<>> /\ Len(Normal(full)) <= Len(heard) => EndsIn(Normal(full), heard, Len(heard))
    BY <2>2, RowsGrow DEF Recognized
  <2>4. text \in Seq(Char) /\ Normal(text) = heard
    BY TextIsHeard
  <2>5. IF Normal(part) = <<>> THEN full' = full ELSE full' = text
    BY <2>1
  <2> HIDE DEF part
  <2> QED
    BY <2>3, <2>4, <2>5
<1>2. ASSUME RecognizeLast(heard) PROVE Recognized(before, heard, a) /\ full' = <<>>
  <2>1. PICK text \in Texts(heard) :
          LET part == Increment(full, text)
          IN /\ full' = <<>>
             /\ lines' = IF Normal(part) = <<>> THEN lines
                         ELSE Append(lines, [text |-> part, words |-> WordsFor(heard, text, part)])
    BY <1>2 DEF RecognizeLast
  <2> DEFINE part == Increment(full, text)
  <2>2. Grown(lines, lines', full, heard, text)
    BY <2>1 DEF Grown
  <2>3. Recognized(before, heard, a)
    BY <2>2, RowsGrow DEF Recognized
  <2> QED
    BY <2>1, <2>3
<1> QED
  BY <1>1, <1>2

(* All that was heard is written: the buffer begins anew.                  *)
LEMMA BufferEmptied ==
  ASSUME LiveInv, buffer # <<>>, Recognize(buffer) \/ RecognizeLast(buffer),
         buffer' = <<>>, again' = 0, pause' = 0, hearing' = FALSE, spoken' = spoken, repeats' = repeats,
         stretch' = stretch \/ (full' = <<>> /\ stretch' = {})
  PROVE  LiveInv'
<1>0. LongSegment \in Nat /\ Carried \in Nat \ {0} /\ Carried < LongSegment /\ PauseLength \in Nat \ {0}
  BY LiveTextAssumption
<1>1. LiveTyped /\ Spelled(lines) /\ ContextKnown /\ WordsAreNew
  BY DEF LiveInv
<1>2. PICK before \in Seq(Letter) : WrittenBefore(before)
  BY DEF LiveInv, AllWritten
<1>3. /\ lines \in Seq(TextRow) /\ full \in Seq(Char) /\ buffer \in Seq(Letter)
      /\ again \in 0..Len(buffer) /\ IsPartOf(Shown(lines), before)
      /\ EndsIn(Normal(full), buffer, again) /\ Len(buffer) \in Nat /\ Len(buffer) < LongSegment
  BY <1>0, <1>1, <1>2 DEF LiveTyped, WrittenBefore, ContextKnown
<1>4. /\ Recognized(before, buffer, again)
      /\ \/ full' \in Seq(Char) /\ (Normal(full') = buffer \/ full' = full)
         \/ full' = <<>>
  BY <1>1, <1>3, RecognizeTells
<1> DEFINE told == before \o SubSeq(buffer, again + 1, Len(buffer))
<1>5. spoken = told /\ (~repeats => Shown(lines) = before)
  BY <1>2 DEF WrittenBefore
<1>6. /\ lines' \in Seq(TextRow) /\ Spelled(lines') /\ told \in Seq(Letter) /\ IsPartOf(Shown(lines'), told)
      /\ Novel(Normal(full), buffer, again) /\ Shown(lines) = before => Shown(lines') = told
  BY <1>4 DEF Recognized, AllTold
<1> HIDE DEF told
<1>7. full' \in Seq(Char) /\ Normal(full') \in Seq(Letter) /\ Len(Normal(full')) <= LongSegment
  <2>1. CASE full' = <<>>
    <3>1. Normal(full') = <<>> /\ Len(<<>>) = 0 /\ <<>> \in Seq(Char) /\ <<>> \in Seq(Letter)
      BY <2>1, NothingIsNormal
    <3>2. full' \in Seq(Char) /\ Normal(full') \in Seq(Letter)
      BY <2>1, <3>1
    <3>3. Len(Normal(full')) = 0
      BY <3>1
    <3> QED
      BY <3>2, <3>3, <1>0
  <2>2. CASE full' = full
    BY <2>2, <1>1, <1>3, NormalIsWords DEF ContextKnown
  <2>3. CASE full' \in Seq(Char) /\ Normal(full') = buffer
    BY <2>3, <1>0, <1>3
  <2> QED
    BY <2>1, <2>2, <2>3, <1>4
<1>8. LiveTyped'
  <2>1. spoken' \in Seq(Letter) /\ repeats' \in BOOLEAN /\ stretch' \subseteq Letter /\ hearing' \in BOOLEAN
    BY <1>1 DEF LiveTyped
  <2>2. /\ <<>> \in Seq(Letter) /\ Len(<<>>) = 0 /\ buffer' \in Seq(Letter)
        /\ again' \in 0..Carried /\ pause' \in 0..PauseLength
        /\ again' <= Len(buffer') /\ Len(buffer') < LongSegment
    BY <1>0
  <2> QED
    BY <2>1, <2>2, <1>6, <1>7 DEF LiveTyped
<1>9. ContextKnown'
  BY <1>7 DEF ContextKnown, EndsIn
<1>10. AllWritten'
  <2>1. PICK t \in Seq(Letter) : t = told
    BY <1>6
  <2>2. SubSeq(buffer', again' + 1, Len(buffer')) = <<>>
    OBVIOUS
  <2>3. t \o <<>> = t
    BY ConcatEmptySeq
  <2>4. ~repeats' => Shown(lines') = t
    BY <1>1, <1>5, <1>6, <2>1 DEF WordsAreNew
  <2>5. spoken' = t \o SubSeq(buffer', again' + 1, Len(buffer')) /\ IsPartOf(Shown(lines'), t)
    BY <2>1, <2>2, <2>3, <1>5, <1>6
  <2>6. WrittenBefore(t)'
    BY <2>4, <2>5 DEF WrittenBefore
  <2> QED
    BY <2>6 DEF AllWritten
<1>11. WordsAreNew'
  <2>1. ASSUME ~repeats PROVE Range(Normal(full')) \subseteq stretch'
    <3>1. Range(buffer) \subseteq stretch /\ Range(Normal(full)) \subseteq stretch
      BY <2>1, <1>1 DEF WordsAreNew
    <3>2. CASE full' = <<>>
      BY <3>2, NothingIsNormal DEF Range
    <3>3. CASE full' # <<>>
      BY <3>1, <3>3, <1>4
    <3> QED
      BY <3>2, <3>3
  <2>2. Range(buffer') = {} /\ \A s : Novel(s, buffer', 0)
    BY DEF Range, Novel
  <2> QED
    BY <2>1, <2>2 DEF WordsAreNew
<1> QED
  BY <1>6, <1>8, <1>9, <1>10, <1>11 DEF LiveInv

(* A word of speech stays in the buffer.                                   *)
LEMMA WordBuffered ==
  ASSUME LiveInv, NEW w \in Letter, Listen(w), Len(buffer) + 1 < LongSegment,
         buffer' = Append(buffer, w), hearing' = TRUE, again' = again, full' = full, lines' = lines
  PROVE  LiveInv'
<1>0. LongSegment \in Nat /\ Carried \in Nat \ {0} /\ Carried < LongSegment /\ PauseLength \in Nat \ {0}
  BY LiveTextAssumption
<1>1. LiveTyped /\ Spelled(lines) /\ ContextKnown
  BY DEF LiveInv
<1>2. PICK before \in Seq(Letter) : WrittenBefore(before)
  BY DEF LiveInv, AllWritten
<1> DEFINE heard == Append(buffer, w)
<1>3. /\ heard \in Seq(Letter) /\ Len(heard) = Len(buffer) + 1 /\ heard # <<>>
      /\ again \in 0..Len(heard) /\ EndsIn(Normal(full), heard, again)
      /\ Append(spoken, w) = before \o SubSeq(heard, again + 1, Len(heard))
      /\ ~repeats /\ w \notin stretch =>
           Range(heard) \subseteq stretch \cup {w} /\ Novel(Normal(full), heard, again)
  BY <1>2, WordHeard
<1>4. buffer' = heard
  OBVIOUS
<1> HIDE DEF heard
<1>5. /\ spoken' = Append(spoken, w) /\ pause' = 0 /\ stretch' = stretch \cup {w}
      /\ repeats' = (repeats \/ w \in stretch)
  BY DEF Listen
<1>6. spoken' \in Seq(Letter)
  BY <1>1, <1>5, AppendProperties DEF LiveTyped
<1>7. LiveTyped'
  <2>1. hearing' \in BOOLEAN /\ pause' \in 0..PauseLength /\ stretch' \subseteq Letter /\ repeats' \in BOOLEAN
    BY <1>0, <1>1, <1>5 DEF LiveTyped
  <2>2. full' \in Seq(Char) /\ lines' \in Seq(TextRow) /\ again' \in 0..Carried
    BY <1>1 DEF LiveTyped
  <2>3. buffer' \in Seq(Letter) /\ again' <= Len(buffer') /\ Len(buffer') < LongSegment /\ buffer' # <<>> /\ hearing'
    BY <1>0, <1>3, <1>4
  <2> QED
    BY <2>1, <2>2, <2>3, <1>6 DEF LiveTyped
<1>8. ContextKnown'
  BY <1>1, <1>3, <1>4 DEF ContextKnown
<1>9. AllWritten'
  <2>1. ~repeats' => Shown(lines') = before
    BY <1>2, <1>5 DEF WrittenBefore
  <2>2. spoken' = before \o SubSeq(buffer', again' + 1, Len(buffer')) /\ IsPartOf(Shown(lines'), before)
    BY <1>2, <1>3, <1>4, <1>5 DEF WrittenBefore
  <2>3. WrittenBefore(before)'
    BY <2>1, <2>2 DEF WrittenBefore
  <2> QED
    BY <2>3 DEF AllWritten
<1>10. WordsAreNew'
  <2>1. ASSUME ~repeats'
        PROVE  /\ Range(buffer') \subseteq stretch' /\ Range(Normal(full')) \subseteq stretch'
               /\ Novel(Normal(full'), buffer', again')
    <3>1. ~repeats /\ w \notin stretch
      BY <2>1, <1>1, <1>5 DEF LiveTyped
    <3>2. Range(Normal(full)) \subseteq stretch
      BY <3>1 DEF LiveInv, WordsAreNew
    <3> QED
      BY <3>1, <3>2, <1>3, <1>4, <1>5
  <2> QED
    BY <2>1 DEF WordsAreNew
<1> QED
  BY <1>1, <1>7, <1>8, <1>9, <1>10 DEF LiveInv

(* The buffer is full: what it held is written, and its end is known.       *)
LEMMA LimitReached ==
  ASSUME LiveInv, NEW w \in Letter, Listen(w), hearing, Len(buffer) + 1 >= LongSegment,
         Recognize(Append(buffer, w)), again' = Carried, hearing' = hearing,
         buffer' = SubSeq(Append(buffer, w), Len(Append(buffer, w)) - Carried + 1, Len(Append(buffer, w)))
  PROVE  LiveInv'
<1>0. LongSegment \in Nat /\ Carried \in Nat \ {0} /\ Carried < LongSegment /\ PauseLength \in Nat \ {0}
  BY LiveTextAssumption
<1>1. LiveTyped /\ Spelled(lines) /\ ContextKnown /\ Len(buffer) \in Nat
  BY DEF LiveInv, LiveTyped
<1>2. PICK before \in Seq(Letter) : WrittenBefore(before)
  BY DEF LiveInv, AllWritten
<1> DEFINE heard == Append(buffer, w)
           L == LongSegment
           told == before \o SubSeq(heard, again + 1, Len(heard))
<1>3. /\ heard \in Seq(Letter) /\ Len(heard) = Len(buffer) + 1 /\ heard # <<>>
      /\ again \in 0..Len(heard) /\ EndsIn(Normal(full), heard, again)
      /\ Append(spoken, w) = told
      /\ ~repeats /\ w \notin stretch =>
           Range(heard) \subseteq stretch \cup {w} /\ Novel(Normal(full), heard, again)
  BY <1>2, WordHeard
<1>4. Recognize(heard) /\ buffer' = SubSeq(heard, Len(heard) - Carried + 1, Len(heard))
  OBVIOUS
<1> HIDE DEF heard
<1>5. /\ spoken' = Append(spoken, w) /\ pause' = 0 /\ stretch' = stretch \cup {w}
      /\ repeats' = (repeats \/ w \in stretch)
  BY DEF Listen
<1>6. spoken' \in Seq(Letter)
  BY <1>1, <1>5, AppendProperties DEF LiveTyped
<1>7. Len(heard) = L
  <2>1. Len(buffer) < L
    BY <1>1 DEF LiveTyped
  <2>2. Len(buffer) + 1 >= L /\ L \in Nat /\ Len(buffer) \in Nat /\ Len(heard) = Len(buffer) + 1
    BY <1>0, <1>1, <1>3
  <2> HIDE DEF L
  <2> QED
    BY ONLY <2>1, <2>2
<1>8. /\ Recognized(before, heard, again) /\ full' \in Seq(Char)
      /\ \/ Normal(full') = heard
         \/ full' = full /\ (Len(Normal(full)) <= Len(heard) => EndsIn(Normal(full), heard, Len(heard)))
  <2>1. lines \in Seq(TextRow) /\ full \in Seq(Char) /\ IsPartOf(Shown(lines), before)
    BY <1>1, <1>2 DEF LiveTyped, WrittenBefore
  <2> QED
    BY <2>1, <1>1, <1>3, <1>4, RecognizeTells
<1>9. /\ lines' \in Seq(TextRow) /\ Spelled(lines') /\ told \in Seq(Letter) /\ IsPartOf(Shown(lines'), told)
      /\ Novel(Normal(full), heard, again) /\ Shown(lines) = before => Shown(lines') = told
  BY <1>8 DEF Recognized, AllTold
<1> HIDE DEF told
<1>10. Normal(full') \in Seq(Letter) /\ Len(Normal(full')) <= L /\ EndsIn(Normal(full'), heard, L)
  <2>1. Normal(full') \in Seq(Letter)
    BY <1>8, NormalIsWords
  <2>2. CASE Normal(full') = heard
    <3>1. EndsIn(heard, heard, L)
      BY <1>0, <1>7 DEF EndsIn
    <3> QED
      BY <2>1, <2>2, <3>1, <1>0, <1>7
  <2>3. CASE full' = full /\ (Len(Normal(full)) <= Len(heard) => EndsIn(Normal(full), heard, Len(heard)))
    <3>1. Len(Normal(full)) <= L
      BY <1>1 DEF ContextKnown
    <3> QED
      BY <2>1, <2>3, <3>1, <1>7
  <2> QED
    BY <2>2, <2>3, <1>8
<1>11. /\ buffer' \in Seq(Letter) /\ Len(buffer') = Carried /\ buffer' # <<>>
       /\ \A j \in 1..Carried : buffer'[j] = heard[L - Carried + j]
  <2> DEFINE m == L - Carried + 1
  <2>1. m \in Nat /\ m >= 1 /\ m <= L /\ L - m + 1 = Carried
    BY <1>0
  <2>2. \A i \in m..L : heard[i] \in Letter
    BY <1>0, <1>3, <1>7, <2>1
  <2>3. buffer' = SubSeq(heard, m, L)
    BY <1>4, <1>7
  <2> HIDE DEF m
  <2>4. /\ buffer' \in Seq(Letter) /\ Len(buffer') = L - m + 1
        /\ \A j \in 1..(L - m + 1) : buffer'[j] = heard[m + j - 1]
    <3> DEFINE x == SubSeq(heard, m, L)
    <3>1. m \in Int /\ L \in Int
      BY <1>0, <2>1
    <3> HIDE DEF L
    <3>2. /\ x \in Seq(Letter) /\ Len(x) = (IF m <= L THEN L - m + 1 ELSE 0)
          /\ \A j \in 1..(L - m + 1) : x[j] = heard[m + j - 1]
      BY ONLY <3>1, <2>2, SubSeqProperties
    <3>3. Len(x) = L - m + 1
      BY <3>2, <2>1
    <3> HIDE DEF x
    <3>4. buffer' = x
      BY <2>3 DEF x
    <3> QED
      BY <3>2, <3>3, <3>4
  <2>5. Len(buffer') = Carried /\ Carried # 0
    BY <1>0, <2>1, <2>4
  <2>6. ASSUME NEW j \in 1..Carried PROVE buffer'[j] = heard[L - Carried + j]
    <3>1. j \in 1..(L - m + 1) /\ m + j - 1 = L - Carried + j
      BY <1>0, <2>1 DEF m
    <3> QED
      BY <3>1, <2>4
  <2> QED
    BY <2>4, <2>5, <2>6
<1>12. LiveTyped'
  <2>1. hearing' \in BOOLEAN /\ pause' \in 0..PauseLength /\ stretch' \subseteq Letter /\ repeats' \in BOOLEAN
    BY <1>0, <1>1, <1>5 DEF LiveTyped
  <2>2. /\ buffer' \in Seq(Letter) /\ again' \in 0..Carried /\ again' <= Len(buffer')
        /\ Len(buffer') < LongSegment /\ buffer' # <<>> /\ hearing'
    <3>1. again' \in 0..Carried /\ again' <= Len(buffer') /\ Len(buffer') < LongSegment
      BY <1>0, <1>11
    <3>2. hearing'
      OBVIOUS
    <3> QED
      BY <3>1, <3>2, <1>11
  <2> QED
    BY <2>1, <2>2, <1>6, <1>8, <1>9 DEF LiveTyped
<1>13. ContextKnown'
  <2> DEFINE o == Normal(full')
  <2>1. o \in Seq(Letter) /\ Len(o) \in Nat /\ Len(o) <= L /\ L <= Len(o) /\ \A j \in 1..L : heard[j] = o[Len(o) - L + j]
    BY <1>10 DEF EndsIn
  <2> HIDE DEF o
  <2>2. ASSUME NEW j \in 1..Carried PROVE buffer'[j] = o[Len(o) - Carried + j]
    <3>1. L - Carried + j \in 1..L /\ Len(o) - L + (L - Carried + j) = Len(o) - Carried + j
      BY <1>0, <2>1
    <3>2. heard[L - Carried + j] = o[Len(o) - L + (L - Carried + j)]
      BY <3>1, <2>1
    <3> QED
      BY <3>1, <3>2, <1>11
  <2>3. Carried <= Len(o)
    BY <1>0, <2>1
  <2>4. Len(o) <= LongSegment /\ EndsIn(o, buffer', Carried)
    BY <2>1, <2>2, <2>3 DEF EndsIn
  <2> QED
    BY <2>4 DEF ContextKnown, o
<1>14. AllWritten'
  <2>1. PICK t \in Seq(Letter) : t = told
    BY <1>9
  <2>2. SubSeq(buffer', again' + 1, Len(buffer')) = <<>>
    BY <1>0, <1>11, SubSeqEmpty
  <2>3. t \o <<>> = t
    BY ConcatEmptySeq
  <2>4. ASSUME ~repeats' PROVE Shown(lines') = t
    <3>1. ~repeats /\ w \notin stretch
      BY <2>4, <1>1, <1>5 DEF LiveTyped
    <3>2. Shown(lines) = before
      BY <3>1, <1>2 DEF WrittenBefore
    <3> QED
      BY <3>1, <3>2, <2>1, <1>3, <1>9
  <2>5. spoken' = t \o SubSeq(buffer', again' + 1, Len(buffer')) /\ IsPartOf(Shown(lines'), t)
    BY <2>1, <2>2, <2>3, <1>3, <1>5, <1>9
  <2>6. WrittenBefore(t)'
    BY <2>4, <2>5 DEF WrittenBefore
  <2> QED
    BY <2>6 DEF AllWritten
<1>15. WordsAreNew'
  <2>1. ASSUME ~repeats'
        PROVE  /\ Range(buffer') \subseteq stretch' /\ Range(Normal(full')) \subseteq stretch'
               /\ Novel(Normal(full'), buffer', again')
    <3>1. ~repeats /\ w \notin stretch
      BY <2>1, <1>1, <1>5 DEF LiveTyped
    <3>2. Range(Normal(full)) \subseteq stretch
      BY <3>1 DEF LiveInv, WordsAreNew
    <3>3. Range(heard) \subseteq stretch'
      BY <3>1, <1>3, <1>5
    <3>4. Range(Normal(full')) \subseteq stretch'
      BY <3>2, <3>3, <1>5, <1>8
    <3>5. Range(buffer') \subseteq Range(heard)
      <4>1. DOMAIN buffer' = 1..Carried /\ DOMAIN heard = 1..L
        BY <1>3, <1>7, <1>11
      <4>2. \A j \in 1..Carried : L - Carried + j \in 1..L
        BY <1>0
      <4> QED
        BY <4>1, <4>2, <1>11 DEF Range
    <3>6. Novel(Normal(full'), buffer', again')
      <4>1. (again' + 1)..Len(buffer') = {}
        BY <1>0, <1>11
      <4> QED
        BY <4>1 DEF Novel
    <3> QED
      BY <3>3, <3>4, <3>5, <3>6
  <2> QED
    BY <2>1 DEF WordsAreNew
<1> QED
  BY <1>9, <1>12, <1>13, <1>14, <1>15 DEF LiveInv

LEMMA LiveSteps == LiveInv /\ [LiveTextNext]_liveTextVars => LiveInv'
<1> SUFFICES ASSUME LiveInv, [LiveTextNext]_liveTextVars PROVE LiveInv'
  OBVIOUS
<1>0. LongSegment \in Nat /\ Carried \in Nat \ {0} /\ Carried < LongSegment /\ PauseLength \in Nat \ {0}
  BY LiveTextAssumption
<1>1. LiveTyped
  BY DEF LiveInv
<1>2. Len(buffer) \in Nat /\ (hearing <=> buffer # <<>>)
  BY <1>1 DEF LiveTyped
<1>3. CASE StartsSpeaking
  <2>1. PICK w \in Letter : Listen(w) /\ buffer' = <<w>>
    BY <1>3 DEF StartsSpeaking
  <2>2. /\ buffer = <<>> /\ Len(buffer) = 0 /\ hearing' = TRUE /\ again' = 0 /\ full' = full /\ lines' = lines
    BY <1>2, <1>3 DEF StartsSpeaking
  <2>3. again = 0
    BY <2>2, <1>1, <1>0 DEF LiveTyped
  <2>4. Append(buffer, w) = <<w>> /\ Len(buffer) + 1 < LongSegment
    BY <2>2, <1>0
  <2> QED
    BY <2>1, <2>2, <2>3, <2>4, WordBuffered
<1>4. CASE GoesOn
  <2>1. PICK w \in Letter : Listen(w) /\ buffer' = Append(buffer, w)
    BY <1>4 DEF GoesOn
  <2>2. hearing' = TRUE /\ again' = again /\ full' = full /\ lines' = lines /\ Len(buffer) + 1 < LongSegment
    BY <1>1, <1>4 DEF GoesOn, LiveTyped
  <2> QED
    BY <2>1, <2>2, WordBuffered
<1>5. CASE ReachesLimit
  <2>1. PICK w \in Letter :
          /\ Listen(w) /\ Recognize(Append(buffer, w))
          /\ buffer' = LET b == Append(buffer, w) IN SubSeq(b, Len(b) - Carried + 1, Len(b))
    BY <1>5 DEF ReachesLimit
  <2>2. hearing /\ hearing' = hearing /\ again' = Carried /\ Len(buffer) + 1 >= LongSegment
    BY <1>5 DEF ReachesLimit
  <2> QED
    BY <2>1, <2>2, LimitReached
<1>6. ASSUME UNCHANGED <<spoken, hearing, buffer, again, full, lines, stretch, repeats>>, pause' \in 0..PauseLength
      PROVE  LiveInv'
  <2>1. LiveTyped' /\ Spelled(lines)' /\ ContextKnown' /\ WordsAreNew'
    BY <1>6 DEF LiveInv, LiveTyped, ContextKnown, WordsAreNew
  <2>2. AllWritten'
    BY <1>6 DEF LiveInv, AllWritten, WrittenBefore
  <2> QED
    BY <2>1, <2>2 DEF LiveInv
<1>7. CASE ShortPause
  <2>1. pause' \in 0..PauseLength
    BY <1>0, <1>1, <1>7 DEF ShortPause, LiveTyped
  <2> QED
    BY <2>1, <1>6, <1>7 DEF ShortPause
<1>8. CASE LongPause
  <2>1. /\ buffer # <<>> /\ RecognizeLast(buffer) /\ full' = <<>> /\ stretch' = {}
        /\ buffer' = <<>> /\ again' = 0 /\ pause' = 0 /\ hearing' = FALSE /\ spoken' = spoken /\ repeats' = repeats
    BY <1>2, <1>8 DEF LongPause, RecognizeLast
  <2> QED
    BY <2>1, BufferEmptied
<1>9. CASE Gap
  <2>1. /\ stretch' = {} /\ buffer' = <<>> /\ again' = 0 /\ pause' = 0 /\ hearing' = FALSE
        /\ spoken' = spoken /\ repeats' = repeats
    BY <1>9 DEF Gap
  <2>2. CASE hearing
    <3>1. buffer # <<>> /\ RecognizeLast(buffer) /\ full' = <<>>
      BY <1>2, <1>9, <2>2 DEF Gap, RecognizeLast
    <3> QED
      BY <2>1, <3>1, BufferEmptied
  <2>3. CASE ~hearing
    <3>1. full' = <<>> /\ lines' = lines /\ buffer = <<>> /\ buffer' = buffer
      BY <1>2, <1>9, <2>1, <2>3 DEF Gap
    <3>2. Normal(full') = <<>> /\ Len(<<>>) = 0 /\ Range(<<>>) = {} /\ <<>> \in Seq(Char) /\ again = 0
      BY <3>1, <1>0, <1>1, NothingIsNormal DEF Range, LiveTyped
    <3>3. LiveTyped'
      <4>1. hearing' \in BOOLEAN /\ pause' \in 0..PauseLength /\ stretch' \subseteq Letter /\ repeats' \in BOOLEAN
        <5>1. pause' \in 0..PauseLength
          BY <1>0, <2>1
        <5>2. repeats' \in BOOLEAN
          BY <1>1, <2>1 DEF LiveTyped
        <5> QED
          BY <2>1, <5>1, <5>2
      <4>2. spoken' \in Seq(Letter) /\ lines' \in Seq(TextRow) /\ full' \in Seq(Char) /\ buffer' \in Seq(Letter)
        BY <1>1, <2>1, <3>1, <3>2 DEF LiveTyped
      <4>3. again' \in 0..Carried /\ again' <= Len(buffer') /\ Len(buffer') < LongSegment
        BY <1>0, <2>1, <3>2
      <4>4. hearing' <=> buffer' # <<>>
        BY <2>1
      <4> QED
        BY <4>1, <4>2, <4>3, <4>4 DEF LiveTyped
    <3>4. ContextKnown'
      BY <1>0, <2>1, <3>1, <3>2 DEF ContextKnown, EndsIn
    <3>5. AllWritten'
      BY <2>1, <3>1, <3>2 DEF LiveInv, AllWritten, WrittenBefore
    <3>6. WordsAreNew'
      BY <2>1, <3>1, <3>2 DEF WordsAreNew, Novel
    <3>7. Spelled(lines)'
      BY <3>1 DEF LiveInv
    <3> QED
      BY <3>3, <3>4, <3>5, <3>6, <3>7 DEF LiveInv
  <2> QED
    BY <2>2, <2>3
<1>10. CASE QueueTimeout
  <2>1. /\ buffer # <<>> /\ Recognize(buffer) /\ stretch' = stretch
        /\ buffer' = <<>> /\ again' = 0 /\ pause' = 0 /\ hearing' = FALSE /\ spoken' = spoken /\ repeats' = repeats
    BY <1>10 DEF QueueTimeout
  <2> QED
    BY <2>1, BufferEmptied
<1>11. CASE UNCHANGED liveTextVars
  <2>1. pause' \in 0..PauseLength
    BY <1>1, <1>11 DEF LiveTyped, liveTextVars
  <2> QED
    BY <2>1, <1>6, <1>11 DEF liveTextVars
<1> QED
  BY <1>3, <1>4, <1>5, <1>7, <1>8, <1>9, <1>10, <1>11 DEF LiveTextNext

LEMMA LiveInvShown == LiveInv => ShownOnce
<1> SUFFICES ASSUME LiveInv PROVE ShownOnce
  OBVIOUS
<1>1. LiveTyped /\ Spelled(lines)
  BY DEF LiveInv
<1>2. PICK before \in Seq(Letter) : WrittenBefore(before)
  BY DEF LiveInv, AllWritten
<1> DEFINE rest == SubSeq(buffer, again + 1, Len(buffer))
<1>3. /\ spoken = before \o rest /\ IsPartOf(Shown(lines), before) /\ (~repeats => Shown(lines) = before)
      /\ rest \in Seq(Letter) /\ Shown(lines) \in Seq(Letter)
  <2>1. rest \in Seq(Letter)
    BY <1>1, LiveTextAssumption DEF LiveTyped
  <2>2. Shown(lines) \in Seq(Letter)
    BY <1>1, ShownIsWords DEF LiveTyped
  <2> QED
    BY <2>1, <2>2, <1>2 DEF WrittenBefore
<1>4. LiveTextTypes
  <2>1. Range(spoken) \subseteq Letter
    BY <1>1 DEF LiveTyped, Range
  <2>2. Len(buffer) <= LongSegment
    BY <1>1, LiveTextAssumption DEF LiveTyped
  <2> QED
    BY <1>1, <2>1, <2>2 DEF LiveTyped, LiveTextTypes
<1>5. NothingMissed
  BY <1>3 DEF NothingMissed
<1> HIDE DEF rest
<1>6. IsPartOf(Shown(lines), spoken)
  <2>1. <<>> \in Seq(Letter)
    OBVIOUS
  <2>2. IsPartOf(Shown(lines) \o <<>>, (before \o rest) \o <<>>)
    BY <1>3, <2>1, PartGrows
  <2>3. Shown(lines) \o <<>> = Shown(lines)
    BY <1>3, ConcatEmptySeq
  <2>4. (before \o rest) \o <<>> = before \o rest
    <3>1. before \o rest \in Seq(Letter)
      BY <1>3, ConcatProperties
    <3> QED
      BY <3>1, ConcatEmptySeq
  <2> QED
    BY <2>2, <2>3, <2>4, <1>3
<1>7. NothingDoubled
  BY <1>1, <1>6 DEF NothingDoubled, Spelled
<1> QED
  BY <1>4, <1>5, <1>7 DEF ShownOnce

(* A live session shows nothing twice that was said once and, where nothing  *)
(* is said twice between two pauses, all that left the buffer, for any words, *)
(* buffer, context and marks of the engine.                                  *)
THEOREM LiveTextIsShownOnce == LiveTextSpec => []ShownOnce
<1>1. LiveTextSpec => []LiveInv
  BY LiveStarts, LiveSteps, PTL DEF LiveTextSpec
<1> QED
  BY <1>1, LiveInvShown, PTL

-----------------------------------------------------------------------------
(* The text made of chunks.  Loops over lists, once more.                   *)
Steps(N, V, base, step) == N \in Nat /\ base \in V /\ step \in [V \X (1..N) -> V]
Takes(m, N, V, base, step) ==
  /\ m[0] = base /\ \A n \in 1..N : m[n] = step[<<m[n - 1], n>>]
  /\ \A n \in 0..N : m[n] \in V

LEMMA LoopOf ==
  ASSUME NEW N, NEW V, NEW base, NEW step, Steps(N, V, base, step)
  PROVE  \E m : Takes(m, N, V, base, step)
<1> DEFINE T == [n \in 0..N |-> V]
<1>1. ASSUME NEW n \in 1..N, NEW x \in T[n - 1] PROVE step[<<x, n>>] \in T[n]
  <2>1. n - 1 \in 0..N /\ n \in 0..N
    BY DEF Steps
  <2> QED
    BY <2>1 DEF Steps
<1>2. base \in T[0] /\ N \in Nat
  BY DEF Steps
<1> HIDE DEF T
<1>3. Rounds(N, T, base, step)
  BY <1>1, <1>2 DEF Rounds
<1>4. PICK m : Runs(m, N, T, base, step)
  BY <1>3, LoopRuns
<1>5. \A n \in 0..N : m[n] \in V
  BY <1>4 DEF Runs, T
<1>6. m[0] = base
  BY <1>2, <1>4 DEF Runs
<1>7. ASSUME NEW n \in 1..N PROVE m[n] = step[<<m[n - 1], n>>]
  <2>1. n \in 0..N /\ n # 0
    BY <1>2
  <2> QED
    BY <2>1, <1>4 DEF Runs
<1>8. Takes(m, N, V, base, step)
  BY <1>5, <1>6, <1>7 DEF Takes
<1> QED
  BY <1>8

(* FlattenSeq adds one element after the other.                             *)
Flattens(f, S, q) ==
  /\ f[0] = <<>> /\ \A n \in 1..Len(q) : f[n] = f[n - 1] \o q[n]
  /\ \A n \in 0..Len(q) : f[n] \in Seq(S)
  /\ FlattenSeq(q) = f[Len(q)]

LEMMA FlattenRuns ==
  ASSUME NEW S, NEW q \in Seq(Seq(S))
  PROVE  \E f : Flattens(f, S, q)
<1> DEFINE N == Len(q)
           V == Seq(S)
           step == [p \in V \X (1..N) |-> p[1] \o q[p[2]]]
           flatten[i \in 1..N] == IF i = 1 THEN q[i] ELSE flatten[i - 1] \o q[i]
           Rec(g) == g = [i \in 1..N |-> IF i = 1 THEN q[i] ELSE g[i - 1] \o q[i]]
<1>1. N \in Nat /\ <<>> \in V /\ \A n \in 1..N : q[n] \in V
  OBVIOUS
<1>2. ASSUME NEW n \in 1..N, NEW x \in V PROVE step[<<x, n>>] = x \o q[n] /\ x \o q[n] \in V
  <2>1. step[<<x, n>>] = x \o q[n]
    OBVIOUS
  <2> QED
    BY <2>1, <1>1, ConcatProperties
<1>3. step \in [V \X (1..N) -> V]
  <2>1. ASSUME NEW p \in V \X (1..N) PROVE p[1] \o q[p[2]] \in V
    <3>1. p[1] \in V /\ p[2] \in 1..N
      OBVIOUS
    <3> QED
      BY <3>1, <1>1, ConcatProperties
  <2> QED
    BY <2>1
<1> HIDE DEF step, N, V
<1>4. PICK m : Takes(m, N, V, <<>>, step)
  <2>1. Steps(N, V, <<>>, step)
    BY <1>1, <1>3 DEF Steps
  <2> QED
    BY <2>1, LoopOf
<1>5. /\ m[0] = <<>> /\ \A n \in 0..N : m[n] \in V
      /\ \A n \in 1..N : m[n] = m[n - 1] \o q[n] /\ m[n - 1] \in V
  <2>1. m[0] = <<>> /\ \A n \in 0..N : m[n] \in V
    BY <1>1, <1>4 DEF Takes
  <2>2. ASSUME NEW n \in 1..N PROVE m[n] = m[n - 1] \o q[n] /\ m[n - 1] \in V
    <3>1. n - 1 \in 0..N
      BY <1>1
    <3>2. m[n] = step[<<m[n - 1], n>>] /\ m[n - 1] \in V
      BY <3>1, <1>4 DEF Takes
    <3> QED
      BY <3>2, <1>2
  <2> QED
    BY <2>1, <2>2
<1>6. Rec([i \in 1..N |-> m[i]])
  <2> DEFINE g == [i \in 1..N |-> m[i]]
  <2>1. ASSUME NEW i \in 1..N PROVE g[i] = IF i = 1 THEN q[i] ELSE g[i - 1] \o q[i]
    <3>1. CASE i = 1
      <4>1. i - 1 = 0 /\ q[i] \in V
        BY <3>1, <1>1
      <4>3. m[i] = m[i - 1] \o q[i]
        BY <1>5
      <4>2. <<>> \o q[i] = q[i]
        BY <4>1, ConcatEmptySeq DEF V
      <4> QED
        BY <4>1, <4>2, <4>3, <3>1, <1>5
    <3>2. CASE i # 1
      <4>1. i - 1 \in 1..N
        BY <3>2, <1>1
      <4>2. g[i] = m[i] /\ g[i - 1] = m[i - 1]
        BY <4>1
      <4>3. m[i] = m[i - 1] \o q[i]
        BY <1>5
      <4> QED
        BY <4>2, <4>3, <3>2
    <3> QED
      BY <3>1, <3>2
  <2> QED
    BY <2>1
<1>7. Rec(flatten)
  <2>1. Rec(CHOOSE g : Rec(g))
    BY <1>6
  <2> QED
    BY <2>1
<1>8. FlattenSeq(q) = IF N = 0 THEN q ELSE flatten[N]
  BY DEF FlattenSeq, N
<1> HIDE DEF flatten
<1> DEFINE f == [n \in 0..N |-> IF n = 0 THEN <<>> ELSE flatten[n]]
           P == {n \in 0..N : f[n] = m[n]}
<1>9. 0 \in P
  BY <1>1, <1>5
<1>10. ASSUME NEW n \in 1..N, n - 1 \in P PROVE n \in P
  <2>1. f[n] = flatten[n] /\ n \in 0..N /\ n - 1 \in 0..N
    BY <1>1
  <2>2. f[n - 1] = m[n - 1] /\ m[n] = m[n - 1] \o q[n]
    BY <1>10, <1>5
  <2>3. CASE n = 1
    <3>1. n - 1 = 0 /\ flatten[n] = q[n] /\ q[n] \in V
      BY <2>3, <1>1, <1>7
    <3>2. <<>> \o q[n] = q[n]
      BY <3>1, ConcatEmptySeq DEF V
    <3> QED
      BY <3>1, <3>2, <2>1, <2>2, <1>5
  <2>4. CASE n # 1
    <3>1. n - 1 \in 1..N /\ n - 1 # 0
      BY <2>4, <1>1
    <3>2. flatten[n] = flatten[n - 1] \o q[n] /\ f[n - 1] = flatten[n - 1]
      BY <3>1, <2>1, <2>4, <1>7
    <3> QED
      BY <3>2, <2>1, <2>2
  <2> QED
    BY <2>3, <2>4
<1> HIDE DEF P
<1>11. \A n \in 0..N : n \in P
  BY <1>1, <1>9, <1>10, CountingUp
<1>12. FlattenSeq(q) = m[N]
  <2>1. CASE N = 0
    <3>1. q = <<>> /\ m[N] = <<>>
      BY <2>1, <1>5 DEF N
    <3> QED
      BY <3>1, <2>1, <1>8
  <2>2. CASE N # 0
    <3>1. N \in 0..N
      BY <1>1
    <3>2. f[N] = m[N] /\ f[N] = flatten[N]
      BY <3>1, <1>11, <2>2 DEF P
    <3> QED
      BY <3>2, <2>2, <1>8
  <2> QED
    BY <2>1, <2>2
<1>13. Flattens(m, S, q)
  BY <1>4, <1>5, <1>12 DEF Flattens, N, V
<1> QED
  BY <1>13

LEMMA FlattenIsSeq ==
  ASSUME NEW S, NEW q \in Seq(Seq(S))
  PROVE  FlattenSeq(q) \in Seq(S)
<1>1. PICK f : Flattens(f, S, q)
  BY FlattenRuns
<1>2. Len(q) \in 0..Len(q)
  OBVIOUS
<1> QED
  BY <1>1, <1>2 DEF Flattens

LEMMA NothingFlat == FlattenSeq(<<>>) = <<>>
<1>1. Len(<<>>) = 0
  OBVIOUS
<1> QED
  BY <1>1 DEF FlattenSeq

LEMMA FlattenGrows ==
  ASSUME NEW S, NEW q \in Seq(Seq(S)), NEW x \in Seq(S)
  PROVE  FlattenSeq(Append(q, x)) = FlattenSeq(q) \o x
<1> DEFINE N == Len(q)
           longer == Append(q, x)
<1>1. /\ longer \in Seq(Seq(S)) /\ Len(longer) = N + 1 /\ N \in Nat
      /\ longer[N + 1] = x /\ \A n \in 1..N : longer[n] = q[n]
  BY AppendProperties
<1> HIDE DEF longer
<1>2. PICK f : Flattens(f, S, q)
  BY FlattenRuns
<1>3. PICK g : Flattens(g, S, longer)
  BY <1>1, FlattenRuns
<1> HIDE DEF N
<1>4. f[0] = <<>> /\ \A n \in 1..N : f[n] = f[n - 1] \o q[n]
  BY <1>2 DEF Flattens, N
<1>5. g[0] = <<>> /\ \A n \in 1..(N + 1) : g[n] = g[n - 1] \o longer[n]
  BY <1>3, <1>1 DEF Flattens
<1> DEFINE P == {n \in 0..N : g[n] = f[n]}
<1>6. 0 \in P
  BY <1>4, <1>5, <1>1
<1>7. ASSUME NEW n \in 1..N, n - 1 \in P PROVE n \in P
  <2>1. n \in 0..N /\ n \in 1..(N + 1) /\ longer[n] = q[n] /\ g[n - 1] = f[n - 1]
    BY <1>1, <1>7
  <2>2. g[n] = f[n]
    BY <2>1, <1>4, <1>5
  <2> QED
    BY <2>1, <2>2
<1> HIDE DEF P
<1>8. \A n \in 0..N : n \in P
  BY <1>1, <1>6, <1>7, CountingUp
<1>9. g[N] = f[N] /\ N + 1 \in 1..(N + 1) /\ N + 1 - 1 = N
  BY <1>8, <1>1 DEF P
<1>10. g[N + 1] = g[N] \o x
  <2> DEFINE M == N + 1
  <2>1. \A n \in 1..M : g[n] = g[n - 1] \o longer[n]
    BY <1>5
  <2>2. M \in 1..M /\ M - 1 = N /\ longer[M] = x
    BY <1>1
  <2> HIDE DEF M
  <2>3. g[M] = g[M - 1] \o longer[M]
    BY <2>1, <2>2
  <2> QED
    BY <2>2, <2>3 DEF M
<1> QED
  BY <1>9, <1>10, <1>1, <1>2, <1>3 DEF Flattens, N, longer

LEMMA FlattenOfJoined ==
  ASSUME NEW S, NEW q \in Seq(Seq(S)), NEW r \in Seq(Seq(S))
  PROVE  FlattenSeq(q \o r) = FlattenSeq(q) \o FlattenSeq(r)
<1> DEFINE N == Len(r)
           Upto(n) == SubSeq(r, 1, n)
           P == {n \in 0..N : FlattenSeq(q \o Upto(n)) = FlattenSeq(q) \o FlattenSeq(Upto(n))}
<1>1. N \in Nat /\ Upto(N) = r /\ Upto(0) = <<>> /\ q \o <<>> = q
  BY SubSeqFull, SubSeqEmpty, ConcatEmptySeq
<1>2. FlattenSeq(q) \in Seq(S) /\ FlattenSeq(q) \o <<>> = FlattenSeq(q)
  BY FlattenIsSeq, ConcatEmptySeq
<1>3. 0 \in P
  <2>1. FlattenSeq(q \o Upto(0)) = FlattenSeq(q) \o FlattenSeq(Upto(0)) /\ 0 \in 0..N
    <3> HIDE DEF Upto, N
    <3>1. 0 \in 0..N
      BY <1>1
    <3>2. FlattenSeq(Upto(0)) = <<>> /\ FlattenSeq(q \o Upto(0)) = FlattenSeq(q)
      BY <1>1, NothingFlat
    <3> QED
      BY <3>1, <3>2, <1>2
  <2> HIDE DEF Upto, N
  <2> QED
    BY <2>1
<1>4. ASSUME NEW n \in 1..N, n - 1 \in P PROVE n \in P
  <2> DEFINE u == Upto(n - 1)
             c == r[n]
  <2>1. Upto(n) = Append(u, c) /\ u \in Seq(Seq(S)) /\ c \in Seq(S)
    BY PrefixGrows
  <2>2. FlattenSeq(q \o u) = FlattenSeq(q) \o FlattenSeq(u)
    BY <1>4
  <2>3. n \in 0..N
    BY <1>1
  <2> HIDE DEF u, c, Upto, N
  <2>4. FlattenSeq(u) \in Seq(S) /\ q \o u \in Seq(Seq(S))
    BY <2>1, FlattenIsSeq, ConcatProperties
  <2>5. q \o Append(u, c) = Append(q \o u, c)
    <3>1. <<c>> \in Seq(Seq(S)) /\ Append(u, c) = u \o <<c>> /\ Append(q \o u, c) = (q \o u) \o <<c>>
      BY <2>1, <2>4, AppendIsConcat
    <3>2. (q \o u) \o <<c>> = q \o (u \o <<c>>)
      <4> DEFINE V == Seq(S)
                 d == <<c>>
      <4>1. q \in Seq(V) /\ u \in Seq(V) /\ d \in Seq(V)
        BY <3>1, <2>1
      <4> HIDE DEF V, d
      <4>2. (q \o u) \o d = q \o (u \o d)
        BY <4>1, ConcatAssociative
      <4> QED
        BY <4>2 DEF d
    <3> QED
      BY <3>1, <3>2
  <2>6. FlattenSeq(Append(q \o u, c)) = FlattenSeq(q \o u) \o c /\ FlattenSeq(Append(u, c)) = FlattenSeq(u) \o c
    BY <2>1, <2>4, FlattenGrows
  <2>7. (FlattenSeq(q) \o FlattenSeq(u)) \o c = FlattenSeq(q) \o (FlattenSeq(u) \o c)
    <3> DEFINE v == FlattenSeq(q)
               z == FlattenSeq(u)
    <3>1. v \in Seq(S) /\ z \in Seq(S) /\ c \in Seq(S)
      BY <1>2, <2>1, <2>4
    <3> HIDE DEF v, z
    <3>2. (v \o z) \o c = v \o (z \o c)
      BY <3>1, ConcatAssociative
    <3> QED
      BY <3>2 DEF v, z
  <2>8. FlattenSeq(q \o Upto(n)) = FlattenSeq(q) \o FlattenSeq(Upto(n))
    BY <2>1, <2>2, <2>5, <2>6, <2>7
  <2> QED
    BY <2>3, <2>8
<1> HIDE DEF P, Upto
<1>5. \A n \in 0..N : n \in P
  BY <1>1, <1>3, <1>4, CountingUp
<1>6. N \in 0..N
  BY <1>1
<1> HIDE DEF N
<1>7. FlattenSeq(q \o Upto(N)) = FlattenSeq(q) \o FlattenSeq(Upto(N))
  BY <1>6, <1>5 DEF P
<1> QED
  BY <1>7, <1>1

(* What is kept of a list.                                                  *)
Keeps(f, S, q, good) ==
  /\ f[0] = <<>>
  /\ \A n \in 1..Len(q) : f[n] = IF n \in good THEN Append(f[n - 1], q[n]) ELSE f[n - 1]
  /\ \A n \in 0..Len(q) : f[n] \in Seq(S)
  /\ Kept(q, good) = f[Len(q)]

LEMMA KeptRuns ==
  ASSUME NEW S, NEW q \in Seq(S), NEW good
  PROVE  \E f : Keeps(f, S, q, good)
<1> DEFINE N == Len(q)
           V == Seq(S)
           step == [p \in V \X (1..N) |-> IF p[2] \in good THEN Append(p[1], q[p[2]]) ELSE p[1]]
           kept[n \in 0..N] ==
             IF n = 0 THEN <<>> ELSE IF n \in good THEN Append(kept[n - 1], q[n]) ELSE kept[n - 1]
           Rec(g) == g = [n \in 0..N |-> IF n = 0 THEN <<>>
                                         ELSE IF n \in good THEN Append(g[n - 1], q[n]) ELSE g[n - 1]]
<1>1. N \in Nat /\ <<>> \in V /\ \A n \in 1..N : q[n] \in S
  OBVIOUS
<1>2. ASSUME NEW n \in 1..N, NEW x \in V
      PROVE  step[<<x, n>>] = IF n \in good THEN Append(x, q[n]) ELSE x
  OBVIOUS
<1>3. step \in [V \X (1..N) -> V]
  <2>1. ASSUME NEW p \in V \X (1..N) PROVE (IF p[2] \in good THEN Append(p[1], q[p[2]]) ELSE p[1]) \in V
    <3>1. p[1] \in V /\ p[2] \in 1..N
      OBVIOUS
    <3>2. Append(p[1], q[p[2]]) \in V
      BY <3>1, <1>1, AppendProperties
    <3> QED
      BY <3>1, <3>2
  <2> QED
    BY <2>1
<1> HIDE DEF step, N, V
<1>4. PICK m : Takes(m, N, V, <<>>, step)
  <2>1. Steps(N, V, <<>>, step)
    BY <1>1, <1>3 DEF Steps
  <2> QED
    BY <2>1, LoopOf
<1>5. m[0] = <<>> /\ \A n \in 0..N : m[n] \in V
  BY <1>1, <1>4 DEF Takes
<1>6. ASSUME NEW n \in 1..N PROVE m[n] = IF n \in good THEN Append(m[n - 1], q[n]) ELSE m[n - 1]
  <2>1. n - 1 \in 0..N
    BY <1>1
  <2>2. m[n] = step[<<m[n - 1], n>>] /\ m[n - 1] \in V
    BY <2>1, <1>4 DEF Takes
  <2> QED
    BY <2>2, <1>2
<1>7. Rec([n \in 0..N |-> m[n]])
  <2> DEFINE g == [n \in 0..N |-> m[n]]
  <2>1. ASSUME NEW n \in 0..N
        PROVE  g[n] = IF n = 0 THEN <<>> ELSE IF n \in good THEN Append(g[n - 1], q[n]) ELSE g[n - 1]
    <3>1. CASE n = 0
      BY <3>1, <1>5
    <3>2. CASE n # 0
      <4>1. n \in 1..N /\ n - 1 \in 0..N
        BY <3>2, <1>1
      <4>2. g[n] = m[n] /\ g[n - 1] = m[n - 1]
        BY <4>1
      <4> QED
        BY <4>1, <4>2, <3>2, <1>6
    <3> QED
      BY <3>1, <3>2
  <2> QED
    BY <2>1
<1>8. Rec(kept)
  <2>1. Rec(CHOOSE g : Rec(g))
    BY <1>7
  <2> QED
    BY <2>1
<1>9. Kept(q, good) = kept[N]
  BY DEF Kept, N
<1> HIDE DEF kept
<1> DEFINE P == {n \in 0..N : kept[n] = m[n]}
<1>10. 0 \in P
  <2>1. 0 \in 0..N
    BY <1>1
  <2>2. kept[0] = <<>>
    BY <2>1, <1>8
  <2> QED
    BY <2>1, <2>2, <1>5
<1>11. ASSUME NEW n \in 1..N, n - 1 \in P PROVE n \in P
  <2>1. n \in 0..N /\ n # 0 /\ kept[n - 1] = m[n - 1]
    BY <1>1, <1>11
  <2>2. kept[n] = IF n \in good THEN Append(kept[n - 1], q[n]) ELSE kept[n - 1]
    BY <2>1, <1>8
  <2>3. kept[n] = m[n]
    BY <2>1, <2>2, <1>6
  <2> QED
    BY <2>1, <2>3
<1> HIDE DEF P
<1>12. \A n \in 0..N : n \in P
  BY <1>1, <1>10, <1>11, CountingUp
<1>13. kept[N] = m[N]
  <2>1. N \in 0..N
    BY <1>1
  <2> QED
    BY <2>1, <1>12 DEF P
<1>14. Keeps(m, S, q, good)
  BY <1>5, <1>6, <1>9, <1>13 DEF Keeps, N, V
<1> QED
  BY <1>14

LEMMA KeptIsSeq ==
  ASSUME NEW S, NEW q \in Seq(S), NEW good PROVE Kept(q, good) \in Seq(S)
<1>1. PICK f : Keeps(f, S, q, good)
  BY KeptRuns
<1>2. Len(q) \in 0..Len(q)
  OBVIOUS
<1> QED
  BY <1>1, <1>2 DEF Keeps

LEMMA AllKept ==
  ASSUME NEW S, NEW q \in Seq(S), NEW good, 1..Len(q) \subseteq good
  PROVE  Kept(q, good) = q
<1> DEFINE N == Len(q)
           Upto(n) == SubSeq(q, 1, n)
<1>1. N \in Nat /\ Upto(N) = q /\ Upto(0) = <<>>
  BY SubSeqFull, SubSeqEmpty
<1>2. PICK f : Keeps(f, S, q, good)
  BY KeptRuns
<1>3. \A n \in 1..N : Upto(n) = Append(Upto(n - 1), q[n])
  BY PrefixGrows
<1>4. f[0] = <<>> /\ \A n \in 1..N : f[n] = Append(f[n - 1], q[n])
  BY <1>2 DEF Keeps
<1>5. Kept(q, good) = f[N]
  BY <1>2 DEF Keeps
<1> DEFINE P == {n \in 0..N : f[n] = Upto(n)}
<1> HIDE DEF N, Upto
<1>6. 0 \in P
  BY <1>1, <1>4
<1>7. ASSUME NEW n \in 1..N, n - 1 \in P PROVE n \in P
  <2>1. n \in 0..N /\ f[n - 1] = Upto(n - 1)
    BY <1>1, <1>7
  <2> QED
    BY <2>1, <1>3, <1>4
<1> HIDE DEF P
<1>8. \A n \in 0..N : n \in P
  BY <1>1, <1>6, <1>7, CountingUp
<1>9. N \in 0..N
  BY <1>1
<1>10. f[N] = Upto(N)
  BY <1>8, <1>9 DEF P
<1> QED
  BY <1>1, <1>5, <1>10

(* How much of a list is found in another.                                 *)
Finds(f, a, b) ==
  /\ f[0] = 0
  /\ \A n \in 1..Len(b) : f[n] = IF f[n - 1] < Len(a) /\ a[f[n - 1] + 1] = b[n] THEN f[n - 1] + 1 ELSE f[n - 1]
  /\ \A n \in 0..Len(b) : f[n] \in 0..Len(a)
  /\ Found(a, b) = f[Len(b)]

LEMMA FoundRuns ==
  ASSUME NEW S, NEW a \in Seq(S), NEW b \in Seq(S)
  PROVE  \E f : Finds(f, a, b)
<1> DEFINE N == Len(b)
           V == 0..Len(a)
           Next(x, n) == IF x < Len(a) /\ a[x + 1] = b[n] THEN x + 1 ELSE x
           step == [p \in V \X (1..N) |-> Next(p[1], p[2])]
           found[n \in 0..N] ==
             IF n = 0 THEN 0
             ELSE IF found[n - 1] < Len(a) /\ a[found[n - 1] + 1] = b[n] THEN found[n - 1] + 1
             ELSE found[n - 1]
           Rec(g) == g = [n \in 0..N |-> IF n = 0 THEN 0
                                         ELSE IF g[n - 1] < Len(a) /\ a[g[n - 1] + 1] = b[n] THEN g[n - 1] + 1
                                         ELSE g[n - 1]]
<1>1. N \in Nat /\ 0 \in V /\ Len(a) \in Nat
  OBVIOUS
<1>2. ASSUME NEW n \in 1..N, NEW x \in V
      PROVE  step[<<x, n>>] = Next(x, n)
  OBVIOUS
<1>3. step \in [V \X (1..N) -> V]
  <2>1. ASSUME NEW p \in V \X (1..N) PROVE Next(p[1], p[2]) \in V
    <3>1. p[1] \in V
      OBVIOUS
    <3> QED
      BY <3>1, <1>1
  <2> HIDE DEF Next
  <2> QED
    BY <2>1
<1> HIDE DEF step, N
<1>4. PICK m : Takes(m, N, V, 0, step)
  <2>1. Steps(N, V, 0, step)
    BY <1>1, <1>3 DEF Steps
  <2> QED
    BY <2>1, LoopOf
<1>5. m[0] = 0 /\ \A n \in 0..N : m[n] \in V
  BY <1>1, <1>4 DEF Takes
<1>6. ASSUME NEW n \in 1..N PROVE m[n] = Next(m[n - 1], n)
  <2>1. n - 1 \in 0..N
    BY <1>1
  <2>2. m[n] = step[<<m[n - 1], n>>] /\ m[n - 1] \in V
    BY <2>1, <1>4 DEF Takes
  <2> HIDE DEF Next, V
  <2> QED
    BY <2>2, <1>2
<1>7. Rec([n \in 0..N |-> m[n]])
  <2> DEFINE g == [n \in 0..N |-> m[n]]
  <2>1. ASSUME NEW n \in 0..N PROVE g[n] = IF n = 0 THEN 0 ELSE Next(g[n - 1], n)
    <3>1. CASE n = 0
      BY <3>1, <1>5
    <3>2. CASE n # 0
      <4>1. n \in 1..N /\ n - 1 \in 0..N
        BY <3>2, <1>1
      <4>2. g[n] = m[n] /\ g[n - 1] = m[n - 1]
        BY <4>1
      <4> HIDE DEF Next
      <4> QED
        BY <4>1, <4>2, <3>2, <1>6
    <3> QED
      BY <3>1, <3>2
  <2> QED
    BY <2>1
<1>8. Rec(found)
  <2>1. Rec(CHOOSE g : Rec(g))
    BY <1>7
  <2> QED
    BY <2>1
<1>9. Found(a, b) = found[N]
  BY DEF Found, N
<1>10. found = [n \in 0..N |-> IF n = 0 THEN 0 ELSE Next(found[n - 1], n)]
  BY <1>8
<1> HIDE DEF found
<1> DEFINE P == {n \in 0..N : found[n] = m[n]}
<1>11. 0 \in P
  <2>1. 0 \in 0..N
    BY <1>1
  <2>2. found[0] = 0
    BY <2>1, <1>10
  <2> QED
    BY <2>1, <2>2, <1>5
<1>12. ASSUME NEW n \in 1..N, n - 1 \in P PROVE n \in P
  <2>1. n \in 0..N /\ n # 0 /\ found[n - 1] = m[n - 1]
    BY <1>1, <1>12
  <2> HIDE DEF Next
  <2>2. found[n] = Next(found[n - 1], n)
    BY <2>1, <1>10
  <2>3. found[n] = m[n]
    BY <2>1, <2>2, <1>6
  <2> QED
    BY <2>1, <2>3
<1> HIDE DEF P
<1>13. \A n \in 0..N : n \in P
  BY <1>1, <1>11, <1>12, CountingUp
<1>14. found[N] = m[N]
  <2>1. N \in 0..N
    BY <1>1
  <2> QED
    BY <2>1, <1>13 DEF P
<1>15. Finds(m, a, b)
  BY <1>5, <1>6, <1>9, <1>14 DEF Finds, N
<1> QED
  BY <1>15

(* Of a, what follows its first l characters is found in b, if b continues   *)
(* what has been found already.                                             *)
LEMMA FoundGrows ==
  ASSUME NEW S, NEW a \in Seq(S), NEW b \in Seq(S), NEW x \in Nat, NEW y \in Nat, y <= Len(a),
         x <= Found(a, b)
  PROVE  Found(a, b \o SubSeq(a, x + 1, y)) >= y /\ Found(a, b \o SubSeq(a, x + 1, y)) >= Found(a, b)
<1> DEFINE N == Len(b)
           u == SubSeq(a, x + 1, y)
           M == Len(u)
           c == b \o u
<1>1. N \in Nat /\ M \in Nat /\ u \in Seq(S) /\ Len(a) \in Nat
  OBVIOUS
<1>2. M = (IF x < y THEN y - x ELSE 0) /\ \A i \in 1..M : u[i] = a[x + i]
  OBVIOUS
<1> HIDE DEF u, M
<1>3. c \in Seq(S) /\ Len(c) = N + M /\ (\A i \in 1..N : c[i] = b[i]) /\ \A i \in 1..M : c[N + i] = u[i]
  <2>1. \A i \in 1..Len(b) + Len(u) : (b \o u)[i] = IF i <= Len(b) THEN b[i] ELSE u[i - Len(b)]
    BY <1>1, ConcatProperties
  <2>2. ASSUME NEW i \in 1..M PROVE c[N + i] = u[i]
    <3>1. N + i \in 1..Len(b) + Len(u) /\ ~ N + i <= Len(b) /\ (N + i) - Len(b) = i
      BY <1>1 DEF M
    <3> QED
      BY <2>1, <3>1
  <2>3. ASSUME NEW i \in 1..N PROVE c[i] = b[i]
    <3>1. i \in 1..Len(b) + Len(u) /\ i <= Len(b)
      BY <1>1 DEF M
    <3> QED
      BY <2>1, <3>1
  <2>4. c \in Seq(S) /\ Len(c) = N + M
    BY <1>1, ConcatProperties DEF M
  <2> QED
    BY <2>2, <2>3, <2>4
<1>4. PICK f : Finds(f, a, b)
  BY FoundRuns
<1>5. PICK g : Finds(g, a, c)
  <2> HIDE DEF c
  <2> QED
    BY <1>3, FoundRuns
<1> HIDE DEF c, N
<1> DEFINE Next(k, e) == IF k < Len(a) /\ a[k + 1] = e THEN k + 1 ELSE k
<1>6. f[0] = 0 /\ (\A n \in 1..N : f[n] = Next(f[n - 1], b[n])) /\ Found(a, b) = f[N]
  BY <1>4 DEF Finds, N
<1>7. /\ g[0] = 0 /\ (\A n \in 1..(N + M) : g[n] = Next(g[n - 1], c[n]))
      /\ \A n \in 0..(N + M) : g[n] \in 0..Len(a)
  BY <1>3, <1>5 DEF Finds
<1>8. Found(a, c) = g[N + M]
  BY <1>3, <1>5 DEF Finds
<1> DEFINE P == {n \in 0..N : g[n] = f[n]}
<1>9. g[N] = f[N]
  <2>1. 0 \in P
    BY <1>1, <1>6, <1>7
  <2>2. ASSUME NEW n \in 1..N, n - 1 \in P PROVE n \in P
    <3>1. n \in 0..N /\ n \in 1..(N + M) /\ g[n - 1] = f[n - 1] /\ c[n] = b[n]
      BY <1>1, <1>3, <2>2
    <3>2. g[n] = f[n]
      <4> HIDE DEF Next
      <4> QED
        BY <3>1, <1>6, <1>7
    <3> QED
      BY <3>1, <3>2
  <2> HIDE DEF P
  <2>3. \A n \in 0..N : n \in P
    BY <1>1, <2>1, <2>2, CountingUp
  <2> QED
    BY <1>1, <2>3 DEF P
<1> DEFINE R == {n \in 0..M : g[N + n] >= f[N] /\ (n > 0 => g[N + n] >= x + n)}
<1>10. f[N] \in Nat /\ x <= f[N]
  BY <1>1, <1>6, <1>7, <1>9
<1>11. 0 \in R
  BY <1>1, <1>9, <1>10
<1>12. ASSUME NEW n \in 1..M, n - 1 \in R PROVE n \in R
  <2> DEFINE h == g[N + (n - 1)]
  <2>1. N + n \in 1..(N + M) /\ (N + n) - 1 = N + (n - 1) /\ N + (n - 1) \in 0..(N + M)
    BY <1>1
  <2>2. g[N + n] = Next(h, c[N + n]) /\ c[N + n] = a[x + n] /\ h \in 0..Len(a)
    <3>1. g[N + n] = Next(g[(N + n) - 1], c[N + n])
      <4> HIDE DEF Next
      <4> QED
        BY <2>1, <1>7
    <3> HIDE DEF Next
    <3> QED
      BY <3>1, <2>1, <1>2, <1>3, <1>7
  <2>3. h >= f[N] /\ h >= x + (n - 1)
    <3> DEFINE k == n - 1
    <3>1. k \in R /\ k \in Nat /\ h = g[N + k]
      BY <1>12, <1>1
    <3> HIDE DEF k, h
    <3>2. h >= f[N] /\ (k > 0 => h >= x + k)
      BY <3>1
    <3>3. h >= x + k
      BY <3>1, <3>2, <1>10, <2>2
    <3> QED
      BY <3>2, <3>3 DEF k
  <2>4. x + n <= Len(a) /\ n \in 0..M
    BY <1>1, <1>2
  <2> HIDE DEF h
  <2>5. g[N + n] >= f[N] /\ g[N + n] >= x + n
    <3>1. CASE h = x + (n - 1)
      <4>1. h < Len(a) /\ h + 1 = x + n
        BY <3>1, <2>4, <1>1
      <4>2. g[N + n] = h + 1
        BY <4>1, <2>2
      <4> QED
        BY <4>1, <4>2, <2>3, <1>10, <2>2
    <3>2. CASE h # x + (n - 1)
      <4>1. h >= x + n
        BY <3>2, <2>3, <2>2, <1>1
      <4>2. g[N + n] = h \/ g[N + n] = h + 1
        BY <2>2
      <4> QED
        BY <4>1, <4>2, <2>3, <2>2, <1>10, <1>1
    <3> QED
      BY <3>1, <3>2
  <2> QED
    BY <2>4, <2>5
<1> HIDE DEF R
<1>13. \A n \in 0..M : n \in R
  BY <1>1, <1>11, <1>12, CountingUp
<1>14. g[N + M] >= f[N] /\ (M > 0 => g[N + M] >= x + M)
  BY <1>1, <1>13 DEF R
<1>15. g[N + M] >= y /\ g[N + M] >= f[N]
  <2>1. CASE x < y
    BY <2>1, <1>1, <1>2, <1>14
  <2>2. CASE ~ x < y
    <3>1. N + M \in 0..(N + M)
      BY <1>1
    <3> QED
      BY <2>2, <3>1, <1>1, <1>7, <1>10, <1>14
  <2> QED
    BY <2>1, <2>2
<1> QED
  BY <1>6, <1>8, <1>15 DEF c, u

LEMMA FoundIsBounded ==
  ASSUME NEW S, NEW a \in Seq(S), NEW b \in Seq(S)
  PROVE  Found(a, b) \in 0..Len(a)
<1>1. PICK f : Finds(f, a, b)
  BY FoundRuns
<1>2. Len(b) \in 0..Len(b)
  OBVIOUS
<1> QED
  BY <1>1, <1>2 DEF Finds

-----------------------------------------------------------------------------
(* The words of a recording and their text.  Words are counted from 1, and   *)
(* a stretch of them from a to b has those after the a-th, up to the b-th.   *)
Sign == UNION {Range(t) : t \in Token}
Recording ==
  /\ said \in [1..Words -> Token] /\ offset \in 0..(WordLength - 1)
  /\ results \in {"words", "text", "segments"}

\* Where the t-th word ends in the text that is spoken.
Pos(t) == Len(FlattenSeq(SubSeq(said, 1, t)))
SaidText(a, b) == SubSeq(Spoken, Pos(a) + 1, Pos(b))

LEMMA TokensAreTexts ==
  /\ Token \subseteq Seq(Sign) /\ \A t \in Token : t # <<>> /\ Len(t) \in Nat \ {0}
  /\ Words \in Nat \ {0}
<1>1. ASSUME NEW t \in Token PROVE t \in Seq(Sign) /\ t # <<>> /\ Len(t) \in Nat \ {0}
  <2>1. t # <<>> /\ t \in Seq(Range(t)) /\ Range(t) \subseteq Sign
    BY ChunkAssumption DEF Sign
  <2>2. t \in Seq(Sign)
    BY <2>1, SeqMonotonic
  <2> QED
    BY <2>1, <2>2, EmptySeq
<1> QED
  BY <1>1, ChunkAssumption

LEMMA WordsAreTexts ==
  ASSUME Recording
  PROVE  /\ said \in Seq(Seq(Sign)) /\ Len(said) = Words /\ Words \in Nat \ {0}
         /\ \A t \in 1..Words : said[t] \in Token /\ said[t] \in Seq(Sign) /\ Len(said[t]) \in Nat \ {0}
         /\ Spoken \in Seq(Sign)
<1>1. said \in [1..Words -> Seq(Sign)] /\ Words \in Nat \ {0} /\ said \in [1..Words -> Token]
  BY TokensAreTexts DEF Recording
<1>2. said \in Seq(Seq(Sign)) /\ Len(said) = Words
  <2> DEFINE V == Seq(Sign)
  <2>1. said \in [1..Words -> V] /\ Words \in Nat
    BY <1>1
  <2> HIDE DEF V
  <2>2. said \in Seq(V) /\ Len(said) = Words
    BY <2>1
  <2> QED
    BY <2>2 DEF V
<1>3. FlattenSeq(said) \in Seq(Sign)
  BY <1>2, FlattenIsSeq
<1> QED
  BY <1>1, <1>2, <1>3, TokensAreTexts DEF Spoken

LEMMA StretchOfWords ==
  ASSUME Recording, NEW a \in Nat, NEW b \in Nat, a <= b, b <= Words
  PROVE  /\ FlattenSeq(SubSeq(said, a + 1, b)) = SaidText(a, b)
         /\ SaidText(a, b) \in Seq(Sign) /\ Len(SaidText(a, b)) = Pos(b) - Pos(a)
         /\ Pos(a) \in Nat /\ Pos(b) \in Nat /\ Pos(a) <= Pos(b) /\ Pos(b) <= Len(Spoken)
<1> DEFINE V == Seq(Sign)
           A == SubSeq(said, 1, a)
           M == SubSeq(said, a + 1, b)
           B == SubSeq(said, 1, b)
           Z == SubSeq(said, b + 1, Words)
<1>1. said \in Seq(V) /\ Len(said) = Words /\ Words \in Nat /\ Spoken \in Seq(Sign)
  BY WordsAreTexts
<1>2. A \in Seq(V) /\ M \in Seq(V) /\ B \in Seq(V) /\ Z \in Seq(V)
  <2> HIDE DEF V
  <2> QED
    BY <1>1
<1>3. A \o M = B /\ B \o Z = said
  <2> HIDE DEF V
  <2>1. /\ 1 \in 1..(Len(said) + 1) /\ a \in (1 - 1)..Len(said) /\ b \in a..Len(said)
        /\ b \in (1 - 1)..Len(said) /\ Words \in b..Len(said)
    BY <1>1
  <2>2. SubSeq(said, 1, a) \o SubSeq(said, a + 1, b) = SubSeq(said, 1, b)
    BY <1>1, <2>1, ConcatAdjacentSubSeq
  <2>3. SubSeq(said, 1, b) \o SubSeq(said, b + 1, Words) = SubSeq(said, 1, Words)
    BY <1>1, <2>1, ConcatAdjacentSubSeq
  <2> QED
    BY <2>2, <2>3, <1>1, SubSeqFull
<1> HIDE DEF A, M, B, Z
<1> DEFINE fA == FlattenSeq(A)
           fM == FlattenSeq(M)
           fB == FlattenSeq(B)
           fZ == FlattenSeq(Z)
<1>4. fA \in Seq(Sign) /\ fM \in Seq(Sign) /\ fB \in Seq(Sign) /\ fZ \in Seq(Sign)
  BY <1>2, FlattenIsSeq
<1>5. fB = fA \o fM
  BY <1>2, <1>3, FlattenOfJoined
<1>6. Spoken = fB \o fZ
  BY <1>2, <1>3, FlattenOfJoined DEF Spoken
<1>7. Pos(a) = Len(fA) /\ Pos(b) = Len(fB)
  BY DEF Pos, A, B
<1> HIDE DEF fA, fM, fB, fZ
<1>8. /\ Len(fB) = Len(fA) + Len(fM) /\ Len(Spoken) = Len(fB) + Len(fZ)
      /\ Len(fA) \in Nat /\ Len(fM) \in Nat /\ Len(fB) \in Nat /\ Len(fZ) \in Nat
      /\ \A i \in 1..(Len(fA) + Len(fM)) : fB[i] = IF i <= Len(fA) THEN fA[i] ELSE fM[i - Len(fA)]
      /\ \A i \in 1..(Len(fB) + Len(fZ)) : Spoken[i] = IF i <= Len(fB) THEN fB[i] ELSE fZ[i - Len(fB)]
  BY <1>4, <1>5, <1>6, ConcatProperties
<1>9. SaidText(a, b) = fM
  <2> DEFINE s == SubSeq(Spoken, Len(fA) + 1, Len(fB))
  <2>1. s \in Seq(Sign) /\ Len(s) = Len(fM) /\ \A i \in 1..Len(fM) : s[i] = Spoken[Len(fA) + i]
    BY <1>1, <1>8
  <2>2. ASSUME NEW i \in 1..Len(fM) PROVE Spoken[Len(fA) + i] = fM[i]
    <3>1. /\ Len(fA) + i \in 1..(Len(fA) + Len(fM)) /\ Len(fA) + i \in 1..(Len(fB) + Len(fZ))
          /\ Len(fA) + i <= Len(fB) /\ ~ Len(fA) + i <= Len(fA) /\ (Len(fA) + i) - Len(fA) = i
      BY <1>8
    <3> QED
      BY <3>1, <1>8
  <2> HIDE DEF s
  <2>3. s = fM
    BY <2>1, <2>2, <1>4, SeqEqual
  <2> QED
    BY <2>3, <1>7 DEF s, SaidText
<1> QED
  BY <1>4, <1>7, <1>8, <1>9 DEF fM, M

LEMMA WordIsStretch ==
  ASSUME Recording, NEW t \in 1..Words
  PROVE  /\ t - 1 \in Nat /\ t \in Nat /\ SaidText(t - 1, t) = said[t]
         /\ Pos(t) = Pos(t - 1) + Len(said[t])
<1> DEFINE V == Seq(Sign)
<1>1. said \in Seq(V) /\ Len(said) = Words /\ said[t] \in V /\ Words \in Nat
  BY WordsAreTexts
<1>2. t - 1 \in Nat /\ t \in Nat /\ t - 1 <= t /\ t <= Words /\ t \in 1..Len(said) /\ (t - 1) + 1 = t
  BY <1>1
<1>3. FlattenSeq(SubSeq(said, (t - 1) + 1, t)) = SaidText(t - 1, t) /\ Len(SaidText(t - 1, t)) = Pos(t) - Pos(t - 1)
  BY <1>2, StretchOfWords
<1>4. SubSeq(said, t, t) = Append(<<>>, said[t])
  <2> HIDE DEF V
  <2>1. SubSeq(said, t, t) = SubSeq(said, t, t - 1) \o <<said[t]>> /\ SubSeq(said, t, t - 1) = <<>>
    BY <1>1, <1>2, SubSeqRecursiveSecond, SubSeqEmpty
  <2>2. <<>> \in Seq(V) /\ Append(<<>>, said[t]) = <<>> \o <<said[t]>>
    BY <1>1, AppendIsConcat
  <2> QED
    BY <2>1, <2>2
<1>5. FlattenSeq(Append(<<>>, said[t])) = <<>> \o said[t]
  <2>1. FlattenSeq(Append(<<>>, said[t])) = FlattenSeq(<<>>) \o said[t]
    <3>1. <<>> \in Seq(V)
      OBVIOUS
    <3> QED
      BY <3>1, <1>1, FlattenGrows
  <2> QED
    BY <2>1, NothingFlat
<1>6. <<>> \o said[t] = said[t]
  BY <1>1, ConcatEmptySeq
<1>7. Pos(t) \in Nat /\ Pos(t - 1) \in Nat
  BY <1>2, StretchOfWords
<1>8. SaidText(t - 1, t) = said[t]
  BY <1>2, <1>3, <1>4, <1>5, <1>6
<1> QED
  BY <1>2, <1>3, <1>7, <1>8

LEMMA Positions ==
  ASSUME Recording
  PROVE  /\ Pos(0) = 0 /\ Pos(Words) = Len(Spoken)
         /\ \A a, b \in 0..Words : a < b => Pos(a) < Pos(b)
         /\ \A a \in 0..Words : Pos(a) \in Nat /\ Pos(a) <= Len(Spoken)
<1>1. said \in Seq(Seq(Sign)) /\ Len(said) = Words /\ Words \in Nat
  BY WordsAreTexts
<1>2. Pos(0) = 0
  <2>1. SubSeq(said, 1, 0) = <<>>
    BY SubSeqEmpty
  <2>2. Len(FlattenSeq(SubSeq(said, 1, 0))) = Len(<<>>)
    BY <2>1, NothingFlat
  <2> QED
    BY <2>2 DEF Pos
<1>3. Pos(Words) = Len(Spoken)
  <2>1. SubSeq(said, 1, Words) = said
    <3> DEFINE V == Seq(Sign)
    <3>1. said \in Seq(V)
      BY <1>1
    <3> HIDE DEF V
    <3> QED
      BY <3>1, <1>1, SubSeqFull
  <2> QED
    BY <2>1 DEF Pos, Spoken
<1>4. ASSUME NEW a \in 0..Words, NEW b \in 0..Words, a < b PROVE Pos(a) < Pos(b)
  <2>1. a + 1 \in 1..Words /\ a + 1 \in Nat /\ b \in Nat /\ a + 1 <= b /\ b <= Words /\ (a + 1) - 1 = a
    BY <1>1, <1>4
  <2>2. Pos(a + 1) = Pos(a) + Len(said[a + 1])
    BY <2>1, WordIsStretch
  <2>3. Len(said[a + 1]) \in Nat \ {0}
    BY <2>1, WordsAreTexts
  <2>4. Pos(a + 1) <= Pos(b) /\ Pos(a + 1) \in Nat /\ Pos(b) \in Nat
    BY <2>1, StretchOfWords
  <2>5. Pos(a) \in Nat
    <3>1. a \in Nat /\ a <= a /\ a <= Words
      BY <1>1
    <3> QED
      BY <3>1, StretchOfWords
  <2> QED
    BY <2>2, <2>3, <2>4, <2>5
<1>5. ASSUME NEW a \in 0..Words PROVE Pos(a) \in Nat /\ Pos(a) <= Len(Spoken)
  <2>1. a \in Nat /\ a <= a /\ a <= Words
    BY <1>1
  <2> QED
    BY <2>1, StretchOfWords
<1> QED
  BY <1>2, <1>3, <1>4, <1>5

LEMMA TextHasItsSigns ==
  ASSUME Recording, NEW x \in Nat, NEW y \in Nat, y <= Len(Spoken)
  PROVE  /\ SubSeq(Spoken, x + 1, y) \in Seq(Sign)
         /\ Len(SubSeq(Spoken, x + 1, y)) = IF x < y THEN y - x ELSE 0
         /\ \A i \in 1..(y - x) : SubSeq(Spoken, x + 1, y)[i] = Spoken[x + i]
<1>1. Spoken \in Seq(Sign) /\ Len(Spoken) \in Nat
  BY WordsAreTexts
<1> QED
  BY <1>1

LEMMA StretchesJoin ==
  ASSUME Recording, NEW a \in 0..Words, NEW b \in 0..Words, NEW c \in 0..Words, a <= b, b <= c
  PROVE  /\ SaidText(a, b) \o SaidText(b, c) = SaidText(a, c)
         /\ SaidText(a, b) \in Seq(Sign) /\ (a < b => SaidText(a, b) # <<>>) /\ SaidText(a, a) = <<>>
         /\ SaidText(0, Words) = Spoken
<1>1. Spoken \in Seq(Sign) /\ Words \in Nat
  BY WordsAreTexts
<1>2. /\ Pos(a) \in Nat /\ Pos(b) \in Nat /\ Pos(c) \in Nat /\ Pos(a) <= Pos(b) /\ Pos(b) <= Pos(c)
      /\ Pos(c) <= Len(Spoken) /\ (a < b => Pos(a) < Pos(b))
  <2>1. (a = b \/ a < b) /\ (b = c \/ b < c)
    BY <1>1
  <2> QED
    BY <2>1, Positions
<1>3. SaidText(a, b) \o SaidText(b, c) = SaidText(a, c)
  <2>1. Pos(a) + 1 \in 1..(Len(Spoken) + 1) /\ Pos(b) \in ((Pos(a) + 1) - 1)..Len(Spoken) /\ Pos(c) \in Pos(b)..Len(Spoken)
    BY <1>1, <1>2
  <2> QED
    BY <1>1, <2>1, ConcatAdjacentSubSeq DEF SaidText
<1>4. SaidText(a, b) \in Seq(Sign) /\ (a < b => SaidText(a, b) # <<>>)
  <2> DEFINE s == SubSeq(Spoken, Pos(a) + 1, Pos(b))
  <2>1. s \in Seq(Sign) /\ (a < b => Len(s) > 0)
    BY <1>1, <1>2
  <2> HIDE DEF s
  <2>2. a < b => s # <<>>
    BY <2>1
  <2> QED
    BY <2>1, <2>2 DEF s, SaidText
<1>5. SaidText(a, a) = <<>>
  BY <1>2, SubSeqEmpty DEF SaidText
<1>6. SaidText(0, Words) = Spoken
  BY <1>1, Positions, SubSeqFull DEF SaidText
<1> QED
  BY <1>3, <1>4, <1>5, <1>6

(* Words, with whatever middles, read as what was said.                    *)
TimedWords(a, b, mid) == [i \in 1..(b - a) |-> [token |-> said[a + i], middle |-> mid[a + i]]]
Heard == [token : Token, middle : Int]

LEMMA TimedWordsRead ==
  ASSUME Recording, NEW a \in 0..Words, NEW b \in 0..Words, a <= b, NEW mid \in [1..Words -> Int]
  PROVE  /\ TimedWords(a, b, mid) \in Seq(Heard) /\ Len(TimedWords(a, b, mid)) = b - a
         /\ DOMAIN TimedWords(a, b, mid) = 1..(b - a)
         /\ \A i \in 1..(b - a) : TimedWords(a, b, mid)[i] = [token |-> said[a + i], middle |-> mid[a + i]]
         /\ Flat(TimedWords(a, b, mid)) = SaidText(a, b)
<1> DEFINE q == TimedWords(a, b, mid)
           V == Seq(Sign)
<1>1. said \in Seq(V) /\ Len(said) = Words /\ Words \in Nat /\ (\A t \in 1..Words : said[t] \in Token /\ said[t] \in V)
  BY WordsAreTexts
<1>2. b - a \in Nat /\ \A i \in 1..(b - a) : a + i \in 1..Words
  BY <1>1
<1>3. q \in [1..(b - a) -> Heard]
  BY <1>1, <1>2 DEF TimedWords, Heard
<1>4. q \in Seq(Heard) /\ Len(q) = b - a /\ DOMAIN q = 1..(b - a)
  <2> HIDE DEF q
  <2> QED
    BY <1>2, <1>3
<1>5. \A i \in 1..(b - a) : q[i] = [token |-> said[a + i], middle |-> mid[a + i]]
  BY DEF TimedWords
<1>6. Flat(q) = SaidText(a, b)
  <2> DEFINE u == [i \in DOMAIN q |-> q[i].token]
             s == SubSeq(said, a + 1, b)
  <2>1. s \in Seq(V) /\ Len(s) = b - a /\ \A i \in 1..(b - a) : s[i] = said[a + i]
    <3> DEFINE first == a + 1
               size == b - first + 1
    <3>1. /\ first \in Int /\ b \in Int /\ size = b - a /\ size \in Nat /\ (first <= b <=> size # 0)
          /\ \A i \in 1..size : first + i - 1 = a + i
      BY <1>1
    <3>2. \A i \in first..b : said[i] \in V
      BY <1>1
    <3> HIDE DEF V, first
    <3>3. /\ s \in Seq(V) /\ Len(s) = (IF first <= b THEN size ELSE 0)
          /\ \A i \in 1..size : s[i] = said[first + i - 1]
      BY <3>1, <3>2, SubSeqProperties DEF first
    <3> HIDE DEF s, size
    <3> QED
      BY <3>1, <3>3
  <2>2. u \in [1..(b - a) -> V] /\ \A i \in 1..(b - a) : u[i] = said[a + i]
    <3> DEFINE N == b - a
    <3>1. /\ DOMAIN q = 1..N /\ \A i \in 1..N : q[i] = [token |-> said[a + i], middle |-> mid[a + i]]
          /\ \A i \in 1..N : said[a + i] \in V
      BY <1>1, <1>2, <1>4, <1>5
    <3> HIDE DEF q, N, V
    <3>2. u \in [1..N -> V] /\ \A i \in 1..N : u[i] = said[a + i]
      BY <3>1
    <3> QED
      BY <3>2 DEF N
  <2>3. u \in Seq(V) /\ Len(u) = b - a
    <3> DEFINE N == b - a
    <3>1. N \in Nat /\ u \in [1..N -> V]
      BY <1>2, <2>2
    <3> HIDE DEF u, V, N
    <3>2. u \in Seq(V) /\ Len(u) = N
      BY <3>1
    <3> QED
      BY <3>2 DEF N
  <2> HIDE DEF u, s, V
  <2>4. u = s
    BY <2>1, <2>2, <2>3, SeqEqual
  <2>5. FlattenSeq(s) = SaidText(a, b)
    <3>1. a \in Nat /\ b \in Nat /\ b <= Words
      BY <1>1
    <3> QED
      BY <3>1, StretchOfWords DEF s
  <2> QED
    BY <2>4, <2>5 DEF u, Flat
<1> QED
  BY <1>4, <1>5, <1>6

(* An overlap longer than what two texts share says something twice.       *)
LEMMA OverlapIsShared ==
  ASSUME Recording, ~Repeats(Spoken),
         NEW s \in Nat, NEW e \in Nat, NEW a \in Nat, NEW c \in Nat,
         e <= Len(Spoken), c <= Len(Spoken), a <= e,
         NEW n \in Overlaps(SubSeq(Spoken, s + 1, e), SubSeq(Spoken, a + 1, c))
  PROVE  n <= e - a
<1> DEFINE T == Spoken
           l == SubSeq(T, s + 1, e)
           r == SubSeq(T, a + 1, c)
           d == n - (e - a)
<1>1. T \in Seq(Sign) /\ Len(T) \in Nat
  BY WordsAreTexts
<1>2. /\ l \in Seq(Sign) /\ Len(l) = (IF s < e THEN e - s ELSE 0) /\ \A i \in 1..(e - s) : l[i] = T[s + i]
      /\ r \in Seq(Sign) /\ Len(r) = (IF a < c THEN c - a ELSE 0) /\ \A i \in 1..(c - a) : r[i] = T[a + i]
  BY TextHasItsSigns
<1> HIDE DEF l, r
<1>3. n \in 1..Min({Len(l), Len(r), MaxChars}) /\ SubSeq(l, Len(l) - n + 1, Len(l)) = SubSeq(r, 1, n)
  BY DEF Overlaps, l, r
<1>4. n \in Nat /\ 1 <= n /\ n <= Len(l) /\ n <= Len(r)
  <2> DEFINE X == {Len(l), Len(r), MaxChars}
  <2>1. X \subseteq Nat /\ X # {} /\ Len(l) \in X /\ Len(r) \in X
    BY <1>2, ChunkAssumption
  <2> HIDE DEF X
  <2>2. PICK x \in X : \A y \in X : x <= y
    BY <2>1, Lowest
  <2>3. Min(X) \in X /\ \A y \in X : Min(X) <= y
    BY <2>2 DEF Min
  <2>4. n \in 1..Min(X)
    BY <1>3 DEF X
  <2> DEFINE x0 == Min(X)
  <2>5. x0 \in Nat /\ x0 <= Len(l) /\ x0 <= Len(r) /\ n \in 1..x0
    BY <2>1, <2>3, <2>4
  <2> HIDE DEF x0
  <2> QED
    BY <2>5, <1>2
<1>5. Len(l) = e - s /\ Len(r) = c - a /\ s < e /\ a < c
  BY <1>2, <1>4
<1>6. ASSUME NEW j \in 1..n PROVE T[(e - n) + j] = T[a + j]
  <2>1. SubSeq(l, Len(l) - n + 1, Len(l))[j] = l[Len(l) - n + j]
    <3> DEFINE N == Len(l)
               o == N - n
    <3>1. N \in Nat /\ n \in Nat /\ n <= N
      BY <1>2, <1>4
    <3>2. l \in Seq(Sign)
      BY <1>2
    <3> HIDE DEF N
    <3>3. o \in Nat /\ N = o + n /\ o + 1 \in 1..(N + 1)
      BY ONLY <3>1
    <3>4. o \in Nat /\ Len(l) = o + n /\ o + 1 \in 1..(Len(l) + 1) /\ l \in Seq(Sign) /\ j \in 1..n
      BY <3>2, <3>3, <1>6 DEF N
    <3> HIDE DEF o
    <3>5. SubSeq(l, o + 1, o + n)[j] = l[o + j]
      BY <3>4, <1>4
    <3> QED
      BY <3>4, <3>5 DEF o, N
  <2>2. SubSeq(r, 1, n)[j] = r[j]
    BY <1>2, <1>4
  <2>3. (e - s) - n + j \in 1..(e - s) /\ j \in 1..(c - a) /\ s + ((e - s) - n + j) = (e - n) + j
    BY <1>4, <1>5
  <2>4. l[(e - s) - n + j] = T[s + ((e - s) - n + j)] /\ r[j] = T[a + j]
    BY <2>3, <1>2
  <2> QED
    BY <2>1, <2>2, <2>3, <2>4, <1>3, <1>5
<1> SUFFICES ASSUME ~ n <= e - a PROVE FALSE
  OBVIOUS
<1>7. d \in 1..n /\ (e - n) + 1 \in 1..Len(T) /\ d \in 1..Len(T) /\ a + d <= Len(T) /\ (e - n) + d = a
  BY <1>1, <1>4, <1>5
<1> DEFINE i == (e - n) + 1
<1>8. SubSeq(T, i, i + d - 1) = SubSeq(T, i + d, i + 2 * d - 1)
  <2> DEFINE u == SubSeq(T, i, i + d - 1)
             v == SubSeq(T, i + d, i + 2 * d - 1)
  <2>0. i \in Nat /\ 1 <= i /\ d \in Nat /\ 1 <= d /\ i + 2 * d - 1 <= Len(T) /\ i + d = a + 1 /\ d <= n
    BY <1>7, <1>4
  <2> HIDE DEF i, d
  <2>1. u \in Seq(Sign) /\ Len(u) = d /\ \A j \in 1..d : u[j] = T[(i - 1) + j]
    BY <1>1, <2>0
  <2>2. v \in Seq(Sign) /\ Len(v) = d /\ \A j \in 1..d : v[j] = T[((i + d) - 1) + j]
    BY <1>1, <2>0
  <2>3. ASSUME NEW j \in 1..d PROVE u[j] = v[j]
    <3>1. j \in 1..n /\ (i - 1) + j = (e - n) + j /\ ((i + d) - 1) + j = a + j
      BY <2>0, <1>4 DEF i
    <3> QED
      BY <3>1, <1>6, <2>1, <2>2
  <2> HIDE DEF u, v
  <2>4. u = v
    BY <2>1, <2>2, <2>3, SeqEqual
  <2> QED
    BY <2>4 DEF u, v
<1>9. i \in DOMAIN T /\ d \in 1..Len(T) /\ i + 2 * d - 1 <= Len(T)
  <2>1. DOMAIN T = 1..Len(T)
    BY <1>1
  <2>2. i + 2 * d - 1 = a + d
    BY <1>7, <1>4
  <2> QED
    BY <1>7, <2>1, <2>2
<1> HIDE DEF i, d
<1>10. Repeats(T)
  BY <1>8, <1>9 DEF Repeats
<1> QED
  BY <1>10

-----------------------------------------------------------------------------
(* Times.  X is the time up to which the first k chunks have heard.         *)
HeardTo(k) == IF k = 0 THEN 0 ELSE EndOf(k)
Completes(m, x) == m \in 0..Words /\ \A t \in 1..Words : t <= m <=> Begin(t) + WordLength <= x

(* Words follow each other without a pause.                                 *)
LEMMA WordsFollow ==
  ASSUME Recording
  PROVE  /\ Words \in Nat \ {0} /\ WordLength \in Nat \ {0} /\ Length \in Nat /\ offset \in Nat
         /\ Begin(1) = offset /\ offset < WordLength
         /\ Begin(Words) + WordLength = Length
         /\ \A t \in 1..Words : Begin(t) \in Nat /\ Begin(t) + WordLength <= Length
         /\ \A t \in 1..(Words - 1) : Begin(t + 1) = Begin(t) + WordLength
         /\ \A t, u \in 1..Words : t < u => Begin(t) + WordLength <= Begin(u)
<1>1. Words \in Nat \ {0} /\ WordLength \in Nat \ {0} /\ offset \in Nat /\ offset < WordLength
  BY ChunkAssumption DEF Recording
<1>2. \A n, k \in Nat : n * WordLength \in Nat /\ (n + k) * WordLength = n * WordLength + k * WordLength
  BY <1>1
<1>3. 0 * WordLength = 0 /\ 1 * WordLength = WordLength
  BY <1>1
<1>4. ASSUME NEW t \in 1..Words, NEW u \in 1..Words, t < u PROVE Begin(t) + WordLength <= Begin(u)
  <2>1. t - 1 \in Nat /\ u - t - 1 \in Nat /\ u - 1 = (t - 1) + (1 + (u - t - 1))
    BY <1>1, <1>4
  <2> DEFINE x == t - 1
             y == u - t - 1
  <2>3. x \in Nat /\ y \in Nat /\ 1 + y \in Nat /\ 1 \in Nat
    BY <2>1
  <2> HIDE DEF x, y
  <2>2. /\ (x + (1 + y)) * WordLength = x * WordLength + (1 + y) * WordLength
        /\ (1 + y) * WordLength = 1 * WordLength + y * WordLength
        /\ x * WordLength \in Nat /\ y * WordLength \in Nat
    BY <1>2, <2>3
  <2> QED
    BY <1>1, <1>3, <2>1, <2>2 DEF Begin, x, y
<1>5. ASSUME NEW t \in 1..Words PROVE Begin(t) \in Nat
  BY <1>1, <1>2 DEF Begin
<1>6. Begin(1) = offset
  BY <1>1, <1>3 DEF Begin
<1>7. Begin(Words) + WordLength = Length /\ Length \in Nat
  <2>1. Words - 1 \in Nat /\ Words = (Words - 1) + 1
    BY <1>1
  <2>2. Words * WordLength = (Words - 1) * WordLength + 1 * WordLength /\ (Words - 1) * WordLength \in Nat
    BY <1>2, <2>1
  <2> QED
    BY <1>1, <1>3, <2>2 DEF Begin, Length
<1>8. ASSUME NEW t \in 1..Words PROVE Begin(t) + WordLength <= Length
  <2>1. Words \in 1..Words /\ (t = Words \/ t < Words)
    BY <1>1
  <2> QED
    BY <2>1, <1>1, <1>4, <1>5, <1>7
<1>9. ASSUME NEW t \in 1..(Words - 1) PROVE Begin(t + 1) = Begin(t) + WordLength
  <2>1. t - 1 \in Nat /\ (t + 1) - 1 = (t - 1) + 1
    BY <1>1
  <2>2. ((t - 1) + 1) * WordLength = (t - 1) * WordLength + 1 * WordLength /\ (t - 1) * WordLength \in Nat
    BY <1>2, <2>1
  <2> QED
    BY <1>1, <1>3, <2>1, <2>2 DEF Begin
<1> QED
  BY <1>1, <1>4, <1>5, <1>6, <1>7, <1>8, <1>9

LEMMA LesserOf ==
  ASSUME NEW a \in Int, NEW b \in Int
  PROVE  /\ Min({a, b}) = (IF a <= b THEN a ELSE b)
         /\ Max({a, b}) = (IF a >= b THEN a ELSE b)
<1>1. Min({a, b}) = (IF a <= b THEN a ELSE b)
  <2>1. a <= b \/ b < a
    OBVIOUS
  <2>2. \A x \in {a, b} : (\A y \in {a, b} : x <= y) <=> x = (IF a <= b THEN a ELSE b)
    OBVIOUS
  <2>3. (IF a <= b THEN a ELSE b) \in {a, b}
    OBVIOUS
  <2> HIDE <2>1
  <2> QED
    BY <2>2, <2>3 DEF Min
<1>2. Max({a, b}) = (IF a >= b THEN a ELSE b)
  <2>2. \A x \in {a, b} : (\A y \in {a, b} : x >= y) <=> x = (IF a >= b THEN a ELSE b)
    OBVIOUS
  <2>3. (IF a >= b THEN a ELSE b) \in {a, b}
    OBVIOUS
  <2> QED
    BY <2>2, <2>3 DEF Max
<1> QED
  BY <1>1, <1>2

(* Where the next chunk begins and ends.                                    *)
Times(k, S, X, X2) ==
  /\ S \in Nat /\ X \in Nat /\ X2 \in Nat
  /\ S = StartOf(k + 1) /\ X = HeardTo(k) /\ X2 = EndOf(k + 1) /\ X2 = HeardTo(k + 1)
  /\ S + HalfSecond <= Length /\ StartOf(k + 2) = S + (ChunkLength - OverlapLength)
  /\ k = 0 => S = 0 /\ X = 0
  /\ k > 0 => X = (IF S + OverlapLength <= Length THEN S + OverlapLength ELSE Length)
  /\ X2 = (IF S + ChunkLength <= Length THEN S + ChunkLength ELSE Length)
  /\ X <= X2 /\ S < X2

LEMMA TimesOfChunk ==
  ASSUME Recording, NEW k \in Nat, k + 1 \in Chunks
  PROVE  Times(k, StartOf(k + 1), HeardTo(k), EndOf(k + 1))
<1> DEFINE D == ChunkLength - OverlapLength
           S == k * D
<1>1. /\ ChunkLength \in Nat /\ OverlapLength \in Nat /\ OverlapLength < ChunkLength /\ OverlapLength > 0
      /\ Length \in Nat /\ D \in Nat \ {0} /\ ChunkLength = D + OverlapLength
  BY ChunkAssumption, WordsFollow
<1>2. StartOf(k + 1) = S
  BY DEF StartOf
<1>3. S \in Nat /\ (k = 0 => S = 0) /\ (k > 0 => (k - 1) * D = S - D /\ S - D \in Nat) /\ (k + 1) * D = S + D
  <2>1. \A n, d \in Nat : n * d \in Nat /\ (n + 1) * d = n * d + d
    OBVIOUS
  <2>2. k = 0 => S = 0
    BY <1>1
  <2>3. k > 0 => k - 1 \in Nat /\ k = (k - 1) + 1
    OBVIOUS
  <2>4. D \in Nat
    BY <1>1
  <2> HIDE DEF D
  <2>5. k > 0 => (k - 1) * D \in Nat /\ k * D = (k - 1) * D + D
    <3>1. k > 0 => ((k - 1) + 1) * D = (k - 1) * D + D /\ (k - 1) * D \in Nat
      BY <2>1, <2>3, <2>4
    <3> QED
      BY <3>1, <2>3
  <2>6. k * D \in Nat /\ (k + 1) * D = k * D + D
    BY <2>1, <2>4
  <2> QED
    BY <2>2, <2>4, <2>5, <2>6
<1>4. StartOf(k + 2) = S + D /\ StartOf(k) = (k - 1) * D
  <2>1. (k + 2) - 1 = k + 1
    OBVIOUS
  <2> QED
    BY <2>1, <1>3 DEF StartOf
<1>5. S + 2 <= Length
  BY <1>2, <1>1, <1>3 DEF Chunks, HalfSecond
<1> HIDE DEF S, D
<1>6. EndOf(k + 1) = (IF S + ChunkLength <= Length THEN S + ChunkLength ELSE Length)
  BY <1>1, <1>2, <1>3, LesserOf DEF EndOf
<1>7. k > 0 => EndOf(k) = (IF S + OverlapLength <= Length THEN S + OverlapLength ELSE Length)
  <2>1. k > 0 => StartOf(k) + ChunkLength = S + OverlapLength
    BY <1>1, <1>3, <1>4
  <2>2. S + OverlapLength \in Int /\ Length \in Int
    BY <1>1, <1>3
  <2> QED
    BY <2>1, <2>2, LesserOf DEF EndOf
<1>8. HeardTo(k + 1) = EndOf(k + 1) /\ HeardTo(k) = IF k = 0 THEN 0 ELSE EndOf(k)
  BY DEF HeardTo
<1>9. StartOf(k + 2) = S + (ChunkLength - OverlapLength)
  BY <1>4 DEF D
<1> QED
  BY <1>1, <1>2, <1>3, <1>5, <1>6, <1>7, <1>8, <1>9 DEF Times, HalfSecond

(* There is a last word that is heard to its end.                          *)
LEMMA SomeAreComplete ==
  ASSUME Recording, NEW x \in Nat
  PROVE  \E m : Completes(m, x)
<1> DEFINE X == {t \in 0..Words : t = 0 \/ Begin(t) + WordLength <= x}
<1>1. Words \in Nat /\ X \subseteq 0..Words /\ 0 \in X
  BY WordsFollow
<1>2. PICK m \in X : \A y \in X : y <= m
  BY <1>1, Highest
<1>3. ASSUME NEW t \in 1..Words, t <= m PROVE Begin(t) + WordLength <= x
  <2>1. m \in 1..Words /\ Begin(m) + WordLength <= x /\ (t = m \/ t < m)
    BY <1>1, <1>2, <1>3
  <2>2. Begin(t) \in Nat /\ Begin(m) \in Nat /\ WordLength \in Nat /\ (t < m => Begin(t) + WordLength <= Begin(m))
    BY <2>1, WordsFollow
  <2> QED
    BY <2>1, <2>2
<1>4. ASSUME NEW t \in 1..Words, Begin(t) + WordLength <= x PROVE t <= m
  BY <1>1, <1>2, <1>4
<1> QED
  BY <1>1, <1>2, <1>3, <1>4 DEF Completes
(* What a chunk adds to what was heard to its end.                          *)
LEMMA ChunkFollows ==
  ASSUME Recording, NEW k \in Nat, NEW S, NEW X, NEW X2, Times(k, S, X, X2),
         NEW m, Completes(m, X), NEW m2, Completes(m2, X2)
  PROVE  /\ m \in 0..Words /\ m2 \in 0..Words /\ m <= m2 /\ (k = 0 => m = 0)
         /\ \A t \in 1..Words : t > m => Begin(t) >= S /\ (k > 0 => Begin(t) > S) /\ Begin(t) + WordLength > X
         /\ \A t \in 1..Words : t <= m => Begin(t) + WordLength <= X
         /\ \A t \in 1..Words : t <= m2 /\ Begin(t) >= S => Whole(k + 1, t)
         /\ \A t \in 1..Words : t > m2 => Begin(t) + WordLength > X2
         /\ \A t \in 1..Words : t <= m2 => Begin(t) + WordLength <= X2
         /\ X2 = Length => m2 = Words
<1>1. /\ m \in 0..Words /\ m2 \in 0..Words /\ Words \in Nat \ {0} /\ WordLength \in Nat \ {0}
      /\ \A t \in 1..Words : Begin(t) \in Nat /\ Begin(t) + WordLength <= Length
      /\ Length \in Nat
  BY WordsFollow DEF Completes
<1>2. /\ S \in Nat /\ X \in Nat /\ X2 \in Nat /\ S = StartOf(k + 1) /\ X2 = EndOf(k + 1)
      /\ X <= X2 /\ (k = 0 => S = 0 /\ X = 0)
      /\ k > 0 => X = (IF S + OverlapLength <= Length THEN S + OverlapLength ELSE Length)
  BY DEF Times
<1>3. OverlapLength \in Nat /\ WordLength <= OverlapLength
  BY ChunkAssumption
<1>4. /\ \A t \in 1..Words : t <= m <=> Begin(t) + WordLength <= X
      /\ \A t \in 1..Words : t <= m2 <=> Begin(t) + WordLength <= X2
  BY DEF Completes
<1>5. m <= m2
  <2>1. m = 0 \/ m \in 1..Words
    BY <1>1
  <2>2. ASSUME m \in 1..Words PROVE m <= m2
    <3>1. Begin(m) + WordLength <= X /\ Begin(m) \in Nat
      BY <1>1, <1>4, <2>2
    <3>2. Begin(m) + WordLength <= X2
      BY <3>1, <1>1, <1>2
    <3> QED
      BY <3>2, <1>4, <2>2
  <2> QED
    BY <2>1, <2>2, <1>1
<1>6. ASSUME k = 0 PROVE m = 0
  <2>1. m = 0 \/ m \in 1..Words
    BY <1>1
  <2>2. ASSUME m \in 1..Words PROVE FALSE
    <3>1. Begin(m) + WordLength <= 0 /\ Begin(m) \in Nat
      BY <1>1, <1>4, <2>2, <1>2, <1>6
    <3> QED
      BY <3>1, <1>1
  <2> QED
    BY <2>1, <2>2
<1>7. ASSUME NEW t \in 1..Words, t > m
      PROVE Begin(t) >= S /\ (k > 0 => Begin(t) > S) /\ Begin(t) + WordLength > X
  <2>1. Begin(t) + WordLength > X /\ Begin(t) \in Nat /\ Begin(t) + WordLength <= Length
    <3>1. ~ t <= m
      BY <1>1, <1>7
    <3>2. ~ Begin(t) + WordLength <= X
      BY <3>1, <1>4
    <3>3. Begin(t) \in Nat /\ Begin(t) + WordLength <= Length
      BY <1>1
    <3> QED
      BY <3>2, <3>3, <1>1, <1>2
  <2>2. CASE k = 0
    BY <2>1, <2>2, <1>2
  <2>3. CASE k > 0
    <3>1. X = S + OverlapLength
      BY <2>1, <2>3, <1>1, <1>2, <1>3
    <3> QED
      BY <3>1, <2>1, <1>1, <1>2, <1>3
  <2> QED
    BY <2>2, <2>3
<1>8. ASSUME NEW t \in 1..Words, t <= m2, Begin(t) >= S PROVE Whole(k + 1, t)
  BY <1>2, <1>4, <1>8 DEF Whole
<1>9. ASSUME NEW t \in 1..Words, t > m2 PROVE Begin(t) + WordLength > X2
  <2>1. ~ t <= m2
    BY <1>1, <1>9
  <2>2. ~ Begin(t) + WordLength <= X2 /\ Begin(t) \in Nat
    BY <2>1, <1>1, <1>4
  <2> QED
    BY <2>2, <1>1, <1>2
<1>10. ASSUME X2 = Length PROVE m2 = Words
  <2>1. Words \in 1..Words /\ Begin(Words) + WordLength <= X2
    BY <1>1, <1>10
  <2> QED
    BY <2>1, <1>1, <1>4
<1> QED
  BY <1>1, <1>4, <1>5, <1>6, <1>7, <1>8, <1>9, <1>10

\* The words after the a-th, up to the b-th, are what chunk k hears.
Hears(k, a, b) ==
  /\ a \in 0..Words /\ b \in 0..Words
  /\ \A t \in 1..Words :
       /\ Whole(k, t) => a < t /\ t <= b
       /\ a < t /\ t <= b => Whole(k, t) \/ (results # "text" /\ Cut(k, t))

LEMMA HearsNoGap ==
  ASSUME Recording, NEW k \in Nat, NEW S, NEW X, NEW X2, Times(k, S, X, X2),
         NEW m, Completes(m, X), NEW m2, Completes(m2, X2),
         NEW a, NEW b, Hears(k + 1, a, b), a < b
  PROVE  /\ a \in 0..Words /\ b \in 0..Words /\ a + 1 \in 1..Words
         /\ a <= m /\ m2 <= b /\ (a > 0 /\ Begin(a) >= S => FALSE)
         /\ results = "text" => b = m2 /\ Begin(a + 1) >= S
         /\ \A t \in 1..Words : a < t /\ t <= b => Begin(t) < X2
<1>1. /\ a \in 0..Words /\ b \in 0..Words /\ a + 1 \in 1..Words /\ a \in Nat /\ b \in Nat
      /\ Words \in Nat \ {0} /\ WordLength \in Nat \ {0}
      /\ \A t \in 1..Words : Begin(t) \in Nat
      /\ \A t \in 1..(Words - 1) : Begin(t + 1) = Begin(t) + WordLength
  BY WordsFollow DEF Hears
<1>2. /\ S \in Nat /\ X \in Nat /\ X2 \in Nat /\ S = StartOf(k + 1) /\ X2 = EndOf(k + 1)
  BY DEF Times
<1>3. /\ m \in 0..Words /\ m2 \in 0..Words /\ m <= m2 /\ (k = 0 => m = 0)
      /\ \A t \in 1..Words : t > m => Begin(t) >= S
      /\ \A t \in 1..Words : t <= m2 /\ Begin(t) >= S => Whole(k + 1, t)
      /\ \A t \in 1..Words : t > m2 => Begin(t) + WordLength > X2
      /\ \A t \in 1..Words : t <= m2 => Begin(t) + WordLength <= X2
  BY ChunkFollows
<1>4. \A t \in 1..Words : a < t /\ t <= b => Begin(t) < X2 /\ Begin(t) + WordLength > S
  <2> SUFFICES ASSUME NEW t \in 1..Words, a < t, t <= b PROVE Begin(t) < X2 /\ Begin(t) + WordLength > S
    OBVIOUS
  <2>1. Whole(k + 1, t) \/ Cut(k + 1, t)
    BY DEF Hears
  <2> QED
    BY <2>1, <1>1, <1>2 DEF Whole, Cut
<1>5. ASSUME a > 0, Begin(a) >= S PROVE FALSE
  <2>1. a \in 1..Words /\ a \in 1..(Words - 1) /\ Begin(a + 1) = Begin(a) + WordLength /\ Begin(a) \in Nat
    BY <1>1, <1>5
  <2>2. Begin(a + 1) < X2
    BY <1>1, <1>4
  <2>3. Begin(a) + WordLength <= X2
    BY <2>1, <2>2, <1>1, <1>2
  <2>4. Whole(k + 1, a)
    BY <2>3, <1>2, <1>5 DEF Whole
  <2>5. a < a
    BY <2>1, <2>4 DEF Hears
  <2> QED
    BY <2>5, <1>1
<1>6. a <= m
  <2> SUFFICES ASSUME a > m PROVE FALSE
    BY <1>1, <1>3
  <2>1. a > 0 /\ a \in 1..Words
    BY <1>1, <1>3
  <2>2. Begin(a) >= S
    BY <2>1, <1>3
  <2> QED
    BY <2>1, <2>2, <1>5
<1>7. m2 <= b
  <2> SUFFICES ASSUME b < m2 PROVE FALSE
    BY <1>1, <1>3
  <2>1. b \in 1..Words /\ b \in 1..(Words - 1) /\ b + 1 \in 1..Words /\ b + 1 <= m2
    BY <1>1, <1>3
  <2>2. Begin(b + 1) = Begin(b) + WordLength /\ Begin(b) + WordLength > S /\ Begin(b + 1) \in Nat
    BY <2>1, <1>1, <1>4
  <2>3. Begin(b + 1) >= S
    BY <2>2, <1>2
  <2>4. Whole(k + 1, b + 1)
    BY <2>1, <2>3, <1>3
  <2>5. b + 1 <= b
    BY <2>1, <2>4 DEF Hears
  <2> QED
    BY <2>5, <1>1
<1>8. ASSUME results = "text" PROVE b = m2 /\ Begin(a + 1) >= S
  <2>1. \A t \in 1..Words : a < t /\ t <= b => Whole(k + 1, t)
    BY <1>8 DEF Hears
  <2>2. Whole(k + 1, a + 1) /\ Whole(k + 1, b) /\ b \in 1..Words
    <3>1. a + 1 \in 1..Words /\ a < a + 1 /\ a + 1 <= b /\ b \in 1..Words /\ b <= b
      BY <1>1
    <3> QED
      BY <3>1, <2>1
  <2>3. Begin(b) + WordLength <= X2 /\ Begin(a + 1) >= S
    BY <2>2, <1>2 DEF Whole
  <2>4. ~ b > m2
    <3> SUFFICES ASSUME b > m2 PROVE FALSE
      OBVIOUS
    <3>1. Begin(b) + WordLength > X2 /\ Begin(b) \in Nat
      BY <2>2, <1>1, <1>3
    <3> QED
      BY <3>1, <2>3, <1>1, <1>2
  <2> QED
    BY <2>3, <2>4, <1>1, <1>3, <1>7
<1> QED
  BY <1>1, <1>4, <1>5, <1>6, <1>7, <1>8

(* A chunk in which no word is heard is after the last.                     *)
LEMMA SilenceIsTheEnd ==
  ASSUME Recording, OverlapsAreShort, NEW k \in Nat, NEW S, NEW X, NEW X2, Times(k, S, X, X2),
         NEW m, Completes(m, X), NEW m2, Completes(m2, X2),
         \A t \in 1..Words : ~Whole(k + 1, t)
  PROVE  m = Words /\ m2 = Words
<1>1. /\ Words \in Nat \ {0} /\ WordLength \in Nat \ {0} /\ Length \in Nat /\ offset \in Nat
      /\ Begin(1) = offset /\ offset < WordLength /\ Begin(Words) + WordLength = Length
      /\ \A t \in 1..Words : Begin(t) \in Nat
      /\ \A t \in 1..(Words - 1) : Begin(t + 1) = Begin(t) + WordLength
  BY WordsFollow
<1>2. /\ S \in Nat /\ X \in Nat /\ X2 \in Nat /\ X <= X2
      /\ X2 = (IF S + ChunkLength <= Length THEN S + ChunkLength ELSE Length)
  BY DEF Times
<1>3. /\ m \in 0..Words /\ m2 \in 0..Words /\ m <= m2
      /\ \A t \in 1..Words : t > m => Begin(t) >= S
      /\ \A t \in 1..Words : t <= m2 /\ Begin(t) >= S => Whole(k + 1, t)
      /\ \A t \in 1..Words : t > m2 => Begin(t) + WordLength > X2
      /\ X2 = Length => m2 = Words
  BY ChunkFollows
<1>4. /\ ChunkLength \in Nat /\ OverlapLength \in Nat /\ WordLength <= OverlapLength
      /\ 2 * OverlapLength <= ChunkLength
  BY ChunkAssumption DEF OverlapsAreShort
<1>5. m2 = m
  <2> SUFFICES ASSUME m < m2 PROVE FALSE
    BY <1>3, <1>1
  <2>1. m2 \in 1..Words /\ m2 > m
    BY <1>1, <1>3
  <2>2. Begin(m2) >= S
    BY <2>1, <1>3
  <2>3. Whole(k + 1, m2)
    BY <2>1, <2>2, <1>1, <1>3
  <2> QED
    BY <2>1, <2>3
<1>6. m2 = Words
  <2> SUFFICES ASSUME m2 # Words PROVE FALSE
    OBVIOUS
  <2>1. X2 = S + ChunkLength /\ S + ChunkLength <= Length
    BY <1>2, <1>3
  <2> DEFINE n == m2 + 1
  <2>2. n \in 1..Words /\ n > m2 /\ n > m
    BY <1>1, <1>3, <1>5
  <2>3. Begin(n) + WordLength > X2 /\ Begin(n) \in Nat
    BY <2>2, <1>1, <1>3
  <2>4. Begin(n) > S + WordLength
    BY <2>1, <2>3, <1>1, <1>2, <1>4
  <2>5. n # 1
    BY <2>4, <1>1, <1>2
  <2>6. n - 1 \in 1..(Words - 1) /\ m2 = n - 1 /\ m2 \in 1..Words /\ m2 + 1 = n
    BY <2>2, <2>5, <1>1, <1>3
  <2>7. Begin(n) = Begin(m2) + WordLength /\ Begin(m2) \in Nat
    BY <2>6, <1>1
  <2>8. Begin(m2) >= S
    BY <2>4, <2>7, <1>1, <1>2
  <2>9. Whole(k + 1, m2)
    BY <2>6, <2>8, <1>1, <1>3
  <2> QED
    BY <2>6, <2>9
<1> QED
  BY <1>5, <1>6
-----------------------------------------------------------------------------
(* The middles of words: what chunk k gives, and what they are once the      *)
(* first m words are heard to the end and the rest up to the time x.        *)
HeardMiddles(k) ==
  [t \in 1..Words |-> Max({Begin(t), StartOf(k)}) + Min({Begin(t) + WordLength, EndOf(k)})]
Middles(m, x) ==
  [t \in 1..Words |-> IF t <= m THEN 2 * Begin(t) + WordLength ELSE Begin(t) + x]

LEMMA MiddlesHeard ==
  ASSUME Recording, NEW k \in Nat, NEW S, NEW X, NEW X2, Times(k, S, X, X2),
         NEW m, Completes(m, X), NEW m2, Completes(m2, X2)
  PROVE  /\ HeardMiddles(k + 1) \in [1..Words -> Int] /\ Middles(m, X) \in [1..Words -> Int]
         /\ Middles(m2, X2) \in [1..Words -> Int]
         /\ \A t \in 1..Words : HeardMiddles(k + 1)[t] =
              (IF Begin(t) >= S THEN Begin(t) ELSE S) + (IF t <= m2 THEN Begin(t) + WordLength ELSE X2)
         /\ \A t \in 1..Words : Begin(t) >= S => HeardMiddles(k + 1)[t] = Middles(m2, X2)[t]
         /\ \A t \in 1..Words : Middles(m, X)[t] =
              IF t <= m THEN 2 * Begin(t) + WordLength ELSE Begin(t) + X
         /\ \A t \in 1..Words : t <= m => Middles(m, X)[t] = Middles(m2, X2)[t]
<1>1. /\ \A t \in 1..Words : Begin(t) \in Nat
      /\ WordLength \in Nat /\ S \in Nat /\ X \in Nat /\ X2 \in Nat /\ Words \in Nat
  BY WordsFollow DEF Times
<1>2. S = StartOf(k + 1) /\ X2 = EndOf(k + 1)
  BY DEF Times
<1>3. /\ m \in 0..Words /\ m2 \in 0..Words /\ m <= m2
      /\ \A t \in 1..Words : t > m2 => Begin(t) + WordLength > X2
      /\ \A t \in 1..Words : t <= m2 => Begin(t) + WordLength <= X2
  BY ChunkFollows
<1>4. ASSUME NEW t \in 1..Words
      PROVE HeardMiddles(k + 1)[t] =
              (IF Begin(t) >= S THEN Begin(t) ELSE S) + (IF t <= m2 THEN Begin(t) + WordLength ELSE X2)
  <2>1. HeardMiddles(k + 1)[t] = Max({Begin(t), S}) + Min({Begin(t) + WordLength, X2})
    BY <1>2 DEF HeardMiddles
  <2>2. Begin(t) \in Int /\ S \in Int /\ Begin(t) + WordLength \in Int /\ X2 \in Int
    BY <1>1
  <2>3. Max({Begin(t), S}) = (IF Begin(t) >= S THEN Begin(t) ELSE S)
    BY <2>2, LesserOf
  <2>4. Min({Begin(t) + WordLength, X2}) = (IF Begin(t) + WordLength <= X2 THEN Begin(t) + WordLength ELSE X2)
    BY <2>2, LesserOf
  <2>5. Begin(t) + WordLength <= X2 <=> t <= m2
    <3>1. t <= m2 \/ t > m2
      BY <1>1, <1>3
    <3> QED
      BY <3>1, <1>1, <1>3
  <2> QED
    BY <2>1, <2>3, <2>4, <2>5
<1>5. \A t \in 1..Words : /\ Middles(m, X)[t] = IF t <= m THEN 2 * Begin(t) + WordLength ELSE Begin(t) + X
                          /\ Middles(m2, X2)[t] = IF t <= m2 THEN 2 * Begin(t) + WordLength ELSE Begin(t) + X2
  BY DEF Middles
<1>6. HeardMiddles(k + 1) \in [1..Words -> Int]
  <2>1. HeardMiddles(k + 1) = [t \in 1..Words |-> HeardMiddles(k + 1)[t]]
    BY DEF HeardMiddles
  <2>2. \A t \in 1..Words : HeardMiddles(k + 1)[t] \in Int
    BY <1>1, <1>4
  <2> QED
    BY <2>1, <2>2
<1>7. Middles(m, X) \in [1..Words -> Int] /\ Middles(m2, X2) \in [1..Words -> Int]
  BY <1>1 DEF Middles
<1>8. ASSUME NEW t \in 1..Words, Begin(t) >= S PROVE HeardMiddles(k + 1)[t] = Middles(m2, X2)[t]
  <2>1. HeardMiddles(k + 1)[t] = Begin(t) + (IF t <= m2 THEN Begin(t) + WordLength ELSE X2)
    BY <1>4, <1>8
  <2> QED
    BY <2>1, <1>5, <1>1
<1>9. ASSUME NEW t \in 1..Words, t <= m PROVE Middles(m, X)[t] = Middles(m2, X2)[t]
  <2>1. t <= m2
    BY <1>3, <1>9, <1>1
  <2> QED
    BY <2>1, <1>5, <1>9
<1> QED
  BY <1>4, <1>5, <1>6, <1>7, <1>8, <1>9

(* The boundary splits the words that are in two chunks at one of them.     *)
SplitsAt(p, k, S, X, X2, m, m2, a) ==
  /\ a <= p /\ p <= m
  /\ \A t \in 1..Words : Middles(m, X)[t] <= X + S <=> t <= p
  /\ \A t \in 1..Words : a < t => (HeardMiddles(k + 1)[t] <= X + S <=> t <= p)
  /\ \A t \in 1..Words : p < t => HeardMiddles(k + 1)[t] = Middles(m2, X2)[t]

LEMMA BoundarySplits ==
  ASSUME Recording, NEW k \in Nat \ {0}, NEW S, NEW X, NEW X2, Times(k, S, X, X2),
         NEW m, Completes(m, X), NEW m2, Completes(m2, X2),
         NEW a, NEW b, Hears(k + 1, a, b), a < b
  PROVE  \E p \in 0..Words : SplitsAt(p, k, S, X, X2, m, m2, a)
<1> DEFINE old == Middles(m, X)
           new == HeardMiddles(k + 1)
           P == {t \in 0..Words : t = 0 \/ (t <= m /\ old[t] <= X + S)}
<1>1. /\ Words \in Nat \ {0} /\ WordLength \in Nat \ {0} /\ S \in Nat /\ X \in Nat /\ X2 \in Nat /\ X <= X2
      /\ \A t \in 1..Words : Begin(t) \in Nat
      /\ \A t, u \in 1..Words : t < u => Begin(t) + WordLength <= Begin(u)
  BY WordsFollow DEF Times
<1>2. /\ m \in 0..Words /\ m2 \in 0..Words /\ m <= m2
      /\ \A t \in 1..Words : t > m => Begin(t) > S /\ Begin(t) + WordLength > X
      /\ \A t \in 1..Words : t <= m => Begin(t) + WordLength <= X
  BY ChunkFollows
<1>3. a \in 0..Words /\ b \in 0..Words /\ a <= m /\ (a > 0 /\ Begin(a) >= S => FALSE)
  BY HearsNoGap
<1>4. /\ \A t \in 1..Words : new[t] =
           (IF Begin(t) >= S THEN Begin(t) ELSE S) + (IF t <= m2 THEN Begin(t) + WordLength ELSE X2)
      /\ \A t \in 1..Words : Begin(t) >= S => new[t] = Middles(m2, X2)[t]
      /\ \A t \in 1..Words : old[t] = IF t <= m THEN 2 * Begin(t) + WordLength ELSE Begin(t) + X
  BY MiddlesHeard
<1> HIDE DEF old, new
<1>5. P \subseteq 0..Words /\ 0 \in P
  BY <1>1
<1>6. PICK p \in P : \A y \in P : y <= p
  BY <1>1, <1>5, Highest
<1>7. p \in 0..Words /\ p <= m
  BY <1>6, <1>5, <1>2
<1>8. ASSUME NEW t \in 1..Words, t <= p PROVE old[t] <= X + S
  <2>1. p \in 1..Words /\ p <= m /\ old[p] <= X + S /\ t <= m
    BY <1>1, <1>2, <1>6, <1>7, <1>8
  <2>2. old[p] = 2 * Begin(p) + WordLength /\ old[t] = 2 * Begin(t) + WordLength
    BY <2>1, <1>4
  <2>3. Begin(t) <= Begin(p) /\ Begin(t) \in Nat /\ Begin(p) \in Nat
    <3>1. t = p \/ t < p
      BY <1>8, <2>1
    <3>2. Begin(t) \in Nat /\ Begin(p) \in Nat /\ (t < p => Begin(t) + WordLength <= Begin(p))
      BY <1>1, <2>1
    <3> QED
      BY <3>1, <3>2, <1>1
  <2> QED
    BY <2>1, <2>2, <2>3, <1>1
<1>9. ASSUME NEW t \in 1..Words, old[t] <= X + S PROVE t <= p
  <2>1. t <= m
    <3> SUFFICES ASSUME t > m PROVE FALSE
      BY <1>1, <1>2
    <3>1. Begin(t) > S /\ Begin(t) \in Nat /\ old[t] = Begin(t) + X
      BY <1>1, <1>2, <1>4
    <3> QED
      BY <3>1, <1>1, <1>9
  <2> QED
    BY <2>1, <1>6, <1>9
<1>10. a <= p
  <2> SUFFICES ASSUME a > 0 PROVE a <= p
    BY <1>3, <1>7
  <2>1. a \in 1..Words /\ Begin(a) \in Nat /\ Begin(a) + WordLength <= X
    BY <1>1, <1>2, <1>3
  <2>2. ~ Begin(a) >= S
    BY <1>3
  <2>3. old[a] = 2 * Begin(a) + WordLength
    BY <2>1, <1>3, <1>4
  <2>4. old[a] <= X + S
    BY <2>1, <2>2, <2>3, <1>1
  <2> QED
    BY <2>1, <2>4, <1>9
<1>11. ASSUME NEW t \in 1..Words, p < t PROVE Begin(t) >= S /\ new[t] > X + S
  <2>1. ~ old[t] <= X + S
    BY <1>9, <1>11, <1>7
  <2>2. Begin(t) >= S
    <3>1. CASE t > m
      BY <3>1, <1>2, <1>1
    <3>2. CASE t <= m
      <4>1. old[t] = 2 * Begin(t) + WordLength /\ Begin(t) + WordLength <= X /\ Begin(t) \in Nat
        BY <3>2, <1>1, <1>2, <1>4
      <4> QED
        BY <4>1, <2>1, <1>1
    <3> QED
      BY <3>1, <3>2, <1>2
  <2>3. new[t] = Begin(t) + (IF t <= m2 THEN Begin(t) + WordLength ELSE X2)
    BY <2>2, <1>4
  <2>4. CASE t > m
    <3>1. Begin(t) > S /\ Begin(t) + WordLength > X /\ Begin(t) \in Nat
      BY <2>4, <1>1, <1>2
    <3> QED
      BY <3>1, <2>2, <2>3, <1>1
  <2>5. CASE t <= m
    <3>1. t <= m2 /\ old[t] = 2 * Begin(t) + WordLength /\ Begin(t) \in Nat
      BY <2>5, <1>1, <1>2, <1>4
    <3> QED
      BY <3>1, <2>1, <2>2, <2>3, <1>1
  <2> QED
    BY <2>4, <2>5, <1>2
<1>12. ASSUME NEW t \in 1..Words, a < t, t <= p PROVE new[t] <= X + S
  <2>1. t <= m /\ t <= m2 /\ Begin(t) \in Nat /\ Begin(t) + WordLength <= X
    BY <1>1, <1>2, <1>7, <1>12
  <2>2. old[t] = 2 * Begin(t) + WordLength /\ old[t] <= X + S
    BY <2>1, <1>4, <1>8, <1>12
  <2>3. new[t] = (IF Begin(t) >= S THEN Begin(t) ELSE S) + (Begin(t) + WordLength)
    BY <2>1, <1>4
  <2> QED
    BY <2>1, <2>2, <2>3, <1>1
<1>13. ASSUME NEW t \in 1..Words, a < t PROVE new[t] <= X + S <=> t <= p
  <2>1. CASE t <= p
    BY <2>1, <1>12, <1>13
  <2>2. CASE p < t
    <3>1. new[t] > X + S /\ Begin(t) >= S
      BY <2>2, <1>11
    <3>2. new[t] \in Int
      BY <1>1, <1>4
    <3> QED
      BY <2>2, <3>1, <3>2, <1>1, <1>7
  <2> QED
    BY <2>1, <2>2, <1>7
<1>14. ASSUME NEW t \in 1..Words, p < t PROVE new[t] = Middles(m2, X2)[t]
  BY <1>11, <1>14, <1>4
<1> QED
  BY <1>7, <1>8, <1>9, <1>10, <1>13, <1>14 DEF SplitsAt, old, new
-----------------------------------------------------------------------------
(* Segments.  What is kept of words in a row are words in a row.            *)
Clamp(t, lo, hi) == IF t <= lo THEN lo ELSE IF t <= hi THEN t ELSE hi

LEMMA NoTimedWords ==
  ASSUME Recording, NEW a \in 0..Words, NEW mid \in [1..Words -> Int]
  PROVE  TimedWords(a, a, mid) = <<>>
<1>1. a <= a /\ a - a = 0
  BY WordsAreTexts
<1>2. Len(TimedWords(a, a, mid)) = a - a /\ TimedWords(a, a, mid) \in Seq(Heard)
  BY <1>1, TimedWordsRead
<1> QED
  BY <1>1, <1>2, EmptySeq

LEMMA TimedWordsGrow ==
  ASSUME Recording, NEW a \in 0..Words, NEW b \in 0..(Words - 1), a <= b, NEW mid \in [1..Words -> Int]
  PROVE  Append(TimedWords(a, b, mid), [token |-> said[b + 1], middle |-> mid[b + 1]]) = TimedWords(a, b + 1, mid)
<1> DEFINE w == [token |-> said[b + 1], middle |-> mid[b + 1]]
           p == TimedWords(a, b, mid)
           q == TimedWords(a, b + 1, mid)
           n == b - a
<1>1. Words \in Nat /\ b \in 0..Words /\ b + 1 \in 0..Words /\ b + 1 \in 1..Words /\ a <= b + 1 /\ n \in Nat
      /\ (b + 1) - a = n + 1
  BY WordsAreTexts
<1>2. w \in Heard
  BY <1>1, WordsAreTexts DEF Heard
<1>3. p \in Seq(Heard) /\ Len(p) = n /\ \A i \in 1..n : p[i] = [token |-> said[a + i], middle |-> mid[a + i]]
  BY <1>1, TimedWordsRead
<1>4. q \in Seq(Heard) /\ Len(q) = n + 1 /\ \A i \in 1..(n + 1) : q[i] = [token |-> said[a + i], middle |-> mid[a + i]]
  <2>1. q \in Seq(Heard) /\ Len(q) = (b + 1) - a
        /\ \A i \in 1..((b + 1) - a) : q[i] = [token |-> said[a + i], middle |-> mid[a + i]]
    BY <1>1, TimedWordsRead
  <2> HIDE DEF q, n
  <2> QED
    BY <2>1, <1>1
<1>5. a + (n + 1) = b + 1
  BY <1>1
<1> DEFINE r == Append(p, w)
<1> HIDE DEF n, p, q
<1>6. r \in Seq(Heard) /\ Len(r) = n + 1 /\ r[n + 1] = w /\ \A i \in 1..n : r[i] = p[i]
  <2> HIDE DEF w
  <2> QED
    BY <1>1, <1>2, <1>3, AppendProperties
<1> HIDE DEF r
<1>7. ASSUME NEW i \in 1..(n + 1) PROVE r[i] = q[i]
  <2>1. CASE i = n + 1
    BY <2>1, <1>4, <1>5, <1>6
  <2>2. CASE i # n + 1
    <3>1. i \in 1..n
      BY <2>2, <1>1
    <3> QED
      BY <3>1, <1>3, <1>4, <1>6
  <2> QED
    BY <2>1, <2>2
<1>8. r = q
  BY <1>4, <1>6, <1>7, SeqEqual
<1> QED
  BY <1>8 DEF r, q, p

LEMMA TimedWordsKept ==
  ASSUME Recording, NEW a \in 0..Words, NEW b \in 0..Words, a <= b, NEW mid \in [1..Words -> Int],
         NEW lo \in 0..Words, NEW hi \in 0..Words, lo <= hi,
         NEW good, \A i \in 1..(b - a) : i \in good <=> lo < a + i /\ a + i <= hi
  PROVE  Kept(TimedWords(a, b, mid), good) = TimedWords(Clamp(a, lo, hi), Clamp(b, lo, hi), mid)
<1> DEFINE q == TimedWords(a, b, mid)
           N == b - a
           x == Clamp(a, lo, hi)
           Until(n) == TimedWords(x, Clamp(a + n, lo, hi), mid)
<1>1. Words \in Nat /\ N \in Nat /\ x \in 0..Words /\ a + N = b /\ a + 0 = a /\ lo <= x /\ x <= hi
  BY WordsAreTexts DEF Clamp
<1>2. q \in Seq(Heard) /\ Len(q) = N /\ \A i \in 1..N : q[i] = [token |-> said[a + i], middle |-> mid[a + i]]
  BY TimedWordsRead
<1>3. PICK f : Keeps(f, Heard, q, good)
  BY <1>2, KeptRuns
<1> HIDE DEF q, N, x
<1> DEFINE P == {n \in 0..N : f[n] = Until(n)}
<1>4. 0 \in P
  <2>1. f[0] = <<>> /\ Clamp(a + 0, lo, hi) = x
    BY <1>1, <1>3 DEF Keeps, x
  <2>2. TimedWords(x, x, mid) = <<>>
    BY <1>1, NoTimedWords
  <2> QED
    BY <2>1, <2>2, <1>1
<1>5. ASSUME NEW n \in 1..N, n - 1 \in P PROVE n \in P
  <2> DEFINE y == Clamp(a + (n - 1), lo, hi)
             z == Clamp(a + n, lo, hi)
  <2>1. f[n - 1] = TimedWords(x, y, mid)
    BY <1>5
  <2>2. f[n] = IF n \in good THEN Append(f[n - 1], q[n]) ELSE f[n - 1]
    BY <1>2, <1>3 DEF Keeps
  <2>3. n \in good <=> lo < a + n /\ a + n <= hi
    BY DEF N
  <2>4. f[n] = TimedWords(x, z, mid)
    <3>1. CASE n \in good
      <4>1. /\ y \in 0..(Words - 1) /\ x <= y /\ z = y + 1 /\ y + 1 = a + n
        <5>1. a + n - 1 >= lo /\ a + n - 1 < hi /\ a + n \in Int
          BY <2>3, <3>1, <1>1
        <5>2. y = a + n - 1 /\ z = a + n
          BY <5>1, <2>3, <3>1, <1>1 DEF Clamp
        <5>3. x <= y
          <6>1. a <= y
            BY <5>2, <1>1
          <6> QED
            BY <6>1, <5>1, <5>2, <1>1 DEF Clamp, x
        <5> HIDE DEF y, z
        <5> QED
          BY <5>1, <5>2, <5>3, <1>1
      <4> HIDE DEF y, z
      <4>2. Append(TimedWords(x, y, mid), [token |-> said[y + 1], middle |-> mid[y + 1]]) = TimedWords(x, y + 1, mid)
        BY <4>1, <1>1, TimedWordsGrow
      <4>3. q[n] = [token |-> said[y + 1], middle |-> mid[y + 1]]
        BY <4>1, <1>2
      <4> QED
        BY <4>1, <4>2, <4>3, <2>1, <2>2, <3>1
    <3>2. CASE n \notin good
      <4>1. y = z
        <5>1. a + n <= lo \/ a + n > hi
          BY <2>3, <3>2, <1>1
        <5>2. a + (n - 1) = (a + n) - 1 /\ a + n \in Int
          BY <1>1
        <5> QED
          BY <5>1, <5>2, <1>1 DEF Clamp
      <4> QED
        BY <4>1, <2>1, <2>2, <3>2
    <3> QED
      BY <3>1, <3>2
  <2> QED
    BY <2>4
<1> HIDE DEF P
<1>6. \A n \in 0..N : n \in P
  BY <1>1, <1>4, <1>5, CountingUp
<1>7. N \in P
  <2>1. N \in 0..N
    BY <1>1
  <2> QED
    BY <2>1, <1>6
<1>8. f[N] = Until(N)
  BY <1>7 DEF P
<1>9. Kept(q, good) = f[N]
  BY <1>2, <1>3 DEF Keeps
<1> QED
  BY <1>1, <1>8, <1>9 DEF q, x

(* A segment of the words after the a-th, up to the b-th.                   *)
Part(a, b, mid) ==
  [text |-> SaidText(a, b), words |-> IF results = "words" THEN TimedWords(a, b, mid) ELSE <<>>]
TextPiece == [text : Seq(Sign), words : Seq(Heard)]

LEMMA PartIsPiece ==
  ASSUME Recording, NEW a \in 0..Words, NEW b \in 0..Words, a <= b, NEW mid \in [1..Words -> Int]
  PROVE  /\ Part(a, b, mid) \in TextPiece /\ Part(a, b, mid).text = SaidText(a, b)
         /\ Part(a, b, mid).words = (IF results = "words" THEN TimedWords(a, b, mid) ELSE <<>>)
         /\ Part(a, b, mid).text # <<>> <=> a < b
<1>1. SaidText(a, b) \in Seq(Sign) /\ (a < b => SaidText(a, b) # <<>>) /\ SaidText(a, a) = <<>>
  <2>1. b <= b
    BY WordsAreTexts
  <2> QED
    BY <2>1, StretchesJoin
<1>2. TimedWords(a, b, mid) \in Seq(Heard)
  BY TimedWordsRead
<1>3. a < b \/ a = b
  BY WordsAreTexts
<1>4. ~ a < a
  OBVIOUS
<1>5. <<>> \in Seq(Heard)
  OBVIOUS
<1>6. Part(a, b, mid).text = SaidText(a, b)
      /\ Part(a, b, mid).words = (IF results = "words" THEN TimedWords(a, b, mid) ELSE <<>>)
  BY DEF Part
<1>7. Part(a, b, mid) \in TextPiece
  BY <1>1, <1>2, <1>5 DEF Part, TextPiece
<1> QED
  BY <1>1, <1>3, <1>4, <1>6, <1>7

\* Of the words after the a-th, up to the e-th, those on one side of the
\* boundary are those after the lo-th, up to the hi-th.
OneSide(mid, boundary, before, a, e, lo, hi) ==
  \A t \in 1..Words : a < t /\ t <= e => ((mid[t] <= boundary) = before <=> lo < t /\ t <= hi)

LEMMA PartTrimmed ==
  ASSUME Recording, results = "words", NEW a \in 0..Words, NEW b \in 0..Words, a < b,
         NEW mid \in [1..Words -> Int],
         NEW lo \in 0..Words, NEW hi \in 0..Words, lo <= hi, NEW boundary, NEW before,
         OneSide(mid, boundary, before, a, b, lo, hi)
  PROVE  /\ Trim(Part(a, b, mid), boundary, before) = Part(Clamp(a, lo, hi), Clamp(b, lo, hi), mid)
         /\ Clamp(a, lo, hi) \in 0..Words /\ Clamp(b, lo, hi) \in 0..Words
         /\ Clamp(a, lo, hi) <= Clamp(b, lo, hi)
<1> DEFINE seg == Part(a, b, mid)
           q == TimedWords(a, b, mid)
           good == {i \in DOMAIN q : (q[i].middle <= boundary) = before}
           x == Clamp(a, lo, hi)
           y == Clamp(b, lo, hi)
<1>1. Words \in Nat /\ a <= b /\ x \in 0..Words /\ y \in 0..Words /\ x <= y
  BY WordsAreTexts DEF Clamp
<1>2. /\ q \in Seq(Heard) /\ DOMAIN q = 1..(b - a) /\ Len(q) = b - a
      /\ \A i \in 1..(b - a) : q[i] = [token |-> said[a + i], middle |-> mid[a + i]]
  BY <1>1, TimedWordsRead
<1>3. ASSUME NEW i \in 1..(b - a) PROVE i \in good <=> lo < a + i /\ a + i <= hi
  <2>1. a + i \in 1..Words /\ a < a + i /\ a + i <= b
    BY <1>1
  <2>2. q[i].middle = mid[a + i]
    BY <1>2
  <2>3. (mid[a + i] <= boundary) = before <=> lo < a + i /\ a + i <= hi
    BY <2>1 DEF OneSide
  <2> QED
    BY <2>2, <2>3, <1>2
<1>4. q # <<>>
  <2>1. Len(q) # 0
    BY <1>1, <1>2
  <2> QED
    BY <2>1, <1>2, EmptySeq
<1> HIDE DEF q
<1>5. seg.words = q /\ seg.text = SaidText(a, b)
  BY DEF Part, q
<1> HIDE DEF seg, good, x, y
<1>6. Kept(q, good) = TimedWords(x, y, mid)
  BY <1>1, <1>3, TimedWordsKept DEF q, x, y
<1>7. Trim(seg, boundary, before) = [text |-> Flat(Kept(q, good)), words |-> Kept(q, good)]
  <2>1. good = {i \in DOMAIN seg.words : (seg.words[i].middle <= boundary) = before}
    BY <1>5 DEF good
  <2> QED
    BY <2>1, <1>4, <1>5 DEF Trim
<1>8. Flat(TimedWords(x, y, mid)) = SaidText(x, y)
  BY <1>1, TimedWordsRead
<1>9. Trim(seg, boundary, before) = Part(x, y, mid)
  BY <1>6, <1>7, <1>8 DEF Part
<1> QED
  BY <1>1, <1>9 DEF seg, x, y
(* Segments in a row.                                                       *)
Cuts(segs, cut, a, e, mid) ==
  /\ segs \in Seq(TextPiece) /\ cut \in [0..Len(segs) -> 0..Words] /\ cut[0] = a /\ cut[Len(segs)] = e
  /\ \A i \in 1..Len(segs) : cut[i - 1] < cut[i] /\ segs[i] = Part(cut[i - 1], cut[i], mid)
Chain(segs, a, e, mid) == \E cut : Cuts(segs, cut, a, e, mid)

LEMMA CutsRise ==
  ASSUME Recording, NEW segs, NEW cut, NEW a, NEW e, NEW mid, Cuts(segs, cut, a, e, mid)
  PROVE  /\ a \in 0..Words /\ e \in 0..Words /\ a <= e /\ (segs # <<>> => a < e) /\ (segs = <<>> => a = e)
         /\ Len(segs) \in Nat
         /\ \A n \in 0..Len(segs) : cut[n] \in 0..Words /\ a <= cut[n] /\ cut[n] <= e
<1> DEFINE N == Len(segs)
           P == {n \in 0..N : a <= cut[n]}
           R == {n \in 0..N : cut[N - n] <= e}
<1>1. /\ segs \in Seq(TextPiece) /\ N \in Nat /\ cut[0] = a /\ cut[N] = e /\ Words \in Nat
      /\ \A n \in 0..N : cut[n] \in 0..Words
      /\ \A n \in 1..N : cut[n - 1] < cut[n]
  <2>1. Words \in Nat
    BY WordsAreTexts
  <2>2. segs \in Seq(TextPiece) /\ cut \in [0..N -> 0..Words] /\ cut[0] = a /\ cut[N] = e
    BY DEF Cuts
  <2>3. \A n \in 1..N : cut[n - 1] < cut[n]
    BY DEF Cuts
  <2> QED
    BY <2>1, <2>2, <2>3
<1>0. segs = <<>> <=> N = 0
  BY <1>1, EmptySeq
<1> HIDE DEF N
<1>2. a \in 0..Words /\ e \in 0..Words
  BY <1>1
<1>3. \A n \in 0..N : n \in P
  <2>1. 0 \in P
    BY <1>1, <1>2
  <2>2. ASSUME NEW n \in 1..N, n - 1 \in P PROVE n \in P
    <3>1. n \in 0..N /\ n - 1 \in 0..N /\ cut[n - 1] \in 0..Words /\ cut[n] \in 0..Words /\ cut[n - 1] < cut[n]
      BY <1>1
    <3> QED
      BY <3>1, <2>2, <1>1, <1>2
  <2> HIDE DEF P
  <2> QED
    BY <2>1, <2>2, <1>1, CountingUp
<1>4. \A n \in 0..N : n \in R
  <2>1. 0 \in R
    <3>1. N - 0 = N
      BY <1>1
    <3> QED
      BY <3>1, <1>1, <1>2
  <2>2. ASSUME NEW n \in 1..N, n - 1 \in R PROVE n \in R
    <3> DEFINE k == N - n
    <3>1. k + 1 \in 1..N /\ k \in 0..N /\ N - (n - 1) = k + 1 /\ (k + 1) - 1 = k /\ k + 1 \in 0..N
      BY <1>1
    <3> HIDE DEF k
    <3>2. cut[k] \in 0..Words /\ cut[k + 1] \in 0..Words /\ cut[k] < cut[k + 1] /\ cut[k + 1] <= e
      BY <3>1, <1>1, <2>2
    <3>3. cut[k] <= e
      BY <3>2, <1>2, <1>1
    <3> QED
      BY <3>3, <1>1 DEF k
  <2> HIDE DEF R
  <2> QED
    BY <2>1, <2>2, <1>1, CountingUp
<1>5. ASSUME NEW n \in 0..N PROVE a <= cut[n] /\ cut[n] <= e
  <2>1. N - n \in 0..N /\ N - (N - n) = n
    BY <1>1
  <2>2. N - n \in R /\ n \in P
    BY <2>1, <1>3, <1>4
  <2> QED
    BY <2>1, <2>2
<1>6. N > 0 => a < e
  <2> SUFFICES ASSUME N > 0 PROVE a < e
    OBVIOUS
  <2>1. 1 \in 1..N /\ 1 \in 0..N /\ 1 - 1 = 0
    BY <1>1
  <2>2. cut[0] < cut[1] /\ cut[1] <= e /\ cut[1] \in 0..Words
    BY <2>1, <1>1, <1>5
  <2> QED
    BY <2>2, <1>1, <1>2
<1>7. a <= e
  BY <1>1, <1>5
<1> QED
  BY <1>0, <1>1, <1>2, <1>5, <1>6, <1>7 DEF N

LEMMA ChainRises ==
  ASSUME Recording, NEW segs, NEW a, NEW e, NEW mid, Chain(segs, a, e, mid)
  PROVE  /\ segs \in Seq(TextPiece)
         /\ a \in 0..Words /\ e \in 0..Words /\ a <= e /\ (segs # <<>> => a < e) /\ (segs = <<>> => a = e)
<1>1. PICK cut : Cuts(segs, cut, a, e, mid)
  BY DEF Chain
<1>2. segs \in Seq(TextPiece)
  BY <1>1 DEF Cuts
<1> QED
  BY <1>1, <1>2, CutsRise

LEMMA ChainStarts ==
  ASSUME Recording, NEW a \in 0..Words, NEW mid
  PROVE  Chain(<<>>, a, a, mid)
<1> DEFINE cut == [n \in 0..0 |-> a]
<1>1. cut \in [0..Len(<<>>) -> 0..Words] /\ cut[0] = a /\ cut[Len(<<>>)] = a /\ <<>> \in Seq(TextPiece) /\ Len(<<>>) = 0
  OBVIOUS
<1>2. 1..Len(<<>>) = {}
  OBVIOUS
<1> HIDE DEF cut
<1>3. Cuts(<<>>, cut, a, a, mid)
  BY <1>1, <1>2 DEF Cuts
<1> QED
  BY <1>3 DEF Chain

LEMMA ChainGrows ==
  ASSUME Recording, NEW segs, NEW a, NEW e, NEW mid \in [1..Words -> Int], Chain(segs, a, e, mid),
         NEW d \in 0..Words, e < d
  PROVE  Chain(Append(segs, Part(e, d, mid)), a, d, mid)
<1> DEFINE N == Len(segs)
           x == Part(e, d, mid)
           longer == Append(segs, x)
<1>1. PICK cut : Cuts(segs, cut, a, e, mid)
  BY DEF Chain
<1>2. /\ segs \in Seq(TextPiece) /\ N \in Nat /\ cut \in [0..N -> 0..Words] /\ cut[0] = a /\ cut[N] = e
      /\ \A i \in 1..N : cut[i - 1] < cut[i] /\ segs[i] = Part(cut[i - 1], cut[i], mid)
  BY <1>1 DEF Cuts
<1>3. x \in TextPiece
  <2>1. e \in 0..Words /\ e <= d
    <3>1. e \in 0..Words /\ Words \in Nat
      BY <1>1, CutsRise, WordsAreTexts
    <3> QED
      BY <3>1
  <2> QED
    BY <2>1, PartIsPiece
<1> HIDE DEF x
<1>4. longer \in Seq(TextPiece) /\ Len(longer) = N + 1 /\ longer[N + 1] = x /\ \A i \in 1..N : longer[i] = segs[i]
  BY <1>2, <1>3, AppendProperties
<1> DEFINE cut2 == [n \in 0..(N + 1) |-> IF n <= N THEN cut[n] ELSE d]
<1> HIDE DEF N, longer
<1>5. cut2 \in [0..(N + 1) -> 0..Words] /\ cut2[0] = a /\ cut2[N] = e /\ cut2[N + 1] = d
      /\ \A n \in 0..N : cut2[n] = cut[n]
  BY <1>2
<1> HIDE DEF cut2
<1>6. ASSUME NEW i \in 1..(N + 1) PROVE cut2[i - 1] < cut2[i] /\ longer[i] = Part(cut2[i - 1], cut2[i], mid)
  <2>1. CASE i = N + 1
    <3>1. i - 1 = N
      BY <2>1, <1>2
    <3>2. cut2[i - 1] = e /\ cut2[i] = d /\ longer[i] = x
      BY <3>1, <2>1, <1>4, <1>5
    <3> QED
      BY <3>2 DEF x
  <2>2. CASE i # N + 1
    <3>1. i \in 1..N /\ i - 1 \in 0..N /\ i \in 0..N
      BY <2>2, <1>2
    <3> QED
      BY <3>1, <1>2, <1>4, <1>5
  <2> QED
    BY <2>1, <2>2
<1>7. Cuts(longer, cut2, a, d, mid)
  BY <1>4, <1>5, <1>6 DEF Cuts
<1> QED
  BY <1>7 DEF Chain, longer, x

LEMMA ChainJoins ==
  ASSUME Recording, NEW left, NEW right, NEW a, NEW c, NEW e, NEW mid,
         Chain(left, a, c, mid), Chain(right, c, e, mid)
  PROVE  Chain(left \o right, a, e, mid)
<1> DEFINE N == Len(left)
           M == Len(right)
           both == left \o right
<1>1. PICK cut : Cuts(left, cut, a, c, mid)
  BY DEF Chain
<1>2. PICK cut2 : Cuts(right, cut2, c, e, mid)
  BY DEF Chain
<1>3. /\ left \in Seq(TextPiece) /\ N \in Nat /\ cut \in [0..N -> 0..Words] /\ cut[0] = a /\ cut[N] = c
      /\ \A i \in 1..N : cut[i - 1] < cut[i] /\ left[i] = Part(cut[i - 1], cut[i], mid)
  BY <1>1 DEF Cuts
<1>4. /\ right \in Seq(TextPiece) /\ M \in Nat /\ cut2 \in [0..M -> 0..Words] /\ cut2[0] = c /\ cut2[M] = e
      /\ \A i \in 1..M : cut2[i - 1] < cut2[i] /\ right[i] = Part(cut2[i - 1], cut2[i], mid)
  BY <1>2 DEF Cuts
<1>5. /\ both \in Seq(TextPiece) /\ Len(both) = N + M
      /\ \A i \in 1..(N + M) : both[i] = IF i <= N THEN left[i] ELSE right[i - N]
  BY <1>3, <1>4, ConcatProperties
<1> DEFINE cut3 == [n \in 0..(N + M) |-> IF n <= N THEN cut[n] ELSE cut2[n - N]]
<1> HIDE DEF N, M, both
<1>6. /\ cut3 \in [0..(N + M) -> 0..Words]
      /\ \A n \in 0..N : cut3[n] = cut[n]
      /\ \A n \in 0..M : cut3[N + n] = cut2[n]
  <2>1. ASSUME NEW n \in 0..(N + M) PROVE (IF n <= N THEN cut[n] ELSE cut2[n - N]) \in 0..Words
    <3>1. n <= N => n \in 0..N
      BY <1>3
    <3>2. ~ n <= N => n - N \in 0..M
      BY <1>3, <1>4
    <3> QED
      BY <3>1, <3>2, <1>3, <1>4
  <2>2. cut3 \in [0..(N + M) -> 0..Words]
    BY <2>1
  <2>3. ASSUME NEW n \in 0..N PROVE cut3[n] = cut[n]
    <3>1. n \in 0..(N + M) /\ n <= N
      BY <1>3, <1>4
    <3> QED
      BY <3>1
  <2>4. ASSUME NEW n \in 0..M PROVE cut3[N + n] = cut2[n]
    <3>1. N + n \in 0..(N + M) /\ (N + n <= N => n = 0 /\ N + n = N /\ N \in 0..N) /\ (N + n) - N = n
      BY <1>3, <1>4
    <3>2. cut3[N + n] = IF N + n <= N THEN cut[N + n] ELSE cut2[(N + n) - N]
      BY <3>1
    <3> QED
      BY <3>1, <3>2, <1>3, <1>4
  <2> QED
    BY <2>2, <2>3, <2>4
<1> HIDE DEF cut3
<1>7. cut3[0] = a /\ cut3[N + M] = e
  <2>1. 0 \in 0..N /\ M \in 0..M
    BY <1>3, <1>4
  <2> QED
    BY <2>1, <1>3, <1>4, <1>6
<1>8. ASSUME NEW i \in 1..(N + M) PROVE cut3[i - 1] < cut3[i] /\ both[i] = Part(cut3[i - 1], cut3[i], mid)
  <2>1. CASE i <= N
    <3>1. i \in 1..N /\ i - 1 \in 0..N /\ i \in 0..N
      BY <2>1, <1>3, <1>4
    <3> QED
      BY <3>1, <2>1, <1>3, <1>5, <1>6
  <2>2. CASE ~ i <= N
    <3> DEFINE j == i - N
    <3>1. j \in 1..M /\ j - 1 \in 0..M /\ j \in 0..M /\ i = N + j /\ i - 1 = N + (j - 1)
      BY <2>2, <1>3, <1>4
    <3>2. both[i] = right[j]
      BY <2>2, <1>5
    <3> HIDE DEF j
    <3>3. cut3[i] = cut2[j] /\ cut3[i - 1] = cut2[j - 1]
      BY <3>1, <1>6
    <3> QED
      BY <3>1, <3>2, <3>3, <1>4
  <2> QED
    BY <2>1, <2>2
<1>9. Cuts(both, cut3, a, e, mid)
  BY <1>5, <1>6, <1>7, <1>8 DEF Cuts
<1> QED
  BY <1>9 DEF Chain, both

(* The middles count where words are.                                      *)
LEMMA ChainAgain ==
  ASSUME Recording, NEW segs, NEW a, NEW e, NEW mid \in [1..Words -> Int], Chain(segs, a, e, mid),
         NEW other \in [1..Words -> Int], \A t \in 1..Words : a < t /\ t <= e => mid[t] = other[t]
  PROVE  Chain(segs, a, e, other)
<1>1. PICK cut : Cuts(segs, cut, a, e, mid)
  BY DEF Chain
<1>2. /\ segs \in Seq(TextPiece) /\ cut \in [0..Len(segs) -> 0..Words] /\ cut[0] = a /\ cut[Len(segs)] = e
      /\ \A i \in 1..Len(segs) : cut[i - 1] < cut[i] /\ segs[i] = Part(cut[i - 1], cut[i], mid)
  BY <1>1 DEF Cuts
<1>3. /\ a \in 0..Words /\ e \in 0..Words /\ Len(segs) \in Nat
      /\ \A n \in 0..Len(segs) : cut[n] \in 0..Words /\ a <= cut[n] /\ cut[n] <= e
  BY <1>1, CutsRise
<1>4. ASSUME NEW x \in 0..Words, NEW y \in 0..Words, x < y, a <= x, y <= e
      PROVE Part(x, y, mid) = Part(x, y, other)
  <2>1. Words \in Nat
    BY WordsAreTexts
  <2>2. ASSUME NEW i \in 1..(y - x) PROVE mid[x + i] = other[x + i]
    <3>1. x + i \in 1..Words /\ a < x + i /\ x + i <= e
      BY <2>1, <1>3, <1>4
    <3> QED
      BY <3>1
  <2>3. TimedWords(x, y, mid) = TimedWords(x, y, other)
    BY <2>2 DEF TimedWords
  <2> QED
    BY <2>3 DEF Part
<1>5. ASSUME NEW i \in 1..Len(segs) PROVE segs[i] = Part(cut[i - 1], cut[i], other)
  <2>1. i \in 0..Len(segs) /\ i - 1 \in 0..Len(segs)
    BY <1>3
  <2>2. Part(cut[i - 1], cut[i], mid) = Part(cut[i - 1], cut[i], other)
    BY <2>1, <1>2, <1>3, <1>4
  <2> QED
    BY <2>2, <1>2
<1>6. Cuts(segs, cut, a, e, other)
  BY <1>2, <1>5 DEF Cuts
<1> QED
  BY <1>6 DEF Chain
(* The text of segments.                                                    *)
TextsOf(segs) == [i \in DOMAIN segs |-> segs[i].text]

LEMMA TextsAreTexts ==
  ASSUME NEW segs \in Seq(TextPiece)
  PROVE  /\ TextsOf(segs) \in Seq(Seq(Sign)) /\ Len(TextsOf(segs)) = Len(segs) /\ Len(segs) \in Nat
         /\ \A i \in 1..Len(segs) : TextsOf(segs)[i] = segs[i].text /\ segs[i].text \in Seq(Sign)
         /\ FlattenSeq(TextsOf(segs)) \in Seq(Sign)
<1> DEFINE V == Seq(Sign)
           N == Len(segs)
           u == TextsOf(segs)
<1>1. N \in Nat /\ DOMAIN segs = 1..N /\ \A i \in 1..N : segs[i] \in TextPiece
  OBVIOUS
<1>2. \A i \in 1..N : segs[i].text \in V
  BY <1>1 DEF TextPiece
<1> HIDE DEF N, V
<1>3. u \in [1..N -> V] /\ \A i \in 1..N : u[i] = segs[i].text
  BY <1>1, <1>2 DEF TextsOf
<1> HIDE DEF u
<1>4. u \in Seq(V) /\ Len(u) = N
  BY <1>1, <1>3
<1>5. FlattenSeq(u) \in V
  BY <1>4, FlattenIsSeq DEF V
<1> QED
  BY <1>1, <1>2, <1>3, <1>4, <1>5 DEF u, V, N

LEMMA TextsOfJoined ==
  ASSUME NEW left \in Seq(TextPiece), NEW right \in Seq(TextPiece)
  PROVE  FlattenSeq(TextsOf(left \o right)) = FlattenSeq(TextsOf(left)) \o FlattenSeq(TextsOf(right))
<1> DEFINE V == Seq(Sign)
           N == Len(left)
           M == Len(right)
           both == left \o right
           u == TextsOf(left) \o TextsOf(right)
<1>1. /\ both \in Seq(TextPiece) /\ Len(both) = N + M /\ N \in Nat /\ M \in Nat
      /\ \A i \in 1..(N + M) : both[i] = IF i <= N THEN left[i] ELSE right[i - N]
  BY ConcatProperties
<1>2. /\ TextsOf(left) \in Seq(V) /\ Len(TextsOf(left)) = N /\ \A i \in 1..N : TextsOf(left)[i] = left[i].text
      /\ TextsOf(right) \in Seq(V) /\ Len(TextsOf(right)) = M /\ \A i \in 1..M : TextsOf(right)[i] = right[i].text
  BY TextsAreTexts
<1>3. /\ TextsOf(both) \in Seq(V) /\ Len(TextsOf(both)) = N + M /\ \A i \in 1..(N + M) : TextsOf(both)[i] = both[i].text
  <2>1. /\ TextsOf(both) \in Seq(V) /\ Len(TextsOf(both)) = Len(both)
        /\ \A i \in 1..Len(both) : TextsOf(both)[i] = both[i].text
    BY <1>1, TextsAreTexts
  <2> HIDE DEF both
  <2> QED
    BY <2>1, <1>1
<1> HIDE DEF V, both
<1>4. /\ u \in Seq(V) /\ Len(u) = N + M
      /\ \A i \in 1..(N + M) : u[i] = IF i <= N THEN TextsOf(left)[i] ELSE TextsOf(right)[i - N]
  <2> DEFINE p == TextsOf(left)
             r == TextsOf(right)
  <2>1. p \in Seq(V) /\ r \in Seq(V) /\ Len(p) = N /\ Len(r) = M
    BY <1>2
  <2> HIDE DEF p, r, N, M
  <2>2. /\ p \o r \in Seq(V) /\ Len(p \o r) = N + M
        /\ \A i \in 1..(N + M) : (p \o r)[i] = IF i <= N THEN p[i] ELSE r[i - N]
    BY <2>1, ConcatProperties
  <2> QED
    BY <2>2 DEF p, r
<1> HIDE DEF u, N, M
<1>5. ASSUME NEW i \in 1..(N + M) PROVE TextsOf(both)[i] = u[i]
  <2>1. CASE i <= N
    <3>1. i \in 1..N
      BY <2>1, <1>1
    <3>2. both[i] = left[i] /\ u[i] = TextsOf(left)[i]
      BY <2>1, <1>1, <1>4
    <3> QED
      BY <3>1, <3>2, <1>2, <1>3
  <2>2. CASE ~ i <= N
    <3>1. i - N \in 1..M
      BY <2>2, <1>1
    <3>2. both[i] = right[i - N] /\ u[i] = TextsOf(right)[i - N]
      BY <2>2, <1>1, <1>4
    <3> QED
      BY <3>1, <3>2, <1>2, <1>3
  <2> QED
    BY <2>1, <2>2
<1>6. TextsOf(both) = u
  BY <1>3, <1>4, <1>5, SeqEqual
<1>7. FlattenSeq(TextsOf(left) \o TextsOf(right)) = FlattenSeq(TextsOf(left)) \o FlattenSeq(TextsOf(right))
  BY <1>2, FlattenOfJoined DEF V
<1> QED
  BY <1>6, <1>7 DEF u, both

LEMMA ChainText ==
  ASSUME Recording, NEW segs, NEW a, NEW e, NEW mid \in [1..Words -> Int], Chain(segs, a, e, mid)
  PROVE  FlattenSeq(TextsOf(segs)) = SaidText(a, e)
<1> DEFINE N == Len(segs)
<1>1. PICK cut : Cuts(segs, cut, a, e, mid)
  BY DEF Chain
<1>2. /\ segs \in Seq(TextPiece) /\ cut[0] = a /\ cut[N] = e
      /\ \A i \in 1..N : cut[i - 1] < cut[i] /\ segs[i] = Part(cut[i - 1], cut[i], mid)
  BY <1>1 DEF Cuts
<1>3. /\ a \in 0..Words /\ e \in 0..Words /\ N \in Nat
      /\ \A n \in 0..N : cut[n] \in 0..Words /\ a <= cut[n] /\ cut[n] <= e
  BY <1>1, CutsRise
<1>4. PICK f : Flattens(f, Sign, TextsOf(segs))
  BY <1>2, TextsAreTexts, FlattenRuns
<1>5. Len(TextsOf(segs)) = N /\ \A i \in 1..N : TextsOf(segs)[i] = segs[i].text
  BY <1>2, TextsAreTexts
<1> HIDE DEF N
<1> DEFINE P == {n \in 0..N : f[n] = SaidText(a, cut[n])}
<1>6. 0 \in P
  <2>1. SaidText(a, a) = <<>>
    <3>1. a <= a /\ 0 \in 0..N
      BY <1>3, WordsAreTexts
    <3> QED
      BY <3>1, <1>3, StretchesJoin
  <2> QED
    BY <2>1, <1>2, <1>3, <1>4 DEF Flattens
<1>7. ASSUME NEW n \in 1..N, n - 1 \in P PROVE n \in P
  <2> DEFINE x == cut[n - 1]
             y == cut[n]
  <2>1. n - 1 \in 0..N /\ n \in 0..N
    BY <1>3
  <2>2. x \in 0..Words /\ y \in 0..Words /\ a <= x /\ x <= y /\ segs[n] = Part(x, y, mid)
    <3>1. x \in 0..Words /\ y \in 0..Words /\ a <= x /\ x < y /\ segs[n] = Part(x, y, mid) /\ Words \in Nat
      BY <2>1, <1>2, <1>3, WordsAreTexts
    <3> HIDE DEF x, y
    <3> QED
      BY <3>1
  <2>3. f[n] = f[n - 1] \o TextsOf(segs)[n] /\ f[n - 1] = SaidText(a, x)
    BY <1>4, <1>5, <1>7 DEF Flattens
  <2> HIDE DEF x, y
  <2>4. TextsOf(segs)[n] = SaidText(x, y)
    BY <2>2, <1>5, PartIsPiece
  <2>5. SaidText(a, x) \o SaidText(x, y) = SaidText(a, y)
    BY <2>2, <1>3, StretchesJoin
  <2> QED
    BY <2>1, <2>3, <2>4, <2>5 DEF y
<1> HIDE DEF P
<1>8. \A n \in 0..N : n \in P
  BY <1>3, <1>6, <1>7, CountingUp
<1>9. N \in P
  BY <1>3, <1>8
<1> QED
  BY <1>2, <1>4, <1>5, <1>9 DEF P, Flattens

(* The first and the last segment, and the others.                          *)
LEMMA ChainEnds ==
  ASSUME Recording, NEW segs, NEW a, NEW e, NEW mid \in [1..Words -> Int], Chain(segs, a, e, mid), segs # <<>>
  PROVE  /\ \E c \in 0..Words : c < e /\ a <= c /\ Last(segs) = Part(c, e, mid)
         /\ \E d \in 0..Words : a < d /\ d <= e /\ segs[1] = Part(a, d, mid) /\ Chain(Tail(segs), d, e, mid)
<1> DEFINE N == Len(segs)
<1>1. PICK cut : Cuts(segs, cut, a, e, mid)
  BY DEF Chain
<1>2. /\ segs \in Seq(TextPiece) /\ cut \in [0..N -> 0..Words] /\ cut[0] = a /\ cut[N] = e
      /\ \A i \in 1..N : cut[i - 1] < cut[i] /\ segs[i] = Part(cut[i - 1], cut[i], mid)
  BY <1>1 DEF Cuts
<1>3. /\ a \in 0..Words /\ e \in 0..Words
      /\ \A n \in 0..N : cut[n] \in 0..Words /\ a <= cut[n] /\ cut[n] <= e
  BY <1>1, CutsRise
<1>4. N \in Nat \ {0}
  BY <1>2, EmptySeq
<1>5. Last(segs) = segs[N]
  BY DEF Last
<1>6. /\ Tail(segs) \in Seq(TextPiece) /\ Len(Tail(segs)) = N - 1 /\ \A i \in 1..(N - 1) : Tail(segs)[i] = segs[i + 1]
  BY <1>2, <1>4, HeadTailProperties
<1> HIDE DEF N
<1>7. \E c \in 0..Words : c < e /\ a <= c /\ Last(segs) = Part(c, e, mid)
  <2>1. N - 1 \in 0..N /\ N \in 1..N
    BY <1>4
  <2>2. cut[N - 1] \in 0..Words /\ cut[N - 1] < e /\ a <= cut[N - 1] /\ segs[N] = Part(cut[N - 1], e, mid)
    BY <2>1, <1>2, <1>3
  <2> QED
    BY <2>2, <1>5
<1>8. \E d \in 0..Words : a < d /\ d <= e /\ segs[1] = Part(a, d, mid) /\ Chain(Tail(segs), d, e, mid)
  <2> DEFINE d == cut[1]
             rest == Tail(segs)
             cut2 == [n \in 0..(N - 1) |-> cut[n + 1]]
  <2>1. 1 \in 1..N /\ 1 \in 0..N /\ 1 - 1 = 0
    BY <1>4
  <2>2. d \in 0..Words /\ a < d /\ d <= e /\ segs[1] = Part(a, d, mid)
    BY <2>1, <1>2, <1>3
  <2>3. /\ cut2 \in [0..(N - 1) -> 0..Words] /\ cut2[0] = d /\ cut2[N - 1] = e
        /\ \A n \in 0..(N - 1) : cut2[n] = cut[n + 1]
    <3>1. \A n \in 0..(N - 1) : n + 1 \in 0..N
      BY <1>4
    <3>2. cut2 \in [0..(N - 1) -> 0..Words] /\ \A n \in 0..(N - 1) : cut2[n] = cut[n + 1]
      BY <3>1, <1>2
    <3>3. 0 \in 0..(N - 1) /\ N - 1 \in 0..(N - 1) /\ 0 + 1 = 1 /\ (N - 1) + 1 = N
      BY <1>4
    <3> HIDE DEF cut2
    <3> QED
      BY <3>2, <3>3, <1>2
  <2> HIDE DEF rest, cut2
  <2>4. ASSUME NEW i \in 1..(N - 1) PROVE cut2[i - 1] < cut2[i] /\ rest[i] = Part(cut2[i - 1], cut2[i], mid)
    <3>1. i + 1 \in 1..N /\ i - 1 \in 0..(N - 1) /\ i \in 0..(N - 1) /\ (i - 1) + 1 = i /\ (i + 1) - 1 = i
      BY <1>4
    <3>2. cut2[i - 1] = cut[i] /\ cut2[i] = cut[i + 1] /\ rest[i] = segs[i + 1]
      BY <3>1, <2>3, <1>6 DEF rest
    <3>3. cut[i] < cut[i + 1] /\ segs[i + 1] = Part(cut[i], cut[i + 1], mid)
      BY <3>1, <1>2
    <3> QED
      BY <3>2, <3>3
  <2>5. Cuts(rest, cut2, d, e, mid)
    BY <2>3, <2>4, <1>6 DEF Cuts, rest
  <2>6. Chain(rest, d, e, mid)
    BY <2>5 DEF Chain
  <2> QED
    BY <2>2, <2>6 DEF rest
<1> QED
  BY <1>7, <1>8
(* What has no words is not trimmed.                                        *)
Plain(segs) ==
  segs \in Seq(TextPiece) /\ \A i \in 1..Len(segs) : segs[i].words = <<>> /\ segs[i].text # <<>>
Trimmed(segs, boundary, before) == [i \in DOMAIN segs |-> Trim(segs[i], boundary, before)]

LEMMA NoneEmpty ==
  ASSUME NEW segs \in Seq(TextPiece), \A i \in 1..Len(segs) : segs[i].text # <<>>
  PROVE  NonEmpty(segs) = segs
<1> DEFINE good == {i \in DOMAIN segs : segs[i].text # <<>>}
<1>1. 1..Len(segs) \subseteq good
  OBVIOUS
<1> HIDE DEF good
<1>2. Kept(segs, good) = segs
  BY <1>1, AllKept
<1> QED
  BY <1>2 DEF NonEmpty, good

LEMMA PlainStays ==
  ASSUME NEW segs, Plain(segs), NEW boundary, NEW before
  PROVE  NonEmpty(Trimmed(segs, boundary, before)) = segs
<1>1. segs \in Seq(TextPiece) /\ DOMAIN segs = 1..Len(segs) /\ \A i \in 1..Len(segs) : segs[i].words = <<>>
  BY DEF Plain
<1>2. \A i \in 1..Len(segs) : Trim(segs[i], boundary, before) = segs[i]
  BY <1>1 DEF Trim
<1>3. Trimmed(segs, boundary, before) = [i \in DOMAIN segs |-> segs[i]]
  BY <1>1, <1>2 DEF Trimmed
<1>4. segs = [i \in DOMAIN segs |-> segs[i]]
  BY <1>1
<1>5. NonEmpty(segs) = segs
  BY <1>1, NoneEmpty DEF Plain
<1> QED
  BY <1>3, <1>4, <1>5

LEMMA ChainParts ==
  ASSUME Recording, NEW segs, NEW a, NEW e, NEW mid \in [1..Words -> Int], Chain(segs, a, e, mid)
  PROVE  NonEmpty(segs) = segs /\ (results # "words" => Plain(segs))
<1>1. PICK cut : Cuts(segs, cut, a, e, mid)
  BY DEF Chain
<1>2. /\ segs \in Seq(TextPiece)
      /\ \A i \in 1..Len(segs) : cut[i - 1] < cut[i] /\ segs[i] = Part(cut[i - 1], cut[i], mid)
  BY <1>1 DEF Cuts
<1>3. \A n \in 0..Len(segs) : cut[n] \in 0..Words
  BY <1>1, CutsRise
<1>4. ASSUME NEW i \in 1..Len(segs)
      PROVE segs[i].text # <<>> /\ (results # "words" => segs[i].words = <<>>)
  <2>1. i \in 0..Len(segs) /\ i - 1 \in 0..Len(segs)
    BY <1>2
  <2> DEFINE x == cut[i - 1]
             y == cut[i]
  <2>2. x \in 0..Words /\ y \in 0..Words /\ x < y /\ segs[i] = Part(x, y, mid) /\ Words \in Nat
    BY <2>1, <1>2, <1>3, WordsAreTexts
  <2> HIDE DEF x, y
  <2>3. x <= y
    BY <2>2
  <2> QED
    BY <2>2, <2>3, PartIsPiece
<1>5. NonEmpty(segs) = segs
  BY <1>2, <1>4, NoneEmpty
<1> QED
  BY <1>2, <1>4, <1>5 DEF Plain

(* Trimmed segments with words are again segments in a row.                 *)
LEMMA ChainTrims ==
  ASSUME Recording, results = "words",
         NEW segs, NEW a, NEW e, NEW mid \in [1..Words -> Int], Chain(segs, a, e, mid),
         NEW lo \in 0..Words, NEW hi \in 0..Words, lo <= hi, NEW boundary, NEW before,
         OneSide(mid, boundary, before, a, e, lo, hi)
  PROVE  Chain(NonEmpty(Trimmed(segs, boundary, before)), Clamp(a, lo, hi), Clamp(e, lo, hi), mid)
<1> DEFINE N == Len(segs)
           u == Trimmed(segs, boundary, before)
           C(t) == Clamp(t, lo, hi)
<1>1. PICK cut : Cuts(segs, cut, a, e, mid)
  BY DEF Chain
<1>2. /\ segs \in Seq(TextPiece) /\ cut[0] = a /\ cut[N] = e /\ DOMAIN segs = 1..N
      /\ \A i \in 1..N : cut[i - 1] < cut[i] /\ segs[i] = Part(cut[i - 1], cut[i], mid)
  BY <1>1 DEF Cuts
<1>3. /\ a \in 0..Words /\ e \in 0..Words /\ N \in Nat /\ Words \in Nat
      /\ \A n \in 0..N : cut[n] \in 0..Words /\ a <= cut[n] /\ cut[n] <= e
  BY <1>1, CutsRise, WordsAreTexts
<1> HIDE DEF N, u, C
<1>4. ASSUME NEW i \in 1..N
      PROVE /\ cut[i - 1] \in 0..Words /\ cut[i] \in 0..Words
            /\ C(cut[i - 1]) \in 0..Words /\ C(cut[i]) \in 0..Words /\ C(cut[i - 1]) <= C(cut[i])
            /\ Trim(segs[i], boundary, before) = Part(C(cut[i - 1]), C(cut[i]), mid)
            /\ Trim(segs[i], boundary, before) \in TextPiece
            /\ Trim(segs[i], boundary, before).text # <<>> <=> C(cut[i - 1]) < C(cut[i])
  <2> DEFINE x == cut[i - 1]
             y == cut[i]
  <2>1. i \in 0..N /\ i - 1 \in 0..N
    BY <1>3
  <2>2. x \in 0..Words /\ y \in 0..Words /\ x < y /\ segs[i] = Part(x, y, mid) /\ a <= x /\ y <= e
    BY <2>1, <1>2, <1>3
  <2> HIDE DEF x, y
  <2>3. OneSide(mid, boundary, before, x, y, lo, hi)
    <3> SUFFICES ASSUME NEW t \in 1..Words, x < t, t <= y
                 PROVE (mid[t] <= boundary) = before <=> lo < t /\ t <= hi
      BY DEF OneSide
    <3>1. a < t /\ t <= e
      BY <2>2, <1>3
    <3> QED
      BY <3>1 DEF OneSide
  <2>4. /\ Trim(Part(x, y, mid), boundary, before) = Part(C(x), C(y), mid)
        /\ C(x) \in 0..Words /\ C(y) \in 0..Words /\ C(x) <= C(y)
    BY <2>2, <2>3, PartTrimmed DEF C
  <2>5. Part(C(x), C(y), mid) \in TextPiece /\ (Part(C(x), C(y), mid).text # <<>> <=> C(x) < C(y))
    BY <2>4, PartIsPiece
  <2> QED
    BY <2>2, <2>4, <2>5 DEF x, y
<1>5. u \in Seq(TextPiece) /\ Len(u) = N /\ DOMAIN u = 1..N /\ \A i \in 1..N : u[i] = Trim(segs[i], boundary, before)
  <2>1. u \in [1..N -> TextPiece] /\ \A i \in 1..N : u[i] = Trim(segs[i], boundary, before)
    BY <1>2, <1>4 DEF u, Trimmed
  <2> QED
    BY <2>1, <1>3
<1> DEFINE good == {i \in DOMAIN u : u[i].text # <<>>}
<1>6. \A i \in 1..N : i \in good <=> C(cut[i - 1]) < C(cut[i])
  BY <1>4, <1>5
<1>7. NonEmpty(u) = Kept(u, good)
  BY DEF NonEmpty
<1> HIDE DEF good
<1>8. PICK f : Keeps(f, TextPiece, u, good)
  BY <1>5, KeptRuns
<1> DEFINE P == {n \in 0..N : Chain(f[n], C(a), C(cut[n]), mid)}
<1>9. 0 \in P
  <2>1. C(a) \in 0..Words
    BY <1>3 DEF C, Clamp
  <2>2. Chain(<<>>, C(a), C(a), mid)
    BY <2>1, ChainStarts
  <2>3. f[0] = <<>> /\ cut[0] = a /\ 0 \in 0..N
    BY <1>2, <1>3, <1>8 DEF Keeps
  <2> QED
    BY <2>2, <2>3
<1>10. ASSUME NEW n \in 1..N, n - 1 \in P PROVE n \in P
  <2>1. n \in 0..N /\ f[n] = IF n \in good THEN Append(f[n - 1], u[n]) ELSE f[n - 1]
    BY <1>3, <1>5, <1>8 DEF Keeps
  <2> DEFINE x == C(cut[n - 1])
             y == C(cut[n])
  <2>2. Chain(f[n - 1], C(a), x, mid) /\ u[n] = Part(x, y, mid) /\ x \in 0..Words /\ y \in 0..Words /\ x <= y
    BY <1>4, <1>5, <1>10
  <2>3. n \in good <=> x < y
    BY <1>6
  <2> HIDE DEF x, y
  <2>4. CASE n \in good
    <3>1. Chain(Append(f[n - 1], Part(x, y, mid)), C(a), y, mid)
      BY <2>2, <2>3, <2>4, ChainGrows
    <3> QED
      BY <3>1, <2>1, <2>2, <2>4 DEF y
  <2>5. CASE n \notin good
    <3>1. x = y
      BY <2>2, <2>3, <2>5, <1>3
    <3> QED
      BY <3>1, <2>1, <2>2, <2>5 DEF y
  <2> QED
    BY <2>4, <2>5
<1> HIDE DEF P
<1>11. \A n \in 0..N : n \in P
  BY <1>3, <1>9, <1>10, CountingUp
<1>12. N \in P
  BY <1>3, <1>11
<1>13. Chain(f[N], C(a), C(e), mid)
  BY <1>2, <1>12 DEF P
<1>14. f[N] = NonEmpty(u)
  BY <1>5, <1>7, <1>8 DEF Keeps
<1> QED
  BY <1>13, <1>14 DEF u, C
(* What a chunk gives are words in a row, as one segment or two.            *)
LEMMA TimedWordsSplit ==
  ASSUME Recording, NEW a \in 0..Words, NEW b \in 0..Words, a <= b, NEW mid \in [1..Words -> Int],
         NEW i \in 1..(b - a)
  PROVE  /\ a + i \in 0..Words
         /\ SubSeq(TimedWords(a, b, mid), 1, i) = TimedWords(a, a + i, mid)
         /\ SubSeq(TimedWords(a, b, mid), i + 1, b - a) = TimedWords(a + i, b, mid)
<1> DEFINE q == TimedWords(a, b, mid)
           N == b - a
           p == SubSeq(q, 1, i)
           r == SubSeq(q, i + 1, N)
           c == a + i
<1>1. Words \in Nat /\ N \in Nat /\ i \in 1..N /\ c \in 0..Words /\ a <= c /\ c <= b /\ c - a = i /\ b - c = N - i
  BY WordsAreTexts
<1>2. q \in Seq(Heard) /\ Len(q) = N /\ \A j \in 1..N : q[j] = [token |-> said[a + j], middle |-> mid[a + j]]
  BY TimedWordsRead
<1>3. /\ TimedWords(a, c, mid) \in Seq(Heard) /\ Len(TimedWords(a, c, mid)) = c - a
      /\ \A j \in 1..(c - a) : TimedWords(a, c, mid)[j] = [token |-> said[a + j], middle |-> mid[a + j]]
      /\ TimedWords(c, b, mid) \in Seq(Heard) /\ Len(TimedWords(c, b, mid)) = b - c
      /\ \A j \in 1..(b - c) : TimedWords(c, b, mid)[j] = [token |-> said[c + j], middle |-> mid[c + j]]
  <2> HIDE DEF c
  <2> QED
    BY <1>1, TimedWordsRead
<1> HIDE DEF q, N
<1>4. p \in Seq(Heard) /\ Len(p) = i /\ \A j \in 1..i : p[j] = q[j]
  BY <1>1, <1>2
<1>5. r \in Seq(Heard) /\ Len(r) = N - i /\ \A j \in 1..(N - i) : r[j] = q[i + j]
  BY <1>1, <1>2
<1> HIDE DEF p, r
<1>6. p = TimedWords(a, c, mid)
  <2>1. \A j \in 1..i : j \in 1..N
    BY <1>1
  <2>2. \A j \in 1..i : p[j] = TimedWords(a, c, mid)[j]
    BY <2>1, <1>1, <1>2, <1>3, <1>4
  <2>3. Len(TimedWords(a, c, mid)) = i
    BY <1>1, <1>3
  <2> QED
    BY <2>2, <2>3, <1>3, <1>4, SeqEqual
<1>7. r = TimedWords(c, b, mid)
  <2>1. \A j \in 1..(N - i) : i + j \in 1..N /\ a + (i + j) = c + j
    BY <1>1
  <2>2. \A j \in 1..(N - i) : r[j] = TimedWords(c, b, mid)[j]
    <3> SUFFICES ASSUME NEW j \in 1..(N - i) PROVE r[j] = TimedWords(c, b, mid)[j]
      OBVIOUS
    <3>1. i + j \in 1..N /\ a + (i + j) = c + j /\ j \in 1..(b - c)
      BY <2>1, <1>1
    <3>2. r[j] = q[i + j] /\ q[i + j] = [token |-> said[a + (i + j)], middle |-> mid[a + (i + j)]]
      BY <3>1, <1>2, <1>5
    <3> HIDE DEF c
    <3>3. TimedWords(c, b, mid)[j] = [token |-> said[c + j], middle |-> mid[c + j]]
      BY <3>1, <1>3
    <3> QED
      BY <3>1, <3>2, <3>3
  <2>3. Len(TimedWords(c, b, mid)) = N - i
    BY <1>1, <1>3
  <2> QED
    BY <2>2, <2>3, <1>3, <1>5, SeqEqual
<1> QED
  BY <1>1, <1>6, <1>7 DEF p, r, q, N

LEMMA WordsHeard ==
  ASSUME Recording, NEW k, NEW q \in Hearings(k)
  PROVE  \E a, b \in 0..Words :
           /\ Hears(k, a, b)
           /\ a < b => q = TimedWords(a, b, HeardMiddles(k))
           /\ ~ a < b => q = <<>>
<1> DEFINE heard == {r \in (1..(Words + 1)) \X (0..Words) :
                       \A t \in 1..Words :
                         /\ Whole(k, t) => t \in r[1]..r[2]
                         /\ t \in r[1]..r[2] => Whole(k, t) \/ (results # "text" /\ Cut(k, t))}
<1>1. PICK r \in heard : q = [i \in 1..(r[2] - r[1] + 1) |-> Word(k, r[1] + i - 1)]
  BY DEF Hearings
<1> DEFINE a == r[1] - 1
           b == r[2]
<1>2. r[1] \in 1..(Words + 1) /\ r[2] \in 0..Words
  BY <1>1
<1>3. a \in 0..Words /\ b \in 0..Words /\ Words \in Nat /\ r[1] = a + 1 /\ r[2] - r[1] + 1 = b - a
  BY <1>2, WordsAreTexts
<1>4. \A t \in 1..Words :
        /\ Whole(k, t) => t \in r[1]..r[2]
        /\ t \in r[1]..r[2] => Whole(k, t) \/ (results # "text" /\ Cut(k, t))
  BY <1>1
<1> HIDE DEF a, b
<1>5. \A t \in 1..Words : t \in r[1]..r[2] <=> a < t /\ t <= b
  BY <1>2, <1>3 DEF b
<1>6. Hears(k, a, b)
  BY <1>3, <1>4, <1>5 DEF Hears
<1>7. q = [i \in 1..(b - a) |-> Word(k, (a + 1) + i - 1)]
  BY <1>1, <1>3
<1>8. ASSUME a < b PROVE q = TimedWords(a, b, HeardMiddles(k))
  <2>1. ASSUME NEW i \in 1..(b - a)
        PROVE Word(k, (a + 1) + i - 1) = [token |-> said[a + i], middle |-> HeardMiddles(k)[a + i]]
    <3>1. (a + 1) + i - 1 = a + i /\ a + i \in 1..Words
      BY <1>3
    <3> QED
      BY <3>1 DEF Word, HeardMiddles
  <2> QED
    BY <2>1, <1>7 DEF TimedWords
<1>9. ASSUME ~ a < b PROVE q = <<>>
  <2>1. 1..(b - a) = {}
    BY <1>3, <1>9
  <2> QED
    BY <2>1, <1>7
<1> QED
  BY <1>3, <1>6, <1>8, <1>9

LEMMA OnePart ==
  ASSUME Recording, NEW a \in 0..Words, NEW b \in 0..Words, a < b, NEW mid \in [1..Words -> Int]
  PROVE  Chain(<<Part(a, b, mid)>>, a, b, mid)
<1>1. Chain(Append(<<>>, Part(a, b, mid)), a, b, mid)
  BY ChainStarts, ChainGrows
<1>2. Append(<<>>, Part(a, b, mid)) = <<Part(a, b, mid)>>
  OBVIOUS
<1> QED
  BY <1>1, <1>2

LEMMA TwoOf ==
  ASSUME NEW V, NEW x \in V, NEW y \in V PROVE Append(<<x>>, y) = <<x, y>>
<1>1. <<x>> \in Seq(V) /\ <<x, y>> \in Seq(V)
  OBVIOUS
<1>2. Append(<<x>>, y) \in Seq(V) /\ Len(Append(<<x>>, y)) = 2
  BY <1>1
<1>3. \A i \in 1..2 : Append(<<x>>, y)[i] = <<x, y>>[i]
  BY <1>1
<1> QED
  BY <1>1, <1>2, <1>3, SeqEqual

LEMMA ResultsAreChains ==
  ASSUME Recording, NEW a \in 0..Words, NEW b \in 0..Words, a < b, NEW mid \in [1..Words -> Int],
         NEW current \in FromResult(TimedWords(a, b, mid))
  PROVE  /\ Chain(current, a, b, mid) /\ current # <<>>
         /\ results = "text" => current = <<Part(a, b, mid)>>
<1> DEFINE q == TimedWords(a, b, mid)
<1>1. Words \in Nat /\ a <= b
  BY WordsAreTexts
<1>2. q \in Seq(Heard) /\ Len(q) = b - a /\ q # <<>>
  <2>1. q \in Seq(Heard) /\ Len(q) = b - a
    BY <1>1, TimedWordsRead
  <2>2. b - a # 0
    BY <1>1
  <2> HIDE DEF q
  <2> QED
    BY <2>1, <2>2, EmptySeq
<1>3. ASSUME NEW x \in 0..Words, NEW y \in 0..Words, x <= y
      PROVE Segment(TimedWords(x, y, mid)) = Part(x, y, mid)
  <2>1. Flat(TimedWords(x, y, mid)) = SaidText(x, y)
    BY <1>3, TimedWordsRead
  <2> QED
    BY <2>1 DEF Segment, Part
<1>4. Segment(q) = Part(a, b, mid)
  BY <1>1, <1>3
<1> HIDE DEF q
<1>5. CASE current = <<Segment(q)>>
  <2>1. Chain(<<Part(a, b, mid)>>, a, b, mid)
    BY OnePart
  <2>2. <<Part(a, b, mid)>> # <<>>
    OBVIOUS
  <2> QED
    BY <2>1, <2>2, <1>4, <1>5
<1>6. CASE current # <<Segment(q)>>
  <2>1. results # "text" /\ \E i \in 1..(Len(q) - 1) :
          current = <<Segment(SubSeq(q, 1, i)), Segment(SubSeq(q, i + 1, Len(q)))>>
    BY <1>2, <1>6 DEF FromResult, q
  <2>2. PICK i \in 1..(Len(q) - 1) :
          current = <<Segment(SubSeq(q, 1, i)), Segment(SubSeq(q, i + 1, Len(q)))>>
    BY <2>1
  <2>3. i \in 1..(b - a) /\ a + i < b /\ a < a + i /\ a <= a + i /\ a + i <= b /\ Len(q) = b - a
    BY <1>1, <1>2
  <2> DEFINE c == a + i
  <2>4. /\ c \in 0..Words /\ SubSeq(q, 1, i) = TimedWords(a, c, mid)
        /\ SubSeq(q, i + 1, Len(q)) = TimedWords(c, b, mid)
    <3>1. /\ a + i \in 0..Words
          /\ SubSeq(TimedWords(a, b, mid), 1, i) = TimedWords(a, a + i, mid)
          /\ SubSeq(TimedWords(a, b, mid), i + 1, b - a) = TimedWords(a + i, b, mid)
      BY <2>3, <1>1, TimedWordsSplit
    <3>2. SubSeq(q, i + 1, Len(q)) = SubSeq(q, i + 1, b - a)
      BY <2>3
    <3> QED
      BY <3>1, <3>2 DEF q
  <2>5. a < c /\ c < b /\ a <= c /\ c <= b
    BY <2>3
  <2> HIDE DEF c
  <2>6. current = <<Part(a, c, mid), Part(c, b, mid)>>
    BY <2>2, <2>4, <2>5, <1>3
  <2>7. Chain(<<Part(a, c, mid)>>, a, c, mid)
    BY <2>4, <2>5, OnePart
  <2>8. Chain(Append(<<Part(a, c, mid)>>, Part(c, b, mid)), a, b, mid)
    BY <2>4, <2>5, <2>7, ChainGrows
  <2>9. Append(<<Part(a, c, mid)>>, Part(c, b, mid)) = <<Part(a, c, mid), Part(c, b, mid)>>
    BY <2>4, <2>5, PartIsPiece, TwoOf
  <2>10. <<Part(a, c, mid), Part(c, b, mid)>> # <<>>
    OBVIOUS
  <2> QED
    BY <2>1, <2>6, <2>8, <2>9, <2>10
<1> QED
  BY <1>5, <1>6

LEMMA NothingFromSilence ==
  ASSUME NEW current \in FromResult(<<>>) PROVE current = <<>>
BY DEF FromResult
-----------------------------------------------------------------------------
(* Overlaps.                                                                *)
LEMMA OverlapsWithin ==
  ASSUME NEW S, NEW l \in Seq(S), NEW r \in Seq(S), NEW n \in Int
  PROVE  n \in Overlaps(l, r) <=>
           /\ 1 <= n /\ n <= Len(l) /\ n <= Len(r) /\ n <= MaxChars
           /\ SubSeq(l, Len(l) - n + 1, Len(l)) = SubSeq(r, 1, n)
<1> DEFINE X == {Len(l), Len(r), MaxChars}
           x0 == Min(X)
           Same == SubSeq(l, Len(l) - n + 1, Len(l)) = SubSeq(r, 1, n)
<1>1. /\ X \subseteq Nat /\ X # {} /\ Len(l) \in X /\ Len(r) \in X /\ MaxChars \in X
      /\ \A x \in X : x = Len(l) \/ x = Len(r) \/ x = MaxChars
  BY ChunkAssumption
<1>2. n \in Overlaps(l, r) <=> n \in 1..x0 /\ Same
  BY DEF Overlaps
<1> HIDE DEF X, Same
<1>3. PICK x \in X : \A y \in X : x <= y
  BY <1>1, Lowest
<1>4. x0 \in X /\ \A y \in X : x0 <= y
  BY <1>3 DEF Min
<1> HIDE DEF x0
<1>5. n \in 1..x0 <=> 1 <= n /\ n <= Len(l) /\ n <= Len(r) /\ n <= MaxChars
  BY <1>1, <1>4
<1> QED
  BY <1>2, <1>5 DEF Same

LEMMA RemovedIsLongest ==
  ASSUME NEW S, NEW l \in Seq(S), NEW r \in Seq(S)
  PROVE  /\ Removed(l, r) \in Nat
         /\ Removed(l, r) = 0 \/ Removed(l, r) \in Overlaps(l, r)
         /\ \A n \in Overlaps(l, r) : n <= Removed(l, r) /\ n \in Nat
<1> DEFINE O == Overlaps(l, r)
           Y == {0} \cup O
           N == Len(l)
<1>1. \A n \in O : n \in Int
  BY DEF Overlaps
<1>2. \A n \in O : 1 <= n /\ n <= N
  BY <1>1, OverlapsWithin
<1> HIDE DEF O
<1>3. N \in Nat
  OBVIOUS
<1> HIDE DEF N
<1>4. Y \subseteq 0..N /\ Y # {} /\ 0 \in Y /\ O \subseteq Y
  BY <1>1, <1>2, <1>3
<1> HIDE DEF Y
<1>5. Max(Y) \in Y /\ \A y \in Y : Max(Y) >= y
  BY <1>3, <1>4, Highest
<1>6. Removed(l, r) = Max(Y)
  BY DEF Removed, Y, O
<1>7. Max(Y) \in Nat /\ (Max(Y) = 0 \/ Max(Y) \in O)
  BY <1>3, <1>4, <1>5 DEF Y
<1>8. \A n \in O : n <= Max(Y) /\ n \in Nat
  BY <1>4, <1>5, <1>7, <1>3
<1> QED
  BY <1>6, <1>7, <1>8 DEF O

LEMMA NothingRemoved ==
  ASSUME NEW S, NEW l \in Seq(S), NEW seg \in TextPiece, S = Sign, Overlaps(l, seg.text) = {}
  PROVE  RemoveOverlap(l, seg) = seg
<1>1. seg.text \in Seq(S)
  BY DEF TextPiece
<1>2. Removed(l, seg.text) = 0
  BY <1>1, RemovedIsLongest
<1> QED
  BY <1>2 DEF RemoveOverlap

\* The next segments after a chunk that comes after the first k.
Becomes(segs, k, next, q) ==
  \E current \in FromResult(q) :
    next = IF segs = <<>> \/ current = <<>> THEN segs \o current
           ELSE Reconcile(segs, current, EndOf(k) + StartOf(k + 1))
Follow(segs, k, next) == \E q \in Hearings(k + 1) : Becomes(segs, k, next, q)

Adds(segs, k, next, a, b) ==
  \E current :
    /\ Chain(current, a, b, HeardMiddles(k + 1)) /\ current # <<>> /\ current \in Seq(TextPiece)
    /\ results = "text" => current = <<Part(a, b, HeardMiddles(k + 1))>>
    /\ next = IF segs = <<>> THEN current ELSE Reconcile(segs, current, EndOf(k) + StartOf(k + 1))

LEMMA ChunkAdds ==
  ASSUME Recording, NEW k \in Nat, NEW segs \in Seq(TextPiece), NEW next, Follow(segs, k, next),
         HeardMiddles(k + 1) \in [1..Words -> Int]
  PROVE  \E a, b \in 0..Words :
           /\ Hears(k + 1, a, b)
           /\ a < b => Adds(segs, k, next, a, b)
           /\ ~ a < b => next = segs /\ \A t \in 1..Words : ~Whole(k + 1, t)
<1> DEFINE mid == HeardMiddles(k + 1)
<1>1. PICK q \in Hearings(k + 1) : Becomes(segs, k, next, q)
  BY DEF Follow
<1>2. PICK current \in FromResult(q) :
        next = IF segs = <<>> \/ current = <<>> THEN segs \o current
               ELSE Reconcile(segs, current, EndOf(k) + StartOf(k + 1))
  BY <1>1 DEF Becomes
<1>3. PICK a \in 0..Words, b \in 0..Words :
           /\ Hears(k + 1, a, b)
           /\ a < b => q = TimedWords(a, b, mid)
           /\ ~ a < b => q = <<>>
  BY WordsHeard
<1> HIDE DEF mid
<1>4. mid \in [1..Words -> Int] /\ Words \in Nat
  BY WordsAreTexts DEF mid
<1>5. ASSUME a < b PROVE Adds(segs, k, next, a, b)
  <2>1. /\ Chain(current, a, b, mid) /\ current # <<>>
        /\ results = "text" => current = <<Part(a, b, mid)>>
    BY <1>2, <1>3, <1>4, <1>5, ResultsAreChains
  <2>2. current \in Seq(TextPiece)
    BY <2>1, ChainRises
  <2>3. <<>> \o current = current
    BY <2>2, ConcatEmptySeq
  <2>4. next = IF segs = <<>> THEN current ELSE Reconcile(segs, current, EndOf(k) + StartOf(k + 1))
    BY <2>1, <2>3, <1>2
  <2> QED
    BY <2>1, <2>2, <2>4 DEF Adds, mid
<1>6. ASSUME ~ a < b PROVE next = segs /\ \A t \in 1..Words : ~Whole(k + 1, t)
  <2>1. current = <<>>
    BY <1>2, <1>3, <1>6, NothingFromSilence
  <2>2. segs \o <<>> = segs
    BY ConcatEmptySeq
  <2>3. ASSUME NEW t \in 1..Words, Whole(k + 1, t) PROVE FALSE
    <3>1. a < t /\ t <= b
      BY <2>3, <1>3 DEF Hears
    <3> QED
      BY <3>1, <1>4, <1>6
  <2> QED
    BY <2>1, <2>2, <2>3, <1>2
<1> QED
  BY <1>3, <1>5, <1>6

LEMMA FirstAndRest ==
  ASSUME NEW S, NEW s \in Seq(S), s # <<>>
  PROVE  <<s[1]>> \o Tail(s) = s /\ s[1] \in S /\ Tail(s) \in Seq(S)
<1>1. s = <<Head(s)>> \o Tail(s) /\ Head(s) = s[1] /\ Head(s) \in S /\ Tail(s) \in Seq(S)
  BY HeadTailProperties
<1> QED
  BY <1>1

(* TextsOf that share nothing have no overlap.                                *)
LEMMA NoneIfApart ==
  ASSUME Recording, ~Repeats(Spoken), NEW a \in 0..Words, NEW b \in 0..Words, NEW c \in 0..Words, a <= b, b <= c
  PROVE  Overlaps(SaidText(a, b), SaidText(b, c)) = {}
<1> SUFFICES ASSUME NEW n \in Overlaps(SaidText(a, b), SaidText(b, c)) PROVE FALSE
  OBVIOUS
<1>1. /\ Pos(a) \in Nat /\ Pos(b) \in Nat /\ Pos(c) \in Nat /\ Pos(b) <= Len(Spoken) /\ Pos(c) <= Len(Spoken)
      /\ Pos(b) <= Pos(b)
  BY Positions
<1>2. n <= Pos(b) - Pos(b)
  BY <1>1, OverlapIsShared DEF SaidText
<1>3. n \in Int /\ 1 <= n
  <2>1. SaidText(a, b) \in Seq(Sign) /\ SaidText(b, c) \in Seq(Sign)
    <3>1. c <= c
      BY WordsAreTexts
    <3> QED
      BY <3>1, StretchesJoin
  <2>2. n \in Int
    BY DEF Overlaps
  <2> QED
    BY <2>1, <2>2, OverlapsWithin
<1> QED
  BY <1>1, <1>2, <1>3

(* Timed words: the segments are in a row from the first word on.           *)
WordsIn(segs, k) ==
  \E m, e \in 0..Words :
    /\ Completes(m, HeardTo(k)) /\ m <= e
    /\ \E mid : mid = Middles(m, HeardTo(k)) /\ Chain(segs, 0, e, mid)

LEMMA WordsFollowOn ==
  ASSUME Recording, ~Repeats(Spoken), OverlapsAreShort, results = "words",
         NEW k \in Nat, k + 1 \in Chunks, NEW segs, WordsIn(segs, k), k = 0 => segs = <<>>,
         NEW next, Follow(segs, k, next)
  PROVE  WordsIn(next, k + 1)
<1> DEFINE S == StartOf(k + 1)
           X == HeardTo(k)
           X2 == EndOf(k + 1)
<1>1. Times(k, S, X, X2)
  BY TimesOfChunk
<1> HIDE DEF S, X, X2
<1>2. S \in Nat /\ X \in Nat /\ X2 \in Nat /\ X2 = HeardTo(k + 1)
  BY <1>1 DEF Times
<1>3. PICK m \in 0..Words, e \in 0..Words : Completes(m, X) /\ m <= e /\ Chain(segs, 0, e, Middles(m, X))
  BY DEF WordsIn, X
<1>4. PICK m2 : Completes(m2, X2)
  BY <1>2, SomeAreComplete
<1> DEFINE old == Middles(m, X)
           new == Middles(m2, X2)
           mid == HeardMiddles(k + 1)
<1>5. /\ m2 \in 0..Words /\ m <= m2 /\ (k = 0 => m = 0)
      /\ \A t \in 1..Words : t > m => Begin(t) >= S
  BY <1>1, <1>3, <1>4, ChunkFollows
<1>6. /\ mid \in [1..Words -> Int] /\ old \in [1..Words -> Int] /\ new \in [1..Words -> Int]
      /\ \A t \in 1..Words : Begin(t) >= S => mid[t] = new[t]
      /\ \A t \in 1..Words : t <= m => old[t] = new[t]
  BY <1>1, <1>3, <1>4, MiddlesHeard
<1> SUFFICES \E e2 \in 0..Words : m2 <= e2 /\ Chain(next, 0, e2, new)
  BY <1>2, <1>4, <1>5 DEF WordsIn
<1> HIDE DEF old, new, mid
<1>9. Words \in Nat /\ 0 \in 0..Words
  BY WordsAreTexts
<1>10. segs \in Seq(TextPiece) /\ (segs # <<>> => 0 < e) /\ (segs = <<>> => 0 = e) /\ Chain(segs, 0, e, old)
  <2>1. Chain(segs, 0, e, old)
    BY <1>3 DEF old
  <2> QED
    BY <2>1, ChainRises
<1>8. PICK a \in 0..Words, b \in 0..Words :
           /\ Hears(k + 1, a, b)
           /\ a < b => Adds(segs, k, next, a, b)
           /\ ~ a < b => next = segs /\ \A t \in 1..Words : ~Whole(k + 1, t)
  BY <1>6, <1>10, ChunkAdds DEF mid
<1>11. CASE ~ a < b
  <2>1. next = segs
    BY <1>8, <1>11
  <2>2. \A t \in 1..Words : ~Whole(k + 1, t)
    BY <1>8, <1>11
  <2>3. m = Words /\ m2 = Words
    BY <1>1, <1>3, <1>4, <2>2, SilenceIsTheEnd
  <2>4. e = Words
    BY <2>3, <1>3, <1>9
  <2>5. \A t \in 1..Words : 0 < t /\ t <= e => old[t] = new[t]
    BY <2>3, <1>6, <1>9
  <2>6. Chain(segs, 0, e, new)
    BY <2>5, <1>6, <1>10, ChainAgain
  <2> QED
    BY <2>1, <2>3, <2>4, <2>6, <1>9
<1>12. CASE a < b
  <2>1. PICK current :
          /\ Chain(current, a, b, mid)
          /\ next = IF segs = <<>> THEN current ELSE Reconcile(segs, current, EndOf(k) + StartOf(k + 1))
    BY <1>8, <1>12 DEF Adds, mid
  <2>2. /\ a <= m /\ m2 <= b
    BY <1>1, <1>3, <1>4, <1>8, <1>12, HearsNoGap
  <2>3. CASE segs = <<>>
    <3>1. m = 0 /\ a = 0
      BY <2>2, <2>3, <1>3, <1>9, <1>10
    <3>2. \A t \in 1..Words : a < t /\ t <= b => mid[t] = new[t]
      BY <3>1, <1>5, <1>6, <1>9
    <3>3. Chain(current, a, b, new)
      BY <3>2, <2>1, <1>6, ChainAgain
    <3>4. next = current
      BY <2>1, <2>3
    <3> QED
      BY <3>1, <3>3, <3>4, <2>2
  <2>4. CASE segs # <<>>
    <3>1. k \in Nat \ {0} /\ EndOf(k) + StartOf(k + 1) = X + S
      BY <2>4 DEF X, S, HeardTo
    <3>2. next = Reconcile(segs, current, X + S)
      BY <3>1, <2>1, <2>4
    <3>3. PICK p \in 0..Words :
            /\ a <= p /\ p <= m
            /\ \A t \in 1..Words : old[t] <= X + S <=> t <= p
            /\ \A t \in 1..Words : a < t => (mid[t] <= X + S <=> t <= p)
            /\ \A t \in 1..Words : p < t => mid[t] = new[t]
      <4>1. Completes(m, X) /\ Completes(m2, X2) /\ Hears(k + 1, a, b)
        BY <1>3, <1>4, <1>8
      <4>2. PICK p \in 0..Words : SplitsAt(p, k, S, X, X2, m, m2, a)
        BY <4>1, <3>1, <1>1, <1>12, BoundarySplits
      <4> QED
        BY <4>2 DEF SplitsAt, old, mid, new
    <3> DEFINE left == NonEmpty(Trimmed(segs, X + S, TRUE))
               right == NonEmpty(Trimmed(current, X + S, FALSE))
    <3>4. Chain(left, 0, p, new)
      <4>1. OneSide(old, X + S, TRUE, 0, e, 0, p)
        BY <3>3, <1>9 DEF OneSide
      <4>2. 0 <= p /\ Clamp(0, 0, p) = 0 /\ Clamp(e, 0, p) = p
        BY <3>3, <1>3, <1>9 DEF Clamp
      <4>3. Chain(left, Clamp(0, 0, p), Clamp(e, 0, p), old)
        BY <4>1, <4>2, <1>6, <1>9, <1>10, ChainTrims
      <4> HIDE DEF left
      <4>4. \A t \in 1..Words : 0 < t /\ t <= p => old[t] = new[t]
        BY <3>3, <1>6, <1>9
      <4> QED
        BY <4>2, <4>3, <4>4, <1>6, ChainAgain
    <3>5. Chain(right, p, b, new)
      <4>1. OneSide(mid, X + S, FALSE, a, b, p, Words)
        BY <3>3, <1>9 DEF OneSide
      <4>2. p <= Words /\ Words \in 0..Words /\ Clamp(a, p, Words) = p /\ Clamp(b, p, Words) = b
        BY <3>3, <2>2, <1>5, <1>9 DEF Clamp
      <4>3. Chain(right, Clamp(a, p, Words), Clamp(b, p, Words), mid)
        BY <4>1, <4>2, <2>1, <1>6, ChainTrims
      <4> HIDE DEF right
      <4>4. \A t \in 1..Words : p < t /\ t <= b => mid[t] = new[t]
        BY <3>3
      <4> QED
        BY <4>2, <4>3, <4>4, <1>6, ChainAgain
    <3>6. next = IF left = <<>> \/ right = <<>> THEN left \o right
                 ELSE left \o NonEmpty(<<RemoveOverlap(Last(left).text, right[1])>> \o Tail(right))
      BY <3>2 DEF Reconcile, Trimmed
    <3> HIDE DEF left, right
    <3>7. ASSUME left # <<>>, right # <<>>
          PROVE NonEmpty(<<RemoveOverlap(Last(left).text, right[1])>> \o Tail(right)) = right
      <4>1. PICK c \in 0..Words : c < p /\ Last(left) = Part(c, p, new)
        BY <3>4, <3>7, <1>6, ChainEnds
      <4>2. PICK d \in 0..Words : p < d /\ right[1] = Part(p, d, new)
        BY <3>5, <3>7, <1>6, ChainEnds
      <4>3. c <= p /\ p <= d
        BY <4>1, <4>2, <1>9
      <4>4. /\ Last(left).text = SaidText(c, p) /\ right[1].text = SaidText(p, d) /\ right[1] \in TextPiece
            /\ SaidText(c, p) \in Seq(Sign)
        <5>1. SaidText(c, p) \in Seq(Sign)
          BY <4>3, StretchesJoin
        <5> QED
          BY <5>1, <4>1, <4>2, <4>3, <1>6, PartIsPiece
      <4>5. Overlaps(SaidText(c, p), SaidText(p, d)) = {}
        BY <4>3, NoneIfApart
      <4>6. RemoveOverlap(Last(left).text, right[1]) = right[1]
        BY <4>4, <4>5, NothingRemoved
      <4>7. right \in Seq(TextPiece) /\ <<right[1]>> \o Tail(right) = right
        <5>1. right \in Seq(TextPiece)
          BY <3>5, ChainRises
        <5> QED
          BY <5>1, <3>7, FirstAndRest
      <4>8. NonEmpty(right) = right
        BY <3>5, <1>6, ChainParts
      <4> QED
        BY <4>6, <4>7, <4>8
    <3>8. next = left \o right
      BY <3>6, <3>7
    <3>9. Chain(left \o right, 0, b, new)
      BY <3>4, <3>5, ChainJoins
    <3> QED
      BY <3>8, <3>9, <2>2
  <2> QED
    BY <2>3, <2>4
<1> QED
  BY <1>11, <1>12
(* One segment, kept or not; and several.                                   *)
LEMMA TextOfOne ==
  ASSUME NEW x \in TextPiece
  PROVE  FlattenSeq(TextsOf(<<x>>)) = x.text /\ <<x>> \in Seq(TextPiece) /\ Last(<<x>>) = x
<1>1. <<x>> \in Seq(TextPiece) /\ Len(<<x>>) = 1 /\ <<x>>[1] = x
  OBVIOUS
<1>2. /\ TextsOf(<<x>>) \in Seq(Seq(Sign)) /\ Len(TextsOf(<<x>>)) = 1 /\ TextsOf(<<x>>)[1] = x.text
  <2>1. 1 \in 1..Len(<<x>>)
    BY <1>1
  <2> QED
    BY <1>1, <2>1, TextsAreTexts
<1>3. PICK f : Flattens(f, Sign, TextsOf(<<x>>))
  BY <1>2, FlattenRuns
<1>4. f[0] = <<>> /\ f[1] = f[0] \o TextsOf(<<x>>)[1] /\ FlattenSeq(TextsOf(<<x>>)) = f[1]
  <2>1. 1 \in 1..1 /\ 1 - 1 = 0
    OBVIOUS
  <2> QED
    BY <1>2, <1>3, <2>1 DEF Flattens
<1>5. <<>> \o x.text = x.text
  <2>1. x.text \in Seq(Sign)
    BY DEF TextPiece
  <2> QED
    BY <2>1, ConcatEmptySeq
<1>6. Last(<<x>>) = x
  BY <1>1 DEF Last
<1> QED
  BY <1>1, <1>2, <1>4, <1>5, <1>6

LEMMA NonEmptyRuns ==
  ASSUME NEW segs \in Seq(TextPiece), \A i \in 1..Len(segs) : segs[i].words = <<>>
  PROVE  /\ Plain(NonEmpty(segs))
         /\ FlattenSeq(TextsOf(NonEmpty(segs))) = FlattenSeq(TextsOf(segs))
         /\ segs # <<>> /\ Last(segs).text # <<>> =>
              NonEmpty(segs) # <<>> /\ Last(NonEmpty(segs)) = Last(segs)
<1> DEFINE N == Len(segs)
           good == {i \in DOMAIN segs : segs[i].text # <<>>}
<1>1. /\ N \in Nat /\ DOMAIN segs = 1..N /\ \A i \in 1..N : segs[i] \in TextPiece
      /\ \A i \in 1..N : i \in good <=> segs[i].text # <<>>
      /\ \A i \in 1..N : segs[i].words = <<>>
  OBVIOUS
<1>2. NonEmpty(segs) = Kept(segs, good)
  BY DEF NonEmpty
<1> HIDE DEF good
<1>3. PICK f : Keeps(f, TextPiece, segs, good)
  BY KeptRuns
<1>4. PICK g : Flattens(g, Sign, TextsOf(segs))
  BY TextsAreTexts, FlattenRuns
<1>5. /\ f[0] = <<>> /\ (\A n \in 1..N : f[n] = IF n \in good THEN Append(f[n - 1], segs[n]) ELSE f[n - 1])
      /\ (\A n \in 0..N : f[n] \in Seq(TextPiece)) /\ Kept(segs, good) = f[N]
  BY <1>3 DEF Keeps
<1>6. /\ g[0] = <<>> /\ (\A n \in 1..N : g[n] = g[n - 1] \o segs[n].text) /\ (\A n \in 0..N : g[n] \in Seq(Sign))
      /\ FlattenSeq(TextsOf(segs)) = g[N]
  <2>1. Len(TextsOf(segs)) = N /\ \A n \in 1..N : TextsOf(segs)[n] = segs[n].text
    BY TextsAreTexts
  <2> QED
    BY <2>1, <1>4 DEF Flattens
<1> HIDE DEF N
<1> DEFINE P == {n \in 0..N : Plain(f[n]) /\ FlattenSeq(TextsOf(f[n])) = g[n]}
<1>7. 0 \in P
  <2>1. Plain(<<>>)
    <3>1. <<>> \in Seq(TextPiece) /\ 1..Len(<<>>) = {}
      OBVIOUS
    <3> QED
      BY <3>1 DEF Plain
  <2>2. TextsOf(<<>>) = <<>>
    BY DEF TextsOf
  <2> QED
    BY <2>1, <2>2, <1>1, <1>5, <1>6, NothingFlat
<1>8. ASSUME NEW n \in 1..N, n - 1 \in P PROVE n \in P
  <2> DEFINE q == f[n - 1]
             x == segs[n]
  <2>1. n \in 0..N /\ n - 1 \in 0..N /\ x \in TextPiece /\ x.words = <<>> /\ q \in Seq(TextPiece) /\ Plain(q)
        /\ FlattenSeq(TextsOf(q)) = g[n - 1] /\ g[n] = g[n - 1] \o x.text
    <3>1. n \in 0..N /\ n - 1 \in 0..N
      BY <1>1
    <3>2. Plain(q) /\ FlattenSeq(TextsOf(q)) = g[n - 1]
      BY <1>8
    <3>3. x \in TextPiece /\ x.words = <<>>
      BY <1>1
    <3>4. q \in Seq(TextPiece)
      BY <3>1, <1>5
    <3>5. g[n] = g[n - 1] \o x.text
      BY <1>6
    <3> QED
      BY <3>1, <3>2, <3>3, <3>4, <3>5
  <2>2. f[n] = IF n \in good THEN Append(q, x) ELSE q
    BY <1>5
  <2>3. n \in good <=> x.text # <<>>
    BY <1>1
  <2> HIDE DEF q, x
  <2>4. CASE n \in good
    <3>1. Append(q, x) = q \o <<x>> /\ <<x>> \in Seq(TextPiece)
      BY <2>1, AppendIsConcat
    <3>2. FlattenSeq(TextsOf(q \o <<x>>)) = FlattenSeq(TextsOf(q)) \o x.text
      BY <2>1, <3>1, TextsOfJoined, TextOfOne
    <3>3. Plain(Append(q, x))
      <4>1. /\ Append(q, x) \in Seq(TextPiece) /\ Len(Append(q, x)) = Len(q) + 1 /\ Append(q, x)[Len(q) + 1] = x
            /\ \A i \in 1..Len(q) : Append(q, x)[i] = q[i]
        BY <2>1, AppendProperties
      <4>2. Len(q) \in Nat /\ \A i \in 1..(Len(q) + 1) : i \in 1..Len(q) \/ i = Len(q) + 1
        BY <2>1
      <4>3. \A i \in 1..Len(q) : q[i].words = <<>> /\ q[i].text # <<>>
        BY <2>1 DEF Plain
      <4> QED
        BY <4>1, <4>2, <4>3, <2>1, <2>3, <2>4 DEF Plain
    <3> QED
      BY <3>1, <3>2, <3>3, <2>1, <2>2, <2>4
  <2>5. CASE n \notin good
    <3>1. g[n] = g[n - 1]
      <4>1. g[n - 1] \o <<>> = g[n - 1]
        BY <2>1, <1>6, ConcatEmptySeq
      <4> QED
        BY <4>1, <2>1, <2>3, <2>5
    <3> QED
      BY <3>1, <2>1, <2>2, <2>5
  <2> QED
    BY <2>4, <2>5
<1> HIDE DEF P
<1>9. \A n \in 0..N : n \in P
  BY <1>1, <1>7, <1>8, CountingUp
<1>10. N \in P
  BY <1>1, <1>9
<1>11. ASSUME segs # <<>>, Last(segs).text # <<>>
       PROVE NonEmpty(segs) # <<>> /\ Last(NonEmpty(segs)) = Last(segs)
  <2>1. Last(segs) = segs[N] /\ N \in 1..N /\ N - 1 \in 0..N
    <3>1. N # 0
      BY <1>11, EmptySeq DEF N
    <3> QED
      BY <3>1, <1>1 DEF Last, N
  <2>2. NonEmpty(segs) = Append(f[N - 1], segs[N]) /\ f[N - 1] \in Seq(TextPiece) /\ segs[N] \in TextPiece
    BY <2>1, <1>1, <1>2, <1>5, <1>11
  <2> DEFINE q == f[N - 1]
             x == segs[N]
  <2> HIDE DEF q, x
  <2>3. /\ Append(q, x) # <<>> /\ Len(Append(q, x)) = Len(q) + 1 /\ Append(q, x)[Len(q) + 1] = x
    BY <2>2, AppendProperties DEF q, x
  <2>4. Last(Append(q, x)) = x
    BY <2>3 DEF Last
  <2> QED
    BY <2>1, <2>2, <2>3, <2>4 DEF q, x
<1> QED
  BY <1>2, <1>5, <1>6, <1>10, <1>11 DEF P

\* A lone segment goes when it has no text.
LEMMA EmptyGoes ==
  ASSUME NEW x \in TextPiece, x.text = <<>> PROVE NonEmpty(<<x>>) = <<>>
<1> DEFINE good == {i \in DOMAIN <<x>> : <<x>>[i].text # <<>>}
<1>1. <<x>> \in Seq(TextPiece) /\ Len(<<x>>) = 1 /\ 1 \notin good
  OBVIOUS
<1>2. NonEmpty(<<x>>) = Kept(<<x>>, good)
  BY DEF NonEmpty
<1> HIDE DEF good
<1>3. PICK f : Keeps(f, TextPiece, <<x>>, good)
  BY <1>1, KeptRuns
<1>4. 1 \in 1..1 /\ 1 - 1 = 0
  OBVIOUS
<1>5. f[0] = <<>> /\ f[1] = f[0] /\ Kept(<<x>>, good) = f[1]
  BY <1>1, <1>3, <1>4 DEF Keeps
<1> QED
  BY <1>2, <1>5

LEMMA LastOfJoined ==
  ASSUME NEW S, NEW p \in Seq(S), NEW q \in Seq(S), q # <<>>
  PROVE  p \o q # <<>> /\ Last(p \o q) = Last(q)
<1>1. Len(q) \in Nat \ {0} /\ Len(p) \in Nat
  BY EmptySeq
<1>2. /\ p \o q \in Seq(S) /\ Len(p \o q) = Len(p) + Len(q)
      /\ \A i \in 1..(Len(p) + Len(q)) : (p \o q)[i] = IF i <= Len(p) THEN p[i] ELSE q[i - Len(p)]
  BY ConcatProperties
<1>3. (p \o q)[Len(p) + Len(q)] = q[Len(q)]
  <2>1. Len(p) + Len(q) \in 1..(Len(p) + Len(q)) /\ ~ Len(p) + Len(q) <= Len(p) /\ (Len(p) + Len(q)) - Len(p) = Len(q)
    BY <1>1
  <2> QED
    BY <2>1, <1>2
<1>4. p \o q # <<>>
  <2>1. Len(p \o q) # 0
    BY <1>1, <1>2
  <2> QED
    BY <2>1, <1>2, EmptySeq
<1> QED
  BY <1>2, <1>3, <1>4 DEF Last

LEMMA TailOfOne ==
  ASSUME NEW S, NEW x \in S PROVE <<x>>[1] = x /\ Tail(<<x>>) = <<>>
<1>1. <<x>> \in Seq(S) /\ <<x>> # <<>> /\ Len(<<x>>) = 1 /\ <<x>>[1] = x
  OBVIOUS
<1>2. Tail(<<x>>) \in Seq(S) /\ Len(Tail(<<x>>)) = Len(<<x>>) - 1
  BY <1>1, HeadTailProperties
<1>3. Len(Tail(<<x>>)) = 0
  BY <1>1, <1>2
<1> QED
  BY <1>1, <1>2, <1>3, EmptySeq
-----------------------------------------------------------------------------
(* One text per chunk: what two texts share is removed.                     *)
NoMiddles == [t \in 1..Words |-> 0]

LEMMA MiddlesDoNotMatter ==
  ASSUME results # "words", NEW a, NEW b, NEW mid
  PROVE  Part(a, b, mid) = Part(a, b, NoMiddles)
BY DEF Part

LEMMA SuffixOf ==
  ASSUME NEW S, NEW s \in Seq(S), NEW o \in Nat, NEW n \in Nat, Len(s) = o + n
  PROVE  /\ SubSeq(s, o + 1, o + n) \in Seq(S) /\ Len(SubSeq(s, o + 1, o + n)) = n
         /\ \A i \in 1..n : SubSeq(s, o + 1, o + n)[i] = s[o + i]
<1> DEFINE first == o + 1
           last == o + n
           part == SubSeq(s, first, last)
<1>1. first \in Int /\ last \in Int /\ last - first + 1 = n /\ (first <= last <=> n # 0)
  OBVIOUS
<1>2. \A i \in first..last : s[i] \in S
  OBVIOUS
<1>3. \A i \in 1..n : first + i - 1 = o + i
  OBVIOUS
<1> HIDE DEF first, last
<1>4. /\ part \in Seq(S) /\ Len(part) = (IF first <= last THEN last - first + 1 ELSE 0)
      /\ \A i \in 1..(last - first + 1) : part[i] = s[first + i - 1]
  BY <1>1, <1>2, SubSeqProperties
<1> HIDE DEF part
<1>5. part \in Seq(S) /\ Len(part) = n /\ \A i \in 1..n : part[i] = s[o + i]
  BY <1>1, <1>3, <1>4
<1> QED
  BY <1>5 DEF part, first, last

LEMMA SharedIsRemoved ==
  ASSUME Recording, ~Repeats(Spoken), NEW j \in 0..Words, NEW a \in 0..Words, NEW m \in 0..Words, NEW b \in 0..Words,
         j <= a, a <= m, m <= b, Pos(m) - Pos(a) <= MaxChars
  PROVE  /\ Removed(SaidText(j, m), SaidText(a, b)) = Pos(m) - Pos(a)
         /\ SubSeq(SaidText(a, b), Pos(m) - Pos(a) + 1, Len(SaidText(a, b))) = SaidText(m, b)
<1> DEFINE T == Spoken
           l == SaidText(j, m)
           r == SaidText(a, b)
           pj == Pos(j)
           pa == Pos(a)
           pm == Pos(m)
           pb == Pos(b)
           n == pm - pa
<1>1. T \in Seq(Sign) /\ Len(T) \in Nat /\ Words \in Nat
  BY WordsAreTexts
<1>2. pj \in Nat /\ pa \in Nat /\ pm \in Nat /\ pb \in Nat /\ pj <= pa /\ pa <= pm /\ pm <= pb /\ pb <= Len(T)
  <2>1. (j = a \/ j < a) /\ (a = m \/ a < m) /\ (m = b \/ m < b)
    BY <1>1
  <2> QED
    BY <2>1, Positions
<1>3. l = SubSeq(T, pj + 1, pm) /\ r = SubSeq(T, pa + 1, pb) /\ SaidText(m, b) = SubSeq(T, pm + 1, pb)
  BY DEF SaidText
<1> HIDE DEF T, l, r, pj, pa, pm, pb
<1>4. /\ l \in Seq(Sign) /\ Len(l) = pm - pj /\ (\A i \in 1..(pm - pj) : l[i] = T[pj + i])
      /\ r \in Seq(Sign) /\ Len(r) = pb - pa /\ (\A i \in 1..(pb - pa) : r[i] = T[pa + i])
  BY <1>1, <1>2, <1>3
<1>5. n \in Nat /\ n <= Len(l) /\ n <= Len(r) /\ n <= MaxChars
  BY <1>2, <1>4 DEF pm, pa
<1>6. ASSUME n # 0 PROVE n \in Overlaps(l, r)
  <2> DEFINE u == SubSeq(l, Len(l) - n + 1, Len(l))
             v == SubSeq(r, 1, n)
             o == Len(l) - n
  <2>1. o \in Nat /\ Len(l) = o + n /\ pj + o = pa
    BY <1>2, <1>4, <1>5
  <2>2. u \in Seq(Sign) /\ Len(u) = n /\ \A i \in 1..n : u[i] = l[o + i]
    <3> HIDE DEF o, n
    <3>1. SubSeq(l, o + 1, o + n) \in Seq(Sign) /\ Len(SubSeq(l, o + 1, o + n)) = n
          /\ \A i \in 1..n : SubSeq(l, o + 1, o + n)[i] = l[o + i]
      BY <2>1, <1>4, <1>5, SuffixOf
    <3>2. u = SubSeq(l, o + 1, o + n)
      BY <2>1 DEF o
    <3> QED
      BY <3>1, <3>2
  <2>3. v \in Seq(Sign) /\ Len(v) = n /\ \A i \in 1..n : v[i] = r[i]
    BY <1>4, <1>5
  <2>4. ASSUME NEW i \in 1..n PROVE u[i] = v[i]
    <3>1. o + i \in 1..(pm - pj) /\ i \in 1..(pb - pa) /\ pj + (o + i) = pa + i
      BY <2>1, <1>2, <1>4, <1>5
    <3>2. l[o + i] = T[pj + (o + i)] /\ r[i] = T[pa + i]
      BY <3>1, <1>4
    <3> QED
      BY <3>1, <3>2, <2>2, <2>3
  <2> HIDE DEF u, v, o
  <2>5. u = v
    BY <2>2, <2>3, <2>4, SeqEqual
  <2>6. n \in Int /\ 1 <= n
    BY <1>5, <1>6
  <2> QED
    BY <2>5, <2>6, <1>4, <1>5, OverlapsWithin DEF u, v
<1>7. \A x \in Overlaps(l, r) : x <= n
  <2> SUFFICES ASSUME NEW x \in Overlaps(SubSeq(Spoken, pj + 1, pm), SubSeq(Spoken, pa + 1, pb)) PROVE x <= n
    BY <1>3 DEF T
  <2>1. pm <= Len(Spoken) /\ pb <= Len(Spoken)
    BY <1>1, <1>2 DEF T
  <2> QED
    BY <2>1, <1>2, OverlapIsShared
<1>8. Removed(l, r) = n
  <2>1. /\ Removed(l, r) \in Nat /\ (Removed(l, r) = 0 \/ Removed(l, r) \in Overlaps(l, r))
        /\ \A x \in Overlaps(l, r) : x <= Removed(l, r)
    BY <1>4, RemovedIsLongest
  <2> HIDE DEF n
  <2> QED
    BY <2>1, <1>5, <1>6, <1>7
<1>9. SubSeq(r, n + 1, Len(r)) = SaidText(m, b)
  <2> DEFINE u == SubSeq(r, n + 1, Len(r))
             v == SubSeq(T, pm + 1, pb)
  <2>1. u \in Seq(Sign) /\ Len(u) = pb - pm /\ \A i \in 1..(pb - pm) : u[i] = r[n + i]
    <3>1. n \in Nat /\ Len(r) \in Nat /\ n <= Len(r) /\ Len(r) - n = pb - pm
      BY <1>2, <1>4, <1>5
    <3> HIDE DEF n
    <3>2. u \in Seq(Sign) /\ Len(u) = Len(r) - n /\ \A i \in 1..(Len(r) - n) : u[i] = r[n + i]
      BY <3>1, <1>4
    <3> QED
      BY <3>1, <3>2
  <2>2. v \in Seq(Sign) /\ Len(v) = pb - pm /\ \A i \in 1..(pb - pm) : v[i] = T[pm + i]
    BY <1>1, <1>2
  <2>3. ASSUME NEW i \in 1..(pb - pm) PROVE u[i] = v[i]
    <3>1. n + i \in 1..(pb - pa) /\ pa + (n + i) = pm + i
      BY <1>2
    <3>2. r[n + i] = T[pa + (n + i)]
      BY <3>1, <1>4
    <3> QED
      BY <3>1, <3>2, <2>1, <2>2
  <2> HIDE DEF u, v
  <2>4. u = v
    BY <2>1, <2>2, <2>3, SeqEqual
  <2> QED
    BY <2>4, <1>3 DEF u, v
<1> QED
  BY <1>8, <1>9 DEF l, r, pm, pa

LEMMA OverlapRemoved ==
  ASSUME Recording, results # "words", ~Repeats(Spoken), NEW mid \in [1..Words -> Int],
         NEW j \in 0..Words, NEW a \in 0..Words, NEW m \in 0..Words, NEW b \in 0..Words,
         j <= a, a <= m, m <= b, Pos(m) - Pos(a) <= MaxChars
  PROVE  RemoveOverlap(SaidText(j, m), Part(a, b, mid)) = Part(m, b, mid)
<1> DEFINE n == Pos(m) - Pos(a)
           seg == Part(a, b, mid)
           l == SaidText(j, m)
<1>1. Removed(l, SaidText(a, b)) = n /\ SubSeq(SaidText(a, b), n + 1, Len(SaidText(a, b))) = SaidText(m, b)
  BY SharedIsRemoved
<1>2. seg = [text |-> SaidText(a, b), words |-> <<>>] /\ Part(m, b, mid) = [text |-> SaidText(m, b), words |-> <<>>]
  BY DEF Part
<1>3. ASSUME n = 0 PROVE m = a
  <2>1. a < m => Pos(a) < Pos(m)
    BY Positions
  <2>2. Words \in Nat /\ Pos(a) \in Nat /\ Pos(m) \in Nat
    BY WordsAreTexts, Positions
  <2> QED
    BY <2>1, <2>2, <1>3
<1> HIDE DEF n, seg, l
<1>4. seg.text = SaidText(a, b) /\ seg.words = <<>>
  BY <1>2
<1>5. CASE n = 0
  <2>1. RemoveOverlap(l, seg) = seg
    BY <1>1, <1>4, <1>5 DEF RemoveOverlap
  <2> QED
    BY <2>1, <1>3, <1>5 DEF seg, l
<1>6. CASE n # 0
  <2>1. RemoveOverlap(l, seg) = [seg EXCEPT !.text = SubSeq(@, n + 1, Len(@))]
    BY <1>1, <1>4, <1>6 DEF RemoveOverlap
  <2> DEFINE y == SubSeq(seg.text, n + 1, Len(seg.text))
  <2>2. [seg EXCEPT !.text = SubSeq(@, n + 1, Len(@))] = [text |-> SaidText(m, b), words |-> <<>>]
    <3>1. y = SaidText(m, b)
      BY <1>1, <1>4
    <3> HIDE DEF y
    <3>2. [seg EXCEPT !.text = y] = [text |-> y, words |-> <<>>]
      BY <1>2
    <3> QED
      BY <3>1, <3>2 DEF y
  <2> QED
    BY <2>1, <2>2, <1>2 DEF seg, l
<1> QED
  BY <1>5, <1>6

(* The words in an overlap fit in max_chars.                                *)
LEMMA OverlapFits ==
  ASSUME Recording, OverlapsAreShort, NEW k \in Nat \ {0}, NEW S, NEW X, NEW X2, Times(k, S, X, X2),
         NEW a \in 0..Words, NEW m \in 0..Words, a <= m, Completes(m, X),
         a < m => Begin(a + 1) >= S
  PROVE  Pos(m) - Pos(a) <= MaxChars
<1>1. Words \in Nat \ {0} /\ WordLength \in Nat \ {0} /\ MaxChars \in Nat /\ OverlapLength \in Nat
  BY WordsFollow, ChunkAssumption
<1>2. CASE a = m
  <2>1. Pos(a) \in Nat
    BY Positions
  <2> QED
    BY <1>1, <1>2, <2>1
<1>3. CASE a < m
  <2> DEFINE n == m - a
             q == SubSeq(said, a + 1, m)
  <2>1. a + 1 \in 1..Words /\ m \in 1..Words /\ n \in Nat /\ n >= 1 /\ a \in Nat /\ m \in Nat /\ m <= Words
    BY <1>1, <1>3
  <2>2. S \in Nat /\ X \in Nat /\ X <= S + OverlapLength
    <3>1. /\ S \in Nat /\ X \in Nat
          /\ X = (IF S + OverlapLength <= Length THEN S + OverlapLength ELSE Length)
      BY DEF Times
    <3>2. Length \in Nat
      BY WordsFollow
    <3> QED
      BY <3>1, <3>2, <1>1
  <2>3. Begin(m) + WordLength <= X /\ Begin(a + 1) >= S
    BY <2>1, <1>1, <1>3 DEF Completes
  <2>4. Begin(m) + WordLength - Begin(a + 1) = n * WordLength
    <3> DEFINE x == m - 1
    <3>1. a \in Nat /\ x \in Nat /\ (a + 1) - 1 = a /\ m - 1 = x /\ n = x - a + 1 /\ a <= x
      BY <2>1, <1>3
    <3>2. offset \in Nat
      BY WordsFollow
    <3>3. Begin(m) = offset + x * WordLength /\ Begin(a + 1) = offset + a * WordLength
      BY <3>1 DEF Begin
    <3> HIDE DEF x, n
    <3>4. \A y, z \in Nat : y * WordLength \in Nat /\ (y + z) * WordLength = y * WordLength + z * WordLength
      BY <1>1
    <3>5. n \in Nat /\ x + 1 = a + n
      BY <2>1, <3>1
    <3>6. (x + 1) * WordLength = x * WordLength + 1 * WordLength /\ (a + n) * WordLength = a * WordLength + n * WordLength
      BY <3>1, <3>4, <3>5
    <3>7. 1 * WordLength = WordLength /\ x * WordLength \in Nat /\ a * WordLength \in Nat /\ n * WordLength \in Nat
      BY <1>1, <3>1, <3>4, <3>5
    <3> QED
      BY <3>2, <3>3, <3>5, <3>6, <3>7, <1>1
  <2>5. n * WordLength <= OverlapLength
    <3>1. Begin(m) \in Nat /\ Begin(a + 1) \in Nat
      BY <2>1, WordsFollow
    <3> QED
      BY <3>1, <2>2, <2>3, <2>4, <1>1
  <2>6. n \in 1..OverlapLength
    <3> HIDE DEF n
    <3>1. n <= n * WordLength /\ n * WordLength \in Nat
      BY <2>1, <1>1
    <3> QED
      BY <3>1, <2>1, <2>5, <1>1
  <2>7. q \in [1..n -> Token]
    <3>1. said \in [1..Words -> Token]
      BY DEF Recording
    <3>2. said \in Seq(Token) /\ Len(said) = Words
      BY <3>1, <1>1
    <3>3. q = [i \in 1..(m - (a + 1) + 1) |-> said[i + (a + 1) - 1]]
      BY <2>1
    <3>4. m - (a + 1) + 1 = n /\ \A i \in 1..n : i + (a + 1) - 1 \in 1..Words
      BY <2>1, <1>1
    <3> HIDE DEF n, q
    <3>5. \A i \in 1..n : said[i + (a + 1) - 1] \in Token
      BY <3>1, <3>4
    <3> QED
      BY <3>3, <3>4, <3>5
  <2>8. FlattenSeq(q) = SaidText(a, m) /\ Len(SaidText(a, m)) = Pos(m) - Pos(a)
    BY <2>1, StretchOfWords
  <2> HIDE DEF n, q
  <2>9. Len(FlattenSeq(q)) <= MaxChars
    BY <2>5, <2>6, <2>7 DEF OverlapsAreShort
  <2> QED
    BY <2>8, <2>9
<1> QED
  BY <1>1, <1>2, <1>3
\* One text per chunk: the last one has all that the next chunk hears again.
TextsIn(segs, k) ==
  \E m \in 0..Words :
    /\ Completes(m, HeardTo(k)) /\ Chain(segs, 0, m, NoMiddles)
    /\ segs # <<>> => \E j \in 0..Words :
         /\ j < m /\ Last(segs).text = SaidText(j, m)
         /\ \A t \in 1..Words : t <= m /\ Begin(t) >= StartOf(k + 1) => j < t

LEMMA PlainOne ==
  ASSUME Recording, results # "words", NEW a \in 0..Words, NEW b \in 0..Words, a < b
  PROVE  /\ Chain(<<Part(a, b, NoMiddles)>>, a, b, NoMiddles) /\ Plain(<<Part(a, b, NoMiddles)>>)
         /\ <<Part(a, b, NoMiddles)>> # <<>> /\ <<Part(a, b, NoMiddles)>> \in Seq(TextPiece)
         /\ Last(<<Part(a, b, NoMiddles)>>).text = SaidText(a, b)
         /\ NonEmpty(<<Part(a, b, NoMiddles)>>) = <<Part(a, b, NoMiddles)>>
<1>1. NoMiddles \in [1..Words -> Int]
  BY DEF NoMiddles
<1>2. Chain(<<Part(a, b, NoMiddles)>>, a, b, NoMiddles)
  BY <1>1, OnePart
<1>3. a <= b
  BY WordsAreTexts
<1>4. Part(a, b, NoMiddles) \in TextPiece /\ Part(a, b, NoMiddles).text = SaidText(a, b)
  BY <1>1, <1>3, PartIsPiece
<1> DEFINE x == Part(a, b, NoMiddles)
<1> HIDE DEF x
<1>5. <<x>> \in Seq(TextPiece) /\ <<x>> # <<>> /\ Last(<<x>>) = x
  BY <1>4, TextOfOne DEF x
<1>6. Plain(<<x>>) /\ NonEmpty(<<x>>) = <<x>>
  BY <1>1, <1>2, ChainParts DEF x
<1> QED
  BY <1>2, <1>4, <1>5, <1>6 DEF x

LEMMA TextsFollowOn ==
  ASSUME Recording, ~Repeats(Spoken), OverlapsAreShort, results = "text",
         NEW k \in Nat, k + 1 \in Chunks, NEW segs, TextsIn(segs, k), k = 0 => segs = <<>>,
         NEW next, Follow(segs, k, next)
  PROVE  TextsIn(next, k + 1)
<1> DEFINE S == StartOf(k + 1)
           X == HeardTo(k)
           X2 == EndOf(k + 1)
           S2 == StartOf((k + 1) + 1)
           mid == HeardMiddles(k + 1)
<1>1. Times(k, S, X, X2) /\ S2 = StartOf(k + 2)
  <2>1. (k + 1) + 1 = k + 2
    OBVIOUS
  <2> QED
    BY <2>1, TimesOfChunk
<1> HIDE DEF S, X, X2, S2
<1>2. /\ S \in Nat /\ X \in Nat /\ X2 \in Nat /\ X2 = HeardTo(k + 1)
      /\ S2 = S + (ChunkLength - OverlapLength)
      /\ k # 0 => X = (IF S + OverlapLength <= Length THEN S + OverlapLength ELSE Length)
  BY <1>1 DEF Times
<1>3. PICK m \in 0..Words :
        /\ Completes(m, X) /\ Chain(segs, 0, m, NoMiddles)
        /\ segs # <<>> => \E j \in 0..Words :
             /\ j < m /\ Last(segs).text = SaidText(j, m)
             /\ \A t \in 1..Words : t <= m /\ Begin(t) >= S => j < t
  BY DEF TextsIn, X, S
<1>4. PICK m2 : Completes(m2, X2)
  BY <1>2, SomeAreComplete
<1>5. m2 \in 0..Words /\ m <= m2 /\ (k = 0 => m = 0)
  BY <1>1, <1>3, <1>4, ChunkFollows
<1>6. mid \in [1..Words -> Int] /\ NoMiddles \in [1..Words -> Int]
  <2>1. mid \in [1..Words -> Int]
    BY <1>1, <1>3, <1>4, MiddlesHeard
  <2> QED
    BY <2>1 DEF NoMiddles
<1>7. /\ Words \in Nat /\ 0 \in 0..Words /\ WordLength \in Nat \ {0} /\ Length \in Nat
      /\ \A t \in 1..Words : Begin(t) \in Nat
  BY WordsFollow
<1>8. ChunkLength \in Nat /\ OverlapLength \in Nat /\ 2 * OverlapLength <= ChunkLength
  BY ChunkAssumption DEF OverlapsAreShort
<1> SUFFICES /\ Chain(next, 0, m2, NoMiddles)
             /\ next # <<>> => \E j \in 0..Words :
                  /\ j < m2 /\ Last(next).text = SaidText(j, m2)
                  /\ \A t \in 1..Words : t <= m2 /\ Begin(t) >= S2 => j < t
  BY <1>2, <1>4, <1>5 DEF TextsIn, S2
<1> HIDE DEF mid
<1>9. segs \in Seq(TextPiece) /\ (segs = <<>> => m = 0) /\ Plain(segs)
  BY <1>3, <1>6, ChainRises, ChainParts
<1>10. PICK a \in 0..Words, b \in 0..Words :
           /\ Hears(k + 1, a, b)
           /\ a < b => Adds(segs, k, next, a, b)
           /\ ~ a < b => next = segs /\ \A t \in 1..Words : ~Whole(k + 1, t)
  BY <1>6, <1>9, ChunkAdds DEF mid
<1>11. ASSUME segs # <<>>, m2 = m, next = segs
       PROVE \E j \in 0..Words :
               /\ j < m2 /\ Last(next).text = SaidText(j, m2)
               /\ \A t \in 1..Words : t <= m2 /\ Begin(t) >= S2 => j < t
  <2>1. PICK j \in 0..Words :
          /\ j < m /\ Last(segs).text = SaidText(j, m)
          /\ \A t \in 1..Words : t <= m /\ Begin(t) >= S => j < t
    BY <1>3, <1>11
  <2>2. \A t \in 1..Words : Begin(t) >= S2 => Begin(t) >= S
    BY <1>2, <1>7, <1>8
  <2> QED
    BY <2>1, <2>2, <1>11
<1>12. CASE ~ a < b
  <2>1. next = segs /\ \A t \in 1..Words : ~Whole(k + 1, t)
    BY <1>10, <1>12
  <2>2. m = Words /\ m2 = Words
    BY <1>1, <1>3, <1>4, <2>1, SilenceIsTheEnd
  <2> QED
    BY <2>1, <2>2, <1>3, <1>11
<1>13. CASE a < b
  <2> DEFINE x == Part(a, b, NoMiddles)
  <2>1. next = IF segs = <<>> THEN <<x>> ELSE Reconcile(segs, <<x>>, EndOf(k) + StartOf(k + 1))
    <3>1. Part(a, b, mid) = x
      BY MiddlesDoNotMatter
    <3> QED
      BY <3>1, <1>10, <1>13 DEF Adds, mid
  <2>2. a <= m /\ b = m2 /\ a + 1 \in 1..Words /\ Begin(a + 1) >= S
    <3>1. Completes(m, X) /\ Completes(m2, X2) /\ Hears(k + 1, a, b)
      BY <1>3, <1>4, <1>10
    <3>2. /\ a <= m /\ a + 1 \in 1..Words
          /\ results = "text" => b = m2 /\ Begin(a + 1) >= S
      BY <3>1, <1>1, <1>13, HearsNoGap
    <3> QED
      BY <3>2
  <2>3. /\ Chain(<<x>>, a, b, NoMiddles) /\ Plain(<<x>>) /\ <<x>> # <<>> /\ <<x>> \in Seq(TextPiece)
        /\ Last(<<x>>).text = SaidText(a, b)
    BY <1>13, PlainOne
  <2>4. x \in TextPiece /\ x.text = SaidText(a, b) /\ a <= b
    <3>1. a <= b
      BY <1>13, <1>7
    <3> QED
      BY <3>1, <1>6, PartIsPiece
  <2> HIDE DEF x
  <2>5. CASE segs = <<>>
    <3>1. a = 0 /\ next = <<x>> /\ 0 < m2
      BY <2>1, <2>2, <2>5, <1>7, <1>9, <1>13
    <3>2. \A t \in 1..Words : 0 < t
      BY <1>7
    <3> QED
      BY <3>1, <3>2, <2>2, <2>3, <1>7
  <2>6. CASE segs # <<>>
    <3>1. k \in Nat \ {0}
      BY <2>6
    <3>2. PICK j \in 0..Words :
            /\ j < m /\ Last(segs).text = SaidText(j, m)
            /\ \A t \in 1..Words : t <= m /\ Begin(t) >= S => j < t
      BY <2>6, <1>3
    <3>3. j <= a
      <4>1. CASE a = m
        BY <4>1, <3>2, <1>7
      <4>2. CASE a # m
        <5>1. a + 1 <= m
          BY <4>2, <2>2, <1>7
        <5>2. j < a + 1
          BY <5>1, <2>2, <3>2
        <5> QED
          BY <5>2, <1>7
      <4> QED
        BY <4>1, <4>2
    <3>4. Pos(m) - Pos(a) <= MaxChars
      BY <3>1, <1>1, <1>3, <2>2, OverlapFits
    <3> DEFINE y == Part(m, b, NoMiddles)
    <3>5. RemoveOverlap(Last(segs).text, x) = y
      <4>1. m <= b
        BY <2>2, <1>5
      <4>2. RemoveOverlap(SaidText(j, m), Part(a, b, NoMiddles)) = Part(m, b, NoMiddles)
        BY <4>1, <3>3, <3>4, <2>2, <1>6, OverlapRemoved
      <4> QED
        BY <4>2, <3>2 DEF x
    <3>6. y \in TextPiece /\ y.text = SaidText(m, b) /\ (y.text # <<>> <=> m < b) /\ m <= b
      BY <2>2, <1>5, <1>6, PartIsPiece
    <3> HIDE DEF y
    <3>7. next = segs \o NonEmpty(<<y>>)
      <4> DEFINE B == EndOf(k) + StartOf(k + 1)
      <4>1. NonEmpty(Trimmed(segs, B, TRUE)) = segs /\ NonEmpty(Trimmed(<<x>>, B, FALSE)) = <<x>>
        BY <1>9, <2>3, PlainStays
      <4>2. next = segs \o NonEmpty(<<RemoveOverlap(Last(segs).text, <<x>>[1])>> \o Tail(<<x>>))
        <5>1. next = Reconcile(segs, <<x>>, B)
          BY <2>1, <2>6
        <5> HIDE DEF B
        <5> QED
          BY <5>1, <4>1, <2>3, <2>6 DEF Reconcile, Trimmed
      <4>3. <<x>>[1] = x /\ Tail(<<x>>) = <<>>
        BY <2>4, TailOfOne
      <4>4. <<y>> \o <<>> = <<y>>
        BY <3>6, TextOfOne, ConcatEmptySeq
      <4> QED
        BY <4>2, <4>3, <4>4, <3>5
    <3>8. CASE m = b
      <4>1. NonEmpty(<<y>>) = <<>>
        BY <3>6, <3>8, <1>7, EmptyGoes
      <4>2. next = segs
        BY <4>1, <3>7, <1>9, ConcatEmptySeq
      <4> QED
        BY <4>2, <3>8, <2>2, <2>6, <1>3, <1>11
    <3>9. CASE m # b
      <4>1. m < b
        BY <3>6, <3>9, <1>7
      <4>2. /\ Chain(<<y>>, m, b, NoMiddles) /\ NonEmpty(<<y>>) = <<y>> /\ <<y>> # <<>> /\ <<y>> \in Seq(TextPiece)
            /\ Last(<<y>>).text = SaidText(m, b)
        BY <4>1, PlainOne DEF y
      <4>3. next = segs \o <<y>>
        BY <4>2, <3>7
      <4>4. Chain(next, 0, b, NoMiddles)
        BY <4>2, <4>3, <1>3, ChainJoins
      <4>5. Last(next).text = SaidText(m, b)
        BY <4>2, <4>3, <1>9, LastOfJoined
      <4>6. ASSUME NEW t \in 1..Words, Begin(t) >= S2 PROVE m < t
        <5> SUFFICES ASSUME t <= m PROVE FALSE
          BY <1>7
        <5>1. Begin(t) + WordLength <= X /\ Begin(t) \in Nat
          BY <1>3, <1>7 DEF Completes
        <5>2. X <= S + OverlapLength
          BY <1>2, <1>7, <1>8, <3>1
        <5>3. S2 >= S + OverlapLength
          BY <1>2, <1>8
        <5> QED
          BY <5>1, <5>2, <5>3, <4>6, <1>2, <1>7, <1>8
      <4> QED
        BY <4>1, <4>4, <4>5, <4>6, <2>2
    <3> QED
      BY <3>8, <3>9
  <2> QED
    BY <2>5, <2>6
<1> QED
  BY <1>12, <1>13
-----------------------------------------------------------------------------
(* Segments without words: what is heard to its end is found in their text. *)
SegmentsIn(segs, k) ==
  \E m, e \in 0..Words :
    /\ Completes(m, HeardTo(k)) /\ m <= e /\ Plain(segs) /\ (segs = <<>> => e = 0)
    /\ Found(Spoken, FlattenSeq(TextsOf(segs))) >= Pos(e)
    /\ segs # <<>> => \E s \in Nat : Last(segs).text = SubSeq(Spoken, s + 1, Pos(e))

LEMMA PlainJoins ==
  ASSUME NEW left, NEW right, Plain(left), Plain(right) PROVE Plain(left \o right)
<1> DEFINE N == Len(left)
           M == Len(right)
           both == left \o right
<1>1. left \in Seq(TextPiece) /\ right \in Seq(TextPiece) /\ N \in Nat /\ M \in Nat
  BY DEF Plain
<1>2. /\ both \in Seq(TextPiece) /\ Len(both) = N + M
      /\ \A i \in 1..(N + M) : both[i] = IF i <= N THEN left[i] ELSE right[i - N]
  BY <1>1, ConcatProperties
<1>3. ASSUME NEW i \in 1..(N + M) PROVE both[i].words = <<>> /\ both[i].text # <<>>
  <2>1. CASE i <= N
    <3>1. i \in 1..N
      BY <2>1, <1>1
    <3> QED
      BY <3>1, <2>1, <1>2 DEF Plain
  <2>2. CASE ~ i <= N
    <3>1. i - N \in 1..M
      BY <2>2, <1>1
    <3> QED
      BY <3>1, <2>2, <1>2 DEF Plain
  <2> QED
    BY <2>1, <2>2
<1> HIDE DEF both, N, M
<1>4. Plain(both)
  BY <1>2, <1>3 DEF Plain
<1> QED
  BY <1>4 DEF both

LEMMA SharedAtMost ==
  ASSUME Recording, ~Repeats(Spoken), results # "words", NEW mid \in [1..Words -> Int],
         NEW a \in 0..Words, NEW d \in 0..Words, NEW e \in 0..Words, a < d, a <= e, NEW s \in Nat
  PROVE  \E x \in Nat :
           /\ Pos(a) <= x /\ x <= Pos(e) /\ x <= Pos(d)
           /\ RemoveOverlap(SubSeq(Spoken, s + 1, Pos(e)), Part(a, d, mid)) =
                [text |-> SubSeq(Spoken, x + 1, Pos(d)), words |-> <<>>]
           /\ SubSeq(Spoken, x + 1, Pos(d)) \in Seq(Sign)
<1> DEFINE T == Spoken
           pa == Pos(a)
           pd == Pos(d)
           pe == Pos(e)
           l == SubSeq(Spoken, s + 1, pe)
           r == SubSeq(Spoken, pa + 1, pd)
           n == Removed(l, r)
           x == pa + n
           seg == Part(a, d, mid)
<1>1. T \in Seq(Sign) /\ Len(T) \in Nat /\ Words \in Nat
  BY WordsAreTexts
<1>2. pa \in Nat /\ pd \in Nat /\ pe \in Nat /\ pa < pd /\ pa <= pe /\ pd <= Len(T) /\ pe <= Len(T)
  <2>1. a = e \/ a < e
    BY <1>1
  <2> QED
    BY <2>1, Positions
<1>3. seg.text = r /\ seg.words = <<>> /\ seg = [text |-> r, words |-> <<>>]
  BY DEF Part, SaidText
<1>4. /\ l \in Seq(Sign)
      /\ r \in Seq(Sign) /\ Len(r) = pd - pa /\ \A i \in 1..(pd - pa) : r[i] = T[pa + i]
  <2> HIDE DEF pa, pd, pe
  <2>1. /\ l \in Seq(Sign)
        /\ r \in Seq(Sign) /\ Len(r) = (IF pa < pd THEN pd - pa ELSE 0) /\ \A i \in 1..(pd - pa) : r[i] = T[pa + i]
    BY <1>2, TextHasItsSigns
  <2> QED
    BY <2>1, <1>2
<1>5. \A i \in Overlaps(l, r) : i <= pe - pa /\ i <= Len(r)
  <2> SUFFICES ASSUME NEW i \in Overlaps(l, r) PROVE i <= pe - pa /\ i <= Len(r)
    OBVIOUS
  <2>1. i <= pe - pa
    <3> HIDE DEF pa, pd, pe
    <3> QED
      BY <1>2, OverlapIsShared
  <2>2. i \in Int
    BY DEF Overlaps
  <2>3. i <= Len(r)
    <3> HIDE DEF l, r
    <3> QED
      BY <2>2, <1>4, OverlapsWithin
  <2> QED
    BY <2>1, <2>3
<1> HIDE DEF T, pa, pd, pe, l, r, seg
<1>6. n \in Nat /\ n <= pe - pa /\ n <= pd - pa
  <2>1. n \in Nat /\ (n = 0 \/ n \in Overlaps(l, r))
    BY <1>4, RemovedIsLongest
  <2> HIDE DEF n
  <2> QED
    BY <2>1, <1>2, <1>4, <1>5
<1>7. x \in Nat /\ pa <= x /\ x <= pe /\ x <= pd
  <2> HIDE DEF n
  <2> QED
    BY <1>2, <1>6
<1> DEFINE u == SubSeq(r, n + 1, Len(r))
           v == SubSeq(T, x + 1, pd)
<1>8. u = v /\ v \in Seq(Sign)
  <2>1. Len(r) = n + (pd - x) /\ pd - x \in Nat /\ n \in Nat /\ pa + n = x
    <3> HIDE DEF n
    <3> QED
      BY <1>2, <1>4, <1>6
  <2> HIDE DEF n, x
  <2>2. SubSeq(r, n + 1, n + (pd - x)) \in Seq(Sign) /\ Len(SubSeq(r, n + 1, n + (pd - x))) = pd - x
        /\ \A i \in 1..(pd - x) : SubSeq(r, n + 1, n + (pd - x))[i] = r[n + i]
    BY <2>1, <1>4, SuffixOf
  <2>3. u \in Seq(Sign) /\ Len(u) = pd - x /\ \A i \in 1..(pd - x) : u[i] = r[n + i]
    BY <2>1, <2>2
  <2>4. v \in Seq(Sign) /\ Len(v) = pd - x /\ \A i \in 1..(pd - x) : v[i] = T[x + i]
    BY <1>1, <1>2, <1>7
  <2>5. ASSUME NEW i \in 1..(pd - x) PROVE u[i] = v[i]
    <3>1. n + i \in 1..(pd - pa) /\ pa + (n + i) = x + i
      BY <2>1, <1>2, <1>7
    <3>2. r[n + i] = T[pa + (n + i)]
      BY <3>1, <1>4
    <3> QED
      BY <3>1, <3>2, <2>3, <2>4
  <2> HIDE DEF u, v
  <2> QED
    BY <2>3, <2>4, <2>5, SeqEqual
<1>9. RemoveOverlap(l, seg) = [text |-> v, words |-> <<>>]
  <2>1. CASE n = 0
    <3>1. RemoveOverlap(l, seg) = seg
      BY <2>1, <1>3 DEF RemoveOverlap
    <3>2. SubSeq(r, 1, Len(r)) = r
      BY <1>4, SubSeqFull
    <3>3. u = r
      BY <2>1, <3>2
    <3> QED
      BY <3>1, <3>3, <1>3, <1>8
  <2>2. CASE n # 0
    <3>1. RemoveOverlap(l, seg) = [seg EXCEPT !.text = SubSeq(@, n + 1, Len(@))]
      BY <2>2, <1>3 DEF RemoveOverlap
    <3>2. SubSeq(seg.text, n + 1, Len(seg.text)) = v
      BY <1>3, <1>8
    <3> DEFINE y == SubSeq(seg.text, n + 1, Len(seg.text))
    <3>3. y = v
      BY <3>2
    <3>4. RemoveOverlap(l, seg) = [seg EXCEPT !.text = y]
      BY <3>1
    <3> HIDE DEF y, v, n
    <3>5. [seg EXCEPT !.text = y] = [text |-> y, words |-> <<>>]
      BY <1>3
    <3> QED
      BY <3>3, <3>4, <3>5
  <2> QED
    BY <2>1, <2>2
<1> HIDE DEF x, v
<1>10. x \in Nat /\ pa <= x /\ x <= pe /\ x <= pd
  BY <1>7
<1> QED
  BY <1>8, <1>9, <1>10 DEF v, T, pa, pd, pe, l, seg
LEMMA SegmentsFollowOn ==
  ASSUME Recording, ~Repeats(Spoken), OverlapsAreShort, results = "segments",
         NEW k \in Nat, k + 1 \in Chunks, NEW segs, SegmentsIn(segs, k), k = 0 => segs = <<>>,
         NEW next, Follow(segs, k, next)
  PROVE  SegmentsIn(next, k + 1)
<1> DEFINE S == StartOf(k + 1)
           X == HeardTo(k)
           X2 == EndOf(k + 1)
           mid == HeardMiddles(k + 1)
           W(q) == FlattenSeq(TextsOf(q))
           Ends(q, e) == q # <<>> => \E s \in Nat : Last(q).text = SubSeq(Spoken, s + 1, Pos(e))
<1>1. Times(k, S, X, X2)
  BY TimesOfChunk
<1> HIDE DEF S, X, X2
<1>2. X2 \in Nat /\ X2 = HeardTo(k + 1)
  BY <1>1 DEF Times
<1>3. PICK m \in 0..Words, e \in 0..Words :
        /\ Completes(m, X) /\ m <= e /\ Plain(segs) /\ (segs = <<>> => e = 0)
        /\ Found(Spoken, W(segs)) >= Pos(e) /\ Ends(segs, e)
  BY DEF SegmentsIn, X
<1>4. PICK m2 : Completes(m2, X2)
  BY <1>2, SomeAreComplete
<1>5. m2 \in 0..Words /\ m <= m2
  BY <1>1, <1>3, <1>4, ChunkFollows
<1>6. mid \in [1..Words -> Int]
  BY <1>1, <1>3, <1>4, MiddlesHeard
<1>7. Words \in Nat /\ Spoken \in Seq(Sign) /\ \A t \in 0..Words : Pos(t) \in Nat /\ Pos(t) <= Len(Spoken)
  BY WordsAreTexts, Positions
<1> SUFFICES \E e2 \in 0..Words :
               /\ m2 <= e2 /\ Plain(next) /\ (next = <<>> => e2 = 0)
               /\ Found(Spoken, W(next)) >= Pos(e2) /\ Ends(next, e2)
  BY <1>2, <1>4, <1>5 DEF SegmentsIn
<1> HIDE DEF mid, Ends, W
<1>8. segs \in Seq(TextPiece)
  BY <1>3 DEF Plain
<1>9. PICK a \in 0..Words, b \in 0..Words :
           /\ Hears(k + 1, a, b)
           /\ a < b => Adds(segs, k, next, a, b)
           /\ ~ a < b => next = segs /\ \A t \in 1..Words : ~Whole(k + 1, t)
  BY <1>6, <1>8, ChunkAdds DEF mid
<1>10. CASE ~ a < b
  <2>1. next = segs /\ \A t \in 1..Words : ~Whole(k + 1, t)
    BY <1>9, <1>10
  <2>2. m = Words /\ m2 = Words
    BY <1>1, <1>3, <1>4, <2>1, SilenceIsTheEnd
  <2> QED
    BY <2>1, <2>2, <1>3
<1>11. CASE a < b
  <2>1. PICK current :
          /\ Chain(current, a, b, mid) /\ current # <<>> /\ current \in Seq(TextPiece)
          /\ next = IF segs = <<>> THEN current ELSE Reconcile(segs, current, EndOf(k) + StartOf(k + 1))
    BY <1>9, <1>11 DEF Adds, mid
  <2>2. a <= m /\ m2 <= b
    <3>1. Completes(m, X) /\ Hears(k + 1, a, b)
      BY <1>3, <1>9
    <3> QED
      BY <3>1, <1>1, <1>4, <1>11, HearsNoGap
  <2>3. Plain(current) /\ W(current) = SaidText(a, b) /\ Ends(current, b)
    <3>1. Plain(current) /\ W(current) = SaidText(a, b)
      BY <2>1, <1>6, ChainParts, ChainText DEF W
    <3>2. PICK c \in 0..Words : c < b /\ Last(current) = Part(c, b, mid)
      BY <2>1, <1>6, ChainEnds
    <3>3. Last(current).text = SubSeq(Spoken, Pos(c) + 1, Pos(b)) /\ Pos(c) \in Nat
      <4>1. c <= b
        BY <3>2, <1>7
      <4>2. Part(c, b, mid).text = SaidText(c, b)
        BY <4>1, <1>6, PartIsPiece
      <4>3. Pos(c) \in Nat
        BY <1>7
      <4> QED
        BY <4>2, <4>3, <3>2 DEF SaidText
    <3> QED
      BY <3>1, <3>3 DEF Ends
  <2>4. CASE segs = <<>>
    <3>1. a = 0 /\ next = current
      BY <2>1, <2>2, <2>4, <1>3, <1>7
    <3>2. W(current) = <<>> \o SubSeq(Spoken, 0 + 1, Pos(b))
      <4>1. W(current) = SubSeq(Spoken, 0 + 1, Pos(b))
        BY <2>3, <3>1, Positions DEF SaidText
      <4>2. W(current) \in Seq(Sign)
        BY <2>1, TextsAreTexts DEF W
      <4> QED
        BY <4>1, <4>2, ConcatEmptySeq
    <3>3. Found(Spoken, <<>>) \in 0..Len(Spoken) /\ <<>> \in Seq(Sign)
      <4>1. <<>> \in Seq(Sign)
        OBVIOUS
      <4> QED
        BY <4>1, <1>7, FoundIsBounded
    <3>4. Found(Spoken, W(current)) >= Pos(b)
      <4>1. 0 <= Found(Spoken, <<>>) /\ 0 \in Nat /\ Pos(b) \in Nat /\ Pos(b) <= Len(Spoken)
        BY <3>3, <1>7
      <4> QED
        BY <4>1, <3>2, <3>3, <1>7, FoundGrows
    <3> QED
      BY <3>1, <3>4, <2>1, <2>2, <2>3
  <2>5. CASE segs # <<>>
    <3>1. PICK s \in Nat : Last(segs).text = SubSeq(Spoken, s + 1, Pos(e))
      BY <2>5, <1>3 DEF Ends
    <3>2. PICK d \in 0..Words : /\ a < d /\ d <= b /\ current[1] = Part(a, d, mid)
                                /\ Chain(Tail(current), d, b, mid)
      BY <2>1, <1>6, ChainEnds
    <3>3. a <= e
      BY <2>2, <1>3, <1>7
    <3>4. PICK x \in Nat :
            /\ Pos(a) <= x /\ x <= Pos(e) /\ x <= Pos(d)
            /\ RemoveOverlap(SubSeq(Spoken, s + 1, Pos(e)), Part(a, d, mid)) =
                 [text |-> SubSeq(Spoken, x + 1, Pos(d)), words |-> <<>>]
            /\ SubSeq(Spoken, x + 1, Pos(d)) \in Seq(Sign)
      BY <3>2, <3>3, <1>6, SharedAtMost
    <3> DEFINE y == [text |-> SubSeq(Spoken, x + 1, Pos(d)), words |-> <<>>]
               rest == Tail(current)
               all == <<y>> \o rest
               added == NonEmpty(all)
    <3>5. y \in TextPiece /\ y.text = SubSeq(Spoken, x + 1, Pos(d)) /\ y.words = <<>>
      <4> DEFINE text == SubSeq(Spoken, x + 1, Pos(d))
      <4>1. text \in Seq(Sign) /\ <<>> \in Seq(Heard)
        BY <3>4
      <4> HIDE DEF text
      <4>2. [text |-> text, words |-> <<>>] \in TextPiece
        BY <4>1 DEF TextPiece
      <4> QED
        BY <4>2 DEF text
    <3>6. RemoveOverlap(Last(segs).text, current[1]) = y
      BY <3>1, <3>2, <3>4
    <3> HIDE DEF y, rest
    <3>7. next = segs \o added
      <4> DEFINE B == EndOf(k) + StartOf(k + 1)
      <4>1. NonEmpty(Trimmed(segs, B, TRUE)) = segs /\ NonEmpty(Trimmed(current, B, FALSE)) = current
        BY <1>3, <2>3, PlainStays
      <4>2. next = Reconcile(segs, current, B)
        BY <2>1, <2>5
      <4> HIDE DEF B
      <4>3. next = segs \o NonEmpty(<<RemoveOverlap(Last(segs).text, current[1])>> \o Tail(current))
        BY <4>1, <4>2, <2>1, <2>5 DEF Reconcile, Trimmed
      <4> QED
        BY <4>3, <3>6 DEF rest
    <3>8. /\ <<y>> \in Seq(TextPiece) /\ rest \in Seq(TextPiece) /\ Plain(rest) /\ W(rest) = SaidText(d, b) /\ W(<<y>>) = y.text
          /\ all \in Seq(TextPiece) /\ Last(<<y>>) = y
      <4>1. rest \in Seq(TextPiece) /\ Plain(rest) /\ W(rest) = SaidText(d, b)
        BY <3>2, <1>6, ChainRises, ChainParts, ChainText DEF rest, W
      <4>2. <<y>> \in Seq(TextPiece) /\ W(<<y>>) = y.text /\ Last(<<y>>) = y
        BY <3>5, TextOfOne DEF W
      <4>3. all \in Seq(TextPiece)
        BY <4>1, <4>2, ConcatProperties
      <4> QED
        BY <4>1, <4>2, <4>3
    <3>9. W(all) = SubSeq(Spoken, x + 1, Pos(b))
      <4>1. W(all) = W(<<y>>) \o W(rest)
        BY <3>8, TextsOfJoined DEF W
      <4>2. Pos(d) <= Pos(b)
        <5>1. d = b \/ d < b
          BY <3>2, <1>7
        <5> QED
          BY <5>1, <1>7, Positions
      <4>3. x + 1 \in 1..(Len(Spoken) + 1) /\ Pos(d) \in ((x + 1) - 1)..Len(Spoken) /\ Pos(b) \in Pos(d)..Len(Spoken)
        <5>1. Pos(d) \in Nat /\ Pos(b) \in Nat /\ Pos(b) <= Len(Spoken) /\ x <= Pos(d) /\ x \in Nat
          BY <3>4, <1>7
        <5>2. Len(Spoken) \in Nat
          BY <1>7
        <5> QED
          BY <5>1, <5>2, <4>2
      <4>4. SubSeq(Spoken, x + 1, Pos(d)) \o SubSeq(Spoken, Pos(d) + 1, Pos(b)) = SubSeq(Spoken, x + 1, Pos(b))
        BY <4>3, <1>7, ConcatAdjacentSubSeq
      <4> QED
        BY <4>1, <4>4, <3>5, <3>8 DEF SaidText
    <3>10. \A i \in 1..Len(all) : all[i].words = <<>>
      <4>1. Len(<<y>>) = 1 /\ <<y>>[1] = y /\ Len(rest) \in Nat
        BY <3>8
      <4>2. Len(all) = 1 + Len(rest) /\ \A i \in 1..(1 + Len(rest)) : all[i] = IF i <= 1 THEN <<y>>[i] ELSE rest[i - 1]
        <5>1. /\ Len(all) = Len(<<y>>) + Len(rest)
              /\ \A i \in 1..(Len(<<y>>) + Len(rest)) : all[i] = IF i <= Len(<<y>>) THEN <<y>>[i] ELSE rest[i - Len(<<y>>)]
          BY <3>8, ConcatProperties
        <5> HIDE DEF all
        <5> QED
          BY <5>1, <4>1
      <4> SUFFICES ASSUME NEW i \in 1..Len(all) PROVE all[i].words = <<>>
        OBVIOUS
      <4> HIDE DEF all
      <4>3. CASE i = 1
        BY <4>1, <4>2, <4>3, <3>5
      <4>4. CASE i # 1
        <5>1. i - 1 \in 1..Len(rest) /\ all[i] = rest[i - 1]
          BY <4>1, <4>2, <4>4
        <5> QED
          BY <5>1, <3>8 DEF Plain
      <4> QED
        BY <4>3, <4>4
    <3> HIDE DEF all
    <3>11. /\ Plain(added) /\ W(added) = W(all) /\ added \in Seq(TextPiece)
           /\ all # <<>> /\ Last(all).text # <<>> => added # <<>> /\ Last(added) = Last(all)
      <4>1. /\ Plain(added) /\ W(added) = W(all)
            /\ all # <<>> /\ Last(all).text # <<>> => added # <<>> /\ Last(added) = Last(all)
        BY <3>8, <3>10, NonEmptyRuns DEF W
      <4> QED
        BY <4>1 DEF Plain
    <3> HIDE DEF added
    <3>12. Plain(next) /\ W(next) = W(segs) \o SubSeq(Spoken, x + 1, Pos(b)) /\ W(segs) \in Seq(Sign)
      <4>1. Plain(next)
        BY <3>7, <3>11, <1>3, PlainJoins
      <4>2. W(next) = W(segs) \o W(added) /\ W(segs) \in Seq(Sign)
        BY <3>7, <3>11, <1>8, TextsOfJoined, TextsAreTexts DEF W
      <4> QED
        BY <4>1, <4>2, <3>9, <3>11
    <3>13. Found(Spoken, W(next)) >= Pos(b) /\ Found(Spoken, W(next)) >= Found(Spoken, W(segs))
           /\ Found(Spoken, W(next)) \in Nat /\ Found(Spoken, W(segs)) \in Nat
      <4>1. x \in Nat /\ Pos(b) \in Nat /\ Pos(b) <= Len(Spoken)
        BY <3>4, <1>7
      <4>2. Found(Spoken, W(segs)) \in 0..Len(Spoken)
        BY <3>12, <1>7, FoundIsBounded
      <4>3. x <= Found(Spoken, W(segs))
        <5>1. Pos(e) \in Nat /\ x <= Pos(e) /\ Pos(e) <= Found(Spoken, W(segs))
          BY <3>4, <1>3, <1>7
        <5> QED
          BY <5>1, <4>1, <4>2
      <4>4. /\ Found(Spoken, W(segs) \o SubSeq(Spoken, x + 1, Pos(b))) >= Pos(b)
            /\ Found(Spoken, W(segs) \o SubSeq(Spoken, x + 1, Pos(b))) >= Found(Spoken, W(segs))
        BY <4>1, <4>3, <3>12, <1>7, FoundGrows
      <4>5. W(next) \in Seq(Sign)
        <5>1. next \in Seq(TextPiece)
          BY <3>12 DEF Plain
        <5> QED
          BY <5>1, TextsAreTexts DEF W
      <4>6. Found(Spoken, W(next)) \in 0..Len(Spoken)
        BY <4>5, <1>7, FoundIsBounded
      <4> QED
        BY <4>2, <4>4, <4>6, <3>12
    <3>14. CASE rest = <<>> /\ y.text = <<>>
      <4>1. all = <<y>>
        BY <3>14, <3>8, ConcatEmptySeq DEF all
      <4>2. next = segs
        <5>1. added = <<>>
          BY <4>1, <3>5, <3>14, EmptyGoes DEF added
        <5> QED
          BY <5>1, <3>7, <1>8, ConcatEmptySeq
      <4>3. d = b
        <5>1. Chain(<<>>, d, b, mid)
          BY <3>2, <3>14 DEF rest
        <5> QED
          BY <5>1, ChainRises
      <4>4. b <= e
        <5> SUFFICES ASSUME ~ b <= e PROVE FALSE
          OBVIOUS
        <5>1. Pos(e) < Pos(b)
          BY <1>7, Positions
        <5>2. x < Pos(b) /\ x \in Nat /\ Pos(b) \in Nat /\ Pos(b) <= Len(Spoken)
          <6>1. x \in Nat /\ Pos(e) \in Nat /\ Pos(b) \in Nat /\ x <= Pos(e)
            BY <3>4, <1>7
          <6> QED
            BY <6>1, <5>1, <1>7
        <5> DEFINE text == SubSeq(Spoken, x + 1, Pos(b))
                   size == Pos(b)
        <5>3. Len(text) = size - x
          BY <5>2, TextHasItsSigns
        <5>4. text = <<>>
          BY <4>3, <3>5, <3>14
        <5>5. x < size /\ x \in Nat /\ size \in Nat
          BY <5>2
        <5> HIDE DEF text, size
        <5>6. Len(text) = 0
          BY ONLY <5>4
        <5> QED
          BY ONLY <5>3, <5>5, <5>6
      <4>5. m2 <= e
        BY <4>4, <2>2, <1>5, <1>7
      <4> QED
        BY <4>2, <4>5, <1>3
    <3>15. CASE ~ (rest = <<>> /\ y.text = <<>>)
      <4>1. \E t \in Nat : Last(all).text = SubSeq(Spoken, t + 1, Pos(b)) /\ Last(all).text # <<>> /\ all # <<>>
        <5>1. CASE rest = <<>>
          <6>1. all = <<y>>
            BY <5>1, <3>8, ConcatEmptySeq DEF all
          <6>2. d = b
            <7>1. Chain(<<>>, d, b, mid)
              BY <3>2, <5>1 DEF rest
            <7> QED
              BY <7>1, ChainRises
          <6>3. <<y>> # <<>>
            OBVIOUS
          <6> QED
            BY <6>1, <6>2, <6>3, <5>1, <3>4, <3>5, <3>8, <3>15
        <5>2. CASE rest # <<>>
          <6>1. Last(all) = Last(rest) /\ all # <<>>
            BY <5>2, <3>8, LastOfJoined DEF all
          <6>2. PICK c \in 0..Words : c < b /\ Last(rest) = Part(c, b, mid)
            <7>1. Chain(rest, d, b, mid)
              BY <3>2 DEF rest
            <7> QED
              BY <7>1, <5>2, <1>6, ChainEnds
          <6>3. c <= b
            BY <6>2, <1>7
          <6>4. Part(c, b, mid).text = SaidText(c, b) /\ Part(c, b, mid).text # <<>>
            BY <6>2, <6>3, <1>6, PartIsPiece
          <6>5. Last(all).text = SubSeq(Spoken, Pos(c) + 1, Pos(b)) /\ Pos(c) \in Nat
            BY <6>1, <6>2, <6>4, <1>7 DEF SaidText
          <6> QED
            BY <6>1, <6>2, <6>4, <6>5
        <5> QED
          BY <5>1, <5>2
      <4>2. added # <<>> /\ Last(added) = Last(all)
        BY <4>1, <3>11
      <4>3. next # <<>> /\ Last(next) = Last(added)
        BY <4>2, <3>7, <3>11, <1>8, LastOfJoined
      <4>4. Ends(next, b)
        BY <4>1, <4>2, <4>3 DEF Ends
      <4> QED
        BY <4>3, <4>4, <3>12, <3>13, <2>2
    <3> QED
      BY <3>14, <3>15
  <2> QED
    BY <2>4, <2>5
<1> QED
  BY <1>10, <1>11
-----------------------------------------------------------------------------
(* What is said, and what the engine gives, does not change.                *)
LEMMA NothingMoves ==
  ASSUME said' = said, offset' = offset, results' = results
  PROVE  /\ Length' = Length /\ Spoken' = Spoken /\ Recording' = Recording
         /\ \A k : (HeardTo(k))' = HeardTo(k) /\ (StartOf(k))' = StartOf(k)
         /\ \A t : (Begin(t))' = Begin(t) /\ (Pos(t))' = Pos(t)
<1>1. Length' = Length /\ Spoken' = Spoken /\ Recording' = Recording
  BY DEF Length, Spoken, Recording
<1>2. \A k : (HeardTo(k))' = HeardTo(k) /\ (StartOf(k))' = StartOf(k)
  BY <1>1 DEF HeardTo, EndOf, StartOf
<1>3. \A t : (Begin(t))' = Begin(t) /\ (Pos(t))' = Pos(t)
  BY DEF Begin, Pos
<1> QED
  BY <1>1, <1>2, <1>3

LEMMA ChainsStay ==
  ASSUME said' = said, offset' = offset, results' = results, NEW segs, NEW a, NEW e, NEW mid,
         Chain(segs, a, e, mid)
  PROVE  Chain(segs, a, e, mid)'
<1>1. ASSUME NEW x, NEW y PROVE (Part(x, y, mid))' = Part(x, y, mid)
  <2>1. (SaidText(x, y))' = SaidText(x, y)
    BY DEF SaidText, Spoken, Pos
  <2>2. (TimedWords(x, y, mid))' = TimedWords(x, y, mid)
    BY DEF TimedWords
  <2> QED
    BY <2>1, <2>2 DEF Part
<1>2. PICK cut : Cuts(segs, cut, a, e, mid)
  BY DEF Chain
<1>3. Cuts(segs, cut, a, e, mid)'
  BY <1>1, <1>2 DEF Cuts
<1> QED
  BY <1>3 DEF Chain

LEMMA TimesStay ==
  ASSUME said' = said, offset' = offset, results' = results, NEW m, NEW k, NEW x
  PROVE  /\ Completes(m, HeardTo(k)) => Completes(m, HeardTo(k))'
         /\ (Middles(m, HeardTo(k)))' = Middles(m, HeardTo(k))
<1>1. (HeardTo(k))' = HeardTo(k) /\ \A t : (Begin(t))' = Begin(t)
  BY NothingMoves
<1>2. Completes(m, HeardTo(k)) => Completes(m, HeardTo(k))'
  BY <1>1 DEF Completes
<1>3. (Middles(m, HeardTo(k)))' = Middles(m, HeardTo(k))
  BY <1>1 DEF Middles
<1> QED
  BY <1>2, <1>3

LEMMA WordsStay ==
  ASSUME said' = said, offset' = offset, results' = results, NEW segs, NEW k, WordsIn(segs, k)
  PROVE  WordsIn(segs, k)'
<1>1. PICK m \in 0..Words, e \in 0..Words :
        /\ Completes(m, HeardTo(k)) /\ m <= e
        /\ \E mid : mid = Middles(m, HeardTo(k)) /\ Chain(segs, 0, e, mid)
  BY DEF WordsIn
<1> PICK mid : mid = Middles(m, HeardTo(k)) /\ Chain(segs, 0, e, mid)
  BY <1>1
<1>2. Chain(segs, 0, e, mid)'
  BY <1>1, ChainsStay
<1>3. mid = (Middles(m, HeardTo(k)))' /\ Completes(m, HeardTo(k))'
  BY <1>1, TimesStay
<1> QED
  BY <1>1, <1>2, <1>3 DEF WordsIn

LEMMA TextsStay ==
  ASSUME said' = said, offset' = offset, results' = results, NEW segs, NEW k, TextsIn(segs, k)
  PROVE  TextsIn(segs, k)'
<1>1. PICK m \in 0..Words :
        /\ Completes(m, HeardTo(k)) /\ Chain(segs, 0, m, NoMiddles)
        /\ segs # <<>> => \E j \in 0..Words :
             /\ j < m /\ Last(segs).text = SaidText(j, m)
             /\ \A t \in 1..Words : t <= m /\ Begin(t) >= StartOf(k + 1) => j < t
  BY DEF TextsIn
<1>2. Completes(m, HeardTo(k))' /\ Chain(segs, 0, m, NoMiddles)'
  BY <1>1, TimesStay, ChainsStay DEF NoMiddles
<1>3. /\ \A j : (SaidText(j, m))' = SaidText(j, m)
      /\ \A t : (Begin(t))' = Begin(t)
      /\ (StartOf(k + 1))' = StartOf(k + 1)
  BY DEF SaidText, Spoken, Pos, Begin, StartOf
<1> QED
  BY <1>1, <1>2, <1>3 DEF TextsIn

LEMMA SegmentsStay ==
  ASSUME said' = said, offset' = offset, results' = results, NEW segs, NEW k, SegmentsIn(segs, k)
  PROVE  SegmentsIn(segs, k)'
<1>1. PICK m \in 0..Words, e \in 0..Words :
        /\ Completes(m, HeardTo(k)) /\ m <= e /\ Plain(segs) /\ (segs = <<>> => e = 0)
        /\ Found(Spoken, FlattenSeq(TextsOf(segs))) >= Pos(e)
        /\ segs # <<>> => \E s \in Nat : Last(segs).text = SubSeq(Spoken, s + 1, Pos(e))
  BY DEF SegmentsIn
<1>2. Completes(m, HeardTo(k))'
  BY <1>1, TimesStay
<1>3. Spoken' = Spoken /\ (Pos(e))' = Pos(e)
  BY NothingMoves
<1>4. Found(Spoken, FlattenSeq(TextsOf(segs)))' >= (Pos(e))'
  BY <1>1, <1>3 DEF Found
<1> QED
  BY <1>1, <1>2, <1>3, <1>4 DEF SegmentsIn
-----------------------------------------------------------------------------
(* All that is heard so far is in the segments.                             *)
ChunksFollow ==
  /\ Recording /\ done \in Nat /\ (done # 0 => done \in Chunks) /\ (done = 0 => segments = <<>>)
  /\ ~Repeats(Spoken) =>
       /\ results = "words" => WordsIn(segments, done)
       /\ results = "text" => TextsIn(segments, done)
       /\ results = "segments" => SegmentsIn(segments, done)

LEMMA NothingAtFirst ==
  ASSUME ChunkInit
  PROVE  ChunksFollow
<1>1. Recording /\ done = 0 /\ segments = <<>>
  BY DEF ChunkInit, Recording
<1>2. /\ Words \in Nat /\ 0 \in 0..Words /\ WordLength \in Nat \ {0} /\ HeardTo(0) = 0
      /\ Pos(0) = 0 /\ Spoken \in Seq(Sign) /\ Length \in Nat
  BY <1>1, ChunkAssumption, WordsFollow, WordsAreTexts, Positions DEF HeardTo
<1>3. Completes(0, HeardTo(0))
  <2>1. ASSUME NEW t \in 1..Words PROVE Begin(t) \in Nat
    BY <1>1, WordsFollow
  <2>2. ASSUME NEW t \in 1..Words PROVE ~ t <= 0 /\ ~ Begin(t) + WordLength <= 0
    BY <2>1, <1>2
  <2> QED
    BY <2>2, <1>2 DEF Completes
<1>4. WordsIn(<<>>, 0)
  <2>1. PICK mid : mid = Middles(0, HeardTo(0))
    OBVIOUS
  <2>2. Chain(<<>>, 0, 0, mid)
    BY <1>1, <1>2, ChainStarts
  <2> QED
    BY <2>1, <2>2, <1>2, <1>3 DEF WordsIn
<1>5. TextsIn(<<>>, 0)
  <2>1. Chain(<<>>, 0, 0, NoMiddles)
    BY <1>1, <1>2, ChainStarts
  <2> QED
    BY <2>1, <1>2, <1>3 DEF TextsIn
<1>6. SegmentsIn(<<>>, 0)
  <2>1. Plain(<<>>) /\ TextsOf(<<>>) = <<>>
    BY DEF Plain, TextsOf
  <2>2. FlattenSeq(<<>>) \in Seq(Sign)
    <3>1. <<>> \in Seq(Seq(Sign))
      OBVIOUS
    <3> QED
      BY <3>1, FlattenIsSeq
  <2>3. Found(Spoken, FlattenSeq(<<>>)) >= 0
    BY <2>2, <1>2, FoundIsBounded
  <2> QED
    BY <2>1, <2>3, <1>2, <1>3 DEF SegmentsIn
<1> QED
  BY <1>1, <1>4, <1>5, <1>6 DEF ChunksFollow

LEMMA AllChunksHearAll ==
  ASSUME ChunksFollow, OverlapsAreShort, done + 1 \notin Chunks, NEW m, Completes(m, HeardTo(done))
  PROVE  done # 0 /\ m = Words
<1> DEFINE D == ChunkLength - OverlapLength
           S == StartOf(done + 1)
<1>1. /\ Recording /\ done \in Nat /\ (done # 0 => done \in Chunks)
  BY DEF ChunksFollow
<1>2. /\ ChunkLength \in Nat /\ OverlapLength \in Nat /\ OverlapLength > 0 /\ D \in Nat /\ D >= 1
      /\ Length \in Nat /\ Length >= 2 /\ Words \in Nat \ {0} /\ WordLength \in Nat
      /\ Begin(Words) + WordLength = Length
  BY <1>1, ChunkAssumption, WordsFollow DEF OverlapsAreShort, HalfSecond, Length, Recording, Begin
<1>3. S = done * D
  BY <1>1 DEF StartOf
<1>4. S \in Nat /\ S >= done /\ (done = 0 => S = 0)
  <2>1. \A n, d \in Nat : n * d \in Nat /\ n * (d + 1) = n * d + n
    OBVIOUS
  <2>2. D - 1 \in Nat /\ D = (D - 1) + 1
    BY <1>2
  <2> HIDE DEF D
  <2>3. done * (D - 1) \in Nat /\ done * D = done * (D - 1) + done
    BY <2>1, <2>2, <1>1
  <2> QED
    BY <2>3, <1>1, <1>2, <1>3
<1>5. ~ S + 2 <= Length \/ ~ done + 1 <= Length
  BY <1>1, <1>2, <1>4 DEF Chunks, HalfSecond
<1>6. Length <= S + 1
  BY <1>1, <1>2, <1>4, <1>5
<1>7. done # 0 /\ done - 1 \in Nat /\ (done - 1) + 1 = done /\ (done - 1) + 2 = done + 1
  BY <1>1, <1>2, <1>4, <1>6
<1>8. Times(done - 1, StartOf(done), HeardTo(done - 1), EndOf(done))
  BY <1>1, <1>7, TimesOfChunk
<1>9. /\ HeardTo(done) = (IF StartOf(done) + ChunkLength <= Length THEN StartOf(done) + ChunkLength ELSE Length)
      /\ S = StartOf(done) + D /\ StartOf(done) \in Nat
  BY <1>7, <1>8 DEF Times
<1>10. HeardTo(done) = Length
  BY <1>2, <1>4, <1>6, <1>9
<1>11. Words <= m /\ m \in 0..Words
  BY <1>2, <1>10 DEF Completes
<1> QED
  BY <1>2, <1>7, <1>11

LEMMA AllIsWritten ==
  ASSUME ChunksFollow, OverlapsAreShort
  PROVE  TextComesOut
<1> SUFFICES ASSUME done + 1 \notin Chunks, ~Repeats(Spoken)
             PROVE  IF results = "segments" THEN IsSubsequence(Spoken, Written) ELSE Written = Spoken
  BY DEF TextComesOut
<1>1. /\ Recording /\ done \in Nat
      /\ results = "words" => WordsIn(segments, done)
      /\ results = "text" => TextsIn(segments, done)
      /\ results = "segments" => SegmentsIn(segments, done)
  BY DEF ChunksFollow
<1>2. /\ results \in {"words", "text", "segments"} /\ Written = FlattenSeq(TextsOf(segments))
      /\ Words \in Nat /\ 0 \in 0..Words /\ Words <= Words
  BY <1>1, WordsAreTexts DEF Recording, Written, TextsOf
<1>3. SaidText(0, Words) = Spoken /\ Pos(Words) = Len(Spoken) /\ Spoken \in Seq(Sign)
  <2>1. Pos(0) = 0 /\ Pos(Words) = Len(Spoken) /\ Spoken \in Seq(Sign)
    BY <1>1, Positions, WordsAreTexts
  <2> QED
    BY <2>1, SubSeqFull DEF SaidText
<1>4. CASE results = "words"
  <2>1. PICK m \in 0..Words, e \in 0..Words :
          /\ Completes(m, HeardTo(done)) /\ m <= e
          /\ \E mid : mid = Middles(m, HeardTo(done)) /\ Chain(segments, 0, e, mid)
    BY <1>1, <1>4 DEF WordsIn
  <2>2. PICK mid : mid = Middles(m, HeardTo(done)) /\ Chain(segments, 0, e, mid)
    BY <2>1
  <2>3. e = Words
    BY <2>1, <1>2, AllChunksHearAll
  <2>4. mid \in [1..Words -> Int]
    <3>1. done # 0
      BY <2>1, AllChunksHearAll
    <3>2. done \in Chunks /\ done - 1 \in Nat /\ (done - 1) + 1 = done
      BY <3>1, <1>1 DEF ChunksFollow
    <3>3. HeardTo(done) \in Int
      BY <1>1, <3>2, TimesOfChunk DEF Times
    <3>4. \A t \in 1..Words : Begin(t) \in Int
      BY <1>1, WordsFollow
    <3> QED
      BY <2>2, <3>3, <3>4, ChunkAssumption DEF Middles
  <2>5. FlattenSeq(TextsOf(segments)) = SaidText(0, e)
    BY <1>1, <2>2, <2>4, ChainText
  <2> QED
    BY <2>3, <2>5, <1>2, <1>3, <1>4
<1>5. CASE results = "text"
  <2>1. PICK m \in 0..Words : Completes(m, HeardTo(done)) /\ Chain(segments, 0, m, NoMiddles)
    BY <1>1, <1>5 DEF TextsIn
  <2>2. m = Words
    BY <2>1, AllChunksHearAll
  <2>3. NoMiddles \in [1..Words -> Int]
    BY DEF NoMiddles
  <2>4. FlattenSeq(TextsOf(segments)) = SaidText(0, m)
    BY <1>1, <2>1, <2>3, ChainText
  <2> QED
    BY <2>2, <2>4, <1>2, <1>3, <1>5
<1>6. CASE results = "segments"
  <2>1. PICK m \in 0..Words, e \in 0..Words :
          /\ Completes(m, HeardTo(done)) /\ m <= e /\ Plain(segments)
          /\ Found(Spoken, FlattenSeq(TextsOf(segments))) >= Pos(e)
    BY <1>1, <1>6 DEF SegmentsIn
  <2>2. e = Words
    BY <2>1, <1>2, AllChunksHearAll
  <2>3. Written \in Seq(Sign)
    BY <1>2, <2>1, TextsAreTexts DEF Plain
  <2>4. Found(Spoken, Written) \in 0..Len(Spoken)
    BY <2>3, <1>3, FoundIsBounded
  <2>5. Found(Spoken, Written) = Len(Spoken)
    BY <2>1, <2>2, <2>4, <1>2, <1>3
  <2> QED
    BY <2>5, <1>6 DEF IsSubsequence
<1> QED
  BY <1>2, <1>4, <1>5, <1>6

LEMMA ChunkIsAdded ==
  ASSUME ChunksFollow, OverlapsAreShort, Transcribe
  PROVE  ChunksFollow'
<1>1. /\ said' = said /\ offset' = offset /\ results' = results /\ done' = done + 1 /\ done + 1 \in Chunks
      /\ Follow(segments, done, segments')
  BY DEF Transcribe, Follow, Becomes
<1>2. PICK k, segs, next : k = done /\ segs = segments /\ next = segments'
  OBVIOUS
<1>3. /\ Recording /\ k \in Nat /\ (k = 0 => segs = <<>>) /\ k + 1 \in Chunks /\ Follow(segs, k, next)
  BY <1>1, <1>2 DEF ChunksFollow
<1>4. Recording' /\ (~Repeats(Spoken))' = ~Repeats(Spoken)
  BY <1>1, <1>3 DEF Recording, Repeats, Spoken
<1>5. done' = k + 1 /\ segments' = next /\ done' \in Nat /\ done' # 0
  BY <1>1, <1>2, <1>3
<1>6. (Chunks)' = Chunks
  BY <1>1 DEF Chunks, Length, StartOf
<1>7. ASSUME ~Repeats(Spoken), results = "words" PROVE WordsIn(segments, done)'
  <2>1. WordsIn(segs, k)
    BY <1>7, <1>2 DEF ChunksFollow
  <2>2. WordsIn(next, k + 1)
    BY <2>1, <1>3, <1>7, WordsFollowOn
  <2>3. WordsIn(next, k + 1)'
    BY <2>2, <1>1, WordsStay
  <2> QED
    BY <2>3, <1>5 DEF WordsIn
<1>8. ASSUME ~Repeats(Spoken), results = "text" PROVE TextsIn(segments, done)'
  <2>1. TextsIn(segs, k)
    BY <1>8, <1>2 DEF ChunksFollow
  <2>2. TextsIn(next, k + 1)
    BY <2>1, <1>3, <1>8, TextsFollowOn
  <2>3. TextsIn(next, k + 1)'
    BY <2>2, <1>1, TextsStay
  <2> QED
    BY <2>3, <1>5 DEF TextsIn
<1>9. ASSUME ~Repeats(Spoken), results = "segments" PROVE SegmentsIn(segments, done)'
  <2>1. SegmentsIn(segs, k)
    BY <1>9, <1>2 DEF ChunksFollow
  <2>2. SegmentsIn(next, k + 1)
    BY <2>1, <1>3, <1>9, SegmentsFollowOn
  <2>3. SegmentsIn(next, k + 1)'
    BY <2>2, <1>1, SegmentsStay
  <2> QED
    BY <2>3, <1>5 DEF SegmentsIn
<1> QED
  BY <1>1, <1>3, <1>4, <1>5, <1>6, <1>7, <1>8, <1>9 DEF ChunksFollow

LEMMA NothingIsAdded ==
  ASSUME ChunksFollow, UNCHANGED chunkVars
  PROVE  ChunksFollow'
<1>1. /\ said' = said /\ offset' = offset /\ results' = results
      /\ done' = done /\ segments' = segments
  BY DEF chunkVars
<1>2. PICK k, segs : k = done /\ segs = segments
  OBVIOUS
<1>3. k = done' /\ segs = segments'
  BY <1>1, <1>2
<1>4. Recording' /\ Spoken' = Spoken /\ Repeats(Spoken)' = Repeats(Spoken) /\ Chunks' = Chunks
  BY <1>1 DEF ChunksFollow, Recording, Repeats, Spoken, Chunks, Length, StartOf
<1>5. WordsIn(segments, done) => WordsIn(segments, done)'
  <2>1. WordsIn(segs, k) => WordsIn(segs, k)'
    BY <1>1, WordsStay
  <2> QED
    BY <2>1, <1>2, <1>3 DEF WordsIn
<1>6. TextsIn(segments, done) => TextsIn(segments, done)'
  <2>1. TextsIn(segs, k) => TextsIn(segs, k)'
    BY <1>1, TextsStay
  <2> QED
    BY <2>1, <1>2, <1>3 DEF TextsIn
<1>7. SegmentsIn(segments, done) => SegmentsIn(segments, done)'
  <2>1. SegmentsIn(segs, k) => SegmentsIn(segs, k)'
    BY <1>1, SegmentsStay
  <2> QED
    BY <2>1, <1>2, <1>3 DEF SegmentsIn
<1> QED
  BY <1>1, <1>4, <1>5, <1>6, <1>7 DEF ChunksFollow

(* However the chunks of a recording overlap, as long as they are configured *)
(* and used as they are (OverlapsAreShort), and whatever the engine hears of *)
(* the words that they cut, once the last one is transcribed the meeting's   *)
(* text is what was said, if nothing was said twice in a row.                *)
THEOREM ChunksComeOut ==
  ASSUME OverlapsAreShort
  PROVE  ChunkSpec => []TextComesOut
<1>1. ChunkInit => ChunksFollow
  BY NothingAtFirst
<1>2. ChunksFollow /\ [Transcribe]_chunkVars => ChunksFollow'
  <2> SUFFICES ASSUME ChunksFollow, [Transcribe]_chunkVars PROVE ChunksFollow'
    OBVIOUS
  <2>1. CASE Transcribe
    BY <2>1, ChunkIsAdded
  <2>2. CASE UNCHANGED chunkVars
    BY <2>2, NothingIsAdded
  <2> QED
    BY <2>1, <2>2
<1>3. ChunksFollow => TextComesOut
  BY AllIsWritten
<1> QED
  BY <1>1, <1>2, <1>3, PTL DEF ChunkSpec
=============================================================================
