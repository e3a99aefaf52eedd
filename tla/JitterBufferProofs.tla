------------------------- MODULE JitterBufferProofs -------------------------
(***************************************************************************)
(* Proofs about JitterBuffer, for a table, numbers, thresholds and streams *)
(* of any size: types, and no payload leaked.                              *)
(***************************************************************************)
EXTENDS JitterBuffer, SequenceTheorems, WellFoundedInduction, TLAPS

-----------------------------------------------------------------------------
(***************************************************************************)
(* Numbers.                                                                *)
(***************************************************************************)
\* Induction up to n, on a set.
LEMMA UpTo ==
    ASSUME NEW n \in Nat, NEW T, 0 \in T, \A k \in 0 .. n - 1 : k \in T => k + 1 \in T
    PROVE  \A k \in 0 .. n : k \in T
<1> DEFINE R == OpToRel(<, Nat)
           Rest == {k \in 0 .. n : k \notin T}
<1>1. SUFFICES ASSUME Rest # {} PROVE FALSE
    BY <1>1
<1>2. IsWellFoundedOn(R, Nat)
    BY NatLessThanWellFounded
<1>3. \A x, y \in Nat : <<y, x>> \in R <=> y < x
    BY DEF OpToRel
<1>4. Rest \subseteq Nat
    OBVIOUS
<1> HIDE DEF R
<1>5. PICK k \in Rest : \A m \in Rest : ~(<<m, k>> \in R)
    <2> HIDE DEF Rest
    <2>1. QED
        BY <1>1, <1>2, <1>4, WFMin
<1>6. k \in 1 .. n /\ k - 1 \in 0 .. n - 1
    <2>1. k # 0
        OBVIOUS
    <2>2. QED
        BY <2>1
<1>7. k - 1 \notin T
    BY <1>6
<1>8. k - 1 \in Rest
    BY <1>6, <1>7
<1>9. <<k - 1, k>> \in R
    BY <1>3, <1>6
<1>10. QED
    <2> HIDE DEF Rest
    <2>1. QED
        BY <1>5, <1>8, <1>9

\* A remainder is a number below the modulus.
LEMMA ModType ==
    ASSUME NEW m \in Nat \ {0}, NEW a \in Int
    PROVE  a % m \in 0 .. m - 1
OBVIOUS

\* Sums and differences of two numbers below the modulus wrap at most once.
LEMMA ModSum ==
    ASSUME NEW m \in Nat \ {0}, NEW a \in 0 .. m - 1, NEW k \in 0 .. m - 1
    PROVE  (a + k) % m = IF a + k < m THEN a + k ELSE a + k - m
<1>1. CASE a + k < m
    BY <1>1
<1>2. CASE a + k >= m
    <2>1. a + k - m \in 0 .. m - 1
        BY <1>2
    <2>2. QED
        BY <1>2, <2>1
<1>3. QED
    BY <1>1, <1>2

LEMMA ModDifference ==
    ASSUME NEW m \in Nat \ {0}, NEW a \in 0 .. m, NEW k \in 0 .. m - 1
    PROVE  (a - k) % m = IF a - k = m THEN 0 ELSE IF a >= k THEN a - k ELSE a - k + m
<1>1. CASE a - k = m
    BY <1>1
<1>2. CASE a - k # m /\ a >= k
    BY <1>2
<1>3. CASE a < k
    BY <1>3
<1>4. QED
    BY <1>1, <1>2, <1>3

\* The constants, and what is computed from them.
LEMMA ConstantTypes ==
    /\ SeqModulus \in Nat \ {0} /\ Entries \in Nat \ {0} /\ TsModulus \in Nat \ {0}
    /\ SeqThreshold \in Nat /\ TsThreshold \in Nat /\ Tolerance \in Nat
    /\ FirstSeq \in Seqs /\ FirstTs \in Stamps /\ MaxSessions \in Nat /\ BurstMax \in Nat
    /\ Cleared \in Entry
    /\ \A s \in Int : IndexOf(s) \in Indexes
    /\ \A n \in Nat : WireSeq(n) \in Seqs
    /\ Streams \subseteq Seq([frame : Nat, kind : {"start", "inner", "bad"}])
<1>1. /\ SeqModulus \in Nat \ {0} /\ Entries \in Nat \ {0} /\ TsModulus \in Nat \ {0}
      /\ SeqThreshold \in Nat /\ TsThreshold \in Nat /\ Tolerance \in Nat
      /\ FirstSeq \in Nat /\ FirstTs \in Nat /\ MaxSessions \in Nat /\ BurstMax \in Nat
    BY ConstantsAssumption
<1>2. FirstSeq \in Seqs /\ FirstTs \in Stamps
    BY <1>1, ConstantsAssumption DEF Seqs, Stamps
<1>3. Cleared \in Entry
    BY <1>1 DEF Cleared, Entry, Seqs, Stamps, NoBuffer
<1>4. \A s \in Int : IndexOf(s) \in Indexes
    BY <1>1, ModType DEF IndexOf, Indexes
<1>5. \A n \in Nat : WireSeq(n) \in Seqs
    BY <1>1, ModType DEF WireSeq, Seqs
<1>6. QED
    BY <1>1, <1>2, <1>3, <1>4, <1>5, ConstantsAssumption

LEMMA SeqsAreInts == Seqs \subseteq Int
BY DEF Seqs

-----------------------------------------------------------------------------
(***************************************************************************)
(* A walk of the table visits consecutive numbers.                         *)
(***************************************************************************)
LEMMA SeqsFromToType ==
    ASSUME NEW a \in Seqs, NEW b \in Seqs
    PROVE  /\ SeqsFromTo(a, b) \in Seq(Seqs)
           /\ Len(SeqsFromTo(a, b)) = (b + 1 - a) % SeqModulus
           /\ Len(SeqsFromTo(a, b)) \in 0 .. SeqModulus - 1
           /\ \A k \in 1 .. Len(SeqsFromTo(a, b)) :
                  SeqsFromTo(a, b)[k] = (a + k - 1) % SeqModulus
<1> DEFINE n == (b + 1 - a) % SeqModulus
<1>1. a \in Nat /\ b \in Nat /\ SeqModulus \in Nat \ {0}
    BY ConstantTypes DEF Seqs
<1>2. n \in 0 .. SeqModulus - 1
    BY <1>1, ModType
<1>3. \A k \in 1 .. n : (a + k - 1) % SeqModulus \in Seqs
    BY <1>1, <1>2, ModType DEF Seqs
<1>4. SeqsFromTo(a, b) = [k \in 1 .. n |-> (a + k - 1) % SeqModulus]
    BY DEF SeqsFromTo
<1> HIDE DEF n
<1>5. SeqsFromTo(a, b) \in Seq(Seqs) /\ Len(SeqsFromTo(a, b)) = n
    BY <1>2, <1>3, <1>4
<1>6. QED
    BY <1>2, <1>4, <1>5 DEF n

\* The numbers from the j-th visited to the k-th are those visited between.
LEMMA PartOfWalk ==
    ASSUME NEW a \in Seqs, NEW b \in Seqs,
           NEW k \in 1 .. Len(SeqsFromTo(a, b)), NEW j \in 1 .. k
    PROVE  LET seqs == SeqsFromTo(a, b)
               part == SeqsFromTo(seqs[j], seqs[k])
           IN  /\ Len(part) = k - j + 1
               /\ \A m \in 1 .. Len(part) : part[m] = seqs[j + m - 1]
<1> DEFINE seqs == SeqsFromTo(a, b)
           M == SeqModulus
           c == seqs[j]
           d == seqs[k]
           part == SeqsFromTo(c, d)
           At(n) == IF a + (n - 1) < M THEN a + (n - 1) ELSE a + (n - 1) - M
<1>1. /\ M \in Nat \ {0} /\ a \in 0 .. M - 1 /\ b \in 0 .. M - 1
      /\ Len(seqs) \in 0 .. M - 1 /\ k \in Nat /\ j \in Nat /\ 1 <= j /\ j <= k
      /\ k <= Len(seqs) /\ k < M
    <2>1. M \in Nat \ {0} /\ a \in 0 .. M - 1 /\ b \in 0 .. M - 1
        BY ConstantTypes DEF Seqs
    <2>2. Len(seqs) \in 0 .. M - 1
        BY SeqsFromToType
    <2> HIDE DEF seqs, M
    <2>3. k \in 1 .. Len(seqs)
        BY DEF seqs
    <2>4. QED
        BY <2>1, <2>2, <2>3
<1>2. \A n \in 1 .. Len(seqs) : seqs[n] = At(n) /\ At(n) \in 0 .. M - 1
    <2> TAKE n \in 1 .. Len(seqs)
    <2>1. n - 1 \in 0 .. M - 1 /\ seqs[n] = (a + n - 1) % M /\ a + n - 1 = a + (n - 1)
        BY <1>1, SeqsFromToType
    <2>2. (a + (n - 1)) % M = At(n)
        <3> HIDE DEF M
        <3>1. QED
            BY <1>1, <2>1, ModSum
    <2>3. QED
        BY <1>1, <2>1, <2>2
<1>3. c = At(j) /\ d = At(k) /\ c \in 0 .. M - 1 /\ d \in 0 .. M - 1
    BY <1>1, <1>2
<1>4. c \in Seqs /\ d \in Seqs
    BY <1>3 DEF Seqs
<1> HIDE DEF seqs, c, d
<1>5. Len(part) = k - j + 1
    <2> DEFINE Wrapped == IF (d + 1) - c = M THEN 0
                          ELSE IF d + 1 >= c THEN (d + 1) - c ELSE (d + 1) - c + M
    <2>1. Len(part) = (d + 1 - c) % M
        BY <1>4, SeqsFromToType
    <2>2. ((d + 1) - c) % M = Wrapped
        <3> HIDE DEF M
        <3>1. d + 1 \in 0 .. M /\ c \in 0 .. M - 1
            BY <1>1, <1>3
        <3>2. M \in Nat \ {0}
            BY <1>1
        <3>3. QED
            BY <3>1, <3>2, ModDifference, Zenon
    <2>3. /\ d + 1 - c = (d + 1) - c
          /\ (d + 1) - c = k - j + 1 \/ (d + 1) - c = k - j + 1 - M
        BY <1>1, <1>3
    <2>4. Len(part) = Wrapped
        <3> HIDE DEF Wrapped
        <3>1. QED
            BY <2>1, <2>2, <2>3, Zenon
    <2>5. QED
        <3> HIDE DEF M
        <3>1. QED
            BY <1>1, <1>3, <2>3, <2>4
<1>6. ASSUME NEW m \in 1 .. Len(part)
      PROVE  part[m] = seqs[j + m - 1]
    <2>1. part[m] = (c + m - 1) % M /\ m \in 1 .. k - j + 1
        BY <1>4, <1>5, SeqsFromToType
    <2>2. m - 1 \in 0 .. M - 1 /\ c + m - 1 = c + (m - 1) /\ j + m - 1 \in 1 .. Len(seqs)
        BY <1>1, <1>3, <2>1
    <2>3. (c + (m - 1)) % M = IF c + (m - 1) < M THEN c + (m - 1) ELSE c + (m - 1) - M
        <3> HIDE DEF M
        <3>1. QED
            BY <1>1, <1>3, <2>2, ModSum
    <2>4. seqs[j + m - 1] = At(j + m - 1)
        BY <1>2, <2>2
    <2>5. part[m] = IF c + (m - 1) < M THEN c + (m - 1) ELSE c + (m - 1) - M
        BY <2>1, <2>2, <2>3, Zenon
    <2>6. QED
        <3> HIDE DEF M
        <3>1. m \in Nat /\ 1 <= m /\ m <= k - j + 1
            BY <1>1, <2>1
        <3>2. CASE a + (j - 1) < M
            BY <1>1, <1>3, <2>4, <2>5, <3>1, <3>2
        <3>3. CASE ~(a + (j - 1) < M)
            BY <1>1, <1>3, <2>4, <2>5, <3>1, <3>3
        <3>4. QED
            BY <3>2, <3>3
<1>7. QED
    BY <1>5, <1>6 DEF seqs, c, d

-----------------------------------------------------------------------------
(***************************************************************************)
(* One turn of the walk.                                                   *)
(***************************************************************************)
Fields == [isInit : BOOLEAN, isStart : BOOLEAN, newest : Seqs, oldest : Seqs,
           newestTs : Stamps, lastPop : Stamps]

WalkStates ==
    [packets : [Indexes -> Entry], oldest : Seqs, lastPop : Stamps, continuous : BOOLEAN,
     start : Seqs \union {NoBuffer}, first : Seqs, prev : Seqs, done : BOOLEAN,
     frames : Seq(Seq(Nat)), fault : BOOLEAN]

\* An entry is left as it was, or cleared.
OnlyFrees(before, packets) == \A x \in Indexes : packets[x] \in {before[x], Cleared}

\* A frame handed over has a packet, and each packet its payload in the table.
Whole(before, frames) ==
    \A n \in 1 .. Len(frames) :
        /\ Len(frames[n]) > 0
        /\ \A m \in 1 .. Len(frames[n]) : frames[n][m] \in Buffers(before)

\* The frame being collected began at a number visited, and no payload is missing
\* since.
Collected(w, seqs, k) ==
    w.start # NoBuffer /\ w.continuous =>
        \E j \in 1 .. k :
            /\ w.start = seqs[j]
            /\ \A l \in j .. k : w.packets[IndexOf(seqs[l])].buffer # NoBuffer

\* The walk w of the table before, after k of its turns.
WalkOK(before, seqs, k, w) ==
    /\ w \in WalkStates
    /\ OnlyFrees(before, w.packets)
    /\ Whole(before, w.frames)
    /\ ~w.done => /\ k > 0 => w.prev = seqs[k]
                  /\ Collected(w, seqs, k)

LEMMA DiscardType ==
    ASSUME NEW packets \in [Indexes -> Entry], NEW xs
    PROVE  /\ DiscardEntries(packets, xs) \in [Indexes -> Entry]
           /\ OnlyFrees(packets, DiscardEntries(packets, xs))
<1>1. Cleared \in Entry
    BY ConstantTypes
<1>2. QED
    BY <1>1 DEF DiscardEntries, OnlyFrees

LEMMA FreesAgain ==
    ASSUME NEW p, NEW q, NEW r, OnlyFrees(p, q), OnlyFrees(q, r)
    PROVE  OnlyFrees(p, r)
BY DEF OnlyFrees

\* An entry that still has a payload is the one there was before.
LEMMA BufferStays ==
    ASSUME NEW p, NEW q, OnlyFrees(p, q), NEW x \in Indexes, q[x].buffer # NoBuffer
    PROVE  q[x].buffer \in Buffers(p)
<1>1. q[x] # Cleared
    BY DEF Cleared
<1>2. QED
    BY <1>1 DEF OnlyFrees, Buffers

\* DiscardPackets: a range of entries is cleared, and the frame being collected
\* is gone.
LEMMA PopToStep ==
    ASSUME NEW w \in WalkStates, NEW a, NEW c, NEW i \in Seqs
    PROVE  LET r == PopTo(w, a, c, i)
           IN  /\ r \in WalkStates
               /\ OnlyFrees(w.packets, r.packets)
               /\ r.start = NoBuffer /\ r.frames = w.frames /\ r.prev = w.prev
               /\ r.done = w.done
               /\ r.packets[IndexOf(i)].ts = r.lastPop
<1> DEFINE p == DiscardRange(w.packets, a, c)
           r == PopTo(w, a, c, i)
<1>1. p \in [Indexes -> Entry] /\ OnlyFrees(w.packets, p)
    BY DiscardType DEF DiscardRange, WalkStates
<1>2. IndexOf(i) \in Indexes
    BY ConstantTypes DEF Seqs
<1>3. p[IndexOf(i)] \in Entry
    BY <1>1, <1>2
<1> HIDE DEF p
<1>4. r = [w EXCEPT !.packets = p, !.oldest = p[IndexOf(i)].seq,
                    !.lastPop = p[IndexOf(i)].ts, !.start = NoBuffer, !.first = i]
    BY DEF PopTo, p
<1>5. r \in WalkStates
    BY <1>1, <1>3, <1>4 DEF WalkStates, Entry
<1>6. /\ r.packets = p /\ r.lastPop = p[IndexOf(i)].ts
      /\ r.start = NoBuffer /\ r.frames = w.frames /\ r.prev = w.prev /\ r.done = w.done
    BY <1>4 DEF WalkStates
<1>7. QED
    BY <1>1, <1>5, <1>6

\* What FillFrame takes from entries with payload is a frame.
LEMMA FillFrameType ==
    ASSUME NEW isInit, NEW packets \in [Indexes -> Entry],
           \A x \in Indexes : packets[x].buffer \in Nat \union {NoBuffer},
           NEW a \in Seqs, NEW c \in Seqs, Len(SeqsFromTo(a, c)) > 0,
           \A m \in 1 .. Len(SeqsFromTo(a, c)) :
               packets[IndexOf(SeqsFromTo(a, c)[m])].buffer # NoBuffer
    PROVE  /\ FillFrame(isInit, packets, a, c) \in Seq(Seq(Nat))
           /\ Whole(packets, FillFrame(isInit, packets, a, c))
<1> DEFINE seqs == SeqsFromTo(a, c)
           f == [k \in DOMAIN seqs |-> packets[IndexOf(seqs[k])].buffer]
<1>1. seqs \in Seq(Seqs) /\ Len(seqs) \in Nat
    BY SeqsFromToType
<1>2. ASSUME NEW k \in 1 .. Len(seqs)
      PROVE  /\ packets[IndexOf(seqs[k])].buffer \in Nat
             /\ packets[IndexOf(seqs[k])].buffer \in Buffers(packets)
    <2>1. seqs[k] \in Int
        <3> HIDE DEF seqs
        <3>1. seqs[k] \in Seqs
            BY <1>1
        <3>2. QED
            BY <3>1, SeqsAreInts
    <2>2. IndexOf(seqs[k]) \in Indexes
        BY <2>1, ConstantTypes
    <2>3. packets[IndexOf(seqs[k])].buffer # NoBuffer
        OBVIOUS
    <2> HIDE DEF seqs
    <2>4. QED
        BY <2>2, <2>3 DEF Buffers
<1>3. DOMAIN seqs = 1 .. Len(seqs)
    BY <1>1
<1>4. Len(seqs) > 0
    OBVIOUS
<1>5. FillFrame(isInit, packets, a, c) \in {<<f>>, <<>>}
    BY DEF FillFrame
<1> HIDE DEF seqs
<1>6. f \in Seq(Nat) /\ Len(f) = Len(seqs)
    BY <1>1, <1>2, <1>3
<1>7. \A m \in 1 .. Len(f) : f[m] \in Buffers(packets)
    BY <1>2, <1>3, <1>6
<1> HIDE DEF f
<1>8. CASE FillFrame(isInit, packets, a, c) = <<f>>
    BY <1>4, <1>6, <1>7, <1>8 DEF Whole
<1>9. CASE FillFrame(isInit, packets, a, c) = <<>>
    BY <1>9 DEF Whole
<1>10. QED
    BY <1>5, <1>8, <1>9

\* Frames of a table that only freed payloads are frames of the table before.
LEMMA WholeBefore ==
    ASSUME NEW before, NEW packets, OnlyFrees(before, packets), NEW frames,
           Whole(packets, frames)
    PROVE  Whole(before, frames)
<1>1. ASSUME NEW n \in Buffers(packets)
      PROVE  n \in Buffers(before)
    <2>1. PICK x \in Indexes : n = packets[x].buffer /\ n # NoBuffer
        BY DEF Buffers
    <2>2. packets[x].buffer \in Buffers(before)
        BY <2>1, BufferStays
    <2>3. QED
        BY <2>1, <2>2
<1>2. QED
    BY <1>1 DEF Whole

LEMMA WholeTogether ==
    ASSUME NEW before, NEW f \in Seq(Seq(Nat)), NEW g \in Seq(Seq(Nat)),
           Whole(before, f), Whole(before, g)
    PROVE  f \o g \in Seq(Seq(Nat)) /\ Whole(before, f \o g)
<1>1. /\ f \o g \in Seq(Seq(Nat)) /\ Len(f \o g) = Len(f) + Len(g)
      /\ Len(f) \in Nat /\ Len(g) \in Nat
    OBVIOUS
<1>2. ASSUME NEW n \in 1 .. Len(f \o g)
      PROVE  \/ n \in 1 .. Len(f) /\ (f \o g)[n] = f[n]
             \/ n - Len(f) \in 1 .. Len(g) /\ (f \o g)[n] = g[n - Len(f)]
    BY <1>1
<1>3. QED
    BY <1>1, <1>2 DEF Whole

\* Every entry has the payload of a packet or none.
Payloads(packets) == \A x \in Indexes : packets[x].buffer \in Nat \union {NoBuffer}

LEMMA PayloadsLeft ==
    ASSUME NEW before, NEW packets, Payloads(before), OnlyFrees(before, packets)
    PROVE  Payloads(packets)
BY DEF Payloads, OnlyFrees, Cleared

\* A packet of another frame: the frame collected is handed over or dropped, and
\* the walk goes on at the packet, or it is left.
LEMMA AtFrameEndStep ==
    ASSUME NEW f \in Fields, NEW before, Payloads(before),
           NEW a \in Seqs, NEW c \in Seqs, NEW k \in 0 .. Len(SeqsFromTo(a, c)) - 1,
           NEW w, WalkOK(before, SeqsFromTo(a, c), k, w), ~w.done
    PROVE  LET i == SeqsFromTo(a, c)[k + 1]
               r == AtFrameEnd(f, w, i)
           IN  /\ r \in WalkStates
               /\ OnlyFrees(before, r.packets)
               /\ Whole(before, r.frames)
               /\ ~r.done => r.start = NoBuffer /\ r.packets[IndexOf(i)].ts = r.lastPop
<1> DEFINE seqs == SeqsFromTo(a, c)
           i == seqs[k + 1]
           r == AtFrameEnd(f, w, i)
           closed == PopTo(w, w.start, w.prev, i)
           dropped == PopTo(w, w.first, w.prev, i)
           frames == FillFrame(f.isInit, w.packets, w.start, w.prev)
<1>1. seqs \in Seq(Seqs) /\ Len(seqs) \in Nat /\ k \in Nat /\ k < Len(seqs)
    BY SeqsFromToType
<1>2. i \in Seqs
    <2> HIDE DEF seqs
    <2>1. QED
        BY <1>1
<1>3. w \in WalkStates /\ OnlyFrees(before, w.packets) /\ Whole(before, w.frames)
    BY DEF WalkOK
<1>4. /\ closed \in WalkStates /\ OnlyFrees(w.packets, closed.packets)
      /\ closed.start = NoBuffer /\ closed.frames = w.frames /\ closed.done = FALSE
      /\ closed.packets[IndexOf(i)].ts = closed.lastPop
    BY <1>2, <1>3, PopToStep
<1>5. /\ dropped \in WalkStates /\ OnlyFrees(w.packets, dropped.packets)
      /\ dropped.start = NoBuffer /\ dropped.frames = w.frames /\ dropped.done = FALSE
      /\ dropped.packets[IndexOf(i)].ts = dropped.lastPop
    BY <1>2, <1>3, PopToStep
<1>6. CASE w.start # NoBuffer /\ w.continuous
    <2>1. PICK j \in 1 .. k :
              /\ w.start = seqs[j]
              /\ \A l \in j .. k : w.packets[IndexOf(seqs[l])].buffer # NoBuffer
        BY <1>6 DEF WalkOK, Collected
    <2>2. k \in 1 .. Len(seqs) /\ j \in 1 .. k /\ w.prev = seqs[k]
        BY <1>1, <2>1 DEF WalkOK
    <2>3. /\ Len(SeqsFromTo(w.start, w.prev)) = k - j + 1
          /\ \A m \in 1 .. Len(SeqsFromTo(w.start, w.prev)) :
                 SeqsFromTo(w.start, w.prev)[m] = seqs[j + m - 1]
        <3>1. /\ Len(SeqsFromTo(seqs[j], seqs[k])) = k - j + 1
              /\ \A m \in 1 .. Len(SeqsFromTo(seqs[j], seqs[k])) :
                     SeqsFromTo(seqs[j], seqs[k])[m] = seqs[j + m - 1]
            BY <2>2, PartOfWalk
        <3> HIDE DEF seqs
        <3>2. QED
            BY <2>1, <2>2, <3>1
    <2>4. w.start \in Seqs /\ w.prev \in Seqs /\ w.packets \in [Indexes -> Entry]
        <3>1. w.start # NoBuffer
            BY <1>6
        <3>2. QED
            BY <1>3, <3>1 DEF WalkStates
    <2>5. \A m \in 1 .. Len(SeqsFromTo(w.start, w.prev)) :
              w.packets[IndexOf(SeqsFromTo(w.start, w.prev)[m])].buffer # NoBuffer
        <3> TAKE m \in 1 .. Len(SeqsFromTo(w.start, w.prev))
        <3>1. j + m - 1 \in j .. k
            BY <2>2, <2>3
        <3>2. SeqsFromTo(w.start, w.prev)[m] = seqs[j + m - 1]
            BY <2>3
        <3> HIDE DEF seqs
        <3>3. QED
            BY <2>1, <3>1, <3>2
    <2>6. Len(SeqsFromTo(w.start, w.prev)) > 0
        BY <2>2, <2>3
    <2>7. frames \in Seq(Seq(Nat)) /\ Whole(w.packets, frames)
        BY <1>3, <2>4, <2>5, <2>6, PayloadsLeft, FillFrameType DEF Payloads
    <2>8. Whole(before, frames)
        BY <1>3, <2>7, WholeBefore
    <2>9. /\ w.frames \o frames \in Seq(Seq(Nat))
          /\ Whole(before, w.frames \o frames)
        <3>1. w.frames \in Seq(Seq(Nat))
            BY <1>3 DEF WalkStates
        <3>2. QED
            BY <1>3, <2>7, <2>8, <3>1, WholeTogether
    <2> HIDE DEF closed, dropped, frames, i, seqs
    <2>10. r = [closed EXCEPT !.frames = @ \o frames]
        BY <1>6 DEF AtFrameEnd, closed, frames
    <2>11. r = [closed EXCEPT !.frames = w.frames \o frames]
        BY <1>4, <2>10
    <2>12. r \in WalkStates
        BY <1>4, <2>9, <2>11 DEF WalkStates
    <2>13. /\ r.packets = closed.packets /\ r.frames = w.frames \o frames
           /\ r.start = closed.start /\ r.lastPop = closed.lastPop
        BY <1>4, <2>11 DEF WalkStates
    <2>14. QED
        BY <1>3, <1>4, <2>9, <2>12, <2>13, FreesAgain DEF i, seqs
<1>7. CASE ~(w.start # NoBuffer /\ w.continuous)
           /\ IsRtpPacketExpired(f.newestTs, w.packets[IndexOf(i)].ts)
    <2>1. r = dropped
        <3> HIDE DEF seqs
        <3>1. QED
            BY <1>7 DEF AtFrameEnd
    <2> HIDE DEF dropped, i
    <2>2. QED
        BY <1>3, <1>5, <2>1, FreesAgain DEF i
<1>8. CASE ~(w.start # NoBuffer /\ w.continuous)
           /\ ~IsRtpPacketExpired(f.newestTs, w.packets[IndexOf(i)].ts)
    <2>1. r = [w EXCEPT !.done = TRUE]
        <3> HIDE DEF seqs
        <3>1. QED
            BY <1>8 DEF AtFrameEnd
    <2> HIDE DEF r, i
    <2>2. r \in WalkStates /\ r.packets = w.packets /\ r.frames = w.frames /\ r.done
        BY <1>3, <2>1 DEF WalkStates
    <2>3. QED
        BY <1>3, <2>2 DEF r, i
<1>9. QED
    BY <1>6, <1>7, <1>8

\* A packet of the frame being collected has its payload, or the frame is not
\* continuous.
LEMMA CollectStep ==
    ASSUME NEW f \in Fields, NEW closing \in BOOLEAN, NEW before,
           NEW a \in Seqs, NEW c \in Seqs, NEW k \in 0 .. Len(SeqsFromTo(a, c)) - 1,
           NEW w \in WalkStates, OnlyFrees(before, w.packets), Whole(before, w.frames), ~w.done,
           Collected(w, SeqsFromTo(a, c), k),
           w.continuous => w.packets[IndexOf(SeqsFromTo(a, c)[k + 1])].ts = w.lastPop
    PROVE  LET r == Collect(f, closing, w, SeqsFromTo(a, c)[k + 1])
           IN  /\ r \in WalkStates
               /\ OnlyFrees(before, r.packets)
               /\ Whole(before, r.frames)
               /\ Collected(r, SeqsFromTo(a, c), k + 1)
<1> DEFINE seqs == SeqsFromTo(a, c)
           i == seqs[k + 1]
           p == w.packets[IndexOf(i)]
           null == p.buffer = NoBuffer
           packets == DiscardEntries(w.packets, {IndexOf(i)})
           waits == ~closing /\ ~IsRtpPacketExpired(f.newestTs, packets[IndexOf(i)].ts)
           r == Collect(f, closing, w, i)
<1>1. seqs \in Seq(Seqs) /\ Len(seqs) \in Nat /\ k \in Nat /\ k < Len(seqs)
    BY SeqsFromToType
<1>2. i \in Seqs
    <2> HIDE DEF seqs
    <2>1. QED
        BY <1>1
<1>3. packets \in [Indexes -> Entry] /\ OnlyFrees(w.packets, packets)
    BY DiscardType DEF WalkStates
<1>4. null \in BOOLEAN /\ waits \in BOOLEAN
    OBVIOUS
<1>5. CASE p.ts # w.lastPop
    <2>1. r = w /\ ~w.continuous
        BY <1>5 DEF Collect
    <2> HIDE DEF r
    <2>2. QED
        BY <2>1 DEF r, Collected
<1>6. CASE p.ts = w.lastPop /\ ~null /\ KindOf(p.buffer) # "bad"
    <2> DEFINE start == IF w.start = NoBuffer /\ KindOf(p.buffer) = "start" THEN i ELSE w.start
    <2>1. r = [w EXCEPT !.start = start]
        BY <1>6 DEF Collect
    <2>2. start \in Seqs \union {NoBuffer}
        BY <1>2 DEF WalkStates
    <2> HIDE DEF r, start
    <2>3. /\ r \in WalkStates /\ r.packets = w.packets /\ r.frames = w.frames
          /\ r.start = start /\ r.continuous = w.continuous
        BY <2>1, <2>2 DEF WalkStates
    <2>4. Collected(r, seqs, k + 1)
        <3>1. SUFFICES ASSUME start # NoBuffer, w.continuous
                       PROVE  \E j \in 1 .. k + 1 :
                                  /\ start = seqs[j]
                                  /\ \A l \in j .. k + 1 :
                                         w.packets[IndexOf(seqs[l])].buffer # NoBuffer
            BY <2>3 DEF Collected
        <3>2. w.packets[IndexOf(seqs[k + 1])].buffer # NoBuffer
            BY <1>6
        <3>3. CASE w.start = NoBuffer
            <4>1. start = seqs[k + 1] /\ k + 1 \in 1 .. k + 1
                BY <1>1, <3>1, <3>3 DEF start
            <4> HIDE DEF seqs
            <4>2. \A l \in k + 1 .. k + 1 : w.packets[IndexOf(seqs[l])].buffer # NoBuffer
                BY <1>1, <3>2
            <4>3. QED
                BY <4>1, <4>2
        <3>4. CASE w.start # NoBuffer
            <4>1. PICK j \in 1 .. k :
                      /\ w.start = seqs[j]
                      /\ \A l \in j .. k : w.packets[IndexOf(seqs[l])].buffer # NoBuffer
                BY <3>1, <3>4 DEF Collected
            <4>2. start = w.start
                BY <3>4 DEF start
            <4> HIDE DEF seqs
            <4>3. \A l \in j .. k + 1 : w.packets[IndexOf(seqs[l])].buffer # NoBuffer
                <5> TAKE l \in j .. k + 1
                <5>1. l \in j .. k \/ l = k + 1
                    BY <1>1
                <5>2. QED
                    BY <3>2, <4>1, <5>1
            <4>4. j \in 1 .. k + 1
                BY <1>1
            <4>5. QED
                BY <4>1, <4>2, <4>3, <4>4
        <3>5. QED
            BY <3>3, <3>4
    <2>5. QED
        BY <2>3, <2>4 DEF r
<1>7. CASE p.ts = w.lastPop /\ ~(~null /\ KindOf(p.buffer) # "bad")
    <2>1. r = [w EXCEPT !.continuous = FALSE, !.packets = packets, !.fault = @ \/ null,
                        !.done = waits]
        BY <1>7 DEF Collect
    <2>2. (w.fault \/ null) \in BOOLEAN
        OBVIOUS
    <2> HIDE DEF r, packets, null, waits
    <2>3. /\ r \in WalkStates /\ r.packets = packets /\ r.frames = w.frames
          /\ ~r.continuous
        BY <1>3, <1>4, <2>1, <2>2 DEF WalkStates
    <2>4. OnlyFrees(before, r.packets)
        BY <1>3, <2>3, FreesAgain
    <2>5. QED
        BY <2>3, <2>4 DEF r, Collected
<1>8. QED
    BY <1>5, <1>6, <1>7

LEMMA ParseStepOK ==
    ASSUME NEW f \in Fields, NEW closing \in BOOLEAN, NEW before, Payloads(before),
           NEW a \in Seqs, NEW c \in Seqs, NEW k \in 0 .. Len(SeqsFromTo(a, c)) - 1,
           NEW w, WalkOK(before, SeqsFromTo(a, c), k, w)
    PROVE  WalkOK(before, SeqsFromTo(a, c), k + 1,
                  ParseStep(f, closing, w, SeqsFromTo(a, c)[k + 1]))
<1> DEFINE seqs == SeqsFromTo(a, c)
           i == seqs[k + 1]
           p == w.packets[IndexOf(i)]
           waits == ~closing /\ ~IsRtpPacketExpired(f.newestTs, p.ts)
           afterEnd ==
               IF ~p.isPushed THEN [w EXCEPT !.continuous = FALSE, !.done = waits]
               ELSE IF p.ts # w.lastPop THEN AtFrameEnd(f, w, i) ELSE w
           collected == IF afterEnd.done THEN afterEnd ELSE Collect(f, closing, afterEnd, i)
           r == ParseStep(f, closing, w, i)
<1>1. seqs \in Seq(Seqs) /\ Len(seqs) \in Nat /\ k \in Nat /\ k < Len(seqs)
    BY SeqsFromToType
<1>2. i \in Seqs
    <2> HIDE DEF seqs
    <2>1. QED
        BY <1>1
<1>3. w \in WalkStates /\ OnlyFrees(before, w.packets) /\ Whole(before, w.frames)
    BY DEF WalkOK
<1>4. CASE w.done
    <2>1. r = w
        BY <1>4 DEF ParseStep
    <2>2. QED
        BY <1>3, <1>4, <2>1 DEF WalkOK
<1>5. CASE ~w.done
    <2>1. r = [collected EXCEPT !.prev = i]
        BY <1>5 DEF ParseStep
    <2>2. /\ afterEnd \in WalkStates
          /\ OnlyFrees(before, afterEnd.packets)
          /\ Whole(before, afterEnd.frames)
          /\ ~afterEnd.done =>
                 /\ Collected(afterEnd, seqs, k)
                 /\ afterEnd.continuous =>
                        afterEnd.packets[IndexOf(i)].ts = afterEnd.lastPop
        <3>1. CASE ~p.isPushed
            <4>1. afterEnd = [w EXCEPT !.continuous = FALSE, !.done = waits]
                BY <3>1
            <4>2. waits \in BOOLEAN
                OBVIOUS
            <4> HIDE DEF afterEnd, waits, i, seqs
            <4>3. /\ afterEnd \in WalkStates /\ afterEnd.packets = w.packets
                  /\ afterEnd.frames = w.frames /\ ~afterEnd.continuous
                BY <1>3, <4>1, <4>2 DEF WalkStates
            <4>4. QED
                BY <1>3, <4>3 DEF Collected
        <3>2. CASE p.isPushed /\ p.ts # w.lastPop
            <4>1. afterEnd = AtFrameEnd(f, w, i)
                BY <3>2
            <4>2. /\ AtFrameEnd(f, w, i) \in WalkStates
                  /\ OnlyFrees(before, AtFrameEnd(f, w, i).packets)
                  /\ Whole(before, AtFrameEnd(f, w, i).frames)
                  /\ ~AtFrameEnd(f, w, i).done =>
                         /\ AtFrameEnd(f, w, i).start = NoBuffer
                         /\ AtFrameEnd(f, w, i).packets[IndexOf(i)].ts
                                = AtFrameEnd(f, w, i).lastPop
                BY <1>5, AtFrameEndStep
            <4> HIDE DEF afterEnd, i, seqs
            <4>3. QED
                BY <4>1, <4>2 DEF Collected
        <3>3. CASE p.isPushed /\ p.ts = w.lastPop
            <4>1. afterEnd = w
                BY <3>3
            <4>2. Collected(w, seqs, k)
                BY <1>5 DEF WalkOK
            <4> HIDE DEF afterEnd
            <4>3. QED
                BY <1>3, <3>3, <4>1, <4>2
        <3>4. QED
            BY <3>1, <3>2, <3>3
    <2> HIDE DEF afterEnd
    <2>3. /\ collected \in WalkStates
          /\ OnlyFrees(before, collected.packets)
          /\ Whole(before, collected.frames)
          /\ ~collected.done => Collected(collected, seqs, k + 1)
        <3>1. CASE afterEnd.done
            BY <2>2, <3>1
        <3>2. CASE ~afterEnd.done
            <4>1. collected = Collect(f, closing, afterEnd, i)
                BY <3>2
            <4>2. /\ Collect(f, closing, afterEnd, i) \in WalkStates
                  /\ OnlyFrees(before, Collect(f, closing, afterEnd, i).packets)
                  /\ Whole(before, Collect(f, closing, afterEnd, i).frames)
                  /\ Collected(Collect(f, closing, afterEnd, i), seqs, k + 1)
                BY <2>2, <3>2, CollectStep
            <4> HIDE DEF collected, i, seqs
            <4>3. QED
                BY <4>1, <4>2
        <3>3. QED
            BY <3>1, <3>2
    <2> HIDE DEF collected, r, seqs, i
    <2>4. /\ r \in WalkStates /\ r.packets = collected.packets /\ r.frames = collected.frames
          /\ r.done = collected.done /\ r.prev = i /\ r.start = collected.start
          /\ r.continuous = collected.continuous
        BY <1>2, <2>1, <2>3 DEF WalkStates
    <2>5. WalkOK(before, seqs, k + 1, r)
        BY <2>3, <2>4 DEF WalkOK, Collected, i
    <2>6. QED
        BY <2>5 DEF r, seqs, i
<1>6. QED
    BY <1>4, <1>5

LEMMA WalkBegins ==
    ASSUME NEW f \in Fields, NEW packets \in [Indexes -> Entry], NEW seqs
    PROVE  WalkOK(packets, seqs, 0, Walk(f, packets))
<1>1. Walk(f, packets) \in WalkStates
    BY DEF Walk, WalkStates, Fields
<1>2. OnlyFrees(packets, packets) /\ Whole(packets, <<>>)
    BY DEF OnlyFrees, Whole
<1>3. QED
    BY <1>1, <1>2 DEF WalkOK, Collected, Walk

-----------------------------------------------------------------------------
(***************************************************************************)
(* The whole walk.  There is one function that says what every turn makes  *)
(* of the turn before, so Turns is that function.                          *)
(***************************************************************************)
LEMMA TurnsAre ==
    ASSUME NEW f, NEW packets, NEW closing, NEW seqs, Len(seqs) \in Nat
    PROVE  /\ Turns(f, packets, closing, seqs)[0] = Walk(f, packets)
           /\ \A k \in 1 .. Len(seqs) :
                  Turns(f, packets, closing, seqs)[k]
                      = ParseStep(f, closing, Turns(f, packets, closing, seqs)[k - 1], seqs[k])
<1> DEFINE First == Walk(f, packets)
           After(w, k) == ParseStep(f, closing, w, seqs[k])
           IsTurns(g, n) == g = [k \in 0 .. n |-> IF k = 0 THEN First ELSE After(g[k - 1], k)]
           T == {n \in 0 .. Len(seqs) : \E g : IsTurns(g, n)}
           turns == Turns(f, packets, closing, seqs)
<1> HIDE DEF First, After
<1>1. 0 \in T
    <2> DEFINE g == [k \in 0 .. 0 |-> First]
    <2>1. IsTurns(g, 0)
        OBVIOUS
    <2>2. 0 \in 0 .. Len(seqs)
        OBVIOUS
    <2> HIDE DEF IsTurns
    <2>3. QED
        BY <2>1, <2>2
<1>2. ASSUME NEW n \in 0 .. Len(seqs) - 1, n \in T
      PROVE  n + 1 \in T
    <2>1. PICK g : IsTurns(g, n)
        BY <1>2
    <2> DEFINE h == [k \in 0 .. n + 1 |-> IF k = n + 1 THEN After(g[n], n + 1) ELSE g[k]]
    <2>2. \A k \in 0 .. n : h[k] = g[k]
        OBVIOUS
    <2>3. ASSUME NEW k \in 0 .. n + 1
          PROVE  h[k] = IF k = 0 THEN First ELSE After(h[k - 1], k)
        <3>1. CASE k = n + 1
            <4>1. h[k] = After(g[n], n + 1) /\ k - 1 = n /\ n \in 0 .. n /\ k # 0
                BY <3>1
            <4>2. h[n] = g[n]
                BY <4>1, <2>2
            <4>3. QED
                BY <3>1, <4>1, <4>2
        <3>2. CASE k # n + 1 /\ k # 0
            <4>1. k \in 0 .. n /\ k - 1 \in 0 .. n
                BY <3>2
            <4>2. h[k] = g[k] /\ h[k - 1] = g[k - 1]
                BY <2>2, <4>1
            <4>3. g[k] = After(g[k - 1], k)
                BY <2>1, <3>2, <4>1
            <4> HIDE DEF h
            <4>4. QED
                BY <3>2, <4>2, <4>3
        <3>3. CASE k = 0
            <4>1. k \in 0 .. n
                BY <3>3
            <4>2. h[k] = g[k] /\ g[k] = First
                BY <2>1, <2>2, <3>3, <4>1
            <4> HIDE DEF h
            <4>3. QED
                BY <3>3, <4>2
        <3>4. QED
            BY <3>1, <3>2, <3>3
    <2>4. h = [k \in 0 .. n + 1 |-> h[k]]
        OBVIOUS
    <2> HIDE DEF h
    <2>5. IsTurns(h, n + 1)
        BY <2>3, <2>4
    <2>6. n + 1 \in 0 .. Len(seqs)
        OBVIOUS
    <2> HIDE DEF IsTurns
    <2>7. QED
        BY <2>5, <2>6
<1>3. Len(seqs) \in T
    <2> HIDE DEF T
    <2>1. \A k \in 0 .. Len(seqs) - 1 : k \in T => k + 1 \in T
        BY <1>2
    <2>2. \A k \in 0 .. Len(seqs) : k \in T
        BY <1>1, <2>1, UpTo
    <2>3. Len(seqs) \in 0 .. Len(seqs)
        OBVIOUS
    <2>4. QED
        BY <2>2, <2>3
<1>4. \E g : IsTurns(g, Len(seqs))
    BY <1>3
<1>5. turns = CHOOSE g : IsTurns(g, Len(seqs))
    BY DEF Turns, First, After
<1>6. IsTurns(turns, Len(seqs))
    <2> HIDE DEF IsTurns, turns
    <2>1. QED
        BY <1>4, <1>5
<1>7. turns[0] = First
    <2> HIDE DEF turns
    <2>1. QED
        BY <1>6
<1>8. ASSUME NEW k \in 1 .. Len(seqs)
      PROVE  turns[k] = After(turns[k - 1], k)
    <2> HIDE DEF turns
    <2>1. k \in 0 .. Len(seqs) /\ k # 0
        OBVIOUS
    <2>2. QED
        BY <1>6, <2>1
<1>9. QED
    BY <1>7, <1>8 DEF First, After

\* Every turn of the walk keeps what is said of the walk, so the last one does.
LEMMA ParseFramesOK ==
    ASSUME NEW f \in Fields, NEW closing \in BOOLEAN,
           NEW packets \in [Indexes -> Entry], Payloads(packets)
    PROVE  LET w == ParseFramesInJitterBuffer(f, packets, closing)
           IN  /\ w \in WalkStates
               /\ OnlyFrees(packets, w.packets)
               /\ Whole(packets, w.frames)
<1> DEFINE a == f.oldest
           c == f.newest
           seqs == SeqsFromTo(a, c)
           turns == Turns(f, packets, closing, seqs)
           T == {k \in 0 .. Len(seqs) : WalkOK(packets, seqs, k, turns[k])}
<1>1. a \in Seqs /\ c \in Seqs
    BY DEF Fields
<1>2. Len(seqs) \in Nat
    BY <1>1, SeqsFromToType
<1>3. /\ turns[0] = Walk(f, packets)
      /\ \A k \in 1 .. Len(seqs) : turns[k] = ParseStep(f, closing, turns[k - 1], seqs[k])
    BY <1>2, TurnsAre
<1> HIDE DEF turns, a, c
<1>4. 0 \in T
    BY <1>2, <1>3, WalkBegins
<1>5. ASSUME NEW k \in 0 .. Len(seqs) - 1, k \in T
      PROVE  k + 1 \in T
    <2>1. WalkOK(packets, seqs, k, turns[k])
        BY <1>5
    <2>2. WalkOK(packets, seqs, k + 1, ParseStep(f, closing, turns[k], seqs[k + 1]))
        BY <1>1, <2>1, ParseStepOK
    <2> HIDE DEF seqs
    <2>3. k + 1 \in 1 .. Len(seqs) /\ (k + 1) - 1 = k
        BY <1>2
    <2>4. turns[k + 1] = ParseStep(f, closing, turns[k], seqs[k + 1])
        BY <1>3, <2>3
    <2>5. QED
        BY <2>2, <2>3, <2>4
<1>6. Len(seqs) \in T
    <2> HIDE DEF T, seqs
    <2>1. \A k \in 0 .. Len(seqs) - 1 : k \in T => k + 1 \in T
        BY <1>5
    <2>2. \A k \in 0 .. Len(seqs) : k \in T
        BY <1>2, <1>4, <2>1, UpTo
    <2>3. Len(seqs) \in 0 .. Len(seqs)
        BY <1>2
    <2>4. QED
        BY <2>2, <2>3
<1>7. WalkOK(packets, seqs, Len(seqs), turns[Len(seqs)])
    BY <1>6
<1>8. ParseFramesInJitterBuffer(f, packets, closing) = turns[Len(seqs)]
    BY DEF ParseFramesInJitterBuffer, turns, a, c
<1>9. QED
    BY <1>7, <1>8 DEF WalkOK

-----------------------------------------------------------------------------
(***************************************************************************)
(* The invariant.                                                          *)
(***************************************************************************)
\* A payload is in the entry of its own sequence number, so no two entries have
\* the same, and belongs to a packet that was sent in this session.
Placed ==
    \A x \in Indexes :
        rtpPackets[x].buffer # NoBuffer =>
            /\ rtpPackets[x].buffer \in 0 .. sent - 1
            /\ IndexOf(WireSeq(rtpPackets[x].buffer)) = x

InHand == lpc # "idle" => in_hand \in 0 .. sent - 1

\* Once the closing task is past BeginFree, until the next session is opened.
Closed == cpc \in {"none", "walk", "wipe"} => ~jb.isInit

\* After the closing task wiped the table, a packet that passed the first test of
\* isInit before can still come in; the second test removes it.
LastPacket ==
    cpc = "none" =>
        Buffers(rtpPackets) \subseteq (IF lpc \in {"copy", "push"} THEN {in_hand} ELSE {})

Heap == allocated = Buffers(rtpPackets)

IInv == TypeOK /\ Placed /\ InHand /\ Closed /\ LastPacket /\ Heap

LEMMA PlacedPayloads ==
    ASSUME TypeOK, Placed
    PROVE  Payloads(rtpPackets)
<1>1. 0 .. sent - 1 \subseteq Nat
    BY DEF TypeOK
<1>2. QED
    BY <1>1 DEF Placed, Payloads

LEMMA NoneCleared == Buffers([x \in Indexes |-> Cleared]) = {}
BY DEF Buffers, Cleared

\* The entries are found by their sequence numbers.
LEMMA EntryOfPacket ==
    ASSUME NEW n \in Nat
    PROVE  WireSeq(n) \in Seqs /\ IndexOf(WireSeq(n)) \in Indexes
<1>1. WireSeq(n) \in Seqs
    BY ConstantTypes
<1>2. WireSeq(n) \in Int
    BY <1>1, SeqsAreInts
<1>3. IndexOf(WireSeq(n)) \in Indexes
    BY <1>2, ConstantTypes
<1>4. QED
    BY <1>1, <1>3

\* A packet that was sent is in the stream.
LEMMA SentPacket ==
    ASSUME TypeOK, NEW n \in 0 .. sent - 1
    PROVE  /\ n \in Nat /\ n + 1 \in 1 .. Len(stream)
           /\ stream[n + 1] \in [frame : Nat, kind : {"start", "inner", "bad"}]
           /\ WireStamp(n) \in Stamps
<1>1. stream \in Seq([frame : Nat, kind : {"start", "inner", "bad"}])
    BY ConstantTypes DEF TypeOK
<1>2. n \in Nat /\ n + 1 \in 1 .. Len(stream)
    BY <1>1 DEF TypeOK
<1>3. stream[n + 1] \in [frame : Nat, kind : {"start", "inner", "bad"}]
    <2> DEFINE Packets == [frame : Nat, kind : {"start", "inner", "bad"}]
    <2> HIDE DEF Packets
    <2>1. stream \in Seq(Packets)
        BY <1>1 DEF Packets
    <2>2. stream[n + 1] \in Packets
        BY <1>2, <2>1
    <2>3. QED
        BY <2>2 DEF Packets
<1>4. TsModulus \in Nat \ {0} /\ FirstTs + stream[n + 1].frame \in Int
    BY <1>3, ConstantTypes DEF Stamps
<1>5. WireStamp(n) \in Stamps
    BY <1>4, ModType DEF WireStamp, Stamps
<1>6. QED
    BY <1>2, <1>3, <1>5

\* The fields keep their type when a packet is added.
LEMMA UpdateType ==
    ASSUME NEW f \in Fields, NEW s \in Seqs, NEW t \in Stamps
    PROVE  /\ UpdateJitterBufferAddPacket(f, s, t) \in Fields
           /\ UpdateJitterBufferAddPacket(f, s, t).isInit = f.isInit
           /\ Started(f, s, t) \in Fields
           /\ Started(f, s, t).isInit = f.isInit
<1>1. PICK n \in Seqs, o \in Seqs, nt \in Stamps, lp \in Stamps :
          UpdateJitterBufferAddPacket(f, s, t)
              = [f EXCEPT !.newest = n, !.oldest = o, !.newestTs = nt, !.lastPop = lp]
    <2> DEFINE isNewest == s > f.newest \/ (f.newest + SeqThreshold) % SeqModulus <= s
               isOldest == s < f.oldest
               nearOldest == ~isOldest /\ (f.oldest - SeqThreshold) % SeqModulus <= s
               isNewestTs == t > f.newestTs \/ (f.newestTs + TsThreshold) % TsModulus <= t
               isBeforePop == t < f.lastPop
               n == IF isNewest \/ nearOldest THEN s ELSE f.newest
               o == IF isOldest THEN s ELSE f.oldest
               nt == IF isNewestTs THEN t ELSE f.newestTs
               lp == IF isBeforePop THEN t ELSE f.lastPop
    <2>1. n \in Seqs /\ o \in Seqs /\ nt \in Stamps /\ lp \in Stamps
        <3> HIDE DEF isNewest, isOldest, nearOldest, isNewestTs, isBeforePop
        <3>1. QED
            BY DEF Fields
    <2>2. UpdateJitterBufferAddPacket(f, s, t)
              = [f EXCEPT !.newest = IF isNewest \/ nearOldest THEN s ELSE @,
                          !.oldest = IF isOldest THEN s ELSE @,
                          !.newestTs = IF isNewestTs THEN t ELSE @,
                          !.lastPop = IF isBeforePop THEN t ELSE @]
        BY DEF UpdateJitterBufferAddPacket
    <2> HIDE DEF isNewest, isOldest, nearOldest, isNewestTs, isBeforePop
    <2>3. UpdateJitterBufferAddPacket(f, s, t)
              = [f EXCEPT !.newest = n, !.oldest = o, !.newestTs = nt, !.lastPop = lp]
        BY <2>2 DEF Fields
    <2> HIDE DEF n, o, nt, lp
    <2>4. QED
        BY <2>1, <2>3
<1>2. /\ UpdateJitterBufferAddPacket(f, s, t) \in Fields
      /\ UpdateJitterBufferAddPacket(f, s, t).isInit = f.isInit
    BY <1>1 DEF Fields
<1>3. Started(f, s, t) \in Fields /\ Started(f, s, t).isInit = f.isInit
    BY DEF Started, Fields
<1>4. QED
    BY <1>2, <1>3

\* The end of a walk: what it freed is off the heap, and nothing else.
\* What FillFrame lets through of the frames of a walk.
LEMMA HandedOverType ==
    ASSUME NEW before, NEW isInit, NEW frames \in Seq(Seq(Nat)), Whole(before, frames),
           NEW part \in HandedOver(isInit, frames)
    PROVE  part \in Seq(Seq(Nat)) /\ Whole(before, part)
<1>1. CASE part = frames
    BY <1>1
<1>2. CASE part # frames
    <2>1. PICK k \in 0 .. Len(frames) : part = SubSeq(frames, 1, k)
        BY <1>2, Zenon DEF HandedOver
    <2>2. k \in Int /\ k >= 0 /\ k <= Len(frames) /\ \A m \in 1 .. k : frames[m] \in Seq(Nat)
        BY <2>1
    <2>3. /\ part \in Seq(Seq(Nat))
          /\ Len(part) = (IF 1 <= k THEN k - 1 + 1 ELSE 0)
          /\ \A m \in 1 .. k - 1 + 1 : part[m] = frames[1 + m - 1]
        BY <2>1, <2>2, SubSeqProperties
    <2>4. Len(part) = k /\ \A m \in 1 .. k : part[m] = frames[m]
        BY <2>2, <2>3
    <2>5. ASSUME NEW n \in 1 .. Len(part)
          PROVE  /\ Len(part[n]) > 0
                 /\ \A m \in 1 .. Len(part[n]) : part[n][m] \in Buffers(before)
        <3>1. n \in 1 .. Len(frames) /\ part[n] = frames[n]
            BY <2>2, <2>4
        <3>2. QED
            BY <3>1 DEF Whole
    <2>6. QED
        BY <2>3, <2>5 DEF Whole
<1>3. QED
    BY <1>1, <1>2

LEMMA FinishStep ==
    ASSUME IInv, NEW f \in Fields, NEW before,
           \A x \in Indexes : before[x].buffer = rtpPackets[x].buffer,
           NEW w \in WalkStates, OnlyFrees(before, w.packets),
           NEW frames \in Seq(Seq(Nat)), Whole(before, frames),
           Finish(f, w, frames)
    PROVE  /\ jb' \in Fields /\ jb'.isInit = f.isInit
           /\ rtpPackets' \in [Indexes -> Entry]
           /\ \A x \in Indexes : rtpPackets'[x].buffer \in {rtpPackets[x].buffer, NoBuffer}
           /\ allocated' = Buffers(rtpPackets')
           /\ allocated' \subseteq Nat
           /\ ready' \in Seq(Seq(Nat))
           /\ last_frame' \in Int
           /\ fault' \in BOOLEAN
<1> USE DEF IInv
<1>1. /\ w.packets \in [Indexes -> Entry] /\ w.oldest \in Seqs /\ w.lastPop \in Stamps
      /\ w.fault \in BOOLEAN
    BY DEF WalkStates
<1>2. jb' \in Fields /\ jb'.isInit = f.isInit
    BY <1>1 DEF Finish, Fields
<1>3. /\ rtpPackets' = w.packets /\ ready' = frames /\ fault' = w.fault
      /\ allocated' = allocated \ (Buffers(rtpPackets) \ Buffers(w.packets))
    BY DEF Finish
<1>4. \A x \in Indexes : w.packets[x].buffer \in {rtpPackets[x].buffer, NoBuffer}
    BY DEF OnlyFrees, Cleared
<1>5. Buffers(w.packets) \subseteq Buffers(rtpPackets)
    BY <1>4 DEF Buffers
<1>6. allocated' = Buffers(rtpPackets')
    BY <1>3, <1>5 DEF Heap
<1>7. allocated' \subseteq Nat
    BY <1>3 DEF TypeOK
<1>8. last_frame' \in Int
    <2>1. CASE frames = <<>>
        BY <2>1 DEF Finish, TypeOK
    <2>2. CASE frames # <<>>
        <3> DEFINE n == Len(frames)
                   g == frames[n]
                   m == Len(g)
        <3>1. n \in 1 .. n /\ g \in Seq(Nat)
            BY <1>1, <2>2
        <3>2. m \in 1 .. m
            <4>1. m > 0
                BY <3>1 DEF Whole
            <4> HIDE DEF g
            <4>2. QED
                BY <3>1, <4>1
        <3>3. g[m] \in Buffers(before)
            BY <3>1, <3>2 DEF Whole
        <3> HIDE DEF g, m, n
        <3>4. PICK x \in Indexes : g[m] = before[x].buffer /\ g[m] # NoBuffer
            BY <3>3 DEF Buffers
        <3>5. g[m] \in 0 .. sent - 1
            BY <3>4 DEF Placed
        <3>6. stream[g[m] + 1].frame \in Nat
            BY <3>5, SentPacket
        <3>7. last_frame' = stream[g[m] + 1].frame
            BY <2>2 DEF Finish, Last, g, m, n
        <3>8. QED
            BY <3>6, <3>7
    <2>3. QED
        BY <2>1, <2>2
<1>9. QED
    BY <1>1, <1>2, <1>3, <1>4, <1>6, <1>7, <1>8

\* What a step leaves of the table and the heap when it only discards.
LEMMA FewerLeft ==
    ASSUME IInv, sent' = sent,
           \A x \in Indexes : rtpPackets'[x].buffer \in {rtpPackets[x].buffer, NoBuffer},
           allocated' = allocated \ (Buffers(rtpPackets) \ Buffers(rtpPackets'))
    PROVE  /\ Placed' /\ Heap' /\ allocated' \subseteq Nat
           /\ Buffers(rtpPackets') \subseteq Buffers(rtpPackets)
<1>1. Placed'
    BY DEF IInv, Placed, IndexOf, WireSeq
<1>2. Buffers(rtpPackets') \subseteq Buffers(rtpPackets)
    BY DEF Buffers
<1>3. allocated' = Buffers(rtpPackets')
    BY <1>2 DEF IInv, Heap
<1>4. Heap'
    BY <1>3 DEF Heap
<1>5. allocated' \subseteq Nat
    BY DEF IInv, TypeOK
<1>6. QED
    BY <1>1, <1>2, <1>4, <1>5

\* Discarding leaves an entry its payload, or none.
LEMMA DiscardLeaves ==
    ASSUME NEW xs
    PROVE  \A x \in Indexes :
               DiscardEntries(rtpPackets, xs)[x].buffer \in {rtpPackets[x].buffer, NoBuffer}
BY DEF DiscardEntries, Cleared

-----------------------------------------------------------------------------
(***************************************************************************)
(* Every step keeps the invariant.                                         *)
(***************************************************************************)
LEMMA Initially == Init => IInv
<1> SUFFICES ASSUME Init PROVE IInv
    OBVIOUS
<1>1. rtpPackets = [x \in Indexes |-> Cleared]
    BY DEF Init
<1>2. rtpPackets \in [Indexes -> Entry] /\ Buffers(rtpPackets) = {}
    BY <1>1, NoneCleared, ConstantTypes
<1>3. jb \in Fields
    <2>1. 0 \in Seqs /\ 0 \in Stamps
        BY ConstantTypes DEF Seqs, Stamps
    <2>2. QED
        BY <2>1 DEF Init, Fields
<1>4. TypeOK
    <2>1. /\ stream \in Streams \union {<<>>} /\ sent \in 0 .. Len(stream)
          /\ net \subseteq 0 .. sent - 1 /\ burst \in 0 .. BurstMax
          /\ sessions \in 0 .. MaxSessions /\ in_hand \in Nat
        BY ConstantTypes DEF Init
    <2>2. receiveSession \in BOOLEAN /\ fault \in BOOLEAN
        BY DEF Init
    <2>3. /\ allocated \subseteq Nat /\ lpc \in {"idle", "allocate", "allocating", "copy", "push", "pushing"}
          /\ cpc \in {"none", "open", "free", "walk", "wipe"} /\ last_frame \in Int
        BY DEF Init
    <2>4. ready \in Seq(Seq(Nat))
        BY DEF Init
    <2>5. QED
        BY <1>2, <1>3, <2>1, <2>2, <2>3, <2>4 DEF TypeOK, Fields
<1>5. Placed
    BY <1>1 DEF Placed, Cleared
<1>6. InHand /\ Closed
    BY DEF Init, InHand, Closed
<1>7. Heap /\ LastPacket
    BY <1>2 DEF Init, Heap, LastPacket
<1>8. QED
    BY <1>4, <1>5, <1>6, <1>7 DEF IInv

\* A packet is sent: it is on the way or lost.
LEMMA RemoteStep ==
    ASSUME IInv, Remote
    PROVE  IInv'
<1> USE DEF IInv
<1>1. /\ sent' = sent + 1 /\ sent < Len(stream) /\ stream' = stream
      /\ net' \in {net, net \union {sent}}
      /\ burst' \in 0 .. BurstMax
      /\ UNCHANGED <<receiveSession, buffer, lpc, in_hand, cpc, ready, last_frame, fault,
                     sessions>>
    BY ConstantTypes DEF Remote, SendPacket, SendLostPacket, TypeOK
<1>2. sent \in Nat /\ Len(stream) \in Nat
    <2>1. stream \in Streams \union {<<>>} /\ sent \in 0 .. Len(stream)
        BY DEF TypeOK
    <2> DEFINE Packets == [frame : Nat, kind : {"start", "inner", "bad"}]
    <2>2. Streams \subseteq Seq(Packets)
        BY ConstantTypes
    <2> HIDE DEF Packets
    <2>3. stream \in Seq(Packets)
        <3>1. <<>> \in Seq(Packets)
            OBVIOUS
        <3>2. QED
            BY <2>1, <2>2, <3>1, Zenon
    <2>4. QED
        BY <2>1, <2>3
<1>3. net' \subseteq 0 .. sent' - 1
    BY <1>1, <1>2 DEF TypeOK
<1>4. TypeOK'
    <2>1. sent' \in 0 .. Len(stream')
        BY <1>1, <1>2
    <2>2. (receiveSession \in BOOLEAN /\ fault \in BOOLEAN)'
        BY <1>1, Zenon DEF TypeOK
    <2>3. QED
        BY <1>1, <1>3, <2>1, <2>2 DEF TypeOK, buffer
<1>5. Placed' /\ InHand'
    BY <1>1, <1>2 DEF Placed, InHand, buffer, IndexOf, WireSeq
<1>6. Heap' /\ LastPacket' /\ Closed'
    BY <1>1 DEF Heap, LastPacket, Closed, buffer, Buffers
<1>7. QED
    BY <1>4, <1>5, <1>6

\* The listener takes a packet that was sent.
LEMMA DecryptStep ==
    ASSUME IInv, NEW n \in net, Decrypt(n)
    PROVE  IInv'
<1> USE DEF IInv
<1>1. n \in Nat /\ n \in 0 .. sent - 1
    <2>1. n \in 0 .. sent - 1 /\ sent \in Int
        BY DEF TypeOK
    <2>2. QED
        BY <2>1
<1>2. TypeOK'
    <2>1. (receiveSession \in BOOLEAN /\ fault \in BOOLEAN)'
        BY Zenon DEF TypeOK, Decrypt
    <2>2. net' \subseteq 0 .. sent' - 1
        BY DEF TypeOK, Decrypt
    <2>3. lpc' \in {"idle", "allocate", "allocating", "copy", "push", "pushing"} /\ in_hand' \in Nat
        BY <1>1 DEF TypeOK, Decrypt
    <2>4. ready' \in Seq(Seq(Nat))
        BY DEF Decrypt
    <2>5. QED
        BY <2>1, <2>2, <2>3, <2>4 DEF TypeOK, Decrypt, buffer
<1>3. InHand'
    BY <1>1 DEF InHand, Decrypt
<1>4. Placed' /\ Heap' /\ LastPacket' /\ Closed'
    BY DEF Placed, Heap, LastPacket, Closed, Decrypt, buffer, Buffers, IndexOf, WireSeq
<1>5. QED
    BY <1>2, <1>3, <1>4

\* A payload is put in the entry, in place of the one that was there.
\* The first test of isInit.
LEMMA BeginAllocateStep ==
    ASSUME IInv, BeginAllocate
    PROVE  IInv'
<1> USE DEF IInv
<1>1. TypeOK'
    <2>1. (receiveSession \in BOOLEAN /\ fault \in BOOLEAN)'
        BY Zenon DEF TypeOK, BeginAllocate
    <2>2. lpc' \in {"idle", "allocate", "allocating", "copy", "push", "pushing"}
        BY DEF BeginAllocate
    <2>3. QED
        BY <2>1, <2>2 DEF TypeOK, BeginAllocate, network, buffer
<1>2. Placed' /\ InHand' /\ Heap'
    BY DEF BeginAllocate, Placed, InHand, Heap, network, buffer, IndexOf, WireSeq, Buffers
<1>3. Closed' /\ LastPacket'
    BY DEF BeginAllocate, Closed, LastPacket, buffer, Buffers
<1>4. QED
    BY <1>1, <1>2, <1>3

\* A payload is put in the entry, in place of the one that was there.
LEMMA AllocateBufferStep ==
    ASSUME IInv, AllocateBuffer
    PROVE  IInv'
<1> USE DEF IInv
<1> DEFINE n == in_hand
           x == IndexOf(WireSeq(n))
           discarded == DiscardEntries(rtpPackets, {x})
<1>1. n \in 0 .. sent - 1 /\ n \in Nat /\ n # NoBuffer /\ x \in Indexes
    BY EntryOfPacket DEF AllocateBuffer, InHand, TypeOK, NoBuffer
<1>2. UNCHANGED <<network, receiveSession, jb, in_hand, cpc, ready, last_frame, fault, sessions>>
    BY DEF AllocateBuffer
<1>3. /\ rtpPackets' = [discarded EXCEPT ![x].buffer = n]
      /\ allocated' = (allocated \ {rtpPackets[x].buffer}) \union {n}
      /\ lpc' = "copy"
    BY DEF AllocateBuffer
<1>4. discarded \in [Indexes -> Entry]
    BY DiscardType DEF TypeOK
<1> HIDE DEF x, n
<1>5. /\ rtpPackets' \in [Indexes -> Entry]
      /\ rtpPackets'[x].buffer = n
      /\ \A y \in Indexes \ {x} : rtpPackets'[y] = discarded[y]
    <2>1. discarded[x] \in Entry
        BY <1>1, <1>4
    <2>2. rtpPackets' = [discarded EXCEPT ![x] = [discarded[x] EXCEPT !.buffer = n]]
        BY <1>3
    <2> HIDE DEF discarded
    <2>3. /\ [discarded[x] EXCEPT !.buffer = n] \in Entry
          /\ [discarded[x] EXCEPT !.buffer = n].buffer = n
        BY <1>1, <2>1 DEF Entry
    <2>4. QED
        BY <1>1, <1>4, <2>2, <2>3
<1>6. \A y \in Indexes \ {x} : rtpPackets'[y] = rtpPackets[y]
    BY <1>5 DEF DiscardEntries
<1> HIDE DEF discarded
<1>7. TypeOK'
    <2>1. (receiveSession \in BOOLEAN /\ fault \in BOOLEAN)'
        BY <1>2, Zenon DEF TypeOK
    <2>2. allocated' \subseteq Nat
        BY <1>1, <1>3 DEF TypeOK
    <2>3. QED
        BY <1>2, <1>3, <1>5, <2>1, <2>2 DEF TypeOK, network
<1>8. Placed'
    <2>1. sent' = sent
        BY <1>2 DEF network
    <2>2. x = IndexOf(WireSeq(n))
        BY DEF x, n
    <2>3. \A y \in Indexes :
              rtpPackets'[y].buffer # NoBuffer =>
                  /\ rtpPackets'[y].buffer \in 0 .. sent - 1
                  /\ IndexOf(WireSeq(rtpPackets'[y].buffer)) = y
        <3> TAKE y \in Indexes
        <3>1. CASE y = x
            BY <1>1, <1>5, <2>2, <3>1
        <3>2. CASE y # x
            BY <1>6, <3>2 DEF Placed
        <3>3. QED
            BY <3>1, <3>2
    <2>4. QED
        BY <2>1, <2>3 DEF Placed, IndexOf, WireSeq
<1>9. InHand' /\ Closed'
    BY <1>1, <1>2, <1>3 DEF InHand, Closed, network, n
<1>10. Buffers(rtpPackets') = (Buffers(rtpPackets) \ {rtpPackets[x].buffer}) \union {n}
    <2>1. ASSUME NEW m \in Buffers(rtpPackets')
          PROVE  m \in (Buffers(rtpPackets) \ {rtpPackets[x].buffer}) \union {n}
        <3>1. PICK y \in Indexes : m = rtpPackets'[y].buffer /\ m # NoBuffer
            BY DEF Buffers
        <3>2. CASE y = x
            BY <1>5, <3>1, <3>2
        <3>3. CASE y # x
            <4>1. m = rtpPackets[y].buffer
                BY <1>6, <3>1, <3>3
            <4>2. m # rtpPackets[x].buffer
                BY <1>1, <3>1, <3>3, <4>1 DEF Placed
            <4>3. QED
                BY <3>1, <4>1, <4>2 DEF Buffers
        <3>4. QED
            BY <3>2, <3>3
    <2>2. ASSUME NEW m \in Buffers(rtpPackets) \ {rtpPackets[x].buffer}
          PROVE  m \in Buffers(rtpPackets')
        <3>1. PICK y \in Indexes : m = rtpPackets[y].buffer /\ m # NoBuffer
            BY DEF Buffers
        <3>2. m = rtpPackets'[y].buffer
            BY <1>6, <3>1
        <3>3. QED
            BY <3>1, <3>2 DEF Buffers
    <2>3. n \in Buffers(rtpPackets')
        BY <1>1, <1>5 DEF Buffers
    <2>4. QED
        BY <2>1, <2>2, <2>3
<1>11. Heap'
    <2>1. allocated' = Buffers(rtpPackets')
        BY <1>3, <1>10 DEF Heap
    <2>2. QED
        BY <2>1 DEF Heap
<1>12. LastPacket'
    <2>1. cpc = "none" => Buffers(rtpPackets) = {}
        BY DEF LastPacket, AllocateBuffer
    <2>2. cpc' = "none" => Buffers(rtpPackets') = {in_hand'}
        BY <1>2, <1>10, <2>1 DEF n
    <2>3. QED
        BY <1>3, <2>2 DEF LastPacket
<1>13. QED
    BY <1>7, <1>8, <1>9, <1>11, <1>12

\* The numbers are written into the entry; its payload stays where it is.
LEMMA CopyPayloadStep ==
    ASSUME IInv, CopyPayload
    PROVE  IInv'
<1> USE DEF IInv
<1> DEFINE x == IndexOf(WireSeq(in_hand))
           s == WireSeq(in_hand)
           t == WireStamp(in_hand)
<1>1. x \in Indexes /\ s \in Seqs /\ t \in Stamps
    <2>1. in_hand \in 0 .. sent - 1
        BY DEF CopyPayload, InHand
    <2>2. in_hand \in Nat /\ t \in Stamps
        BY <2>1, SentPacket
    <2>3. QED
        BY <2>2, EntryOfPacket
<1>2. /\ UNCHANGED <<network, receiveSession, jb, allocated, in_hand, cpc, ready, last_frame,
                     sessions>>
      /\ lpc = "copy" /\ lpc' = "push" /\ fault' = (rtpPackets[x].buffer = NoBuffer)
      /\ rtpPackets' = [rtpPackets EXCEPT ![x] = [@ EXCEPT !.seq = s, !.ts = t]]
    BY DEF CopyPayload
<1> HIDE DEF x, s, t
<1>3. /\ rtpPackets' \in [Indexes -> Entry]
      /\ \A y \in Indexes : rtpPackets'[y].buffer = rtpPackets[y].buffer
    <2>1. rtpPackets \in [Indexes -> Entry] /\ rtpPackets[x] \in Entry
        BY <1>1 DEF TypeOK
    <2>2. /\ [rtpPackets[x] EXCEPT !.seq = s, !.ts = t] \in Entry
          /\ [rtpPackets[x] EXCEPT !.seq = s, !.ts = t].buffer = rtpPackets[x].buffer
        BY <1>1, <2>1 DEF Entry
    <2>3. QED
        BY <1>1, <1>2, <2>1, <2>2
<1>4. Buffers(rtpPackets') = Buffers(rtpPackets)
    BY <1>3 DEF Buffers
<1>5. TypeOK'
    <2>1. (receiveSession \in BOOLEAN)'
        BY <1>2, Zenon DEF TypeOK
    <2>2. fault' \in BOOLEAN
        BY <1>2, Zenon
    <2>3. QED
        BY <1>2, <1>3, <2>1, <2>2 DEF TypeOK, network
<1>6. Placed' /\ InHand' /\ Closed'
    BY <1>2, <1>3 DEF Placed, InHand, Closed, network, IndexOf, WireSeq
<1>7. Heap' /\ LastPacket'
    BY <1>2, <1>4 DEF Heap, LastPacket
<1>8. QED
    BY <1>5, <1>6, <1>7

\* The second test of isInit: the packet goes on, or it is removed.
LEMMA BeginPushStep ==
    ASSUME IInv, BeginPush
    PROVE  IInv'
<1> USE DEF IInv
<1> DEFINE x == IndexOf(WireSeq(in_hand))
<1>1. /\ UNCHANGED <<network, receiveSession, jb, in_hand, cpc, ready, last_frame, fault,
                     sessions>>
      /\ lpc = "push"
    BY DEF BeginPush
<1>2. (receiveSession \in BOOLEAN /\ fault \in BOOLEAN)'
    BY <1>1, Zenon DEF TypeOK
<1>3. CASE jb.isInit
    <2>1. lpc' = "pushing" /\ UNCHANGED <<rtpPackets, allocated>>
        BY <1>3 DEF BeginPush
    <2>2. TypeOK'
        BY <1>1, <1>2, <2>1 DEF TypeOK, network
    <2>3. Placed' /\ InHand' /\ Heap' /\ Closed'
        BY <1>1, <2>1 DEF Placed, InHand, Heap, Closed, network, IndexOf, WireSeq, Buffers
    <2>4. LastPacket'
        BY <1>1, <1>3 DEF Closed, LastPacket
    <2>5. QED
        BY <2>2, <2>3, <2>4
<1>4. CASE ~jb.isInit
    <2>1. /\ lpc' = "idle" /\ rtpPackets' = DiscardEntries(rtpPackets, {x})
          /\ allocated' = allocated \ (Buffers(rtpPackets) \ Buffers(rtpPackets'))
        BY <1>4 DEF BeginPush, Removed
    <2>2. rtpPackets' \in [Indexes -> Entry]
        BY <2>1, DiscardType DEF TypeOK
    <2>3. \A y \in Indexes : rtpPackets'[y].buffer \in {rtpPackets[y].buffer, NoBuffer}
        BY <2>1, DiscardLeaves
    <2>4. sent' = sent
        BY <1>1 DEF network
    <2>5. /\ Placed' /\ Heap' /\ allocated' \subseteq Nat
          /\ Buffers(rtpPackets') \subseteq Buffers(rtpPackets)
        BY <2>1, <2>3, <2>4, FewerLeft
    <2>6. TypeOK'
        BY <1>1, <1>2, <2>1, <2>2, <2>5 DEF TypeOK, network
    <2>7. InHand' /\ Closed'
        BY <1>1, <2>1 DEF InHand, Closed, network
    <2>8. ASSUME NEW m \in Buffers(rtpPackets'), m = in_hand
          PROVE  FALSE
        <3>1. PICK y \in Indexes : m = rtpPackets'[y].buffer /\ m # NoBuffer
            BY DEF Buffers
        <3>2. m = rtpPackets[y].buffer
            BY <2>3, <3>1
        <3>3. y = x
            BY <2>8, <3>1, <3>2 DEF Placed
        <3>4. rtpPackets'[y].buffer = NoBuffer
            BY <2>1, <3>1, <3>2, <3>3 DEF DiscardEntries, Cleared
        <3>5. QED
            BY <3>1, <3>4
    <2>9. LastPacket'
        BY <1>1, <2>5, <2>8 DEF LastPacket
    <2>10. QED
        BY <2>5, <2>6, <2>7, <2>9
<1>5. QED
    BY <1>3, <1>4

\* The walk begins; or the packet is not accepted, and its entry is cleared.
LEMMA PushStep ==
    ASSUME IInv, Push
    PROVE  IInv'
<1> USE DEF IInv
<1> DEFINE x == IndexOf(WireSeq(in_hand))
           p == rtpPackets[x]
           b == Started(jb, p.seq, p.ts)
           pushed == [rtpPackets EXCEPT ![x].isPushed = TRUE]
           updated == UpdateJitterBufferAddPacket(b, p.seq, p.ts)
           going == [updated EXCEPT !.isInit = TRUE]
           walked == ParseFramesInJitterBuffer(going, pushed, FALSE)
<1>1. x \in Indexes /\ p \in Entry /\ p.seq \in Seqs /\ p.ts \in Stamps
    <2>1. in_hand \in Nat
        BY DEF TypeOK
    <2>2. x \in Indexes
        BY <2>1, EntryOfPacket
    <2> HIDE DEF x
    <2>3. p \in Entry
        BY <2>2 DEF TypeOK
    <2>4. QED
        BY <2>2, <2>3 DEF Entry
<1>2. /\ UNCHANGED <<network, receiveSession, in_hand, cpc, sessions>>
      /\ lpc = "pushing" /\ lpc' = "idle"
    BY DEF Push
<1>3. (receiveSession \in BOOLEAN)'
    BY <1>2, Zenon DEF TypeOK
<1>4. jb \in Fields
    BY DEF TypeOK, Fields
<1>5. IF ShouldAcceptPacket(b.newest, p.seq)
      THEN \E frames \in HandedOver(jb.isInit, walked.frames) : Finish(updated, walked, frames)
      ELSE /\ jb' = b
           /\ rtpPackets' = DiscardEntries(rtpPackets, {x})
           /\ allocated' = allocated \ (Buffers(rtpPackets) \ Buffers(rtpPackets'))
           /\ ready' = <<>>
           /\ UNCHANGED <<last_frame, fault>>
    BY DEF Push
<1> HIDE DEF x
<1>6. /\ b \in Fields /\ b.isInit = jb.isInit
      /\ updated \in Fields /\ updated.isInit = jb.isInit
    BY <1>1, <1>4, UpdateType
<1> HIDE DEF b
<1>7. going \in Fields
    <2> HIDE DEF updated
    <2>1. QED
        BY <1>6 DEF Fields
<1>8. /\ pushed \in [Indexes -> Entry]
      /\ \A y \in Indexes : pushed[y].buffer = rtpPackets[y].buffer
    <2>1. rtpPackets \in [Indexes -> Entry]
        BY DEF TypeOK
    <2>2. pushed = [rtpPackets EXCEPT ![x] = [rtpPackets[x] EXCEPT !.isPushed = TRUE]]
        OBVIOUS
    <2>3. /\ [rtpPackets[x] EXCEPT !.isPushed = TRUE] \in Entry
          /\ [rtpPackets[x] EXCEPT !.isPushed = TRUE].buffer = rtpPackets[x].buffer
        BY <1>1 DEF Entry
    <2> HIDE DEF pushed
    <2>4. QED
        BY <1>1, <2>1, <2>2, <2>3
<1> HIDE DEF pushed, updated, going
<1>9. /\ jb' \in Fields /\ jb'.isInit = jb.isInit
      /\ rtpPackets' \in [Indexes -> Entry]
      /\ \A y \in Indexes : rtpPackets'[y].buffer \in {rtpPackets[y].buffer, NoBuffer}
      /\ allocated' = Buffers(rtpPackets') /\ allocated' \subseteq Nat
      /\ ready' \in Seq(Seq(Nat)) /\ last_frame' \in Int
      /\ (fault \in BOOLEAN)'
    <2>1. CASE ShouldAcceptPacket(b.newest, p.seq)
        <3>1. Payloads(pushed)
            BY <1>8, PlacedPayloads DEF Payloads
        <3>2. /\ walked \in WalkStates /\ OnlyFrees(pushed, walked.packets)
              /\ Whole(pushed, walked.frames)
            BY <1>7, <1>8, <3>1, ParseFramesOK
        <3>3. PICK frames \in HandedOver(jb.isInit, walked.frames) :
                  Finish(updated, walked, frames)
            BY <1>5, <2>1
        <3> HIDE DEF walked
        <3>4. walked.frames \in Seq(Seq(Nat))
            BY <3>2 DEF WalkStates
        <3>5. frames \in Seq(Seq(Nat)) /\ Whole(pushed, frames)
            BY <3>2, <3>4, HandedOverType
        <3>6. /\ jb' \in Fields /\ jb'.isInit = updated.isInit
              /\ rtpPackets' \in [Indexes -> Entry]
              /\ \A y \in Indexes : rtpPackets'[y].buffer \in {rtpPackets[y].buffer, NoBuffer}
              /\ allocated' = Buffers(rtpPackets') /\ allocated' \subseteq Nat
              /\ ready' \in Seq(Seq(Nat)) /\ last_frame' \in Int
              /\ fault' \in BOOLEAN
            BY <1>6, <1>8, <3>2, <3>3, <3>5, FinishStep
        <3>7. QED
            BY <1>6, <3>6
    <2>2. CASE ~ShouldAcceptPacket(b.newest, p.seq)
        <3>1. /\ jb' = b /\ rtpPackets' = DiscardEntries(rtpPackets, {x})
              /\ allocated' = allocated \ (Buffers(rtpPackets) \ Buffers(rtpPackets'))
              /\ ready' = <<>> /\ last_frame' = last_frame /\ fault' = fault
            BY <1>5, <2>2
        <3>2. rtpPackets' \in [Indexes -> Entry]
            BY <3>1, DiscardType DEF TypeOK
        <3>3. \A y \in Indexes : rtpPackets'[y].buffer \in {rtpPackets[y].buffer, NoBuffer}
            BY <3>1, DiscardLeaves
        <3>4. sent' = sent
            BY <1>2 DEF network
        <3>5. Heap' /\ allocated' \subseteq Nat
            BY <3>1, <3>3, <3>4, FewerLeft
        <3>6. ready' \in Seq(Seq(Nat)) /\ last_frame' \in Int
            BY <3>1 DEF TypeOK
        <3>7. (fault \in BOOLEAN)'
            BY <3>1, Zenon DEF TypeOK
        <3>8. QED
            BY <1>6, <3>1, <3>2, <3>3, <3>5, <3>6, <3>7 DEF Heap
    <2>3. QED
        BY <2>1, <2>2
<1>10. TypeOK'
    BY <1>2, <1>3, <1>9 DEF TypeOK, Fields, network
<1>11. Placed' /\ InHand' /\ Closed'
    BY <1>2, <1>9 DEF Placed, InHand, Closed, network, IndexOf, WireSeq
<1>12. Heap'
    BY <1>9 DEF Heap
<1>13. LastPacket'
    <2>1. Buffers(rtpPackets') \subseteq Buffers(rtpPackets)
        BY <1>9 DEF Buffers
    <2>2. QED
        BY <1>2, <2>1 DEF LastPacket
<1>14. QED
    BY <1>10, <1>11, <1>12, <1>13

\* A session is opened with an empty table: nothing is left of the one before.
LEMMA CreateStep ==
    ASSUME IInv, Create
    PROVE  IInv'
<1> USE DEF IInv
<1>1. rtpPackets' = [x \in Indexes |-> Cleared] /\ jb' = Fresh
    BY DEF Create
<1>2. rtpPackets' \in [Indexes -> Entry] /\ Buffers(rtpPackets') = {}
    BY <1>1, NoneCleared, ConstantTypes
<1>3. jb' \in Fields /\ jb'.isInit
    <2>1. 0 \in Seqs /\ SeqModulus - 1 \in Seqs /\ TsModulus - 1 \in Stamps
        BY ConstantTypes DEF Seqs, Stamps
    <2>2. QED
        BY <1>1, <2>1 DEF Fresh, Fields
<1>4. allocated' = {}
    BY DEF Create, LastPacket, Heap
<1>5. TypeOK'
    <2>1. (receiveSession \in BOOLEAN /\ fault \in BOOLEAN)'
        BY Zenon DEF TypeOK, Create
    <2>2. stream' \in Streams /\ stream' \in Seq([frame : Nat, kind : {"start", "inner", "bad"}])
        BY ConstantTypes DEF Create
    <2>3. sent' \in 0 .. Len(stream') /\ net' \subseteq 0 .. sent' - 1 /\ burst' \in 0 .. BurstMax
        BY <2>2, ConstantTypes DEF Create
    <2>4. sessions' \in 0 .. MaxSessions
        BY ConstantTypes DEF Create, TypeOK
    <2>5. ready' \in Seq(Seq(Nat)) /\ last_frame' \in Int
        BY DEF Create
    <2>6. /\ cpc' \in {"none", "open", "free", "walk", "wipe"} /\ lpc' \in {"idle", "allocate", "allocating", "copy", "push", "pushing"}
          /\ in_hand' \in Nat
        BY DEF Create, TypeOK
    <2>7. QED
        BY <1>2, <1>3, <1>4, <2>1, <2>2, <2>3, <2>4, <2>5, <2>6 DEF TypeOK, Fields
<1>6. Placed'
    BY <1>1 DEF Placed, Cleared
<1>7. InHand' /\ Closed'
    BY DEF Create, InHand, Closed
<1>8. Heap' /\ LastPacket'
    BY <1>2, <1>4 DEF Heap, LastPacket
<1>9. QED
    BY <1>5, <1>6, <1>7, <1>8

LEMMA DeInitStep ==
    ASSUME IInv, DeInit
    PROVE  IInv'
<1> USE DEF IInv
<1>1. TypeOK'
    <2>1. (receiveSession \in BOOLEAN /\ fault \in BOOLEAN)'
        BY Zenon DEF TypeOK, DeInit
    <2>2. ready' \in Seq(Seq(Nat))
        BY DEF DeInit
    <2>3. QED
        BY <2>1, <2>2 DEF TypeOK, DeInit, network, buffer
<1>2. Placed' /\ InHand' /\ Heap' /\ LastPacket' /\ Closed'
    BY DEF DeInit, Placed, InHand, Heap, LastPacket, Closed, network, buffer, IndexOf, WireSeq,
       Buffers
<1>3. QED
    BY <1>1, <1>2

\* The buffer takes no more packets.
LEMMA BeginFreeStep ==
    ASSUME IInv, BeginFree
    PROVE  IInv'
<1> USE DEF IInv
<1>1. jb' \in Fields /\ ~jb'.isInit
    BY DEF BeginFree, TypeOK, Fields
<1>2. TypeOK'
    <2>1. (receiveSession \in BOOLEAN /\ fault \in BOOLEAN)'
        BY Zenon DEF TypeOK, BeginFree
    <2>2. QED
        BY <1>1, <2>1 DEF TypeOK, BeginFree, Fields, network
<1>3. Placed' /\ InHand' /\ Heap' /\ LastPacket'
    BY DEF BeginFree, Placed, InHand, Heap, LastPacket, network, IndexOf, WireSeq, Buffers
<1>4. Closed'
    BY <1>1 DEF Closed
<1>5. QED
    BY <1>2, <1>3, <1>4

\* The last walk.
LEMMA WalkClosingStep ==
    ASSUME IInv, WalkClosing
    PROVE  IInv'
<1> USE DEF IInv
<1> DEFINE walked == ParseFramesInJitterBuffer(jb, rtpPackets, TRUE)
           dropped == DiscardRange(walked.packets, walked.oldest, jb.newest)
           w == [walked EXCEPT !.packets = DiscardRange(@, walked.oldest, jb.newest)]
<1>1. /\ Finish(jb, w, walked.frames) /\ cpc = "walk" /\ cpc' = "wipe"
      /\ UNCHANGED <<network, receiveSession, lpc, in_hand, sessions>>
    BY DEF WalkClosing
<1>2. jb \in Fields /\ ~jb.isInit
    BY <1>1 DEF TypeOK, Fields, Closed
<1>3. rtpPackets \in [Indexes -> Entry]
    BY DEF TypeOK
<1>4. /\ walked \in WalkStates /\ OnlyFrees(rtpPackets, walked.packets)
      /\ Whole(rtpPackets, walked.frames)
    BY <1>2, <1>3, PlacedPayloads, ParseFramesOK
<1> HIDE DEF walked
<1>5. dropped \in [Indexes -> Entry] /\ OnlyFrees(walked.packets, dropped)
    BY <1>4, DiscardType DEF DiscardRange, WalkStates
<1>6. w = [walked EXCEPT !.packets = dropped]
    BY <1>4 DEF WalkStates
<1> HIDE DEF w, dropped
<1>7. w \in WalkStates /\ w.packets = dropped /\ walked.frames \in Seq(Seq(Nat))
    BY <1>4, <1>5, <1>6 DEF WalkStates
<1>8. OnlyFrees(rtpPackets, w.packets)
    BY <1>4, <1>5, <1>7, FreesAgain
<1>9. /\ jb' \in Fields /\ jb'.isInit = jb.isInit
      /\ rtpPackets' \in [Indexes -> Entry]
      /\ \A x \in Indexes : rtpPackets'[x].buffer \in {rtpPackets[x].buffer, NoBuffer}
      /\ allocated' = Buffers(rtpPackets') /\ allocated' \subseteq Nat
      /\ ready' \in Seq(Seq(Nat)) /\ last_frame' \in Int
      /\ fault' \in BOOLEAN
    BY <1>1, <1>2, <1>4, <1>7, <1>8, FinishStep
<1>10. TypeOK'
    <2>1. (receiveSession \in BOOLEAN)'
        BY <1>1, Zenon DEF TypeOK
    <2>2. (fault \in BOOLEAN)'
        BY <1>9
    <2>3. QED
        BY <1>1, <1>9, <2>1, <2>2 DEF TypeOK, Fields, network
<1>11. Placed' /\ InHand' /\ Closed' /\ LastPacket'
    BY <1>1, <1>2, <1>9 DEF Placed, InHand, Closed, LastPacket, network, IndexOf, WireSeq
<1>12. Heap'
    BY <1>9 DEF Heap
<1>13. QED
    BY <1>10, <1>11, <1>12

\* Every entry is cleared.
LEMMA FreeStep ==
    ASSUME IInv, Free
    PROVE  IInv'
<1> USE DEF IInv
<1>1. /\ cpc = "wipe" /\ cpc' = "none" /\ ready' = <<>>
      /\ rtpPackets' = DiscardEntries(rtpPackets, Indexes)
      /\ allocated' = allocated \ (Buffers(rtpPackets) \ Buffers(rtpPackets'))
      /\ UNCHANGED <<network, receiveSession, jb, lpc, in_hand, last_frame, fault, sessions>>
    BY DEF Free
<1>2. rtpPackets' \in [Indexes -> Entry]
    BY <1>1, DiscardType DEF TypeOK
<1>3. \A x \in Indexes : rtpPackets'[x].buffer \in {rtpPackets[x].buffer, NoBuffer}
    BY <1>1, DiscardLeaves
<1>4. sent' = sent
    BY <1>1 DEF network
<1>5. Placed' /\ Heap' /\ allocated' \subseteq Nat
    BY <1>1, <1>3, <1>4, FewerLeft
<1>6. TypeOK'
    <2>1. (receiveSession \in BOOLEAN /\ fault \in BOOLEAN)'
        BY <1>1, Zenon DEF TypeOK
    <2>2. ready' \in Seq(Seq(Nat))
        BY <1>1
    <2>3. QED
        BY <1>1, <1>2, <1>5, <2>1, <2>2 DEF TypeOK, network
<1>7. InHand' /\ Closed'
    BY <1>1 DEF InHand, Closed, network
<1>8. LastPacket'
    <2>1. \A x \in Indexes : rtpPackets'[x].buffer = NoBuffer
        BY <1>1 DEF DiscardEntries, Cleared
    <2>2. Buffers(rtpPackets') = {}
        BY <2>1 DEF Buffers
    <2>3. QED
        BY <2>2 DEF LastPacket
<1>9. QED
    BY <1>5, <1>6, <1>7, <1>8

\* Both tasks in the entries: nothing else is said of this step.
LEMMA CollideStep ==
    ASSUME IInv, Collide
    PROVE  IInv'
<1> USE DEF IInv
<1>1. TypeOK'
    <2>1. (receiveSession \in BOOLEAN)'
        BY Zenon DEF TypeOK, Collide
    <2>2. (fault \in BOOLEAN)'
        BY Zenon DEF Collide
    <2>3. QED
        BY <2>1, <2>2 DEF TypeOK, Collide, network, buffer
<1>2. Placed' /\ InHand' /\ Heap' /\ LastPacket' /\ Closed'
    BY DEF Collide, Placed, InHand, Heap, LastPacket, Closed, network, buffer, IndexOf, WireSeq,
       Buffers
<1>3. QED
    BY <1>1, <1>2

LEMMA Inductive == IInv /\ [Next]_vars => IInv'
<1> SUFFICES ASSUME IInv, [Next]_vars PROVE IInv'
    OBVIOUS
<1>1. CASE Remote
    BY <1>1, RemoteStep
<1>2. CASE Listener
    BY <1>2, DecryptStep, BeginAllocateStep, AllocateBufferStep, CopyPayloadStep,
       BeginPushStep, PushStep DEF Listener
<1>3. CASE Create \/ DeInit
    BY <1>3, CreateStep, DeInitStep
<1>4. CASE BeginFree \/ WalkClosing \/ Free \/ Collide
    BY <1>4, BeginFreeStep, WalkClosingStep, FreeStep, CollideStep
<1>5. CASE UNCHANGED vars
    <2>1. (receiveSession \in BOOLEAN /\ fault \in BOOLEAN)'
        BY <1>5, Zenon DEF IInv, TypeOK, vars
    <2>2. TypeOK'
        BY <1>5, <2>1 DEF IInv, TypeOK, vars, network, buffer
    <2>3. Placed' /\ InHand' /\ Heap' /\ LastPacket' /\ Closed'
        BY <1>5 DEF IInv, Placed, InHand, Heap, LastPacket, Closed, vars, network, buffer,
           IndexOf, WireSeq, Buffers
    <2>4. QED
        BY <2>2, <2>3 DEF IInv
<1>6. QED
    BY <1>1, <1>2, <1>3, <1>4, <1>5 DEF Next

-----------------------------------------------------------------------------
(***************************************************************************)
(* The theorems.                                                           *)
(***************************************************************************)
LEMMA Always == Spec => []IInv
<1>1. Init => IInv
    BY Initially
<1>2. IInv /\ [Next]_vars => IInv'
    BY Inductive
<1>3. QED
    BY <1>1, <1>2, PTL DEF Spec

\* The fields keep to the width of their numbers, and every packet of a frame that
\* is handed over has a payload (OnJitterBufferFrameReady copies from each), for
\* a table and numbers of any size and whatever the network loses and reorders.
THEOREM TypeCorrect == Spec => []TypeOK
<1>1. IInv => TypeOK
    BY DEF IInv
<1>2. QED
    BY <1>1, Always, PTL

\* No payload is left on the heap that no entry points to, nor any of a closed
\* session once the listener is done with its packet: between the closing task's
\* BeginFree, WalkClosing and Free the listener may pass either test of isInit
\* and store a payload, until the tasks meet in the entries (Collide), after
\* which nothing is claimed.
THEOREM NoPayloadLeakSafe == Spec => []NoPayloadLeak
<1>1. IInv => NoPayloadLeak
    BY DEF IInv, Heap, LastPacket, NoPayloadLeak
<1>2. QED
    BY <1>1, Always, PTL

=============================================================================
