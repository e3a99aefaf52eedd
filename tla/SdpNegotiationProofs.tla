------------------------ MODULE SdpNegotiationProofs ------------------------
(***************************************************************************)
(* Proofs about SdpNegotiation, for offers, transceivers and payload types *)
(* of any number.                                                          *)
(***************************************************************************)
EXTENDS SdpNegotiation, FiniteSetTheorems, WellFoundedInduction, TLAPS

PayloadPairs == [apt : PayloadTypes, rtx : PayloadTypes]
Tables == [Codecs -> PayloadPairs]
Kinds == {"video", "audio"}

-----------------------------------------------------------------------------
(***************************************************************************)
(* Numbers and sets.                                                       *)
(***************************************************************************)
\* Induction up to n, on a set.
LEMMA UpTo ==
    ASSUME NEW n \in Nat, NEW T, 0 \in T, \A k \in 0 .. n - 1 : k \in T => k + 1 \in T
    PROVE  \A k \in 0 .. n : k \in T
<1> DEFINE R == OpToRel(<, Nat)
           Rest == {k \in 0 .. n : k \notin T}
<1>1. SUFFICES ASSUME Rest # {} PROVE FALSE
    BY <1>1
<1>2. \A x, y \in Nat : <<y, x>> \in R <=> y < x
    BY DEF OpToRel
<1>3. Rest \subseteq Nat
    OBVIOUS
<1> HIDE DEF R
<1>4. PICK k \in Rest : \A m \in Rest : ~(<<m, k>> \in R)
    <2>1. IsWellFoundedOn(R, Nat)
        BY NatLessThanWellFounded DEF R
    <2> HIDE DEF Rest
    <2>2. QED
        BY <1>1, <2>1, <1>3, WFMin
<1>5. k \in 1 .. n /\ k - 1 \in 0 .. n - 1
    <2>1. k # 0
        OBVIOUS
    <2>2. QED
        BY <2>1
<1>6. k - 1 \in Rest
    BY <1>5
<1>7. <<k - 1, k>> \in R
    BY <1>2, <1>5
<1>8. QED
    <2> HIDE DEF Rest
    <2>1. QED
        BY <1>4, <1>6, <1>7

\* A set of natural numbers has a least one.
LEMMA Least ==
    ASSUME NEW S, S \subseteq Nat, S # {}
    PROVE  Min(S) \in S /\ \A x \in S : Min(S) <= x
<1> DEFINE R == OpToRel(<, Nat)
<1>1. \A x, y \in Nat : <<y, x>> \in R <=> y < x
    BY DEF OpToRel
<1>2. IsWellFoundedOn(R, Nat)
    BY NatLessThanWellFounded
<1> HIDE DEF R
<1>3. PICK k \in S : \A m \in S : ~(<<m, k>> \in R)
    BY <1>2, WFMin
<1>4. ASSUME NEW m \in S
      PROVE  k <= m
    <2>1. k \in Nat /\ m \in Nat /\ ~(<<m, k>> \in R)
        BY <1>3
    <2>2. ~(m < k)
        BY <1>1, <2>1
    <2>3. QED
        BY <2>1, <2>2
<1>5. QED
    BY <1>4 DEF Min

\* Of the places of a list the last is there as well.
LEMMA Greatest ==
    ASSUME NEW n \in Nat, NEW S, S \subseteq 1 .. n, S # {}
    PROVE  Max(S) \in S /\ \A x \in S : x <= Max(S)
<1> DEFINE M == {n - k : k \in S}
<1>1. M \subseteq Nat /\ M # {}
    <2>1. \A k \in S : n - k \in Nat
        OBVIOUS
    <2>2. PICK k : k \in S
        OBVIOUS
    <2>3. n - k \in M
        BY <2>2
    <2>4. QED
        BY <2>1, <2>3, Zenon
<1> HIDE DEF M
<1>2. Min(M) \in M /\ \A x \in M : Min(M) <= x
    BY <1>1, Least
<1>3. PICK k \in S : Min(M) = n - k
    BY <1>2 DEF M
<1>4. \A m \in S : m <= k
    <2> TAKE m \in S
    <2>1. n - m \in M
        BY DEF M
    <2>2. n - k <= n - m
        BY <1>2, <1>3, <2>1
    <2>3. m \in Nat /\ k \in Nat
        OBVIOUS
    <2>4. QED
        BY <2>2, <2>3
<1>5. QED
    BY <1>4 DEF Max

\* A score is a number.
LEMMA ScoreType ==
    ASSUME NEW features
    PROVE  CalculateH264Score(features) \in 0 .. HighestScore
<1> DEFINE both == {"level-asymmetry-allowed=1", "profile 42e01f"}
           one == {"level-asymmetry-allowed=1"}
<1>1. IsFiniteSet(both) /\ Cardinality(both) \in Nat /\ Cardinality(both) <= 2
    <2>1. IsFiniteSet({}) /\ Cardinality({}) = 0
        BY FS_EmptySet
    <2>2. IsFiniteSet({} \cup one) /\ Cardinality({} \cup one) \in 0 .. 1
        BY <2>1, FS_AddElement
    <2>3. one = {} \cup one
        OBVIOUS
    <2>4. both = one \cup {"profile 42e01f"}
        OBVIOUS
    <2> HIDE DEF one, both
    <2>5. IsFiniteSet(one) /\ Cardinality(one) \in 0 .. 1
        BY <2>2, <2>3
    <2>6. /\ IsFiniteSet(one \cup {"profile 42e01f"})
          /\ Cardinality(one \cup {"profile 42e01f"})
                = IF "profile 42e01f" \in one THEN Cardinality(one) ELSE Cardinality(one) + 1
        BY <2>5, FS_AddElement
    <2>7. /\ IsFiniteSet(both)
          /\ Cardinality(both) = Cardinality(one) \/ Cardinality(both) = Cardinality(one) + 1
        BY <2>4, <2>6, Zenon
    <2>8. QED
        BY <2>5, <2>7
<1> HIDE DEF both
<1>2. Cardinality(features \cap both) \in 0 .. 2
    <2>1. features \cap both \in SUBSET both
        OBVIOUS
    <2>2. /\ IsFiniteSet(features \cap both)
          /\ Cardinality(features \cap both) <= Cardinality(both)
        BY <1>1, <2>1, FS_Subset
    <2>3. Cardinality(features \cap both) \in Nat
        BY <2>2, FS_CardinalityType
    <2>4. QED
        BY <1>1, <2>2, <2>3
<1>3. CalculateH264Score(features)
        = (IF "packetization-mode=1" \in features THEN 10 ELSE 0) + Cardinality(features \cap both)
    BY DEF CalculateH264Score, MinimumScore, both
<1>4. QED
    BY <1>2, <1>3 DEF HighestScore

-----------------------------------------------------------------------------
(***************************************************************************)
(* The codecs and the first of them in an order.                           *)
(***************************************************************************)
LEMMA CodecsAre == Codecs = {"H264", "VP8", "H265", "OPUS", "MULAW", "ALAW"}
BY DEF Codecs, CodecOrder, ToSet

LEMMA PreferredIsCommon ==
    ASSUME NEW codecs, codecs \cap Codecs # {}
    PROVE  Preferred(codecs) \in codecs \cap Codecs
<1> DEFINE S == {k \in DOMAIN CodecOrder : CodecOrder[k] \in codecs}
<1>1. DOMAIN CodecOrder = 1 .. 6
    BY DEF CodecOrder
<1>2. S \subseteq Nat /\ S # {}
    BY <1>1 DEF Codecs, ToSet
<1>3. Min(S) \in S
    <2> HIDE DEF S
    <2>1. QED
        BY <1>2, Least
<1>4. QED
    BY <1>3 DEF Preferred, FirstOf, Codecs, ToSet

-----------------------------------------------------------------------------
(***************************************************************************)
(* There is one function that says what every step makes of the step       *)
(* before, so Scans and Given are those functions.                         *)
(***************************************************************************)
LEMMA ScansAre ==
    ASSUME NEW attributes, NEW payloads, Len(attributes) \in Nat
    PROVE  /\ Scans(attributes, payloads)[0] = [bitmap |-> {}, payloads |-> payloads, best |-> 0]
           /\ \A k \in 1 .. Len(attributes) :
                  Scans(attributes, payloads)[k]
                      = CollectAttribute(attributes, Scans(attributes, payloads)[k - 1],
                                         attributes[k])
<1> DEFINE First == [bitmap |-> {}, payloads |-> payloads, best |-> 0]
           After(w, k) == CollectAttribute(attributes, w, attributes[k])
           Is(g, n) == g = [k \in 0 .. n |-> IF k = 0 THEN First ELSE After(g[k - 1], k)]
           T == {n \in 0 .. Len(attributes) : \E g : Is(g, n)}
           all == Scans(attributes, payloads)
<1> HIDE DEF First, After
<1>1. 0 \in T
    <2> DEFINE g == [k \in 0 .. 0 |-> First]
    <2>1. Is(g, 0)
        OBVIOUS
    <2>2. 0 \in 0 .. Len(attributes)
        OBVIOUS
    <2> HIDE DEF Is
    <2>3. QED
        BY <2>1, <2>2
<1>2. ASSUME NEW n \in 0 .. Len(attributes) - 1, n \in T
      PROVE  n + 1 \in T
    <2>1. PICK g : Is(g, n)
        BY <1>2
    <2> DEFINE h == [k \in 0 .. n + 1 |-> IF k = n + 1 THEN After(g[n], n + 1) ELSE g[k]]
    <2>2. \A k \in 0 .. n : h[k] = g[k]
        OBVIOUS
    <2>3. ASSUME NEW k \in 0 .. n + 1
          PROVE  h[k] = IF k = 0 THEN First ELSE After(h[k - 1], k)
        <3>1. CASE k = n + 1
            <4>1. h[k] = After(g[n], n + 1) /\ k - 1 = n /\ n \in 0 .. n /\ k # 0
                BY <3>1
            <4>2. h[n] = g[n]
                BY <4>1, <2>2
            <4>3. QED
                BY <3>1, <4>1, <4>2
        <3>2. CASE k # n + 1 /\ k # 0
            <4>1. k \in 0 .. n /\ k - 1 \in 0 .. n
                BY <3>2
            <4>2. h[k] = g[k] /\ h[k - 1] = g[k - 1]
                BY <2>2, <4>1
            <4>3. g[k] = After(g[k - 1], k)
                BY <2>1, <3>2, <4>1
            <4> HIDE DEF h
            <4>4. QED
                BY <3>2, <4>2, <4>3
        <3>3. CASE k = 0
            <4>1. k \in 0 .. n
                BY <3>3
            <4>2. h[k] = g[k] /\ g[k] = First
                BY <2>1, <2>2, <3>3, <4>1
            <4> HIDE DEF h
            <4>3. QED
                BY <3>3, <4>2
        <3>4. QED
            BY <3>1, <3>2, <3>3
    <2>4. h = [k \in 0 .. n + 1 |-> h[k]]
        OBVIOUS
    <2> HIDE DEF h
    <2>5. Is(h, n + 1)
        BY <2>3, <2>4
    <2>6. n + 1 \in 0 .. Len(attributes)
        OBVIOUS
    <2> HIDE DEF Is
    <2>7. QED
        BY <2>5, <2>6
<1>3. Len(attributes) \in T
    <2> HIDE DEF T
    <2>1. \A k \in 0 .. Len(attributes) - 1 : k \in T => k + 1 \in T
        BY <1>2
    <2>2. \A k \in 0 .. Len(attributes) : k \in T
        BY <1>1, <2>1, UpTo
    <2>3. Len(attributes) \in 0 .. Len(attributes)
        OBVIOUS
    <2>4. QED
        BY <2>2, <2>3
<1>4. \E g : Is(g, Len(attributes))
    BY <1>3
<1>5. all = CHOOSE g : Is(g, Len(attributes))
    BY DEF Scans, First, After
<1>6. Is(all, Len(attributes))
    <2> HIDE DEF Is, all
    <2>1. QED
        BY <1>4, <1>5
<1>7. all[0] = First
    <2> HIDE DEF all
    <2>1. QED
        BY <1>6
<1>8. ASSUME NEW k \in 1 .. Len(attributes)
      PROVE  all[k] = After(all[k - 1], k)
    <2> HIDE DEF all
    <2>1. k \in 0 .. Len(attributes) /\ k # 0
        OBVIOUS
    <2>2. QED
        BY <1>6, <2>1
<1>9. QED
    BY <1>7, <1>8 DEF First, After

Begin ==
    [known  |-> [bitmap |-> {}, payloads |-> [c \in Codecs |-> NoPayload]],
     taken  |-> {},
     config |-> rtpConfig,
     mLines |-> mLines,
     ok     |-> TRUE]

ForLine(line, acc) ==
    SetPayloadType(line, [acc EXCEPT !.known = GetPayloadTypesFromMedia(line, @)])

LEMMA GivenAre ==
    ASSUME NEW offer, Len(offer.lines) \in Nat
    PROVE  /\ Given(offer)[0] = Begin
           /\ \A k \in 1 .. Len(offer.lines) :
                  Given(offer)[k] = ForLine(offer.lines[k], Given(offer)[k - 1])
<1> DEFINE First == Begin
           After(w, k) == ForLine(offer.lines[k], w)
           Is(g, n) == g = [k \in 0 .. n |-> IF k = 0 THEN First ELSE After(g[k - 1], k)]
           T == {n \in 0 .. Len(offer.lines) : \E g : Is(g, n)}
           all == Given(offer)
<1> HIDE DEF First, After
<1>1. 0 \in T
    <2> DEFINE g == [k \in 0 .. 0 |-> First]
    <2>1. Is(g, 0)
        OBVIOUS
    <2>2. 0 \in 0 .. Len(offer.lines)
        OBVIOUS
    <2> HIDE DEF Is
    <2>3. QED
        BY <2>1, <2>2
<1>2. ASSUME NEW n \in 0 .. Len(offer.lines) - 1, n \in T
      PROVE  n + 1 \in T
    <2>1. PICK g : Is(g, n)
        BY <1>2
    <2> DEFINE h == [k \in 0 .. n + 1 |-> IF k = n + 1 THEN After(g[n], n + 1) ELSE g[k]]
    <2>2. \A k \in 0 .. n : h[k] = g[k]
        OBVIOUS
    <2>3. ASSUME NEW k \in 0 .. n + 1
          PROVE  h[k] = IF k = 0 THEN First ELSE After(h[k - 1], k)
        <3>1. CASE k = n + 1
            <4>1. h[k] = After(g[n], n + 1) /\ k - 1 = n /\ n \in 0 .. n /\ k # 0
                BY <3>1
            <4>2. h[n] = g[n]
                BY <4>1, <2>2
            <4>3. QED
                BY <3>1, <4>1, <4>2
        <3>2. CASE k # n + 1 /\ k # 0
            <4>1. k \in 0 .. n /\ k - 1 \in 0 .. n
                BY <3>2
            <4>2. h[k] = g[k] /\ h[k - 1] = g[k - 1]
                BY <2>2, <4>1
            <4>3. g[k] = After(g[k - 1], k)
                BY <2>1, <3>2, <4>1
            <4> HIDE DEF h
            <4>4. QED
                BY <3>2, <4>2, <4>3
        <3>3. CASE k = 0
            <4>1. k \in 0 .. n
                BY <3>3
            <4>2. h[k] = g[k] /\ g[k] = First
                BY <2>1, <2>2, <3>3, <4>1
            <4> HIDE DEF h
            <4>3. QED
                BY <3>3, <4>2
        <3>4. QED
            BY <3>1, <3>2, <3>3
    <2>4. h = [k \in 0 .. n + 1 |-> h[k]]
        OBVIOUS
    <2> HIDE DEF h
    <2>5. Is(h, n + 1)
        BY <2>3, <2>4
    <2>6. n + 1 \in 0 .. Len(offer.lines)
        OBVIOUS
    <2> HIDE DEF Is
    <2>7. QED
        BY <2>5, <2>6
<1>3. Len(offer.lines) \in T
    <2> HIDE DEF T
    <2>1. \A k \in 0 .. Len(offer.lines) - 1 : k \in T => k + 1 \in T
        BY <1>2
    <2>2. \A k \in 0 .. Len(offer.lines) : k \in T
        BY <1>1, <2>1, UpTo
    <2>3. Len(offer.lines) \in 0 .. Len(offer.lines)
        OBVIOUS
    <2>4. QED
        BY <2>2, <2>3
<1>4. \E g : Is(g, Len(offer.lines))
    BY <1>3
<1>5. all = CHOOSE g : Is(g, Len(offer.lines))
    BY DEF Given, Begin, ForLine, First, After
<1>6. Is(all, Len(offer.lines))
    <2> HIDE DEF Is, all
    <2>1. QED
        BY <1>4, <1>5
<1>7. all[0] = First
    <2> HIDE DEF all
    <2>1. QED
        BY <1>6
<1>8. ASSUME NEW k \in 1 .. Len(offer.lines)
      PROVE  all[k] = After(all[k - 1], k)
    <2> HIDE DEF all
    <2>1. k \in 0 .. Len(offer.lines) /\ k # 0
        OBVIOUS
    <2>2. QED
        BY <1>6, <2>1
<1>9. QED
    BY <1>7, <1>8 DEF First, After

-----------------------------------------------------------------------------
(***************************************************************************)
(* What the scan of a line finds has its types.                            *)
(***************************************************************************)
Knowns == [bitmap : SUBSET Codecs, payloads : Tables]
Founds == [bitmap : SUBSET Codecs, payloads : Tables, best : 0 .. HighestScore]

LEMMA WithCodecType ==
    ASSUME NEW acc \in Founds, NEW codec \in Codecs, NEW payload \in PayloadTypes,
           NEW best \in 0 .. HighestScore
    PROVE  WithCodec(acc, codec, payload, best) \in Founds
<1> DEFINE pair == [apt |-> payload, rtx |-> 0]
           table == [acc.payloads EXCEPT ![codec] = pair]
<1>1. pair \in PayloadPairs
    BY SdpAssumption DEF PayloadPairs
<1> HIDE DEF pair
<1>2. acc.payloads \in Tables /\ acc.bitmap \subseteq Codecs
    BY DEF Founds
<1>3. table \in Tables
    BY <1>1, <1>2 DEF Tables
<1>4. acc.bitmap \cup {codec} \in SUBSET Codecs
    BY <1>2
<1>5. WithCodec(acc, codec, payload, best)
        = [bitmap |-> acc.bitmap \cup {codec}, payloads |-> table, best |-> best]
    BY DEF WithCodec, pair
<1> HIDE DEF table
<1>6. QED
    BY <1>3, <1>4, <1>5 DEF Founds

LEMMA CollectAttributeType ==
    ASSUME NEW attributes, NEW acc \in Founds, NEW a \in Attributes
    PROVE  CollectAttribute(attributes, acc, a) \in Founds
<1> DEFINE score == CalculateH264Score(FindH264Fmtp(attributes, a.payload))
           Better == IsRtpmap(a, "H264") /\ acc.best < HighestScore
           Other == a.name = "rtpmap" /\ a.codec \in Codecs \ (acc.bitmap \cup {"H264"})
           Bound == IsFmtp(a) /\ a.apt # 0
           table == [c \in Codecs |->
                        IF c \in acc.bitmap /\ acc.payloads[c].apt = a.apt
                        THEN [apt |-> a.apt, rtx |-> a.payload] ELSE acc.payloads[c]]
           result == CollectAttribute(attributes, acc, a)
<1>1. score \in 0 .. HighestScore
    BY ScoreType
<1>2. a.payload \in PayloadTypes /\ a.apt \in PayloadTypes
    BY DEF Attributes
<1>3. acc.payloads \in Tables /\ acc.bitmap \subseteq Codecs /\ acc.best \in 0 .. HighestScore
    BY DEF Founds
<1>4. "H264" \in Codecs
    BY CodecsAre
<1>5. CASE Better
    <2>1. result = IF score >= MinimumScore /\ acc.best < score
                   THEN WithCodec(acc, "H264", a.payload, score) ELSE acc
        BY <1>5 DEF CollectAttribute, IsRtpmap, IsFmtp
    <2> HIDE DEF score
    <2>2. QED
        BY <1>1, <1>2, <1>4, <2>1, WithCodecType
<1>6. CASE Other
    <2>1. result = WithCodec(acc, a.codec, a.payload, acc.best)
        BY <1>6 DEF CollectAttribute, IsRtpmap, IsFmtp
    <2> HIDE DEF score
    <2>2. QED
        BY <1>2, <1>3, <1>6, <2>1, WithCodecType
<1>7. CASE Bound
    <2>1. result = [acc EXCEPT !.payloads = table]
        BY <1>7 DEF CollectAttribute, IsRtpmap, IsFmtp
    <2>2. table \in Tables
        <3>1. [apt |-> a.apt, rtx |-> a.payload] \in PayloadPairs
            BY <1>2 DEF PayloadPairs
        <3>2. \A c \in Codecs : acc.payloads[c] \in PayloadPairs
            BY <1>3 DEF Tables
        <3>3. QED
            BY <3>1, <3>2 DEF Tables
    <2> HIDE DEF score, table
    <2>3. QED
        BY <2>1, <2>2 DEF Founds
<1>8. CASE ~Better /\ ~Other /\ ~Bound
    BY <1>8 DEF CollectAttribute
<1>9. QED
    BY <1>5, <1>6, <1>7, <1>8

LEMMA ScansType ==
    ASSUME NEW attributes \in Seq(Attributes), NEW payloads \in Tables
    PROVE  \A k \in 0 .. Len(attributes) : Scans(attributes, payloads)[k] \in Founds
<1> DEFINE scans == Scans(attributes, payloads)
           T == {k \in 0 .. Len(attributes) : scans[k] \in Founds}
<1>1. Len(attributes) \in Nat
    OBVIOUS
<1>2. /\ scans[0] = [bitmap |-> {}, payloads |-> payloads, best |-> 0]
      /\ \A k \in 1 .. Len(attributes) :
            scans[k] = CollectAttribute(attributes, scans[k - 1], attributes[k])
    BY <1>1, ScansAre
<1> HIDE DEF scans
<1>3. 0 \in T
    BY <1>1, <1>2 DEF Founds, HighestScore
<1>4. ASSUME NEW k \in 0 .. Len(attributes) - 1, k \in T
      PROVE  k + 1 \in T
    <2>1. k + 1 \in 1 .. Len(attributes) /\ (k + 1) - 1 = k
        BY <1>1
    <2>2. attributes[k + 1] \in Attributes
        <3> DEFINE A == Attributes
        <3>1. attributes \in Seq(A)
            OBVIOUS
        <3> HIDE DEF A
        <3>2. attributes[k + 1] \in A
            BY <2>1, <3>1
        <3>3. QED
            BY <3>2 DEF A
    <2>3. scans[k + 1] = CollectAttribute(attributes, scans[k], attributes[k + 1])
        BY <1>2, <2>1
    <2>4. QED
        BY <1>4, <2>1, <2>2, <2>3, CollectAttributeType
<1>5. \A k \in 0 .. Len(attributes) : k \in T
    <2> HIDE DEF T
    <2>1. \A k \in 0 .. Len(attributes) - 1 : k \in T => k + 1 \in T
        BY <1>4
    <2>2. QED
        BY <1>1, <1>3, <2>1, UpTo
<1>6. QED
    BY <1>5 DEF scans

LEMMA WithStaticPayloadType ==
    ASSUME NEW line \in MediaLines, NEW known \in Knowns
    PROVE  WithStaticPayload(line, known) \in Knowns
<1> DEFINE static == {k \in DOMAIN line.formats : line.formats[k] \in {0, 8}}
           first == line.formats[Min(static)]
           codec == IF first = 0 THEN "MULAW" ELSE "ALAW"
           pair == [apt |-> first, rtx |-> 0]
           table == [known.payloads EXCEPT !["MULAW"] = pair]
<1>1. line.formats \in Seq(PayloadTypes)
    BY DEF MediaLines
<1>2. static \subseteq Nat
    BY <1>1
<1>3. CASE static = {}
    BY <1>3 DEF WithStaticPayload
<1>4. CASE static # {}
    <2>1. Min(static) \in static
        <3> HIDE DEF static
        <3>1. QED
            BY <1>2, <1>4, Least
    <2>2. first \in {0, 8}
        BY <2>1
    <2> HIDE DEF static, first
    <2>3. pair \in PayloadPairs
        BY <2>2, SdpAssumption DEF PayloadPairs
    <2>4. codec \in Codecs /\ "MULAW" \in Codecs
        BY CodecsAre
    <2> HIDE DEF pair, codec
    <2>5. known.payloads \in Tables /\ known.bitmap \subseteq Codecs
        BY DEF Knowns
    <2>6. table \in Tables
        BY <2>3, <2>4, <2>5 DEF Tables
    <2>7. known.bitmap \cup {codec} \in SUBSET Codecs
        BY <2>4, <2>5
    <2>8. WithStaticPayload(line, known)
            = [bitmap |-> known.bitmap \cup {codec}, payloads |-> table]
        BY <1>4 DEF WithStaticPayload, static, first, codec, pair
    <2> HIDE DEF table
    <2>9. QED
        BY <2>6, <2>7, <2>8 DEF Knowns
<1>5. QED
    BY <1>3, <1>4

LEMMA GetPayloadTypesType ==
    ASSUME NEW line \in MediaLines, NEW known \in Knowns
    PROVE  GetPayloadTypesFromMedia(line, known) \in Knowns
<1> DEFINE default == WithStaticPayload(line, known)
           scan == CollectAttributesCodec(line.attributes, default.payloads)
<1>1. default \in Knowns
    BY WithStaticPayloadType
<1> HIDE DEF default
<1>2. default.payloads \in Tables /\ default.bitmap \in SUBSET Codecs
    BY <1>1 DEF Knowns
<1>3. line.attributes \in Seq(Attributes)
    BY DEF MediaLines
<1>4. Len(line.attributes) \in 0 .. Len(line.attributes)
    BY <1>3
<1>5. scan \in Founds
    BY <1>2, <1>3, <1>4, ScansType DEF CollectAttributesCodec
<1> HIDE DEF scan
<1>6. scan.payloads \in Tables /\ default.bitmap \cup scan.bitmap \in SUBSET Codecs
    BY <1>2, <1>5 DEF Founds
<1>7. GetPayloadTypesFromMedia(line, known)
        = [bitmap |-> default.bitmap \cup scan.bitmap, payloads |-> scan.payloads]
    BY DEF GetPayloadTypesFromMedia, default, scan
<1>8. QED
    BY <1>6, <1>7 DEF Knowns

-----------------------------------------------------------------------------
(***************************************************************************)
(* The lines of an offer, one after the other.                             *)
(***************************************************************************)
Accs == [known  : Knowns,
         taken  : SUBSET (1 .. transceiverCount),
         config : [Kinds -> PayloadPairs],
         mLines : Seq(1 .. transceiverCount),
         ok     : BOOLEAN]

\* After k lines at most k transceivers are taken, each once.
Took(acc, k) ==
    /\ acc \in Accs
    /\ IsInjective(acc.mLines) /\ ToSet(acc.mLines) \subseteq acc.taken
    /\ Len(acc.mLines) <= k

LEMMA OneMore ==
    ASSUME NEW n \in Nat, NEW s \in Seq(1 .. n), IsInjective(s), NEW i \in (1 .. n) \ ToSet(s)
    PROVE  /\ Append(s, i) \in Seq(1 .. n)
           /\ IsInjective(Append(s, i))
           /\ ToSet(Append(s, i)) = ToSet(s) \cup {i}
           /\ Len(Append(s, i)) = Len(s) + 1
<1>0. \A k \in 1 .. Len(s) + 1 : k \notin 1 .. Len(s) => k = Len(s) + 1
    <2>1. \A m \in Nat : \A k \in 1 .. m + 1 : k \notin 1 .. m => k = m + 1
        OBVIOUS
    <2>2. Len(s) \in Nat
        OBVIOUS
    <2>3. QED
        BY <2>1, <2>2, Zenon
<1> DEFINE N == 1 .. n
<1>1. s \in Seq(N) /\ i \in N
    OBVIOUS
<1> HIDE DEF N
<1>2. /\ Append(s, i) \in Seq(N) /\ Len(Append(s, i)) = Len(s) + 1 /\ Len(s) \in Nat
      /\ DOMAIN s = 1 .. Len(s) /\ DOMAIN Append(s, i) = 1 .. Len(s) + 1
      /\ \A k \in 1 .. Len(s) : Append(s, i)[k] = s[k]
      /\ Append(s, i)[Len(s) + 1] = i
    BY <1>1
<1>3. \A k \in 1 .. Len(s) : s[k] # i
    BY <1>2 DEF ToSet
<1>4. \A j, k \in 1 .. Len(s) : s[j] = s[k] => j = k
    BY <1>2 DEF IsInjective
<1>5. ASSUME NEW j \in 1 .. Len(s) + 1, NEW k \in 1 .. Len(s) + 1,
             Append(s, i)[j] = Append(s, i)[k]
      PROVE  j = k
    <2>1. CASE j \in 1 .. Len(s) /\ k \in 1 .. Len(s)
        BY <1>2, <1>4, <1>5, <2>1
    <2>2. CASE j \notin 1 .. Len(s) /\ k \notin 1 .. Len(s)
        BY <1>2, <2>2
    <2>3. CASE j \notin 1 .. Len(s) /\ k \in 1 .. Len(s)
        <3>1. j = Len(s) + 1
            BY <1>0, <2>3, Zenon
        <3>2. QED
            BY <1>2, <1>3, <1>5, <2>3, <3>1
    <2>4. CASE j \in 1 .. Len(s) /\ k \notin 1 .. Len(s)
        <3>1. k = Len(s) + 1
            BY <1>0, <2>4, Zenon
        <3>2. QED
            BY <1>2, <1>3, <1>5, <2>4, <3>1
    <2>5. QED
        BY <2>1, <2>2, <2>3, <2>4
<1>6. IsInjective(Append(s, i))
    BY <1>2, <1>5 DEF IsInjective
<1>7. ToSet(Append(s, i)) = ToSet(s) \cup {i}
    <2>1. ASSUME NEW x \in ToSet(Append(s, i)) PROVE x \in ToSet(s) \cup {i}
        <3>1. PICK k \in 1 .. Len(s) + 1 : x = Append(s, i)[k]
            BY <1>2 DEF ToSet
        <3>2. CASE k \in 1 .. Len(s)
            BY <1>2, <3>1, <3>2 DEF ToSet
        <3>3. CASE k = Len(s) + 1
            BY <1>2, <3>1, <3>3
        <3>4. QED
            BY <1>2, <3>2, <3>3
    <2>2. ASSUME NEW x \in ToSet(s) PROVE x \in ToSet(Append(s, i))
        <3>1. PICK k \in 1 .. Len(s) : x = s[k]
            BY <1>2 DEF ToSet
        <3>2. x = Append(s, i)[k] /\ k \in DOMAIN Append(s, i)
            BY <1>2, <3>1
        <3>3. QED
            BY <3>2 DEF ToSet
    <2>3. i \in ToSet(Append(s, i))
        <3>1. Len(s) + 1 \in DOMAIN Append(s, i)
            BY <1>2
        <3>2. QED
            BY <1>2, <3>1 DEF ToSet
    <2>4. QED
        BY <2>1, <2>2, <2>3
<1>8. QED
    BY <1>2, <1>6, <1>7 DEF N

LEMMA TransceiverType ==
    /\ Len(Transceivers) \in Nat
    /\ \A i \in 1 .. Len(Transceivers) :
          Transceivers[i].kind \in Kinds /\ Transceivers[i].direction \in Directions
<1> DEFINE R == [kind : {"video", "audio"}, codecs : SUBSET STRING, direction : Directions]
<1>1. Transceivers \in Seq(R)
    BY SdpAssumption
<1>2. \A r \in R : r.kind \in Kinds /\ r.direction \in Directions
    BY DEF Kinds
<1> HIDE DEF R
<1>3. QED
    BY <1>1, <1>2

\* The codec a line is given is one of the common ones.
LEMMA UsableCodec ==
    ASSUME NEW line, NEW known \in Knowns, NEW taken, transceiverCount \in Nat,
           Usable(line, known, taken) # {}
    PROVE  LET i == Min(Usable(line, known, taken))
           IN  /\ i \in 1 .. transceiverCount /\ i \notin taken
               /\ Transceivers[i].kind = line.kind
               /\ Preferred(Transceivers[i].codecs \cap known.bitmap)
                    \in Transceivers[i].codecs \cap known.bitmap
               /\ \A j \in Usable(line, known, taken) : i <= j
<1> DEFINE usable == Usable(line, known, taken)
           i == Min(usable)
<1>1. usable \subseteq Nat /\ usable # {}
    BY DEF Usable
<1>2. i \in usable /\ \A j \in usable : i <= j
    <2> HIDE DEF usable
    <2>1. QED
        BY <1>1, Least
<1>3. known.bitmap \subseteq Codecs
    BY DEF Knowns
<1>4. /\ i \in 1 .. transceiverCount /\ i \notin taken
      /\ Transceivers[i].kind = line.kind
      /\ Transceivers[i].codecs \cap known.bitmap # {}
    BY <1>2 DEF Usable
<1> HIDE DEF i, usable
<1>5. Preferred(Transceivers[i].codecs \cap known.bitmap)
        \in Transceivers[i].codecs \cap known.bitmap
    <2>1. (Transceivers[i].codecs \cap known.bitmap) \cap Codecs # {}
        BY <1>3, <1>4
    <2>2. QED
        BY <2>1, PreferredIsCommon
<1>6. QED
    BY <1>2, <1>4, <1>5 DEF i, usable

\* What a line changes: the table always, the rest if a transceiver is given to it.
LEMMA ForLineIs ==
    ASSUME NEW line \in MediaLines, NEW acc \in Accs
    PROVE  LET known == GetPayloadTypesFromMedia(line, acc.known)
               usable == Usable(line, known, acc.taken)
               i == Min(usable)
               codec == Preferred(Transceivers[i].codecs \cap known.bitmap)
               new == ForLine(line, acc)
           IN  /\ new = [known |-> new.known, taken |-> new.taken, config |-> new.config,
                         mLines |-> new.mLines, ok |-> new.ok]
               /\ new.known = known /\ known \in Knowns /\ new.ok \in BOOLEAN
               /\ line.kind \notin Kinds \/ usable = {} =>
                    new.taken = acc.taken /\ new.config = acc.config /\ new.mLines = acc.mLines
               /\ line.kind \in Kinds /\ usable # {} =>
                    /\ new.taken = acc.taken \cup {i}
                    /\ new.config = [acc.config EXCEPT ![line.kind] = known.payloads[codec]]
                    /\ new.mLines = IF Len(acc.mLines) < TransceiverMaxCount
                                    THEN Append(acc.mLines, i) ELSE acc.mLines
<1> DEFINE known == GetPayloadTypesFromMedia(line, acc.known)
           mid == [acc EXCEPT !.known = known]
           usable == Usable(line, known, acc.taken)
           i == Min(usable)
           codec == Preferred(Transceivers[i].codecs \cap known.bitmap)
           new == ForLine(line, acc)
<1>1. acc.known \in Knowns
    BY DEF Accs
<1>2. known \in Knowns
    BY <1>1, GetPayloadTypesType
<1>3. new = SetPayloadType(line, mid)
    BY DEF ForLine
<1> HIDE DEF known
<1>4. /\ mid \in Accs /\ mid.known = known /\ mid.taken = acc.taken /\ mid.mLines = acc.mLines
      /\ mid.config = acc.config
    BY <1>2 DEF Accs
<1>5. Usable(line, mid.known, mid.taken) = usable
    BY <1>4
<1> HIDE DEF mid, usable
<1>6. CASE line.kind \notin Kinds
    <2>1. new = [mid EXCEPT !.ok = FALSE]
        BY <1>3, <1>6 DEF SetPayloadType, Kinds
    <2> HIDE DEF new
    <2>2. QED
        BY <1>2, <1>4, <1>6, <2>1 DEF Accs, new, known, usable
<1>7. CASE line.kind \in Kinds /\ usable = {}
    <2>1. new = [mid EXCEPT !.ok = TRUE]
        BY <1>3, <1>5, <1>7 DEF SetPayloadType, Kinds
    <2> HIDE DEF new
    <2>2. QED
        BY <1>2, <1>4, <1>7, <2>1 DEF Accs, new, known, usable
<1>8. CASE line.kind \in Kinds /\ usable # {}
    <2>1. new = [mid EXCEPT !.ok = TRUE,
                            !.taken = @ \cup {i},
                            !.config[line.kind] = known.payloads[codec],
                            !.mLines = IF Len(@) < TransceiverMaxCount
                                       THEN Append(@, i) ELSE @]
        BY <1>3, <1>4, <1>5, <1>8 DEF SetPayloadType, Kinds
    <2> HIDE DEF new, i, codec
    <2>2. new = [known |-> known, taken |-> acc.taken \cup {i},
                 config |-> [acc.config EXCEPT ![line.kind] = known.payloads[codec]],
                 mLines |-> IF Len(acc.mLines) < TransceiverMaxCount
                            THEN Append(acc.mLines, i) ELSE acc.mLines,
                 ok |-> TRUE]
        BY <1>4, <2>1 DEF Accs
    <2>3. QED
        BY <1>2, <1>8, <2>2 DEF new, known, usable, i, codec
<1>9. QED
    BY <1>6, <1>7, <1>8

LEMMA ForLineTook ==
    ASSUME NEW line \in MediaLines, NEW k \in Nat, NEW acc, Took(acc, k),
           transceiverCount \in Nat
    PROVE  Took(ForLine(line, acc), k + 1)
<1> DEFINE known == GetPayloadTypesFromMedia(line, acc.known)
           usable == Usable(line, known, acc.taken)
           i == Min(usable)
           codec == Preferred(Transceivers[i].codecs \cap known.bitmap)
           new == ForLine(line, acc)
<1>1. acc \in Accs
    BY DEF Took
<1>2. /\ acc.known \in Knowns /\ acc.taken \subseteq 1 .. transceiverCount
      /\ acc.config \in [Kinds -> PayloadPairs] /\ acc.mLines \in Seq(1 .. transceiverCount)
      /\ acc.ok \in BOOLEAN
    BY DEF Took, Accs
<1>3. Len(acc.mLines) \in Nat /\ Len(acc.mLines) <= k
    BY <1>2 DEF Took
<1>4. IsInjective(acc.mLines) /\ ToSet(acc.mLines) \subseteq acc.taken
    BY DEF Took
<1>5. /\ new = [known |-> new.known, taken |-> new.taken, config |-> new.config,
                mLines |-> new.mLines, ok |-> new.ok]
      /\ new.known = known /\ known \in Knowns /\ new.ok \in BOOLEAN
    BY <1>1, ForLineIs
<1>6. CASE line.kind \notin Kinds \/ usable = {}
    <2>1. new.taken = acc.taken /\ new.config = acc.config /\ new.mLines = acc.mLines
        BY <1>1, <1>6, ForLineIs
    <2> HIDE DEF new
    <2>2. new \in Accs
        BY <1>2, <1>5, <2>1 DEF Accs
    <2>3. Took(new, k + 1)
        BY <1>3, <1>4, <2>1, <2>2 DEF Took
    <2>4. QED
        BY <2>3 DEF new
<1>7. CASE line.kind \in Kinds /\ usable # {}
    <2>1. /\ i \in 1 .. transceiverCount /\ i \notin acc.taken
          /\ codec \in Transceivers[i].codecs \cap known.bitmap
        BY <1>5, <1>7, UsableCodec
    <2>2. /\ new.taken = acc.taken \cup {i}
          /\ new.config = [acc.config EXCEPT ![line.kind] = known.payloads[codec]]
          /\ new.mLines = IF Len(acc.mLines) < TransceiverMaxCount
                          THEN Append(acc.mLines, i) ELSE acc.mLines
        BY <1>1, <1>7, ForLineIs
    <2>3. known.payloads[codec] \in PayloadPairs
        BY <1>5, <2>1 DEF Knowns, Tables
    <2> HIDE DEF known, i, usable, codec, new
    <2>4. new.config \in [Kinds -> PayloadPairs]
        BY <1>2, <1>7, <2>2, <2>3
    <2>5. /\ new.mLines \in Seq(1 .. transceiverCount) /\ IsInjective(new.mLines)
          /\ ToSet(new.mLines) \subseteq acc.taken \cup {i} /\ Len(new.mLines) <= k + 1
        <3>1. i \in (1 .. transceiverCount) \ ToSet(acc.mLines)
            BY <1>4, <2>1
        <3>2. /\ Append(acc.mLines, i) \in Seq(1 .. transceiverCount)
              /\ IsInjective(Append(acc.mLines, i))
              /\ ToSet(Append(acc.mLines, i)) = ToSet(acc.mLines) \cup {i}
              /\ Len(Append(acc.mLines, i)) = Len(acc.mLines) + 1
            BY <1>2, <1>4, <3>1, OneMore
        <3>3. CASE new.mLines = Append(acc.mLines, i)
            <4>1. ToSet(new.mLines) \subseteq acc.taken \cup {i}
                BY <1>4, <3>2, <3>3, Zenon
            <4>2. Len(new.mLines) <= k + 1
                BY <1>3, <3>2, <3>3
            <4>3. QED
                BY <3>2, <3>3, <4>1, <4>2, Zenon
        <3>4. CASE new.mLines = acc.mLines
            BY <1>2, <1>3, <1>4, <3>4
        <3>5. QED
            BY <2>2, <3>3, <3>4
    <2>6. new \in Accs
        BY <1>2, <1>5, <2>1, <2>2, <2>4, <2>5 DEF Accs
    <2>7. Took(new, k + 1)
        BY <2>2, <2>5, <2>6 DEF Took
    <2>8. QED
        BY <2>7 DEF new
<1>8. QED
    BY <1>6, <1>7

LEMMA GivenTook ==
    ASSUME NEW offer \in Offers, transceiverCount \in Nat, mLines = <<>>,
           rtpConfig \in [Kinds -> PayloadPairs]
    PROVE  /\ Len(offer.lines) \in Nat
           /\ \A k \in 0 .. Len(offer.lines) : Took(Given(offer)[k], k)
<1> DEFINE lines == offer.lines
           given == Given(offer)
           T == {k \in 0 .. Len(lines) : Took(given[k], k)}
           L == MediaLines
<1>1. lines \in Seq(L)
    BY SdpAssumption
<1> HIDE DEF L
<1>2. Len(lines) \in Nat
    BY <1>1
<1>3. /\ given[0] = Begin
      /\ \A k \in 1 .. Len(lines) : given[k] = ForLine(lines[k], given[k - 1])
    BY <1>2, GivenAre
<1> HIDE DEF given, lines
<1>4. Took(Begin, 0)
    <2>1. NoPayload \in PayloadPairs
        BY SdpAssumption DEF NoPayload, PayloadPairs
    <2>2. [c \in Codecs |-> NoPayload] \in Tables
        BY <2>1 DEF Tables
    <2>3. Begin.known \in Knowns
        BY <2>2 DEF Begin, Knowns
    <2>4. <<>> \in Seq(1 .. transceiverCount) /\ Len(<<>>) = 0
          /\ IsInjective(<<>>) /\ ToSet(<<>>) = {}
        BY DEF IsInjective, ToSet
    <2>5. Begin \in Accs
        BY <2>3, <2>4 DEF Begin, Accs
    <2>6. Begin.mLines = <<>> /\ Begin.taken = {}
        BY DEF Begin
    <2>7. QED
        BY <2>4, <2>5, <2>6 DEF Took
<1>5. 0 \in T
    BY <1>2, <1>3, <1>4
<1>6. ASSUME NEW k \in 0 .. Len(lines) - 1, k \in T
      PROVE  k + 1 \in T
    <2>1. k \in Nat /\ k + 1 \in 1 .. Len(lines) /\ (k + 1) - 1 = k
        BY <1>2
    <2>2. lines[k + 1] \in MediaLines
        BY <1>1, <2>1 DEF L
    <2>3. Took(ForLine(lines[k + 1], given[k]), k + 1)
        BY <1>6, <2>1, <2>2, ForLineTook
    <2>4. given[k + 1] = ForLine(lines[k + 1], given[k])
        BY <1>3, <2>1
    <2>5. QED
        BY <2>1, <2>3, <2>4
<1>7. \A k \in 0 .. Len(lines) : k \in T
    <2> HIDE DEF T
    <2>1. \A k \in 0 .. Len(lines) - 1 : k \in T => k + 1 \in T
        BY <1>6
    <2>2. QED
        BY <1>2, <1>5, <2>1, UpTo
<1>8. QED
    BY <1>2, <1>7 DEF given, lines

-----------------------------------------------------------------------------
(***************************************************************************)
(* The invariant.                                                          *)
(***************************************************************************)
\* The lists fit: none is longer than the offer they were made from, and a viewer
\* is prepared only when everything was taken back.
Fits ==
    /\ mLines \in Seq(1 .. transceiverCount)
    /\ transceiverCount = 0 => mLines = <<>>
    /\ pc = "prepared" => mLines = <<>> /\ transceiverCount = Len(Transceivers)
    /\ pc = "described" => Len(mLines) <= Len(remote.lines)
    /\ pc # "answered" => answer = NoAnswer

IInv == TypeOK /\ Fits

LEMMA Initially == Init => IInv
<1> SUFFICES ASSUME Init PROVE IInv
    OBVIOUS
<1>1. NoPayload \in [apt : PayloadTypes, rtx : PayloadTypes]
    BY SdpAssumption DEF NoPayload
<1>2. IsInjective(<<>>) /\ ToSet(<<>>) = {}
    BY DEF IsInjective, ToSet
<1>3. TypeOK
    BY <1>1, <1>2, SdpAssumption DEF Init, TypeOK, NoOffer, NoAnswer
<1>4. Fits
    BY DEF Init, Fits
<1>5. QED
    BY <1>3, <1>4 DEF IInv

LEMMA AddTransceiversStep == IInv /\ AddTransceivers => IInv'
<1> SUFFICES ASSUME IInv, AddTransceivers PROVE IInv'
    OBVIOUS
<1>1. Len(Transceivers) \in Nat /\ MaxViewers \in Nat
    BY TransceiverType, SdpAssumption
<1>2. CASE transceiverCount = 0
    <2>1. mLines = <<>>
        BY <1>2 DEF IInv, Fits
    <2>2. IsInjective(<<>>) /\ ToSet(<<>>) = {}
        BY DEF IsInjective, ToSet
    <2>3. TypeOK'
        BY <1>1, <1>2, <2>1, <2>2 DEF IInv, TypeOK, AddTransceivers
    <2>4. Fits'
        BY <1>2, <2>1 DEF IInv, Fits, AddTransceivers
    <2>5. QED
        BY <2>3, <2>4 DEF IInv
<1>3. CASE transceiverCount # 0
    <2>1. TypeOK'
        BY <1>1, <1>3 DEF IInv, TypeOK, AddTransceivers
    <2>2. Fits'
        BY <1>3 DEF IInv, Fits, AddTransceivers
    <2>3. QED
        BY <2>1, <2>2 DEF IInv
<1>4. QED
    BY <1>2, <1>3

LEMMA SetRemoteDescriptionStep ==
    ASSUME IInv, NEW offer \in Offers, SetRemoteDescription(offer)
    PROVE  IInv'
<1> DEFINE result == SetPayloadTypes(offer)
<1>1. /\ transceiverCount \in Nat /\ mLines = <<>> /\ rtpConfig \in [Kinds -> PayloadPairs]
      /\ Len(Transceivers) \in Nat
    BY TransceiverType DEF IInv, TypeOK, Fits, SetRemoteDescription, Kinds, PayloadPairs
<1>2. Took(result, Len(offer.lines)) /\ Len(offer.lines) \in Nat
    <2>1. Len(offer.lines) \in 0 .. Len(offer.lines)
        BY <1>1, GivenTook
    <2>2. QED
        BY <1>1, <2>1, GivenTook DEF SetPayloadTypes
<1> HIDE DEF result
<1>3. /\ result.mLines \in Seq(1 .. transceiverCount)
      /\ IsInjective(result.mLines) /\ ToSet(result.mLines) \subseteq 1 .. transceiverCount
      /\ Len(result.mLines) <= Len(offer.lines)
      /\ result.config \in [Kinds -> PayloadPairs]
    BY <1>2 DEF Took, Accs
<1>4. /\ mLines' = result.mLines /\ rtpConfig' = result.config /\ remote' = offer
      /\ pc' \in {"described", "rejected"}
      /\ UNCHANGED <<transceiverCount, answer, viewers>> /\ pc = "prepared"
    BY DEF SetRemoteDescription, result
<1>5. answer = NoAnswer
    BY <1>4 DEF IInv, Fits
<1>6. TypeOK'
    BY <1>2, <1>3, <1>4, <1>5 DEF IInv, TypeOK, Kinds, PayloadPairs, NoAnswer, NoOffer
<1>7. Fits'
    BY <1>1, <1>3, <1>4, <1>5 DEF IInv, Fits, NoAnswer, NoOffer, ToSet
<1>8. QED
    BY <1>6, <1>7 DEF IInv

LEMMA CreateAnswerStep == IInv /\ CreateAnswer => IInv'
<1> SUFFICES ASSUME IInv, CreateAnswer PROVE IInv'
    OBVIOUS
<1>1. Len(mLines) \in Nat /\ Len(mLines) <= Len(remote.lines)
    <2>1. Len(mLines) \in Nat
        BY DEF IInv, Fits
    <2>2. QED
        BY <2>1 DEF IInv, Fits, CreateAnswer
<1>2. Len(answer'.lines) <= Len(remote'.lines)
    <2>1. answer'.lines = [i \in 1 .. Len(mLines) |-> PopulateSingleMedia(i)]
        BY DEF CreateAnswer
    <2>2. Len(answer'.lines) = Len(mLines)
        BY <1>1, <2>1
    <2>3. QED
        BY <1>1, <2>2 DEF CreateAnswer
<1>3. TypeOK'
    BY <1>2 DEF IInv, TypeOK, CreateAnswer
<1>4. Fits'
    BY DEF IInv, Fits, CreateAnswer
<1>5. QED
    BY <1>3, <1>4 DEF IInv

LEMMA CloseSessionStep == IInv /\ CloseSession => IInv'
<1> SUFFICES ASSUME IInv, CloseSession PROVE IInv'
    OBVIOUS
<1>1. IsInjective(<<>>) /\ ToSet(<<>>) = {} /\ <<>> \in Seq(1 .. 0)
    BY DEF IsInjective, ToSet
<1>2. Len(NoAnswer.lines) <= Len(remote.lines)
    BY SdpAssumption DEF IInv, TypeOK, NoAnswer, NoOffer
<1>3. TypeOK'
    BY <1>1, <1>2 DEF IInv, TypeOK, CloseSession
<1>4. Fits'
    BY <1>1 DEF IInv, Fits, CloseSession
<1>5. QED
    BY <1>3, <1>4 DEF IInv

LEMMA Inductive == IInv /\ [Next]_vars => IInv'
<1> SUFFICES ASSUME IInv, [Next]_vars PROVE IInv'
    OBVIOUS
<1>1. CASE AddTransceivers
    BY <1>1, AddTransceiversStep
<1>2. ASSUME NEW offer \in Offers, SetRemoteDescription(offer) PROVE IInv'
    BY <1>2, SetRemoteDescriptionStep
<1>3. CASE CreateAnswer
    BY <1>3, CreateAnswerStep
<1>4. CASE CloseSession
    BY <1>4, CloseSessionStep
<1>5. CASE UNCHANGED vars
    BY <1>5 DEF vars, IInv, TypeOK, Fits
<1>6. QED
    BY <1>1, <1>2, <1>3, <1>4, <1>5 DEF Next

LEMMA Always == Spec => []IInv
<1>1. QED
    BY Initially, Inductive, PTL DEF Spec

\* No transceiver is given to two lines of an offer and none that was not added, the
\* payload types that are stored are such, and the answer has no more lines than
\* the offer, for any offers, whichever of them are rejected after the negotiation
\* stored its result.
THEOREM TypeCorrect == Spec => []TypeOK
<1>1. IInv => TypeOK
    BY DEF IInv
<1>2. QED
    BY <1>1, Always, PTL

-----------------------------------------------------------------------------
(***************************************************************************)
(* What the scan of a line finds for one codec, after each attribute: the  *)
(* attribute that offers the codec best so far, and the last               *)
(* retransmission bound to it.                                             *)
(***************************************************************************)
OwnCodecs == {"H264", "OPUS"}

Candidates(line, c, k) ==
    {m \in 1 .. k : /\ IsRtpmap(line.attributes[m], c)
                    /\ c = "H264" => Score(line, m) >= MinimumScore}

BestOf(line, c, k, b) ==
    /\ b \in Candidates(line, c, k)
    /\ \A j \in Candidates(line, c, k) :
          IF c = "H264" THEN Score(line, b) > Score(line, j)
                             \/ (b <= j /\ Score(line, b) = Score(line, j))
          ELSE b <= j

\* The fmtps from the b-th to the k-th attribute that bind a retransmission to the b-th.
Bound(line, k, b) ==
    {j \in b .. k : /\ IsFmtp(line.attributes[j]) /\ line.attributes[j].apt # 0
                    /\ line.attributes[j].apt = line.attributes[b].payload}

LastBound(line, k, b, rtx) ==
    \/ Bound(line, k, b) = {} /\ rtx = 0
    \/ \E j \in Bound(line, k, b) :
          /\ \A m \in Bound(line, k, b) : m <= j
          /\ rtx = line.attributes[j].payload

Found(line, c, k, b, scan) ==
    /\ c \in scan.bitmap
    /\ BestOf(line, c, k, b)
    /\ scan.payloads[c].apt = line.attributes[b].payload
    /\ LastBound(line, k, b, scan.payloads[c].rtx)
    /\ c = "H264" => scan.best = Score(line, b)

NotFound(line, c, k, scan) ==
    /\ c \notin scan.bitmap
    /\ Candidates(line, c, k) = {}
    /\ c = "H264" => scan.best = 0

Scanned(line, c, k, scan) ==
    /\ scan \in Founds
    /\ NotFound(line, c, k, scan) \/ \E b \in 1 .. k : Found(line, c, k, b, scan)

\* An attribute does one of three things for a codec.
Chosen(attributes, c, acc, a) ==
    LET score == CalculateH264Score(FindH264Fmtp(attributes, a.payload))
    IN  /\ IsRtpmap(a, c)
        /\ IF c = "H264" THEN score >= MinimumScore /\ acc.best < score
           ELSE c \notin acc.bitmap

Binds(c, acc, a) ==
    IsFmtp(a) /\ a.apt # 0 /\ c \in acc.bitmap /\ acc.payloads[c].apt = a.apt

LEMMA OwnAreCodecs == OwnCodecs \subseteq Codecs
BY CodecsAre DEF OwnCodecs

LEMMA WithCodecEffect ==
    ASSUME NEW acc \in Founds, NEW d \in Codecs, NEW payload, NEW best, NEW c \in Codecs
    PROVE  LET new == WithCodec(acc, d, payload, best)
           IN  /\ c \in new.bitmap <=> c \in acc.bitmap \/ c = d
               /\ c = d => new.payloads[c] = [apt |-> payload, rtx |-> 0]
               /\ c # d => new.payloads[c] = acc.payloads[c]
               /\ new.best = best
<1> DEFINE pair == [apt |-> payload, rtx |-> 0]
<1> HIDE DEF pair
<1>1. acc.payloads \in [Codecs -> PayloadPairs]
    BY DEF Founds, Tables
<1>2. WithCodec(acc, d, payload, best)
        = [bitmap |-> acc.bitmap \cup {d}, payloads |-> [acc.payloads EXCEPT ![d] = pair],
           best |-> best]
    BY DEF WithCodec, pair
<1>3. /\ c = d => [acc.payloads EXCEPT ![d] = pair][c] = pair
      /\ c # d => [acc.payloads EXCEPT ![d] = pair][c] = acc.payloads[c]
    BY <1>1
<1>4. QED
    BY <1>2, <1>3 DEF pair

LEMMA CollectEffect ==
    ASSUME NEW attributes, NEW acc \in Founds, NEW a \in Attributes, NEW c \in OwnCodecs
    PROVE  LET new == CollectAttribute(attributes, acc, a)
               score == CalculateH264Score(FindH264Fmtp(attributes, a.payload))
           IN  /\ Chosen(attributes, c, acc, a) =>
                    /\ c \in new.bitmap /\ new.payloads[c] = [apt |-> a.payload, rtx |-> 0]
                    /\ c = "H264" => new.best = score
               /\ ~Chosen(attributes, c, acc, a) =>
                    /\ c \in new.bitmap <=> c \in acc.bitmap
                    /\ c = "H264" => new.best = acc.best
                    /\ Binds(c, acc, a) =>
                          new.payloads[c] = [apt |-> a.apt, rtx |-> a.payload]
                    /\ ~Binds(c, acc, a) => new.payloads[c] = acc.payloads[c]
<1> DEFINE score == CalculateH264Score(FindH264Fmtp(attributes, a.payload))
           Better == IsRtpmap(a, "H264") /\ acc.best < HighestScore
           Other == a.name = "rtpmap" /\ a.codec \in Codecs \ (acc.bitmap \cup {"H264"})
           Binding == IsFmtp(a) /\ a.apt # 0
           pair == [apt |-> a.apt, rtx |-> a.payload]
           table == [d \in Codecs |->
                        IF d \in acc.bitmap /\ acc.payloads[d].apt = a.apt
                        THEN [apt |-> a.apt, rtx |-> a.payload] ELSE acc.payloads[d]]
           new == CollectAttribute(attributes, acc, a)
<1>1. score \in 0 .. HighestScore
    BY ScoreType
<1>2. acc.best \in 0 .. HighestScore
    BY DEF Founds
<1>3. c \in Codecs /\ c \in {"H264", "OPUS"} /\ "H264" \in Codecs
    BY OwnAreCodecs, CodecsAre DEF OwnCodecs
<1>4. CASE Better
    <2>1. new = IF score >= MinimumScore /\ acc.best < score
                THEN WithCodec(acc, "H264", a.payload, score) ELSE acc
        BY <1>4 DEF CollectAttribute, IsRtpmap, IsFmtp
    <2>2. a.name = "rtpmap" /\ a.codec = "H264" /\ ~IsFmtp(a)
        BY <1>4 DEF IsRtpmap, IsFmtp
    <2>3. Chosen(attributes, c, acc, a)
            <=> c = "H264" /\ score >= MinimumScore /\ acc.best < score
        BY <1>3, <2>2 DEF Chosen, IsRtpmap
    <2>4. ~Binds(c, acc, a)
        BY <2>2 DEF Binds
    <2> HIDE DEF new, score
    <2>5. CASE score >= MinimumScore /\ acc.best < score
        <3>1. new = WithCodec(acc, "H264", a.payload, score)
            BY <2>1, <2>5
        <3>2. QED
            BY <1>3, <2>3, <2>4, <2>5, <3>1, WithCodecEffect DEF new, score
    <2>6. CASE ~(score >= MinimumScore /\ acc.best < score)
        <3>1. new = acc
            BY <2>1, <2>6
        <3>2. QED
            BY <2>3, <2>4, <2>6, <3>1 DEF new, score
    <2>7. QED
        BY <2>5, <2>6
<1>5. CASE Other
    <2>1. new = WithCodec(acc, a.codec, a.payload, acc.best)
        BY <1>5 DEF CollectAttribute, IsRtpmap, IsFmtp
    <2>2. a.name = "rtpmap" /\ a.codec # "H264" /\ ~IsFmtp(a) /\ a.codec \in Codecs
          /\ a.codec \notin acc.bitmap
        BY <1>5 DEF IsRtpmap, IsFmtp
    <2>3. Chosen(attributes, c, acc, a) <=> c = a.codec
        BY <1>3, <2>2 DEF Chosen, IsRtpmap
    <2>4. ~Binds(c, acc, a)
        BY <2>2 DEF Binds
    <2> HIDE DEF new
    <2>5. /\ c \in new.bitmap <=> c \in acc.bitmap \/ c = a.codec
          /\ c = a.codec => new.payloads[c] = [apt |-> a.payload, rtx |-> 0]
          /\ c # a.codec => new.payloads[c] = acc.payloads[c]
          /\ new.best = acc.best
        <3> DEFINE d == a.codec
                   p == a.payload
                   n == acc.best
        <3>1. d \in Codecs /\ new = WithCodec(acc, d, p, n)
            BY <2>1, <2>2
        <3> HIDE DEF d, p, n
        <3>2. /\ c \in new.bitmap <=> c \in acc.bitmap \/ c = d
              /\ c = d => new.payloads[c] = [apt |-> p, rtx |-> 0]
              /\ c # d => new.payloads[c] = acc.payloads[c]
              /\ new.best = n
            BY <1>3, <3>1, WithCodecEffect
        <3>3. QED
            BY <3>2 DEF d, p, n
    <2>6. CASE c = a.codec
        BY <2>2, <2>3, <2>5, <2>6 DEF new
    <2>7. CASE c # a.codec
        BY <2>3, <2>4, <2>5, <2>7 DEF new
    <2>8. QED
        BY <2>6, <2>7
<1>6. CASE Binding
    <2>1. new = [acc EXCEPT !.payloads = table]
        BY <1>6 DEF CollectAttribute, IsRtpmap, IsFmtp
    <2>2. ~Chosen(attributes, c, acc, a)
        BY <1>6 DEF Chosen, IsRtpmap, IsFmtp
    <2>3. Binds(c, acc, a) <=> c \in acc.bitmap /\ acc.payloads[c].apt = a.apt
        BY <1>6 DEF Binds
    <2>4. /\ Binds(c, acc, a) => table[c] = [apt |-> a.apt, rtx |-> a.payload]
          /\ ~Binds(c, acc, a) => table[c] = acc.payloads[c]
        <3>1. table[c] = IF c \in acc.bitmap /\ acc.payloads[c].apt = a.apt
                         THEN pair ELSE acc.payloads[c]
            BY <1>3
        <3> HIDE DEF pair, table
        <3>2. QED
            BY <2>3, <3>1 DEF pair
    <2> HIDE DEF table
    <2>5. new.bitmap = acc.bitmap /\ new.payloads = table /\ new.best = acc.best
        BY <2>1 DEF Founds
    <2> HIDE DEF new
    <2>6. QED
        BY <2>2, <2>4, <2>5 DEF new
<1>7. CASE ~Better /\ ~Other /\ ~Binding
    <2>1. new = acc
        BY <1>7 DEF CollectAttribute
    <2>2. ~Chosen(attributes, c, acc, a)
        <3>1. CASE c = "H264"
            BY <1>1, <1>2, <1>7, <3>1 DEF Chosen, HighestScore
        <3>2. CASE c = "OPUS"
            BY <1>3, <1>7, <3>2 DEF Chosen, IsRtpmap
        <3>3. QED
            BY <1>3, <3>1, <3>2
    <2>3. ~Binds(c, acc, a)
        BY <1>7 DEF Binds
    <2> HIDE DEF new
    <2>4. QED
        BY <2>1, <2>2, <2>3 DEF new
<1>8. QED
    <2> HIDE DEF new, score
    <2>1. QED
        BY <1>4, <1>5, <1>6, <1>7

\* What one more attribute adds to the candidates of a codec.
LEMMA OneMoreCandidate ==
    ASSUME NEW line, NEW c, NEW k \in Nat
    PROVE  Candidates(line, c, k + 1)
             = Candidates(line, c, k)
               \cup {m \in {k + 1} : /\ IsRtpmap(line.attributes[m], c)
                                     /\ c = "H264" => Score(line, m) >= MinimumScore}
<1>1. 1 .. k + 1 = (1 .. k) \cup {k + 1}
    OBVIOUS
<1>2. QED
    BY <1>1, Zenon DEF Candidates

\* And to the fmtps that bind a retransmission to the b-th attribute.
LEMMA OneMoreBound ==
    ASSUME NEW line, NEW k \in Nat, NEW b \in 1 .. k + 1
    PROVE  Bound(line, k + 1, b)
             = (IF b = k + 1 THEN {} ELSE Bound(line, k, b))
               \cup {j \in {k + 1} : /\ IsFmtp(line.attributes[j])
                                     /\ line.attributes[j].apt # 0
                                     /\ line.attributes[j].apt = line.attributes[b].payload}
<1> DEFINE P(j) == /\ IsFmtp(line.attributes[j])
                   /\ line.attributes[j].apt # 0
                   /\ line.attributes[j].apt = line.attributes[b].payload
<1> HIDE DEF P
<1>1. b .. k + 1 = (IF b = k + 1 THEN {} ELSE b .. k) \cup {k + 1}
    OBVIOUS
<1>2. {j \in b .. k + 1 : P(j)}
        = (IF b = k + 1 THEN {} ELSE {j \in b .. k : P(j)}) \cup {j \in {k + 1} : P(j)}
    BY <1>1
<1>3. QED
    BY <1>2, Zenon DEF Bound, P

LEMMA ScannedStep ==
    ASSUME NEW line, line.attributes \in Seq(Attributes), NEW c \in OwnCodecs,
           NEW k \in 0 .. Len(line.attributes) - 1,
           NEW scan, Scanned(line, c, k, scan)
    PROVE  Scanned(line, c, k + 1,
                   CollectAttribute(line.attributes, scan, line.attributes[k + 1]))
<1> DEFINE a == line.attributes[k + 1]
           n == k + 1
           new == CollectAttribute(line.attributes, scan, a)
           score == Score(line, n)
<1>1. k \in Nat /\ n \in 1 .. Len(line.attributes)
    OBVIOUS
<1>2. a \in Attributes
    <2> DEFINE A == Attributes
    <2>1. line.attributes \in Seq(A)
        OBVIOUS
    <2> HIDE DEF A
    <2>2. a \in A
        BY <1>1, <2>1
    <2>3. QED
        BY <2>2 DEF A
<1>3. scan \in Founds
    BY DEF Scanned
<1>4. new \in Founds
    BY <1>2, <1>3, CollectAttributeType
<1>5. \A j \in Nat : Score(line, j) \in Nat
    <2>1. \A features : CalculateH264Score(features) \in 0 .. HighestScore
        BY ScoreType, Zenon
    <2>2. 0 .. HighestScore \subseteq Nat
        BY DEF HighestScore
    <2>3. QED
        BY <2>1, <2>2, Zenon DEF Score
<1>6. c = "H264" \/ c = "OPUS"
    BY DEF OwnCodecs
<1>7. /\ Chosen(line.attributes, c, scan, a) =>
            /\ c \in new.bitmap /\ new.payloads[c] = [apt |-> a.payload, rtx |-> 0]
            /\ c = "H264" => new.best = score
      /\ ~Chosen(line.attributes, c, scan, a) =>
            /\ c \in new.bitmap <=> c \in scan.bitmap
            /\ c = "H264" => new.best = scan.best
            /\ Binds(c, scan, a) => new.payloads[c] = [apt |-> a.apt, rtx |-> a.payload]
            /\ ~Binds(c, scan, a) => new.payloads[c] = scan.payloads[c]
    BY <1>2, <1>3, CollectEffect DEF Score
<1>8. Chosen(line.attributes, c, scan, a)
        <=> /\ IsRtpmap(a, c)
            /\ IF c = "H264" THEN score >= MinimumScore /\ scan.best < score
               ELSE c \notin scan.bitmap
    BY DEF Chosen, Score
<1> DEFINE Fitting(m) == IsRtpmap(line.attributes[m], c)
                         /\ (c = "H264" => Score(line, m) >= MinimumScore)
           Tied(j, b) == /\ IsFmtp(line.attributes[j])
                         /\ line.attributes[j].apt # 0
                         /\ line.attributes[j].apt = line.attributes[b].payload
<1>9. Candidates(line, c, n) = Candidates(line, c, k) \cup {m \in {n} : Fitting(m)}
    BY <1>1, OneMoreCandidate, Zenon
<1>10. \A b \in 1 .. n : Bound(line, n, b)
          = (IF b = n THEN {} ELSE Bound(line, k, b)) \cup {j \in {n} : Tied(j, b)}
    BY <1>1, OneMoreBound, SMT
<1>11. Candidates(line, c, k) \subseteq 1 .. k
    BY DEF Candidates
<1>12. score \in Nat /\ n \in Nat
    BY <1>1, <1>5
<1> HIDE DEF new, score
<1>13. CASE Chosen(line.attributes, c, scan, a)
    <2>1. IsRtpmap(a, c) /\ ~IsFmtp(a)
        BY <1>8, <1>13 DEF IsRtpmap, IsFmtp
    <2>2. Fitting(n)
        BY <1>8, <1>13, <2>1 DEF score
    <2>3. Bound(line, n, n) = {}
        BY <1>1, <1>10, <2>1
    <2>4. ASSUME NEW j \in Candidates(line, c, k)
          PROVE  c = "H264" /\ score > Score(line, j)
        <3>1. PICK b \in 1 .. k : Found(line, c, k, b, scan)
            BY <2>4 DEF Scanned, NotFound
        <3>2. c = "H264"
            BY <1>6, <1>8, <1>13, <3>1 DEF Found
        <3>3. scan.best = Score(line, b) /\ Score(line, b) >= Score(line, j)
            <4>1. j \in Nat /\ b \in Nat
                BY <1>1, <1>11
            <4>2. Score(line, b) \in Nat /\ Score(line, j) \in Nat
                BY <1>5, <4>1
            <4>3. Score(line, b) > Score(line, j) \/ Score(line, b) = Score(line, j)
                BY <3>1, <3>2, <2>4 DEF Found, BestOf
            <4>4. QED
                BY <3>1, <3>2, <4>2, <4>3 DEF Found
        <3>4. scan.best < score
            BY <1>8, <1>13, <3>2
        <3>5. Score(line, b) \in Nat /\ Score(line, j) \in Nat
            <4>1. j \in Nat /\ b \in Nat
                BY <1>1, <1>11
            <4>2. QED
                BY <1>5, <4>1
        <3>6. QED
            BY <1>12, <3>2, <3>3, <3>4, <3>5
    <2>5. BestOf(line, c, n, n)
        <3>1. n \in Candidates(line, c, n)
            BY <1>9, <2>2
        <3>2. ASSUME NEW j \in Candidates(line, c, n)
              PROVE  IF c = "H264"
                     THEN Score(line, n) > Score(line, j)
                          \/ (n <= j /\ Score(line, n) = Score(line, j))
                     ELSE n <= j
            <4>1. CASE j \in Candidates(line, c, k)
                BY <2>4, <4>1 DEF score
            <4>2. CASE j = n
                BY <1>12, <4>2
            <4>3. QED
                BY <1>9, <4>1, <4>2
        <3>3. QED
            BY <3>1, <3>2 DEF BestOf
    <2>6. Found(line, c, n, n, new)
        BY <1>7, <1>13, <2>3, <2>5 DEF Found, LastBound, score
    <2>7. n \in 1 .. n
        BY <1>12
    <2>8. QED
        BY <1>4, <2>6, <2>7 DEF Scanned, new
<1>14. CASE ~Chosen(line.attributes, c, scan, a) /\ NotFound(line, c, k, scan)
    <2>1. ~Fitting(n)
        <3>1. CASE c = "H264"
            <4>1. scan.best = 0 /\ ~(IsRtpmap(a, c) /\ score >= 10 /\ 0 < score)
                BY <1>8, <1>14, <3>1 DEF NotFound, MinimumScore
            <4>2. QED
                BY <1>12, <3>1, <4>1 DEF score, MinimumScore
        <3>2. CASE c # "H264"
            BY <1>8, <1>14, <3>2 DEF NotFound
        <3>3. QED
            BY <3>1, <3>2
    <2>2. Candidates(line, c, n) = {}
        BY <1>9, <1>14, <2>1 DEF NotFound
    <2>3. NotFound(line, c, n, new)
        BY <1>7, <1>14, <2>2 DEF NotFound
    <2>4. QED
        BY <1>4, <2>3 DEF Scanned, new
<1>15. ASSUME ~Chosen(line.attributes, c, scan, a),
              NEW b \in 1 .. k, Found(line, c, k, b, scan)
       PROVE  Scanned(line, c, n, CollectAttribute(line.attributes, scan, a))
    <2>1. b \in 1 .. n /\ b # n /\ b \in Nat
        BY <1>1
    <2>2. BestOf(line, c, n, b)
        <3>1. b \in Candidates(line, c, n)
            BY <1>9, <1>15 DEF Found, BestOf
        <3>2. ASSUME NEW j \in Candidates(line, c, n)
              PROVE  IF c = "H264"
                     THEN Score(line, b) > Score(line, j)
                          \/ (b <= j /\ Score(line, b) = Score(line, j))
                     ELSE b <= j
            <4>1. CASE j \in Candidates(line, c, k)
                BY <1>15, <4>1 DEF Found, BestOf
            <4>2. CASE j = n /\ Fitting(n)
                <5>1. b <= n
                    BY <1>1
                <5>2. CASE c = "H264"
                    <6>1. IsRtpmap(a, c) /\ score >= MinimumScore /\ ~(scan.best < score)
                        BY <1>8, <1>15, <4>2, <5>2 DEF score
                    <6>2. scan.best = Score(line, b) /\ Score(line, b) \in Nat
                        BY <1>5, <1>15, <2>1, <5>2 DEF Found
                    <6>3. QED
                        BY <1>12, <4>2, <5>1, <5>2, <6>1, <6>2 DEF score
                <5>3. QED
                    BY <4>2, <5>1, <5>2
            <4>3. QED
                BY <1>9, <4>1, <4>2
        <3>3. QED
            BY <3>1, <3>2 DEF BestOf
    <2>3. Bound(line, n, b) = Bound(line, k, b) \cup {j \in {n} : Tied(j, b)}
        BY <1>10, <2>1
    <2>4. scan.payloads[c].apt = line.attributes[b].payload /\ c \in scan.bitmap
          /\ LastBound(line, k, b, scan.payloads[c].rtx)
        BY <1>15 DEF Found
    <2>5. Binds(c, scan, a) <=> Tied(n, b)
        BY <2>4 DEF Binds
    <2>6. CASE Binds(c, scan, a)
        <3>1. new.payloads[c] = [apt |-> a.apt, rtx |-> a.payload]
            BY <1>7, <1>15, <2>6
        <3>2. n \in Bound(line, n, b)
            BY <2>3, <2>5, <2>6
        <3>3. \A m \in Bound(line, n, b) : m <= n
            BY <1>12, <2>1 DEF Bound
        <3>4. LastBound(line, n, b, a.payload)
            BY <3>2, <3>3 DEF LastBound
        <3>5. a.apt = line.attributes[b].payload
            BY <2>5, <2>6
        <3>6. Found(line, c, n, b, new)
            BY <1>7, <1>15, <2>2, <2>4, <3>1, <3>4, <3>5 DEF Found
        <3>7. QED
            BY <1>4, <2>1, <3>6 DEF Scanned, new
    <2>7. CASE ~Binds(c, scan, a)
        <3>1. new.payloads[c] = scan.payloads[c]
            BY <1>7, <1>15, <2>7
        <3>2. Bound(line, n, b) = Bound(line, k, b)
            BY <2>3, <2>5, <2>7
        <3>3. LastBound(line, n, b, scan.payloads[c].rtx)
            BY <2>4, <3>2 DEF LastBound
        <3>4. Found(line, c, n, b, new)
            BY <1>7, <1>15, <2>2, <2>4, <3>1, <3>3 DEF Found
        <3>5. QED
            BY <1>4, <2>1, <3>4 DEF Scanned, new
    <2>8. QED
        BY <2>6, <2>7
<1>16. QED
    BY <1>13, <1>14, <1>15 DEF Scanned

LEMMA ScansOK ==
    ASSUME NEW line \in MediaLines, NEW payloads \in Tables, NEW c \in OwnCodecs
    PROVE  Scanned(line, c, Len(line.attributes),
                   CollectAttributesCodec(line.attributes, payloads))
<1> DEFINE n == Len(line.attributes)
           scans == Scans(line.attributes, payloads)
           T == {k \in 0 .. n : Scanned(line, c, k, scans[k])}
<1>1. line.attributes \in Seq(Attributes) /\ n \in Nat
    <2>1. line.attributes \in Seq(Attributes)
        BY DEF MediaLines
    <2>2. QED
        BY <2>1
<1>2. /\ scans[0] = [bitmap |-> {}, payloads |-> payloads, best |-> 0]
      /\ \A k \in 1 .. n :
            scans[k] = CollectAttribute(line.attributes, scans[k - 1], line.attributes[k])
    BY <1>1, ScansAre
<1>3. scans[0] \in Founds
    BY <1>2 DEF Founds, HighestScore
<1> HIDE DEF scans, n
<1>4. 0 \in T
    <2>1. Candidates(line, c, 0) = {}
        BY DEF Candidates
    <2>2. NotFound(line, c, 0, scans[0])
        BY <1>2, <2>1 DEF NotFound
    <2>3. QED
        BY <1>1, <1>3, <2>2 DEF Scanned
<1>5. ASSUME NEW k \in 0 .. n - 1, k \in T
      PROVE  k + 1 \in T
    <2>1. k + 1 \in 1 .. n /\ (k + 1) - 1 = k /\ k + 1 \in 0 .. n
        BY <1>1
    <2>2. scans[k + 1] = CollectAttribute(line.attributes, scans[k], line.attributes[k + 1])
        BY <1>2, <2>1
    <2>3. Scanned(line, c, k, scans[k])
        BY <1>5
    <2>4. Scanned(line, c, k + 1, scans[k + 1])
        BY <1>1, <2>2, <2>3, ScannedStep DEF n
    <2>5. QED
        BY <2>1, <2>4
<1>6. n \in T
    <2> HIDE DEF T
    <2>1. \A k \in 0 .. n - 1 : k \in T => k + 1 \in T
        BY <1>5
    <2>2. \A k \in 0 .. n : k \in T
        BY <1>1, <1>4, <2>1, UpTo
    <2>3. n \in 0 .. n
        BY <1>1
    <2>4. QED
        BY <2>2, <2>3
<1>7. QED
    BY <1>6 DEF scans, n, CollectAttributesCodec

\* What the k-th attribute of a line offers.
Offered(line, k) ==
    [apt |-> line.attributes[k].payload, rtx |-> Retransmission(line, k)]

\* The scan agrees with what is said without it.
LEMMA ScanOffers ==
    ASSUME NEW line \in MediaLines, NEW payloads \in Tables, NEW c \in OwnCodecs
    PROVE  LET scan == CollectAttributesCodec(line.attributes, payloads)
           IN  /\ scan \in Founds
               /\ c \in scan.bitmap <=> Offering(line, c) # {}
               /\ c \in scan.bitmap =>
                    \E b \in Offering(line, c) : scan.payloads[c] = Offered(line, b)
<1> DEFINE scan == CollectAttributesCodec(line.attributes, payloads)
           n == Len(line.attributes)
           usable == IF c = "H264"
                     THEN {k \in RtpmapsOf(line, c) : Score(line, k) >= MinimumScore}
                     ELSE RtpmapsOf(line, c)
           Beats(k, j) == c = "H264" /\ Score(line, k) > Score(line, j)
<1>1. line.attributes \in Seq(Attributes)
    BY DEF MediaLines
<1>2. n \in Nat /\ DOMAIN line.attributes = 1 .. n
    BY <1>1
<1>3. Scanned(line, c, n, scan)
    BY ScansOK
<1> HIDE DEF scan, n
<1>4. scan \in Founds
    BY <1>3 DEF Scanned
<1>5. usable = Candidates(line, c, n)
    BY <1>2 DEF RtpmapsOf, Candidates
<1>6. Offering(line, c)
        = {k \in usable : \A j \in usable : Beats(k, j) \/ (k <= j /\ ~Beats(j, k))}
    BY Zenon DEF Offering
<1> HIDE DEF usable
<1>7. CASE NotFound(line, c, n, scan)
    <2>1. usable = {} /\ c \notin scan.bitmap
        BY <1>5, <1>7 DEF NotFound
    <2>2. Offering(line, c) = {}
        BY <1>6, <2>1
    <2>3. QED
        BY <1>4, <2>1, <2>2 DEF scan
<1>8. ASSUME NEW b \in 1 .. n, Found(line, c, n, b, scan)
      PROVE  /\ c \in scan.bitmap /\ b \in Offering(line, c)
             /\ scan.payloads[c] = Offered(line, b)
    <2>1. c \in scan.bitmap /\ BestOf(line, c, n, b)
          /\ scan.payloads[c].apt = line.attributes[b].payload
          /\ LastBound(line, n, b, scan.payloads[c].rtx)
        BY <1>8 DEF Found
    <2>2. b \in Offering(line, c)
        <3>1. b \in usable
            BY <1>5, <2>1 DEF BestOf
        <3>2. ASSUME NEW j \in usable
              PROVE  Beats(b, j) \/ (b <= j /\ ~Beats(j, b))
            <4>1. IF c = "H264" THEN Score(line, b) > Score(line, j)
                                     \/ (b <= j /\ Score(line, b) = Score(line, j))
                  ELSE b <= j
                BY <1>5, <2>1 DEF BestOf
            <4>2. Score(line, b) \in Nat /\ Score(line, j) \in Nat
                BY ScoreType DEF Score, HighestScore
            <4>3. QED
                BY <4>1, <4>2
        <3>3. QED
            BY <1>6, <3>1, <3>2
    <2>3. scan.payloads[c] \in PayloadPairs
        BY <1>4, OwnAreCodecs DEF Founds, Tables
    <2>4. scan.payloads[c].rtx = Retransmission(line, b)
        <3> DEFINE asked == {j \in DOMAIN line.attributes :
                                /\ j >= b /\ IsFmtp(line.attributes[j])
                                /\ line.attributes[j].apt # 0
                                /\ line.attributes[j].apt = line.attributes[b].payload}
        <3>1. Retransmission(line, b)
                = IF asked = {} THEN 0 ELSE line.attributes[Max(asked)].payload
            BY DEF Retransmission
        <3>2. asked = Bound(line, n, b)
            <4>1. \A j : j \in 1 .. n /\ j >= b <=> j \in b .. n
                BY <1>2
            <4>2. QED
                BY <1>2, <4>1 DEF Bound
        <3>3. asked \subseteq 1 .. n
            BY <1>2
        <3> HIDE DEF asked
        <3>4. CASE asked = {}
            BY <2>1, <3>1, <3>2, <3>4 DEF LastBound
        <3>5. CASE asked # {}
            <4>1. PICK j \in asked : /\ \A m \in asked : m <= j
                                     /\ scan.payloads[c].rtx = line.attributes[j].payload
                BY <2>1, <3>2, <3>5 DEF LastBound
            <4>2. Max(asked) \in asked /\ \A m \in asked : m <= Max(asked)
                BY <1>2, <3>3, <3>5, Greatest
            <4>3. j <= Max(asked) /\ Max(asked) <= j /\ j \in Nat /\ Max(asked) \in Nat
                <5>1. asked \subseteq Nat
                    BY <1>2, <3>3
                <5>2. QED
                    BY <4>1, <4>2, <5>1, Zenon
            <4>4. Max(asked) = j
                BY <4>3
            <4>5. QED
                BY <3>1, <3>5, <4>1, <4>4
        <3>6. QED
            BY <3>4, <3>5
    <2>5. QED
        BY <2>1, <2>2, <2>3, <2>4 DEF PayloadPairs, Offered
<1>9. CASE \E b \in 1 .. n : Found(line, c, n, b, scan)
    <2>1. PICK b \in 1 .. n : Found(line, c, n, b, scan)
        BY <1>9
    <2>2. QED
        BY <1>4, <1>8, <2>1 DEF scan
<1>10. QED
    BY <1>3, <1>7, <1>9 DEF Scanned

\* And so does the table after the line, whatever earlier lines left there.
LEMMA LineOffers ==
    ASSUME NEW line \in MediaLines, NEW known \in Knowns, NEW c \in OwnCodecs
    PROVE  LET new == GetPayloadTypesFromMedia(line, known)
           IN  /\ c \in new.bitmap <=> c \in known.bitmap \/ Offering(line, c) # {}
               /\ Offering(line, c) # {} =>
                    \E b \in Offering(line, c) : new.payloads[c] = Offered(line, b)
<1> DEFINE default == WithStaticPayload(line, known)
           scan == CollectAttributesCodec(line.attributes, default.payloads)
           new == GetPayloadTypesFromMedia(line, known)
<1>1. default \in Knowns
    BY WithStaticPayloadType
<1>2. c \in default.bitmap <=> c \in known.bitmap
    <2> DEFINE static == {k \in DOMAIN line.formats : line.formats[k] \in {0, 8}}
               first == line.formats[Min(static)]
               codec == IF first = 0 THEN "MULAW" ELSE "ALAW"
               table == [known.payloads EXCEPT !["MULAW"] = [apt |-> first, rtx |-> 0]]
    <2>1. default = IF static = {} THEN known
                    ELSE [bitmap |-> known.bitmap \cup {codec}, payloads |-> table]
        BY DEF WithStaticPayload
    <2>2. codec # c
        BY DEF OwnCodecs
    <2> HIDE DEF static, codec, table, default
    <2>3. QED
        BY <2>1, <2>2
<1>3. default.payloads \in Tables
    BY <1>1 DEF Knowns
<1>4. new = [bitmap |-> default.bitmap \cup scan.bitmap, payloads |-> scan.payloads]
    BY DEF GetPayloadTypesFromMedia
<1> HIDE DEF default
<1>5. /\ c \in scan.bitmap <=> Offering(line, c) # {}
      /\ c \in scan.bitmap =>
            \E b \in Offering(line, c) : scan.payloads[c] = Offered(line, b)
    BY <1>3, ScanOffers
<1> HIDE DEF scan, new
<1>6. QED
    BY <1>2, <1>4, <1>5 DEF new

-----------------------------------------------------------------------------
(***************************************************************************)
(* What the lines offer for the application's transceivers.                *)
(***************************************************************************)
LEMMA TransceiversAre ==
    /\ Len(Transceivers) \in Nat /\ DOMAIN Transceivers = 1 .. Len(Transceivers)
    /\ \A i \in 1 .. Len(Transceivers) :
          /\ Transceivers[i].kind \in Kinds
          /\ Transceivers[i].codecs = {CodecOf(Transceivers[i].kind)}
    /\ \A i, j \in 1 .. Len(Transceivers) :
          Transceivers[i].kind = Transceivers[j].kind => i = j
<1>1. Len(Transceivers) \in Nat /\ DOMAIN Transceivers = 1 .. Len(Transceivers)
    BY SdpAssumption
<1>2. QED
    BY <1>1, TransceiverType, ApplicationAssumption

LEMMA OwnCodec == \A kind : CodecOf(kind) \in OwnCodecs
BY DEF CodecOf, OwnCodecs

LEMMA PayloadsOf ==
    ASSUME NEW line
    PROVE  /\ \A i \in 1 .. Len(Transceivers) :
                 line.kind = Transceivers[i].kind =>
                    Payloads(line) = {Offered(line, k) : k \in Offering(line, CodecOf(line.kind))}
           /\ (\A i \in 1 .. Len(Transceivers) : line.kind # Transceivers[i].kind) =>
                 Payloads(line) = {}
<1> DEFINE ours == {u \in ToSet(Transceivers) : u.kind = line.kind}
           codecs == UNION {t.codecs : t \in ours}
           places == UNION {Offering(line, codec) : codec \in codecs}
<1>1. Payloads(line) = {Offered(line, k) : k \in places}
    BY Zenon DEF Payloads, Offered
<1>2. ASSUME NEW i \in 1 .. Len(Transceivers), line.kind = Transceivers[i].kind
      PROVE  Payloads(line) = {Offered(line, k) : k \in Offering(line, CodecOf(line.kind))}
    <2>1. ours = {Transceivers[i]}
        BY <1>2, TransceiversAre DEF ToSet
    <2>2. Transceivers[i].codecs = {CodecOf(line.kind)}
        BY <1>2, TransceiversAre
    <2> HIDE DEF ours
    <2>3. codecs = {CodecOf(line.kind)}
        BY <2>1, <2>2
    <2> HIDE DEF codecs
    <2>4. places = Offering(line, CodecOf(line.kind))
        BY <2>3
    <2>5. QED
        BY <1>1, <2>4, Zenon
<1>3. ASSUME \A i \in 1 .. Len(Transceivers) : line.kind # Transceivers[i].kind
      PROVE  Payloads(line) = {}
    <2>1. ours = {}
        BY <1>3, TransceiversAre DEF ToSet
    <2> HIDE DEF ours
    <2>2. codecs = {}
        BY <2>1
    <2> HIDE DEF codecs
    <2>3. places = {}
        BY <2>2
    <2> HIDE DEF places
    <2>4. QED
        BY <1>1, <2>3
<1>4. QED
    BY <1>2, <1>3

-----------------------------------------------------------------------------
(***************************************************************************)
(* What the negotiation gives after each line.                             *)
(***************************************************************************)
ServedIn(lines, i) ==
    /\ Payloads(lines[i]) # {}
    /\ \A j \in 1 .. i - 1 : lines[j].kind = lines[i].kind => Payloads(lines[j]) = {}

Came(lines, k, kind) == \E j \in 1 .. k : lines[j].kind = kind /\ Payloads(lines[j]) # {}

\* As long as every line is served, the list has their order.
InOrder(lines, k, list) ==
    /\ \A j \in 1 .. k : (\A m \in 1 .. j : ServedIn(lines, m)) =>
          j <= Len(list) /\ Transceivers[list[j]].kind = lines[j].kind
    /\ (\A m \in 1 .. k : ServedIn(lines, m)) => Len(list) = k

BestGiven(lines, k, config) ==
    \A j \in 1 .. k : ServedIn(lines, j) => config[lines[j].kind] \in Payloads(lines[j])

\* A codec is known, and its transceiver taken, from the first line that offers it.
Negotiated(lines, k, acc) ==
    /\ \A i \in 1 .. Len(Transceivers) :
          /\ CodecOf(Transceivers[i].kind) \in acc.known.bitmap
                <=> Came(lines, k, Transceivers[i].kind)
          /\ i \in acc.taken <=> Came(lines, k, Transceivers[i].kind)
    /\ BestGiven(lines, k, acc.config)
    /\ InOrder(lines, k, acc.mLines)

LEMMA ServedHasTransceiver ==
    ASSUME NEW line, Payloads(line) # {}
    PROVE  /\ \E i \in 1 .. Len(Transceivers) : Transceivers[i].kind = line.kind
           /\ line.kind \in Kinds
BY PayloadsOf, TransceiversAre

\* Three lines cannot all be served: there are two kinds.
LEMMA AtMostTwoServed ==
    ASSUME NEW lines, NEW n \in Nat, n > 2, \A m \in 1 .. n : ServedIn(lines, m)
    PROVE  FALSE
<1>1. ServedIn(lines, 1) /\ ServedIn(lines, 2) /\ ServedIn(lines, 3)
    <2>1. 1 \in 1 .. n /\ 2 \in 1 .. n /\ 3 \in 1 .. n
        OBVIOUS
    <2>2. QED
        BY <2>1
<1>2. lines[1].kind \in Kinds /\ lines[2].kind \in Kinds /\ lines[3].kind \in Kinds
    BY <1>1, ServedHasTransceiver DEF ServedIn
<1>3. 1 \in 1 .. 2 - 1 /\ 1 \in 1 .. 3 - 1 /\ 2 \in 1 .. 3 - 1
    OBVIOUS
<1>4. /\ lines[1].kind # lines[2].kind /\ lines[1].kind # lines[3].kind
      /\ lines[2].kind # lines[3].kind
    BY <1>1, <1>3, Zenon DEF ServedIn
<1>5. QED
    BY <1>2, <1>4 DEF Kinds

LEMMA NegotiatedStep ==
    ASSUME NEW lines \in Seq(MediaLines), NEW k \in 0 .. Len(lines) - 1,
           transceiverCount = Len(Transceivers),
           \A kind \in Kinds :
              RtpmapsOf(lines[k + 1], CodecOf(kind)) # {} => lines[k + 1].kind = kind,
           NEW acc, Took(acc, k), Negotiated(lines, k, acc)
    PROVE  Negotiated(lines, k + 1, ForLine(lines[k + 1], acc))
<1> DEFINE n == k + 1
           line == lines[n]
           known == GetPayloadTypesFromMedia(line, acc.known)
           usable == Usable(line, known, acc.taken)
           u == Min(usable)
           codec == Preferred(Transceivers[u].codecs \cap known.bitmap)
           new == ForLine(line, acc)
           Own == 1 .. Len(Transceivers)
           Kind(i) == Transceivers[i].kind
<1>1. k \in Nat /\ n \in 1 .. Len(lines) /\ 1 .. n = (1 .. k) \cup {n} /\ n - 1 = k /\ n \notin 1 .. k
    OBVIOUS
<1>2. line \in MediaLines
    <2> DEFINE L == MediaLines
    <2>1. lines \in Seq(L)
        OBVIOUS
    <2> HIDE DEF L
    <2>2. lines[n] \in L
        BY <1>1, <2>1
    <2>3. QED
        BY <2>2 DEF L
<1>3. acc \in Accs /\ acc.known \in Knowns
    BY DEF Took, Accs
<1>4. acc.taken \subseteq Own /\ acc.config \in [Kinds -> PayloadPairs]
      /\ acc.mLines \in Seq(Own) /\ Len(acc.mLines) \in Nat
    BY <1>3 DEF Accs
<1>5. /\ new.known = known /\ known \in Knowns
      /\ line.kind \notin Kinds \/ usable = {} =>
            new.taken = acc.taken /\ new.config = acc.config /\ new.mLines = acc.mLines
      /\ line.kind \in Kinds /\ usable # {} =>
            /\ new.taken = acc.taken \cup {u}
            /\ new.config = [acc.config EXCEPT ![line.kind] = known.payloads[codec]]
            /\ new.mLines = IF Len(acc.mLines) < TransceiverMaxCount
                            THEN Append(acc.mLines, u) ELSE acc.mLines
    BY <1>2, <1>3, ForLineIs
<1>6. /\ \A i \in Own : Kind(i) \in Kinds /\ Transceivers[i].codecs = {CodecOf(Kind(i))}
      /\ \A i, j \in Own : Kind(i) = Kind(j) => i = j
    BY TransceiversAre
<1>7. /\ \A i \in Own : /\ CodecOf(Kind(i)) \in acc.known.bitmap <=> Came(lines, k, Kind(i))
                        /\ i \in acc.taken <=> Came(lines, k, Kind(i))
      /\ BestGiven(lines, k, acc.config)
      /\ InOrder(lines, k, acc.mLines)
    BY DEF Negotiated
<1> HIDE DEF new, line, n
<1>8. \A kind : Came(lines, n, kind) <=> Came(lines, k, kind)
                                         \/ (line.kind = kind /\ Payloads(line) # {})
    BY <1>1, Zenon DEF Came, line
<1>9. ServedIn(lines, n) <=> Payloads(line) # {} /\ ~Came(lines, k, line.kind)
    BY <1>1, Zenon DEF ServedIn, Came, line
<1>10. ASSUME NEW i \in Own
       PROVE  Offering(line, CodecOf(Kind(i))) # {}
                <=> line.kind = Kind(i) /\ Payloads(line) # {}
    <2>1. CASE line.kind = Kind(i)
        <3>1. Payloads(line) = {Offered(line, b) : b \in Offering(line, CodecOf(Kind(i)))}
            BY <2>1, PayloadsOf
        <3>2. QED
            BY <2>1, <3>1
    <2>2. CASE line.kind # Kind(i)
        <3>1. RtpmapsOf(line, CodecOf(Kind(i))) = {}
            BY <1>6, <2>2 DEF line, n
        <3>2. Offering(line, CodecOf(Kind(i))) \subseteq RtpmapsOf(line, CodecOf(Kind(i)))
            BY DEF Offering
        <3>3. QED
            BY <2>2, <3>1, <3>2
    <2>3. QED
        BY <2>1, <2>2
<1>11. ASSUME NEW i \in Own
       PROVE  CodecOf(Kind(i)) \in known.bitmap <=> Came(lines, n, Kind(i))
    <2>1. CodecOf(Kind(i)) \in known.bitmap
            <=> CodecOf(Kind(i)) \in acc.known.bitmap \/ Offering(line, CodecOf(Kind(i))) # {}
        BY <1>2, <1>3, OwnCodec, LineOffers
    <2> HIDE DEF known
    <2>2. QED
        BY <1>7, <1>8, <1>10, <2>1
<1>12. ASSUME NEW i
       PROVE  i \in usable <=> i \in Own /\ Kind(i) = line.kind /\ ServedIn(lines, n)
    <2>1. i \in usable <=> /\ i \in Own /\ i \notin acc.taken /\ Kind(i) = line.kind
                           /\ Transceivers[i].codecs \cap known.bitmap # {}
        BY DEF Usable
    <2> HIDE DEF usable, known
    <2>2. i \in Own => (Transceivers[i].codecs \cap known.bitmap # {}
                            <=> CodecOf(Kind(i)) \in known.bitmap)
        BY <1>6
    <2>3. QED
        BY <1>7, <1>8, <1>9, <1>11, <2>1, <2>2
<1>13. \A i \in Own : CodecOf(Kind(i)) \in new.known.bitmap <=> Came(lines, n, Kind(i))
    BY <1>5, <1>11
<1> HIDE DEF usable
<1>14. CASE ~ServedIn(lines, n)
    <2>1. usable = {}
        BY <1>12, <1>14
    <2>2. new.taken = acc.taken /\ new.config = acc.config /\ new.mLines = acc.mLines
        BY <1>5, <2>1
    <2>3. \A i \in Own : i \in new.taken <=> Came(lines, n, Kind(i))
        BY <1>7, <1>8, <1>9, <1>14, <2>2
    <2>4. BestGiven(lines, n, new.config)
        BY <1>1, <1>7, <1>14, <2>2 DEF BestGiven
    <2>5. InOrder(lines, n, new.mLines)
        <3>1. n \in 1 .. n /\ \A j \in 1 .. n : j \in 1 .. k \/ j = n
            BY <1>1
        <3>2. QED
            BY <1>7, <1>14, <2>2, <3>1, Zenon DEF InOrder
    <2>6. QED
        BY <1>13, <2>3, <2>4, <2>5 DEF Negotiated, new, line, n
<1>15. CASE ServedIn(lines, n)
    <2>1. PICK i \in Own : Kind(i) = line.kind /\ line.kind \in Kinds
        BY <1>9, <1>15, ServedHasTransceiver
    <2>2. usable = {i}
        BY <1>6, <1>12, <1>15, <2>1
    <2>3. u = i
        <3>1. usable \subseteq Nat /\ usable # {}
            BY <2>2
        <3>2. u \in usable
            BY <3>1, Least
        <3>3. QED
            BY <2>2, <3>2
    <2>4. codec = CodecOf(Kind(i))
        <3>1. codec \in Transceivers[u].codecs \cap known.bitmap
            <4>1. transceiverCount \in Nat /\ Usable(line, known, acc.taken) # {}
                BY <2>2, TransceiversAre DEF usable
            <4>2. QED
                BY <1>5, <4>1, UsableCodec DEF usable
        <3> HIDE DEF codec, u
        <3>2. QED
            BY <1>6, <2>3, <3>1
    <2>5. known.payloads[codec] \in Payloads(line)
        <3>1. Offering(line, codec) # {}
            BY <1>9, <1>10, <1>15, <2>1, <2>4
        <3>2. PICK b \in Offering(line, codec) : known.payloads[codec] = Offered(line, b)
            <4> HIDE DEF codec
            <4>1. codec \in OwnCodecs
                BY <2>4, OwnCodec
            <4>2. QED
                BY <1>2, <1>3, <3>1, <4>1, LineOffers
        <3>3. Payloads(line) = {Offered(line, m) : m \in Offering(line, codec)}
            BY <2>1, <2>4, PayloadsOf
        <3> HIDE DEF codec, known
        <3>4. QED
            BY <3>2, <3>3
    <2> HIDE DEF u, codec, known
    <2>6. /\ new.taken = acc.taken \cup {i}
          /\ new.config = [acc.config EXCEPT ![line.kind] = known.payloads[codec]]
          /\ new.mLines = IF Len(acc.mLines) < TransceiverMaxCount
                          THEN Append(acc.mLines, i) ELSE acc.mLines
        BY <1>5, <2>1, <2>2, <2>3
    <2>7. \A j \in Own : j \in new.taken <=> Came(lines, n, Kind(j))
        <3> TAKE j \in Own
        <3>1. CASE j = i
            BY <1>8, <1>9, <1>15, <2>1, <2>6, <3>1
        <3>2. CASE j # i
            <4>1. Kind(j) # line.kind
                BY <1>6, <2>1, <3>2
            <4>2. QED
                BY <1>7, <1>8, <2>6, <3>2, <4>1
        <3>3. QED
            BY <3>1, <3>2
    <2>8. BestGiven(lines, n, new.config)
        <3> SUFFICES ASSUME NEW j \in 1 .. n, ServedIn(lines, j)
                     PROVE  new.config[lines[j].kind] \in Payloads(lines[j])
            BY DEF BestGiven
        <3>1. CASE j = n
            <4>1. new.config[line.kind] = known.payloads[codec]
                BY <1>4, <2>1, <2>6
            <4>2. QED
                BY <2>5, <3>1, <4>1 DEF line
        <3>2. CASE j \in 1 .. k
            <4>1. lines[j].kind # line.kind /\ lines[j].kind \in Kinds
                BY <1>9, <1>15, <3>2, ServedHasTransceiver DEF ServedIn, Came
            <4>2. new.config[lines[j].kind] = acc.config[lines[j].kind]
                BY <1>4, <2>6, <4>1
            <4>3. QED
                BY <1>7, <3>2, <4>2 DEF BestGiven
        <3>3. QED
            BY <1>1, <3>1, <3>2
    <2>9. InOrder(lines, n, new.mLines)
        <3>1. /\ Len(acc.mLines) <= Len(new.mLines)
              /\ \A j \in 1 .. Len(acc.mLines) : new.mLines[j] = acc.mLines[j]
              /\ Len(acc.mLines) < 2 => /\ Len(new.mLines) = Len(acc.mLines) + 1
                                        /\ new.mLines[Len(acc.mLines) + 1] = i
            <4> DEFINE S == Own
                       list == acc.mLines
            <4>1. list \in Seq(S) /\ i \in S /\ Len(list) \in Nat
                BY <1>4, <2>1
            <4> HIDE DEF S, list
            <4>2. /\ Len(Append(list, i)) = Len(list) + 1
                  /\ Append(list, i)[Len(list) + 1] = i
                  /\ \A j \in 1 .. Len(list) : Append(list, i)[j] = list[j]
                BY <4>1
            <4>3. CASE Len(list) < 2
                <5>1. new.mLines = Append(list, i)
                    BY <2>6, <4>3 DEF list, TransceiverMaxCount
                <5>2. QED
                    BY <4>1, <4>2, <5>1 DEF list
            <4>4. CASE ~(Len(list) < 2)
                <5>1. new.mLines = list
                    BY <2>6, <4>4 DEF list, TransceiverMaxCount
                <5>2. QED
                    BY <4>1, <4>4, <5>1 DEF list
            <4>5. QED
                BY <4>3, <4>4
        <3>2. ASSUME \A m \in 1 .. n : ServedIn(lines, m)
              PROVE  Len(new.mLines) = n /\ new.mLines[n] = i
            <4>1. Len(acc.mLines) = k
                BY <1>1, <1>7, <3>2 DEF InOrder
            <4>2. k < 2
                <5>1. n \in Nat /\ n = k + 1
                    BY <1>1 DEF n
                <5>2. ~(n > 2)
                    BY <3>2, <5>1, AtMostTwoServed
                <5>3. QED
                    BY <1>1, <5>1, <5>2
            <4>3. QED
                BY <3>1, <4>1, <4>2 DEF n
        <3>3. ASSUME NEW j \in 1 .. n, \A m \in 1 .. j : ServedIn(lines, m)
              PROVE  j <= Len(new.mLines) /\ Transceivers[new.mLines[j]].kind = lines[j].kind
            <4>1. CASE j = n
                <5>1. Len(new.mLines) = n /\ new.mLines[n] = i
                    BY <3>2, <3>3, <4>1
                <5>2. n \in Nat
                    BY <1>1
                <5>3. QED
                    BY <2>1, <4>1, <5>1, <5>2 DEF line
            <4>2. CASE j \in 1 .. k
                <5>1. j <= Len(acc.mLines) /\ Transceivers[acc.mLines[j]].kind = lines[j].kind
                    BY <1>7, <3>3, <4>2 DEF InOrder
                <5>2. j \in 1 .. Len(acc.mLines) /\ j \in Nat
                    BY <1>1, <1>4, <4>2, <5>1
                <5>3. Len(acc.mLines) <= Len(new.mLines) /\ new.mLines[j] = acc.mLines[j]
                    BY <3>1, <5>2
                <5>4. j <= Len(new.mLines)
                    <6>1. Len(new.mLines) \in Nat
                        BY <1>4, <2>1, <2>6
                    <6>2. QED
                        BY <1>4, <5>1, <5>2, <5>3, <6>1
                <5>5. QED
                    BY <5>1, <5>3, <5>4
            <4>3. QED
                BY <1>1, <4>1, <4>2
        <3>4. QED
            BY <3>2, <3>3 DEF InOrder
    <2>10. QED
        BY <1>13, <2>7, <2>8, <2>9 DEF Negotiated, new, line, n
<1>16. QED
    BY <1>14, <1>15

LEMMA GivenNegotiated ==
    ASSUME NEW offer \in Offers, CodecsInTheirLines, transceiverCount = Len(Transceivers),
           mLines = <<>>, rtpConfig \in [Kinds -> PayloadPairs]
    PROVE  Negotiated(offer.lines, Len(offer.lines), SetPayloadTypes(offer))
<1> DEFINE lines == offer.lines
           given == Given(offer)
           T == {k \in 0 .. Len(lines) : Negotiated(lines, k, given[k])}
<1>1. lines \in Seq(MediaLines) /\ Len(lines) \in Nat /\ DOMAIN lines = 1 .. Len(lines)
    <2>1. lines \in Seq(MediaLines)
        BY SdpAssumption
    <2>2. QED
        BY <2>1
<1>2. /\ given[0] = Begin
      /\ \A k \in 1 .. Len(lines) : given[k] = ForLine(lines[k], given[k - 1])
    BY <1>1, GivenAre
<1>3. \A k \in 0 .. Len(lines) : Took(given[k], k)
    BY TransceiverType, GivenTook
<1>4. \A k \in 1 .. Len(lines) : \A kind \in Kinds :
          RtpmapsOf(lines[k], CodecOf(kind)) # {} => lines[k].kind = kind
    BY <1>1 DEF CodecsInTheirLines, Kinds
<1> HIDE DEF given, lines
<1>5. 0 \in T
    <2>1. \A kind : ~Came(lines, 0, kind)
        BY DEF Came
    <2>2. Begin.known.bitmap = {} /\ Begin.taken = {} /\ Begin.mLines = <<>>
        BY DEF Begin
    <2>3. BestGiven(lines, 0, Begin.config)
        BY DEF BestGiven
    <2>4. InOrder(lines, 0, Begin.mLines)
        BY <2>2 DEF InOrder
    <2>5. Negotiated(lines, 0, Begin)
        BY <2>1, <2>2, <2>3, <2>4 DEF Negotiated
    <2>6. QED
        BY <1>1, <1>2, <2>5
<1>6. ASSUME NEW k \in 0 .. Len(lines) - 1, k \in T
      PROVE  k + 1 \in T
    <2>1. k + 1 \in 1 .. Len(lines) /\ (k + 1) - 1 = k /\ k \in 0 .. Len(lines)
          /\ k + 1 \in 0 .. Len(lines)
        BY <1>1
    <2>2. given[k + 1] = ForLine(lines[k + 1], given[k])
        BY <1>2, <2>1
    <2>3. Took(given[k], k) /\ Negotiated(lines, k, given[k])
        BY <1>3, <1>6, <2>1
    <2>4. \A kind \in Kinds :
              RtpmapsOf(lines[k + 1], CodecOf(kind)) # {} => lines[k + 1].kind = kind
        BY <1>4, <2>1
    <2>5. Negotiated(lines, k + 1, ForLine(lines[k + 1], given[k]))
        BY <1>1, <2>3, <2>4, NegotiatedStep
    <2>6. QED
        BY <2>1, <2>2, <2>5
<1>7. Len(lines) \in T
    <2> HIDE DEF T
    <2>1. \A k \in 0 .. Len(lines) - 1 : k \in T => k + 1 \in T
        BY <1>6
    <2>2. \A k \in 0 .. Len(lines) : k \in T
        BY <1>1, <1>5, <2>1, UpTo
    <2>3. Len(lines) \in 0 .. Len(lines)
        BY <1>1
    <2>4. QED
        BY <2>2, <2>3
<1>8. QED
    BY <1>7 DEF given, lines, SetPayloadTypes

-----------------------------------------------------------------------------
(***************************************************************************)
(* What is stored fits the offer until the session is closed, and the      *)
(* answer is made of what is stored.                                       *)
(***************************************************************************)
Stored ==
    pc \in {"described", "answered"} =>
        /\ remote \in Offers
        /\ BestGiven(remote.lines, Len(remote.lines), rtpConfig)
        /\ InOrder(remote.lines, Len(remote.lines), mLines)

Answered ==
    pc = "answered" =>
        answer = [lines  |-> [i \in 1 .. Len(mLines) |-> PopulateSingleMedia(i)],
                  bundle |-> BundleGroup]

NInv == IInv /\ Stored /\ Answered

LEMMA NInductive ==
    ASSUME CodecsInTheirLines, NInv, [Next]_vars
    PROVE  NInv'
<1>1. IInv'
    BY Inductive DEF NInv
<1>2. Stored'
    <2>1. CASE AddTransceivers
        BY <2>1 DEF AddTransceivers, Stored
    <2>2. ASSUME NEW offer \in Offers, SetRemoteDescription(offer) PROVE Stored'
        <3> DEFINE result == SetPayloadTypes(offer)
        <3>1. /\ transceiverCount = Len(Transceivers) /\ mLines = <<>>
              /\ rtpConfig \in [Kinds -> PayloadPairs]
            BY <2>2 DEF NInv, IInv, TypeOK, Fits, SetRemoteDescription, Kinds, PayloadPairs
        <3>2. Negotiated(offer.lines, Len(offer.lines), result)
            BY <3>1, GivenNegotiated
        <3> HIDE DEF result
        <3>3. mLines' = result.mLines /\ rtpConfig' = result.config /\ remote' = offer
            BY <2>2 DEF SetRemoteDescription, result
        <3>4. QED
            BY <3>2, <3>3 DEF Stored, Negotiated
    <2>3. CASE CreateAnswer
        BY <2>3 DEF CreateAnswer, NInv, Stored
    <2>4. CASE CloseSession
        BY <2>4 DEF CloseSession, Stored
    <2>5. CASE UNCHANGED vars
        BY <2>5 DEF vars, NInv, Stored
    <2>6. QED
        BY <2>1, <2>2, <2>3, <2>4, <2>5 DEF Next
<1>3. Answered'
    <2>1. CASE CreateAnswer
        BY <2>1 DEF CreateAnswer, Answered, PopulateSingleMedia, RemoteLine, BundleGroup
    <2>2. CASE UNCHANGED vars
        BY <2>2 DEF vars, NInv, Answered, PopulateSingleMedia, RemoteLine, BundleGroup
    <2>3. CASE AddTransceivers \/ CloseSession
        BY <2>3 DEF AddTransceivers, CloseSession, Answered
    <2>4. ASSUME NEW offer \in Offers, SetRemoteDescription(offer) PROVE Answered'
        BY <2>4 DEF SetRemoteDescription, Answered
    <2>5. QED
        BY <2>1, <2>2, <2>3, <2>4 DEF Next
<1>4. QED
    BY <1>1, <1>2, <1>3 DEF NInv

LEMMA NAlways ==
    ASSUME CodecsInTheirLines
    PROVE  Spec => []NInv
<1>1. Init => NInv
    BY Initially DEF Init, NInv, Stored, Answered
<1>2. NInv /\ [Next]_vars => NInv'
    BY NInductive
<1>3. QED
    BY <1>1, <1>2, PTL DEF Spec

LEMMA StoredIsBest == NInv => NegotiatedIsBest
<1> SUFFICES ASSUME NInv, pc \in {"described", "answered"},
                    NEW i \in Lines, Served(i)
             PROVE  rtpConfig[remote.lines[i].kind] \in Payloads(remote.lines[i])
    BY DEF NegotiatedIsBest
<1>1. remote \in Offers /\ BestGiven(remote.lines, Len(remote.lines), rtpConfig)
    BY DEF NInv, Stored
<1>2. DOMAIN remote.lines = 1 .. Len(remote.lines)
    <2>1. remote.lines \in Seq(MediaLines)
        BY <1>1, SdpAssumption
    <2>2. QED
        BY <2>1
<1>3. ServedIn(remote.lines, i)
    BY Zenon DEF Served, ServedIn
<1>4. QED
    BY <1>1, <1>2, <1>3 DEF BestGiven, Lines

\* The media of a session is sent with the payload type this viewer offered for it, for
\* offers of any number of lines and attributes in any order, if codecs stand
\* in lines of their kind.
THEOREM NegotiatedIsBestSafe ==
    ASSUME CodecsInTheirLines
    PROVE  Spec => []NegotiatedIsBest
<1>1. Spec => []NInv
    BY NAlways
<1>2. NInv => NegotiatedIsBest
    BY StoredIsBest
<1>3. QED
    BY <1>1, <1>2, PTL

-----------------------------------------------------------------------------
(***************************************************************************)
(* The answer.                                                             *)
(***************************************************************************)
LEMMA AnswerCodecIs ==
    ASSUME NEW c \in OwnCodecs
    PROVE  AnswerCodec({c}) = c
<1> DEFINE order == <<"H264", "OPUS", "VP8", "MULAW", "ALAW", "H265">>
           S == {k \in DOMAIN order : order[k] \in {c}}
<1>1. DOMAIN order = 1 .. 6 /\ order[1] = "H264" /\ order[2] = "OPUS"
    OBVIOUS
<1>2. S \subseteq Nat /\ S # {}
    BY <1>1 DEF OwnCodecs
<1>3. Min(S) \in S
    <2> HIDE DEF S
    <2>1. QED
        BY <1>2, Least
<1>4. order[Min(S)] = c
    BY <1>3
<1> HIDE DEF order
<1>5. QED
    BY <1>4, Zenon DEF AnswerCodec, FirstOf, order

\* With one fmtp that begins with the payload the first is the last.
LEMMA SameFmtp ==
    ASSUME NEW attributes \in Seq(Attributes), NEW p,
           \A a, b \in FmtpsOf(attributes, p) : a = b
    PROVE  FindFmtpBasedOnCodec(attributes, p) = FindH264Fmtp(attributes, p)
<1> DEFINE found == FmtpsOf(attributes, p)
<1>1. found \subseteq 1 .. Len(attributes) /\ Len(attributes) \in Nat /\ found \subseteq Nat
    BY DEF FmtpsOf
<1>2. found # {} => Min(found) \in found /\ Max(found) \in found
    <2> HIDE DEF found
    <2>1. QED
        BY <1>1, Least, Greatest
<1>3. found # {} => Min(found) = Max(found)
    BY <1>2
<1> HIDE DEF found
<1>4. QED
    BY <1>3, Zenon DEF FindFmtpBasedOnCodec, FindH264Fmtp, found

LEMMA AnsweredMirrors ==
    ASSUME OneFmtpEach, BundleNamesLines, NInv, pc = "answered"
    PROVE  AnswerMirrorsOffer
<1> DEFINE lines == remote.lines
           n == Len(lines)
<1>1. remote \in Offers /\ BestGiven(lines, n, rtpConfig) /\ InOrder(lines, n, mLines)
    BY DEF NInv, Stored
<1>2. lines \in Seq(MediaLines) /\ DOMAIN lines = 1 .. n /\ n \in Nat
    <2>1. lines \in Seq(MediaLines)
        BY <1>1, SdpAssumption
    <2>2. QED
        BY <2>1
<1>3. /\ mLines \in Seq(1 .. transceiverCount) /\ Len(mLines) \in Nat
      /\ 1 .. transceiverCount \subseteq 1 .. Len(Transceivers)
    <2>1. transceiverCount = 0 \/ transceiverCount = Len(Transceivers)
        BY DEF NInv, IInv, TypeOK
    <2>2. mLines \in Seq(1 .. transceiverCount)
        BY DEF NInv, IInv, Fits
    <2>3. QED
        BY <2>1, <2>2
<1>4. answer = [lines  |-> [i \in 1 .. Len(mLines) |-> PopulateSingleMedia(i)],
                bundle |-> BundleGroup]
    BY DEF NInv, Answered
<1>5. /\ answer.lines = [i \in 1 .. Len(mLines) |-> PopulateSingleMedia(i)]
      /\ answer.bundle = BundleGroup
    BY <1>4
<1>6. DOMAIN answer.lines = 1 .. Len(mLines) /\ Len(answer.lines) = Len(mLines)
    BY <1>3, <1>5
<1>7. \A i : Served(i) <=> ServedIn(lines, i)
    BY Zenon DEF Served, ServedIn
<1>8. \A i \in 1 .. n : RemoteLine(i) = lines[i]
    BY <1>2 DEF RemoteLine
<1> HIDE DEF lines, n
<1>9. ASSUME NEW i \in 1 .. n, \A j \in 1 .. i : Served(j)
      PROVE  /\ i <= Len(answer.lines)
             /\ LET ours == answer.lines[i]  theirs == lines[i]
                IN  /\ ours.kind = theirs.kind /\ ours.mid = theirs.mid
                    /\ \E k \in Offering(theirs, ours.described.codec) :
                         theirs.attributes[k].payload = ours.payload
                    /\ ours.described.fmtp = FindH264Fmtp(theirs.attributes, ours.payload)
                    /\ ours.direction \in {"sendrecv", "sendonly"} =>
                         theirs.direction \in {"sendrecv", "recvonly"}
                    /\ ours.direction \in {"sendrecv", "recvonly"} =>
                         theirs.direction \in {"sendrecv", "sendonly"}
    <2> DEFINE line == lines[i]
               t == mLines[i]
               own == Transceivers[t]
               c == CodecOf(line.kind)
               payload == rtpConfig[line.kind].apt
               ours == answer.lines[i]
    <2>1. i \in Nat /\ i \in 1 .. i
        BY <1>2
    <2>2. i <= Len(mLines) /\ own.kind = line.kind
        BY <1>1, <1>7, <1>9 DEF InOrder
    <2>3. i \in 1 .. Len(mLines)
        BY <1>3, <2>1, <2>2
    <2>4. t \in 1 .. Len(Transceivers)
        <3> DEFINE N == 1 .. transceiverCount
        <3>1. mLines \in Seq(N) /\ N \subseteq 1 .. Len(Transceivers)
            BY <1>3
        <3> HIDE DEF N
        <3>2. mLines[i] \in N
            BY <2>3, <3>1
        <3>3. QED
            BY <3>1, <3>2
    <2>5. own.codecs = {c} /\ own.direction \in Directions
        BY <2>2, <2>4, TransceiversAre, TransceiverType
    <2>6. PICK k \in Offering(line, c) : rtpConfig[line.kind] = Offered(line, k)
        <3>1. rtpConfig[line.kind] \in Payloads(line)
            BY <1>1, <1>7, <1>9, <2>1 DEF BestGiven
        <3>2. Payloads(line) = {Offered(line, k) : k \in Offering(line, c)}
            BY <2>2, <2>4, PayloadsOf
        <3>3. QED
            BY <3>1, <3>2
    <2>7. payload = line.attributes[k].payload /\ k \in RtpmapsOf(line, c)
        BY <2>6 DEF Offered, Offering
    <2>8. line.attributes \in Seq(Attributes)
        <3>1. line \in MediaLines
            <4> DEFINE L == MediaLines
            <4>1. lines \in Seq(L)
                BY <1>2
            <4> HIDE DEF L
            <4>2. lines[i] \in L
                BY <1>2, <4>1 DEF n
            <4>3. QED
                BY <4>2 DEF L
        <3>2. QED
            BY <3>1 DEF MediaLines
    <2>9. FindFmtpBasedOnCodec(line.attributes, payload) = FindH264Fmtp(line.attributes, payload)
        <3>1. \A a, b \in FmtpsOf(line.attributes, payload) : a = b
            BY <1>1, <1>2, <2>7 DEF OneFmtpEach, lines
        <3>2. QED
            BY <2>8, <3>1, SameFmtp
    <2>10. AnswerCodec(own.codecs) = c /\ c \in {"H264", "OPUS", "H265"}
        BY <2>5, OwnCodec, AnswerCodecIs DEF OwnCodecs
    <2>11. ours = [kind      |-> line.kind,
                   mid       |-> line.mid,
                   payload   |-> payload,
                   rtx       |-> rtpConfig[line.kind].rtx,
                   direction |-> AnswerDirection(own.direction, line.direction),
                   described |-> [codec |-> c,
                                  fmtp |-> FindFmtpBasedOnCodec(line.attributes, payload)]]
        <3>1. ours = PopulateSingleMedia(i)
            BY <1>5, <2>3
        <3>2. RemoteLine(i) = line
            BY <1>8
        <3> HIDE DEF line, own, c, ours
        <3>3. PopulateCodecAttributes(line, own.codecs, payload)
                = [codec |-> c, fmtp |-> FindFmtpBasedOnCodec(line.attributes, payload)]
            BY <2>10 DEF PopulateCodecAttributes
        <3>4. QED
            BY <2>2, <3>1, <3>2, <3>3 DEF PopulateSingleMedia, own
    <2> HIDE DEF line, own, c, payload, ours
    <2>12. /\ ours.kind = line.kind /\ ours.mid = line.mid /\ ours.payload = payload
           /\ ours.described.codec = c
           /\ ours.described.fmtp = FindFmtpBasedOnCodec(line.attributes, payload)
           /\ ours.direction = AnswerDirection(own.direction, line.direction)
        BY <2>11
    <2>13. /\ ours.direction \in {"sendrecv", "sendonly"} =>
                line.direction \in {"sendrecv", "recvonly"}
           /\ ours.direction \in {"sendrecv", "recvonly"} =>
                line.direction \in {"sendrecv", "sendonly"}
        BY <2>12 DEF AnswerDirection
    <2>14. i <= Len(answer.lines)
        BY <1>6, <2>2
    <2>15. QED
        BY <2>6, <2>7, <2>9, <2>12, <2>13, <2>14 DEF ours, line
<1>10. ASSUME \A i \in 1 .. n : Served(i), remote.bundle # <<>>
       PROVE  answer.bundle = [i \in DOMAIN answer.lines |-> answer.lines[i].mid]
    <2>1. Len(mLines) = n
        BY <1>1, <1>7, <1>10 DEF InOrder
    <2>2. answer.bundle = [i \in 1 .. n |-> lines[i].mid]
        BY <1>1, <1>2, <1>5, <1>10 DEF BundleNamesLines, BundleGroup, lines
    <2>3. \A i \in 1 .. n : answer.lines[i].mid = lines[i].mid
        BY <1>5, <1>8, <2>1 DEF PopulateSingleMedia
    <2>4. QED
        BY <1>6, <2>1, <2>2, <2>3
<1>11. QED
    BY <1>2, <1>9, <1>10 DEF AnswerMirrorsOffer, Lines, lines

\* The answer mirrors the offer line by line, with the codec and the parameters the payload
\* was chosen for, whatever earlier viewers left in the lists and in rtpConfig.
THEOREM AnswerMirrorsOfferSafe ==
    ASSUME CodecsInTheirLines, OneFmtpEach, BundleNamesLines
    PROVE  Spec => []AnswerMirrorsOffer
<1>1. Spec => []NInv
    BY NAlways
<1>2. NInv => AnswerMirrorsOffer
    BY AnsweredMirrors DEF AnswerMirrorsOffer
<1>3. QED
    BY <1>1, <1>2, PTL
=============================================================================
