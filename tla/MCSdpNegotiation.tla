------------------------- MODULE MCSdpNegotiation -------------------------
(***************************************************************************)
(* Instances of SdpNegotiation for TLC: the application's two transceivers *)
(* and offers made of the lines browsers send.                             *)
(***************************************************************************)
EXTENDS SdpNegotiation, TLC

MCTransceivers ==
    <<[kind |-> "video", codecs |-> {"H264"}, direction |-> "sendonly"],
      [kind |-> "audio", codecs |-> {"OPUS"}, direction |-> "sendrecv"]>>

MCPayloadTypes == 0 .. 127

Rtpmap(p, c) == [name |-> "rtpmap", payload |-> p, codec |-> c, apt |-> 0, features |-> {}]
Fmtp(p, f) == [name |-> "fmtp", payload |-> p, codec |-> "none", apt |-> 0, features |-> f]
Rtx(p, apt) == [name |-> "fmtp", payload |-> p, codec |-> "none", apt |-> apt, features |-> {}]

\* Fmtp parameters of an H264 with score 2, 10, 11 and 12.
Weak == {"level-asymmetry-allowed=1", "profile 42e01f"}
Plain == {"packetization-mode=1"}
Good == {"packetization-mode=1", "level-asymmetry-allowed=1"}
Best == Good \cup {"profile 42e01f"}

Vp8 == <<Rtpmap(96, "VP8"), Rtx(97, 96)>>
H264(p, f, rtx) ==
    <<Rtpmap(p, "H264"), Fmtp(p, f)>> \o IF rtx THEN <<Rtx(p + 1, p)>> ELSE <<>>

VideoAttributes ==
    {Vp8 \o H264(102, f, TRUE) \o H264(106, g, rtx) :
        f \in {Weak, Plain, Best}, g \in {Weak, Good, Best}, rtx \in BOOLEAN}
    \cup {H264(102, Good, FALSE),
          <<Rtpmap(102, "H264"), Rtpmap(106, "H264"), Fmtp(106, Best), Fmtp(102, Best),
            Rtx(107, 106), Rtx(103, 102)>>,
          <<Rtx(103, 102), Rtpmap(102, "H264"), Fmtp(102, Best), Rtx(104, 102)>>,
          Vp8}

Line(k, d, f, a) ==
    [kind |-> k, mid |-> 0, direction |-> d, formats |-> f, attributes |-> a]

Video(a) == Line("video", "recvonly", <<102, 106>>, a)
Opus == Line("audio", "sendrecv", <<111, 0, 8>>,
             <<Rtpmap(111, "OPUS"), Fmtp(111, {"useinbandfec=1"}), Rtpmap(0, "MULAW"),
               Rtpmap(8, "ALAW")>>)
OpusLast == Line("audio", "sendonly", <<8, 109>>,
                 <<Rtpmap(109, "OPUS"), Rtx(63, 109), Rtpmap(8, "ALAW")>>)
Telephone == Line("audio", "inactive", <<0, 8>>, <<>>)
Data == Line("application", "none", <<>>, <<>>)

Shapes ==
    LET V == {Video(a) : a \in VideoAttributes}
        A == {Opus, OpusLast, Telephone}
    IN  {<<v>> : v \in V}
        \cup {<<v, a>> : v \in V, a \in A}
        \cup {<<a, v>> : v \in V, a \in A}
        \cup {<<v, w, Opus>> : v \in V, w \in {Video(Vp8), Video(H264(104, Best, TRUE))}}
        \cup {<<Data, v, Opus>> : v \in V}
        \cup {<<Opus, v, Data>> : v \in V}

MCOffers ==
    {[lines  |-> [i \in DOMAIN s |-> [s[i] EXCEPT !.mid = i - 1]],
      bundle |-> [i \in DOMAIN s |-> i - 1]] : s \in Shapes}

\* These offers are of the kind the proofs about all offers assume.
ASSUME OffersFit == CodecsInTheirLines /\ OneFmtpEach /\ BundleNamesLines
=============================================================================
