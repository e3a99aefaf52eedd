-------------------------- MODULE SdpNegotiation --------------------------
(***************************************************************************)
(* The negotiation of one viewer after another: the transceivers of        *)
(* app_webrtc.c, the payload types that PeerConnection_SetRemoteDescription *)
(* takes from the offer (peer_connection_sdp.c) and the answer that        *)
(* PeerConnection_CreateAnswer makes of them (sdp_controller.c).           *)
(*                                                                         *)
(* All of it runs on the WebRTC task; what is hard is that the result is   *)
(* spread over four places with lives of their own: the table of payloads  *)
(* that grows from line to line, the transceivers taken, the list of       *)
(* transceivers in the order of the lines they were taken for, and         *)
(* rtpConfig, which no close resets.  The answer puts them together by     *)
(* position.                                                               *)
(*                                                                         *)
(* An offer is a sequence of media lines with the attributes the           *)
(* negotiation looks at.  Numbers in them are well formed.  Data channels  *)
(* are compiled out.                                                       *)
(***************************************************************************)
EXTENDS Naturals, Sequences, FiniteSets, SequencesExt

CONSTANTS
    Offers,         \* the offers viewers may send
    PayloadTypes,   \* the numbers offers give to payloads: 7 bits in RTP
    Transceivers,   \* what the application adds, in its order
    MaxViewers      \* bound: viewers served

Directions == {"sendrecv", "sendonly", "recvonly", "inactive"}

\* An attribute that says nothing of a codec, or of an associated payload type, has
\* another text or 0 there.
Attributes == [name : STRING, payload : PayloadTypes, codec : STRING, apt : PayloadTypes,
               features : SUBSET STRING]
MediaLines == [kind : STRING, mid : Nat, direction : Directions \cup {"none"},
               formats : Seq(PayloadTypes), attributes : Seq(Attributes)]

ASSUME SdpAssumption ==
    /\ {0, 8} \subseteq PayloadTypes /\ PayloadTypes \subseteq Nat
    /\ Offers \subseteq [lines : Seq(MediaLines), bundle : Seq(Nat)]
    /\ Transceivers \in Seq([kind      : {"video", "audio"},
                             codecs    : SUBSET STRING,
                             direction : Directions])
    /\ MaxViewers \in Nat

\* The application adds at most one transceiver of a kind, with one codec.
CodecOf(kind) == IF kind = "video" THEN "H264" ELSE "OPUS"

ASSUME ApplicationAssumption ==
    /\ \A i \in DOMAIN Transceivers :
          Transceivers[i].codecs = {CodecOf(Transceivers[i].kind)}
    /\ \A i, j \in DOMAIN Transceivers :
          Transceivers[i].kind = Transceivers[j].kind => i = j

TransceiverMaxCount == 2
MinimumScore == 10
HighestScore == 12

\* The order in which a transceiver's common codecs are preferred.
CodecOrder == <<"H264", "VP8", "H265", "OPUS", "MULAW", "ALAW">>
Codecs == ToSet(CodecOrder)

NoPayload == [apt |-> 0, rtx |-> 0]

VARIABLES
    pc,                \* the place of the WebRTC task
    transceiverCount,
    remote,            \* remoteSessionDescription
    mLines,            \* pMLinesTransceivers, as indexes of Transceivers
    rtpConfig,         \* payload type and RTX payload type of each kind
    answer,
    viewers

vars == <<pc, transceiverCount, remote, mLines, rtpConfig, answer, viewers>>

NoOffer == [lines |-> <<>>, bundle |-> <<>>]
NoAnswer == NoOffer

Init ==
    /\ pc = "idle"
    /\ transceiverCount = 0
    /\ remote = NoOffer
    /\ mLines = <<>>
    /\ rtpConfig = [k \in {"video", "audio"} |-> NoPayload]
    /\ answer = NoAnswer
    /\ viewers = 0

-----------------------------------------------------------------------------
(* What the scan of one media line finds.                                  *)

IsFmtp(a) == a.name = "fmtp"
IsRtpmap(a, codec) == a.name = "rtpmap" /\ a.codec = codec

\* strncmp over the digits of p: p is a decimal prefix of q.
PrefixOf(p, q) == p = q \/ (p # 0 /\ p \in {q \div 10, q \div 100})

\* The places of the fmtps whose value begins with the digits of payload p.
FmtpsOf(attributes, p) ==
    {k \in DOMAIN attributes : IsFmtp(attributes[k]) /\ PrefixOf(p, attributes[k].payload)}

\* The last of them counts.
FindH264Fmtp(attributes, p) ==
    LET found == FmtpsOf(attributes, p)
    IN  IF found = {} THEN {} ELSE attributes[Max(found)].features

CalculateH264Score(features) ==
    (IF "packetization-mode=1" \in features THEN MinimumScore ELSE 0)
    + Cardinality(features \cap {"level-asymmetry-allowed=1", "profile 42e01f"})

WithCodecKeepingRtx(acc, codec, payload, best) ==  \* mutant: the old rtx stays
    [bitmap   |-> acc.bitmap \cup {codec},
     payloads |-> [acc.payloads EXCEPT ![codec].apt = payload],
     best     |-> best]

\* A codec's payload starts without a retransmission.
WithCodec(acc, codec, payload, best) ==
    [bitmap   |-> acc.bitmap \cup {codec},
     payloads |-> [acc.payloads EXCEPT ![codec] = [apt |-> payload, rtx |-> 0]],
     best     |-> best]

\* One attribute: an H264 that scores better than those before it, another
\* codec not seen in this line, or the retransmission of a codec seen.
CollectAttribute(attributes, acc, a) ==
    LET score == CalculateH264Score(FindH264Fmtp(attributes, a.payload))
    IN  CASE IsRtpmap(a, "H264") /\ acc.best < HighestScore ->
                IF score >= MinimumScore /\ acc.best < score
                THEN WithCodec(acc, "H264", a.payload, score) ELSE acc
          [] a.name = "rtpmap" /\ a.codec \in Codecs \ (acc.bitmap \cup {"H264"}) ->
                WithCodec(acc, a.codec, a.payload, acc.best)
          [] IsFmtp(a) /\ a.apt # 0 ->
                [acc EXCEPT !.payloads = [c \in Codecs |->
                    IF c \in acc.bitmap /\ @[c].apt = a.apt
                    THEN [apt |-> a.apt, rtx |-> a.payload] ELSE @[c]]]
          [] OTHER -> acc

\* The scan of a line after each of its attributes.
Scans(attributes, payloads) ==
    LET after[k \in 0 .. Len(attributes)] ==
            IF k = 0 THEN [bitmap |-> {}, payloads |-> payloads, best |-> 0]
            ELSE CollectAttribute(attributes, after[k - 1], attributes[k])
    IN  after

CollectAttributesCodec(attributes, payloads) == Scans(attributes, payloads)[Len(attributes)]

\* The first static payload type named in the line; that of A-law is stored
\* in the place of mu-law.
WithStaticPayload(line, known) ==
    LET static == {k \in DOMAIN line.formats : line.formats[k] \in {0, 8}}
        first == line.formats[Min(static)]
        codec == IF first = 0 THEN "MULAW" ELSE "ALAW"
    IN  IF static = {} THEN known
        ELSE [bitmap   |-> known.bitmap \cup {codec},
              payloads |-> [known.payloads EXCEPT !["MULAW"] = [apt |-> first, rtx |-> 0]]]

\* What is known after a line is known together with what earlier lines gave.
GetPayloadTypesFromMedia(line, known) ==
    LET default == WithStaticPayload(line, known)
        scan == CollectAttributesCodec(line.attributes, default.payloads)
    IN  [bitmap |-> default.bitmap \cup scan.bitmap, payloads |-> scan.payloads]

-----------------------------------------------------------------------------
(* The transceiver a line is given to.                                     *)

UsableAgain(line, known, taken) ==  \* mutant: given to two lines
    {i \in 1 .. transceiverCount :
        /\ Transceivers[i].kind = line.kind
        /\ Transceivers[i].codecs \cap known.bitmap # {}}

Usable(line, known, taken) ==
    {i \in 1 .. transceiverCount :
        /\ i \notin taken
        /\ Transceivers[i].kind = line.kind
        /\ Transceivers[i].codecs \cap known.bitmap # {}}

\* The first of the codecs in an order.
FirstOf(order, codecs) == order[Min({k \in DOMAIN order : order[k] \in codecs})]

Preferred(codecs) == FirstOf(CodecOrder, codecs)

SetPayloadType(line, acc) ==
    LET usable == Usable(line, acc.known, acc.taken)
        i == Min(usable)
        codec == Preferred(Transceivers[i].codecs \cap acc.known.bitmap)
    IN  IF line.kind \notin {"video", "audio"} THEN [acc EXCEPT !.ok = FALSE]
        ELSE IF usable = {} THEN [acc EXCEPT !.ok = TRUE]
        ELSE [acc EXCEPT
                !.ok = TRUE,
                !.taken = @ \cup {i},
                !.config[line.kind] = acc.known.payloads[codec],
                !.mLines = IF Len(@) < TransceiverMaxCount THEN Append(@, i) ELSE @]

\* All lines, with one table; the result of the last line is the result.
Given(offer) ==
    LET after[k \in 0 .. Len(offer.lines)] ==
            IF k = 0
            THEN [known  |-> [bitmap |-> {}, payloads |-> [c \in Codecs |-> NoPayload]],
                  taken  |-> {},
                  config |-> rtpConfig,
                  mLines |-> mLines,
                  ok     |-> TRUE]
            ELSE LET line == offer.lines[k]
                 IN  SetPayloadType(line, [after[k - 1] EXCEPT
                                              !.known = GetPayloadTypesFromMedia(line, @)])
    IN  after

SetPayloadTypes(offer) == Given(offer)[Len(offer.lines)]

-----------------------------------------------------------------------------
\* run_viewer_session adds its transceivers.  After an offer that was
\* rejected the places are still taken, and the viewer is given up.
AddTransceivers ==
    /\ pc = "idle" /\ viewers < MaxViewers
    /\ viewers' = viewers + 1
    /\ IF transceiverCount = 0
       THEN transceiverCount' = Len(Transceivers) /\ pc' = "prepared"
       ELSE transceiverCount' = transceiverCount /\ pc' = "rejected"
    /\ UNCHANGED <<remote, mLines, rtpConfig, answer>>

\* PeerConnection_SetRemoteDescription.  It may fail after the negotiation
\* as well; what the negotiation stored stays.
SetRemoteDescription(offer) ==
    /\ pc = "prepared"
    /\ remote' = offer
    /\ LET result == SetPayloadTypes(offer)
       IN  /\ mLines' = result.mLines
           /\ rtpConfig' = result.config
           /\ \/ result.ok /\ pc' = "described"
              \/ pc' = "rejected"
    /\ UNCHANGED <<transceiverCount, answer, viewers>>

\* The codec a transceiver is described by: its own first one in this order,
\* whichever was negotiated.
AnswerCodec(codecs) == FirstOf(<<"H264", "OPUS", "VP8", "MULAW", "ALAW", "H265">>, codecs)

\* The first fmtp of the line whose value begins with the digits of payload p.
FindFmtpBasedOnCodec(attributes, p) ==
    LET found == FmtpsOf(attributes, p)
    IN  IF found = {} THEN {} ELSE attributes[Min(found)].features

\* What rtpmap and fmtp of the answer say of the payload.
PopulateCodecAttributes(line, codecs, payload) ==
    [codec |-> AnswerCodec(codecs),
     fmtp  |-> IF AnswerCodec(codecs) \in {"H264", "OPUS", "H265"}
               THEN FindFmtpBasedOnCodec(line.attributes, payload) ELSE {}]

\* The direction answers that of the offer; the transceiver's own counts only
\* if it is inactive.
AnswerDirection(own, offered) ==
    CASE own = "inactive" -> "inactive"
      [] OTHER -> CASE offered = "sendrecv" -> "sendrecv"
                    [] offered = "sendonly" -> "recvonly"
                    [] offered = "recvonly" -> "sendonly"
                    [] OTHER -> "inactive"

\* A line past the last of the offer is empty, and one without a mid gets the
\* count.
RemoteLine(i) ==
    IF i \in DOMAIN remote.lines THEN remote.lines[i]
    ELSE [mid |-> i - 1, direction |-> "none", attributes |-> <<>>]

\* SdpController_PopulateSingleMedia for the i-th transceiver in the list.
PopulateSingleMedia(i) ==
    LET own == Transceivers[mLines[i]]
        line == RemoteLine(i)
        payload == rtpConfig[own.kind]
    IN  [kind      |-> own.kind,
         mid       |-> line.mid,
         payload   |-> payload.apt,
         rtx       |-> payload.rtx,
         direction |-> AnswerDirection(own.direction, line.direction),
         described |-> PopulateCodecAttributes(line, own.codecs, payload.apt)]

\* The BUNDLE group of the offer is copied; without one it is counted up.
BundleGroup ==
    IF remote.bundle # <<>> THEN remote.bundle
    ELSE [i \in 1 .. Len(mLines) |-> i - 1]

CreateAnswer ==
    /\ pc = "described"
    /\ answer' = [lines  |-> [i \in 1 .. Len(mLines) |-> PopulateSingleMedia(i)],
                  bundle |-> BundleGroup]
    /\ pc' = "answered"
    /\ UNCHANGED <<transceiverCount, remote, mLines, rtpConfig, viewers>>

CloseSessionKeepingLines ==  \* mutant: the list of the lines survives
    /\ pc \in {"described", "answered", "rejected"}
    /\ pc' = "idle"
    /\ transceiverCount' = IF pc = "rejected" THEN transceiverCount ELSE 0
    /\ answer' = NoAnswer
    /\ UNCHANGED <<remote, mLines, rtpConfig, viewers>>

\* The cleanup.  OnClosePeerConnection is run by the session task, which
\* wakes only when the remote description was accepted.
CloseSession ==
    /\ pc \in {"described", "answered", "rejected"}
    /\ pc' = "idle"
    /\ IF pc = "rejected"
       THEN UNCHANGED <<transceiverCount, mLines>>
       ELSE transceiverCount' = 0 /\ mLines' = <<>>
    /\ answer' = NoAnswer
    /\ UNCHANGED <<remote, rtpConfig, viewers>>

Next ==
    \/ AddTransceivers
    \/ \E offer \in Offers : SetRemoteDescription(offer)
    \/ CreateAnswer
    \/ CloseSession

Spec == Init /\ [][Next]_vars

-----------------------------------------------------------------------------
(* What an offer asks for, said without the scan.                          *)

Score(line, k) ==
    CalculateH264Score(FindH264Fmtp(line.attributes, line.attributes[k].payload))

RtpmapsOf(line, codec) ==
    {k \in DOMAIN line.attributes : IsRtpmap(line.attributes[k], codec)}

\* The attribute that offers the codec best: of H264 those with the mandatory
\* packetization mode count, the best of them, the first of equals.
Offering(line, codec) ==
    LET usable == IF codec = "H264"
                  THEN {k \in RtpmapsOf(line, codec) : Score(line, k) >= MinimumScore}
                  ELSE RtpmapsOf(line, codec)
        Beats(k, j) == codec = "H264" /\ Score(line, k) > Score(line, j)
    IN  {k \in usable : \A j \in usable : Beats(k, j) \/ (k <= j /\ ~Beats(j, k))}

Retransmission(line, k) ==
    LET asked == {j \in DOMAIN line.attributes :
                     /\ j >= k /\ IsFmtp(line.attributes[j]) /\ line.attributes[j].apt # 0
                     /\ line.attributes[j].apt = line.attributes[k].payload}
    IN  IF asked = {} THEN 0 ELSE line.attributes[Max(asked)].payload

\* What the line offers for the codec of the application's transceiver of its kind.
Payloads(line) ==
    {[apt |-> line.attributes[k].payload, rtx |-> Retransmission(line, k)] :
        k \in UNION {Offering(line, codec) :
            codec \in UNION {t.codecs : t \in {u \in ToSet(Transceivers) : u.kind = line.kind}}}}

\* The line a transceiver is for: the first of its kind it has a codec for.
Served(i) ==
    /\ Payloads(remote.lines[i]) # {}
    /\ \A j \in 1 .. i - 1 :
        remote.lines[j].kind = remote.lines[i].kind => Payloads(remote.lines[j]) = {}

Lines == DOMAIN remote.lines

\* Offers as browsers make them: a codec stands in lines of its own kind, a payload
\* type begins the value of one fmtp at most, and the BUNDLE group, if there is
\* one, names all lines in their order.
CodecsInTheirLines ==
    \A offer \in Offers : \A i \in DOMAIN offer.lines : \A kind \in {"video", "audio"} :
        RtpmapsOf(offer.lines[i], CodecOf(kind)) # {} => offer.lines[i].kind = kind

OneFmtpEach ==
    \A offer \in Offers : \A i \in DOMAIN offer.lines :
        LET attributes == offer.lines[i].attributes
        IN  \A k \in RtpmapsOf(offer.lines[i], CodecOf(offer.lines[i].kind)) :
                \A a, b \in FmtpsOf(attributes, attributes[k].payload) : a = b

BundleNamesLines ==
    \A offer \in Offers :
        offer.bundle \in {<<>>, [i \in DOMAIN offer.lines |-> offer.lines[i].mid]}

-----------------------------------------------------------------------------
TypeOK ==
    /\ pc \in {"idle", "prepared", "described", "answered", "rejected"}
    /\ transceiverCount \in {0, Len(Transceivers)}
    /\ remote \in Offers \cup {NoOffer}
    /\ IsInjective(mLines) /\ ToSet(mLines) \subseteq 1 .. transceiverCount
    /\ rtpConfig \in [{"video", "audio"} -> [apt : PayloadTypes, rtx : PayloadTypes]]
    /\ Len(answer.lines) <= Len(remote.lines)
    /\ viewers \in 0 .. MaxViewers

\* The media of a session is sent with the payload type this viewer offered
\* for it: the best H264 of the line, the first Opus, and the retransmission
\* payload type the viewer bound to it, or none - whatever earlier viewers or
\* the other lines of the offer left in the tables.
NegotiatedIsBest ==
    pc \in {"described", "answered"} =>
        \A i \in Lines : Served(i) =>
            rtpConfig[remote.lines[i].kind] \in Payloads(remote.lines[i])

\* The answer mirrors the offer as far as every line so far can be served:
\* the lines have the offer's order, kinds and mids, and describe the payload as
\* the viewer did, with the codec and the parameters it was chosen for, and with
\* a direction the viewer's own permits; and if all can be served, the BUNDLE group
\* names the lines there are.  (Beyond a line that is not served the positions
\* of the two lists differ.)
AnswerMirrorsOffer ==
    pc = "answered" =>
        /\ \A i \in Lines : (\A j \in 1 .. i : Served(j)) =>
            /\ i <= Len(answer.lines)
            /\ LET ours == answer.lines[i]  theirs == remote.lines[i]
               IN  /\ ours.kind = theirs.kind /\ ours.mid = theirs.mid
                   /\ \E k \in Offering(theirs, ours.described.codec) :
                        theirs.attributes[k].payload = ours.payload
                   /\ ours.described.fmtp = FindH264Fmtp(theirs.attributes, ours.payload)
                   /\ ours.direction \in {"sendrecv", "sendonly"} =>
                        theirs.direction \in {"sendrecv", "recvonly"}
                   /\ ours.direction \in {"sendrecv", "recvonly"} =>
                        theirs.direction \in {"sendrecv", "sendonly"}
        /\ (\A i \in Lines : Served(i)) /\ remote.bundle # <<>> =>
            answer.bundle = [i \in DOMAIN answer.lines |-> answer.lines[i].mid]

=============================================================================
