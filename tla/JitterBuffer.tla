---------------------------- MODULE JitterBuffer ----------------------------
(***************************************************************************)
(* What happens to a received media packet: PeerConnectionSrtp_Handle-     *)
(* SrtpPacket (peer_connection_srtp.c) on the listener task decrypts it,   *)
(* takes an entry of the jitter buffer for it (peer_connection_jitter_     *)
(* buffer.c), pushes it, and the push parses the buffer for whole frames   *)
(* to hand over and outdated ones to drop.  The task that closes the       *)
(* session runs PeerConnectionSrtp_DeInit beside it, and the next session  *)
(* creates the buffer again.  No lock guards the buffer: each task tests   *)
(* isInit first and works on the entries in a later step (Collide).        *)
(*                                                                         *)
(* The sender numbers its packets 0, 1, 2...; on the wire packet n of a    *)
(* session has sequence number FirstSeq + n and frame f the timestamp      *)
(* FirstTs + f, both with the wrap of their width.  The unit of time is    *)
(* the distance of two frames.  Packets are lost and reordered; a second   *)
(* copy of one is refused by srtp_unprotect and so is none here.           *)
(***************************************************************************)
EXTENDS Integers, Sequences, SequencesExt

CONSTANTS
    SeqModulus,     \* sequence numbers: 2^16 in the code
    Entries,       \* PEER_CONNECTION_JITTER_BUFFER_MAX_ENTRY_NUM, the capacity
    SeqThreshold,  \* PEER_CONNECTION_JITTER_BUFFER_SEQ_WRAPPER_THRESHOLD
    TsModulus,       \* timestamps: 2^32 in the code
    TsThreshold,   \* 0.1 s of the clock
    Tolerance,     \* tolerenceRtpTimeStamp: 2 s of the clock
    FrameMax,      \* PEER_CONNECTION_JITTER_BUFFER_MAX_PACKETS_NUM_IN_A_FRAME
    FirstSeq,      \* sequence number of a session's first packet
    FirstTs,       \* timestamp of a session's first frame
    Streams,       \* bound: what a session's sender may send
    LateMax,       \* bound: a packet is overtaken by fewer later ones
    BurstMax,      \* bound: packets lost in a row
    MaxSessions    \* bound: sessions

ASSUME ConstantsAssumption ==
    /\ {SeqModulus, Entries, SeqThreshold, TsModulus, TsThreshold, Tolerance,
        FrameMax, FirstSeq, FirstTs, LateMax, BurstMax, MaxSessions} \subseteq Nat
    /\ Entries > 0 /\ Entries < SeqModulus /\ TsModulus > 0
    /\ FirstSeq < SeqModulus /\ FirstTs < TsModulus
    /\ Streams \subseteq Seq([frame : Nat, kind : {"start", "inner", "bad"}])

Seqs == 0 .. SeqModulus - 1
Stamps == 0 .. TsModulus - 1
Indexes == 0 .. Entries - 1

NoBuffer == -1

(***************************************************************************)
(* An entry of rtpPackets.  buffer names the packet whose payload          *)
(* pPacketBuffer holds; NoBuffer is the null pointer.                      *)
(***************************************************************************)
Entry == [isPushed : BOOLEAN, seq : Seqs, ts : Stamps, buffer : Int]
Cleared == [isPushed |-> FALSE, seq |-> 0, ts |-> 0, buffer |-> NoBuffer]

VARIABLES
    \* The sender and the network.
    stream,      \* the packets of this session, in order
    sent,        \* how many of them were sent
    net,         \* those of them still on the way
    burst,       \* how many of the last packets were lost
    \* The session and its jitter buffer.
    receiveSession,  \* srtpReceiveSession is not null
    jb,              \* PeerConnectionJitterBuffer_t, without the entries
    rtpPackets,      \* its entries
    allocated,       \* the payload buffers on the heap
    \* The listener task.
    lpc, in_hand,
    \* The closing task.
    cpc,
    \* What the session's user got, and history.
    ready,       \* the frames the last call handed over, each a tuple of packets
    last_frame,  \* the last frame handed over in this session
    fault,       \* a null or freed payload pointer was used, or the heap damaged
    sessions

network == <<stream, sent, net, burst>>
buffer == <<jb, rtpPackets, allocated>>
vars == <<network, receiveSession, buffer, lpc, in_hand, cpc, ready,
          last_frame, fault, sessions>>

WireSeq(n) == (FirstSeq + n) % SeqModulus
WireStamp(n) == (FirstTs + stream[n + 1].frame) % TsModulus
KindOf(n) == stream[n + 1].kind

TypeOK ==
    /\ stream \in Streams \union {<<>>}
    /\ sent \in 0 .. Len(stream)
    /\ net \subseteq 0 .. sent - 1
    /\ burst \in 0 .. BurstMax
    /\ receiveSession \in BOOLEAN
    /\ jb \in [isInit : BOOLEAN, isStart : BOOLEAN, newest : Seqs, oldest : Seqs,
               newestTs : Stamps, lastPop : Stamps]
    /\ rtpPackets \in [Indexes -> Entry]
    /\ allocated \subseteq Nat
    /\ lpc \in {"idle", "allocate", "allocating", "copy", "push", "pushing"}
    /\ in_hand \in Nat
    /\ cpc \in {"none", "open", "free", "walk", "wipe"}
    /\ ready \in Seq(Seq(Nat))
    /\ last_frame \in Int
    /\ fault \in BOOLEAN
    /\ sessions \in 0 .. MaxSessions

Init ==
    /\ stream = <<>> /\ sent = 0 /\ net = {} /\ burst = 0
    /\ receiveSession = FALSE
    /\ jb = [isInit |-> FALSE, isStart |-> FALSE, newest |-> 0, oldest |-> 0,
             newestTs |-> 0, lastPop |-> 0]
    /\ rtpPackets = [x \in Indexes |-> Cleared]
    /\ allocated = {}
    /\ lpc = "idle" /\ in_hand = 0
    /\ cpc = "none"
    /\ ready = <<>> /\ last_frame = -1
    /\ fault = FALSE
    /\ sessions = 0

-----------------------------------------------------------------------------
(***************************************************************************)
(* The pieces of the jitter buffer.                                        *)
(***************************************************************************)
IndexOf(s) == s % Entries

\* for( i = a; i != (uint16_t)( b + 1 ); i++ )
SeqsFromTo(a, b) == [k \in 1 .. (b + 1 - a) % SeqModulus |-> (a + k - 1) % SeqModulus]

IsRtpPacketExpired(newestTs, ts) ==
    LET earliest == (newestTs - Tolerance) % TsModulus
    IN  \/ newestTs > earliest /\ ts < earliest
        \/ newestTs < earliest /\ ts < earliest /\ ts > newestTs

ShouldAcceptPacket(newest, s) ==
    LET earliest == (newest - Entries \div 2) % SeqModulus
        latest == (newest + Entries \div 2) % SeqModulus
    IN  IF latest >= earliest
        THEN earliest <= s /\ s <= latest
        ELSE earliest <= s \/ s <= latest

\* DiscardPacket on each of a set of entries: the payload goes back to the
\* heap and the entry is cleared, unless it had no payload.
DiscardEntries(packets, xs) ==
    [x \in Indexes |-> IF x \in xs /\ packets[x].buffer # NoBuffer
                       THEN Cleared ELSE packets[x]]

DiscardRangeShort(packets, a, b) ==  \* mutant: i != endSeq
    DiscardEntries(packets, {IndexOf(s) : s \in Range(SeqsFromTo(a, b)) \ {b}})
DiscardRange(packets, a, b) ==
    DiscardEntries(packets, {IndexOf(s) : s \in Range(SeqsFromTo(a, b))})

Buffers(packets) == {packets[x].buffer : x \in Indexes} \ {NoBuffer}

(***************************************************************************)
(* UpdateJitterBufferAddPacket: the four fields after a packet with        *)
(* sequence number s and timestamp t.  The second test of the oldest       *)
(* sequence number stores into the newest; the second test of the pop      *)
(* timestamp compares inside the cast and cannot hold when the first does  *)
(* not.                                                                    *)
(***************************************************************************)
UpdateJitterBufferAddPacket(b, s, t) ==
    LET isNewest == s > b.newest \/ (b.newest + SeqThreshold) % SeqModulus <= s
        isOldest == s < b.oldest
        nearOldest == ~isOldest /\ (b.oldest - SeqThreshold) % SeqModulus <= s
        isNewestTs == t > b.newestTs \/ (b.newestTs + TsThreshold) % TsModulus <= t
        isBeforePop == t < b.lastPop
    IN  [b EXCEPT !.newest = IF isNewest \/ nearOldest THEN s ELSE @,
                  !.oldest = IF isOldest THEN s ELSE @,
                  !.newestTs = IF isNewestTs THEN t ELSE @,
                  !.lastPop = IF isBeforePop THEN t ELSE @]

-----------------------------------------------------------------------------
(***************************************************************************)
(* ParseFramesInJitterBuffer.  The walk from the oldest to the newest      *)
(* sequence number is a function of the turns of its loop; its values hold *)
(* the entries, the two fields DiscardPackets stores, the locals of the    *)
(* loop, done once the loop was left, and the frames handed over.  Both    *)
(* callbacks return OK whatever happens to the frame.                      *)
(***************************************************************************)
Walk(b, packets) ==
    [packets |-> packets, oldest |-> b.oldest, lastPop |-> b.lastPop,
     continuous |-> TRUE, start |-> NoBuffer, first |-> b.oldest, prev |-> b.oldest,
     done |-> FALSE, frames |-> <<>>, fault |-> FALSE]

\* DiscardPackets( a, b, pNextPacket ) with pNextPacket the entry of i: the
\* fields are read after the entries were freed.
PopTo(w, a, b, i) ==
    LET packets == DiscardRange(w.packets, a, b)
        next == packets[IndexOf(i)]
    IN  [w EXCEPT !.packets = packets, !.oldest = next.seq, !.lastPop = next.ts,
                  !.start = NoBuffer, !.first = i]

(***************************************************************************)
(* FillFrame of the codec helpers: refused once the buffer is freed, and   *)
(* after FrameMax packets.  The helpers compare the 16-bit counter with    *)
(* rtpSeqEnd + 1 in an int: a frame that ends at the last sequence number  *)
(* before the wrap runs on until the depacketizer is full.                 *)
(***************************************************************************)
FillFrame(isInit, packets, a, b) ==
    LET seqs == SeqsFromTo(a, b)
    IN  IF isInit /\ b # SeqModulus - 1 /\ Len(seqs) <= FrameMax
        THEN <<[k \in DOMAIN seqs |-> packets[IndexOf(seqs[k])].buffer]>>
        ELSE <<>>

\* The first half of the loop's body: a packet of another frame than the one
\* being collected closes that frame, or drops it once it is outdated.
AtFrameEnd(b, w, i) ==
    LET p == w.packets[IndexOf(i)]
    IN  IF w.start # NoBuffer /\ w.continuous
        THEN [PopTo(w, w.start, w.prev, i) EXCEPT
                 !.frames = @ \o FillFrame(b.isInit, w.packets, w.start, w.prev)]
        ELSE IF IsRtpPacketExpired(b.newestTs, p.ts)
             THEN PopTo(w, w.first, w.prev, i)
             ELSE [w EXCEPT !.done = TRUE]

CollectAny(b, closing, w, i) ==  \* mutant: isStart is not asked for
    IF w.packets[IndexOf(i)].ts # w.lastPop \/ w.start # NoBuffer THEN w
    ELSE [w EXCEPT !.start = i]

\* The second half: a packet of the frame being collected.  An entry without
\* payload has no kind, and the log line reads through its null pointer.
Collect(b, closing, w, i) ==
    LET p == w.packets[IndexOf(i)]
        null == p.buffer = NoBuffer
        packets == DiscardEntries(w.packets, {IndexOf(i)})
    IN  IF p.ts # w.lastPop THEN w
        ELSE IF ~null /\ KindOf(p.buffer) # "bad"
        THEN [w EXCEPT !.start = IF @ = NoBuffer /\ KindOf(p.buffer) = "start"
                                 THEN i ELSE @]
        ELSE [w EXCEPT !.continuous = FALSE, !.packets = packets, !.fault = @ \/ null,
                       !.done = ~closing /\ ~IsRtpPacketExpired(
                                    b.newestTs, packets[IndexOf(i)].ts)]

ParseStep(b, closing, w, i) ==
    LET p == w.packets[IndexOf(i)]
        afterEnd ==
            IF ~p.isPushed
            THEN [w EXCEPT !.continuous = FALSE,
                           !.done = ~closing /\ ~IsRtpPacketExpired(b.newestTs, p.ts)]
            ELSE IF p.ts # w.lastPop THEN AtFrameEnd(b, w, i) ELSE w
        collected == IF afterEnd.done THEN afterEnd ELSE Collect(b, closing, afterEnd, i)
    IN  IF w.done THEN w ELSE [collected EXCEPT !.prev = i]

\* The walk over the given sequence numbers after each of its turns.
Turns(b, packets, closing, seqs) ==
    LET after[k \in 0 .. Len(seqs)] ==
            IF k = 0 THEN Walk(b, packets)
            ELSE ParseStep(b, closing, after[k - 1], seqs[k])
    IN  after

ParseFramesInJitterBuffer(b, packets, closing) ==
    LET seqs == SeqsFromTo(b.oldest, b.newest)
    IN  Turns(b, packets, closing, seqs)[Len(seqs)]

\* What the user saw of a walk, and what it left of the heap and the buffer.
Finish(b, w, frames) ==
    /\ jb' = [b EXCEPT !.oldest = w.oldest, !.lastPop = w.lastPop]
    /\ rtpPackets' = w.packets
    /\ allocated' = allocated \ (Buffers(rtpPackets) \ Buffers(w.packets))
    /\ ready' = frames
    /\ last_frame' = IF frames = <<>> THEN last_frame
                     ELSE stream[Last(Last(frames)) + 1].frame
    /\ fault' = w.fault

-----------------------------------------------------------------------------
(***************************************************************************)
(* The sender and the network.                                             *)
(***************************************************************************)
SendPacket ==
    /\ cpc = "open" /\ sent < Len(stream) /\ (\A n \in net : sent - n < LateMax)
    /\ sent' = sent + 1
    /\ net' = net \union {sent}
    /\ burst' = 0
    /\ UNCHANGED <<stream, receiveSession, buffer, lpc, in_hand, cpc, ready,
                   last_frame, fault, sessions>>

SendLostPacket ==
    /\ cpc = "open" /\ sent < Len(stream) /\ burst < BurstMax
    /\ \A n \in net : sent - n < LateMax
    /\ sent' = sent + 1
    /\ burst' = burst + 1
    /\ UNCHANGED <<stream, net, receiveSession, buffer, lpc, in_hand, cpc, ready,
                   last_frame, fault, sessions>>

Remote == SendPacket \/ SendLostPacket

(***************************************************************************)
(* The listener task: PeerConnectionSrtp_HandleSrtpPacket.  The receive    *)
(* session is looked at and used under srtpSessionMutex; nothing guards    *)
(* the jitter buffer.                                                      *)
(***************************************************************************)
Decrypt(n) ==
    /\ lpc = "idle" /\ n \in net
    /\ net' = net \ {n}
    /\ IF receiveSession THEN lpc' = "allocate" /\ in_hand' = n
                         ELSE UNCHANGED <<lpc, in_hand>>
    /\ ready' = <<>>
    /\ UNCHANGED <<stream, sent, burst, receiveSession, buffer, cpc, last_frame, fault, sessions>>

\* The isInit tests at the head of AllocateBuffer and of Push, the former ...
BeginAllocate ==
    /\ lpc = "allocate"
    /\ lpc' = IF jb.isInit THEN "allocating" ELSE "idle"
    /\ UNCHANGED <<network, receiveSession, buffer, in_hand, cpc, ready, last_frame, fault,
                   sessions>>

\* PeerConnectionJitterBuffer_AllocateBuffer, past its test.
AllocateBuffer ==
    /\ lpc = "allocating"
    /\ LET x == IndexOf(WireSeq(in_hand))
           discarded == DiscardEntries(rtpPackets, {x})
       IN  /\ rtpPackets' = [discarded EXCEPT ![x].buffer = in_hand]
           /\ allocated' = (allocated \ {rtpPackets[x].buffer}) \union {in_hand}
    /\ lpc' = "copy"
    /\ UNCHANGED <<network, receiveSession, jb, in_hand, cpc, ready, last_frame, fault, sessions>>

\* The payload is copied into the entry, through a null pointer when the
\* buffer was freed since the allocation.
CopyPayload ==
    /\ lpc = "copy"
    /\ lpc' = "push"
    /\ LET x == IndexOf(WireSeq(in_hand))
       IN  /\ rtpPackets' = [rtpPackets EXCEPT ![x] = [@ EXCEPT !.seq = WireSeq(in_hand),
                                                              !.ts = WireStamp(in_hand)]]
           /\ fault' = (rtpPackets[x].buffer = NoBuffer)
    /\ UNCHANGED <<network, receiveSession, jb, allocated, in_hand, cpc, ready, last_frame,
                   sessions>>

\* What a packet that cannot be pushed leaves: it is removed "if any error happens".
RemovedNothing(packets, x) == packets  \* mutant: only a refused packet is removed
Removed(packets, x) == DiscardEntries(packets, {x})

\* ... and the latter: once the buffer is freed, the packet just stored goes again.
BeginPush ==
    /\ lpc = "push"
    /\ IF jb.isInit
       THEN lpc' = "pushing" /\ UNCHANGED <<rtpPackets, allocated>>
       ELSE /\ lpc' = "idle"
            /\ rtpPackets' = Removed(rtpPackets, IndexOf(WireSeq(in_hand)))
            /\ allocated' = allocated \ (Buffers(rtpPackets) \ Buffers(rtpPackets'))
    /\ UNCHANGED <<network, receiveSession, jb, in_hand, cpc, ready, last_frame, fault, sessions>>

\* The first packet sets where the buffer begins.
Started(b, s, t) ==
    IF b.isStart THEN b
    ELSE [b EXCEPT !.isStart = TRUE, !.newest = s, !.newestTs = t, !.oldest = s]

\* The frames that a walk begun in time hands over: FillFrame refuses those it
\* comes to after isInit was cleared.
HandedOver(isInit, frames) ==
    IF isInit THEN {frames} ELSE {SubSeq(frames, 1, k) : k \in 0 .. Len(frames)}

\* PeerConnectionJitterBuffer_Push, past its test.
Push ==
    /\ lpc = "pushing"
    /\ lpc' = "idle"
    /\ LET x == IndexOf(WireSeq(in_hand))
           p == rtpPackets[x]
           b == Started(jb, p.seq, p.ts)
           pushed == [rtpPackets EXCEPT ![x].isPushed = TRUE]
           updated == UpdateJitterBufferAddPacket(b, p.seq, p.ts)
           walked == ParseFramesInJitterBuffer([updated EXCEPT !.isInit = TRUE], pushed, FALSE)
       IN  IF ShouldAcceptPacket(b.newest, p.seq)
           THEN \E frames \in HandedOver(jb.isInit, walked.frames) :
                    Finish(updated, walked, frames)
           ELSE /\ jb' = b
                /\ rtpPackets' = DiscardEntries(rtpPackets, {x})
                /\ allocated' = allocated \ (Buffers(rtpPackets) \ Buffers(rtpPackets'))
                /\ ready' = <<>>
                /\ UNCHANGED <<last_frame, fault>>
    /\ UNCHANGED <<network, receiveSession, in_hand, cpc, sessions>>

Listener ==
    \/ \E n \in net : Decrypt(n)
    \/ BeginAllocate \/ AllocateBuffer \/ CopyPayload
    \/ BeginPush \/ Push

(***************************************************************************)
(* Opening and closing.  PeerConnectionSrtp_Init makes the receive session *)
(* and creates the jitter buffer when the DTLS handshake completes, on the *)
(* listener task, through which the handshake's packets pass.  DeInit      *)
(* clears the session under the mutex and then frees the jitter buffer, on *)
(* whichever task closes the session.                                      *)
(***************************************************************************)
\* The fields of a new buffer: the newest are all ones.
FreshPast ==  \* mutant: one more than 0xFFFF
    [isInit |-> TRUE, isStart |-> FALSE, newest |-> SeqModulus,
     oldest |-> 0, newestTs |-> TsModulus - 1, lastPop |-> TsModulus - 1]
Fresh ==
    [isInit |-> TRUE, isStart |-> FALSE, newest |-> SeqModulus - 1,
     oldest |-> 0, newestTs |-> TsModulus - 1, lastPop |-> TsModulus - 1]

Create ==
    /\ cpc = "none" /\ lpc = "idle" /\ sessions < MaxSessions
    /\ sessions' = sessions + 1
    /\ cpc' = "open"
    /\ receiveSession' = TRUE
    /\ jb' = Fresh
    /\ rtpPackets' = [x \in Indexes |-> Cleared]
    /\ stream' \in Streams
    /\ sent' = 0 /\ net' = {} /\ burst' = 0
    /\ ready' = <<>> /\ last_frame' = -1
    /\ UNCHANGED <<allocated, lpc, in_hand, fault>>

DeInit ==
    /\ cpc = "open"
    /\ cpc' = "free"
    /\ receiveSession' = FALSE
    /\ ready' = <<>>
    /\ UNCHANGED <<network, buffer, lpc, in_hand, last_frame, fault, sessions>>

\* PeerConnectionJitterBuffer_Free: no more packets are taken ...
BeginFree ==
    /\ cpc = "free"
    /\ cpc' = "walk"
    /\ jb' = [jb EXCEPT !.isInit = FALSE]
    /\ UNCHANGED <<network, receiveSession, rtpPackets, allocated, lpc, in_hand, ready, last_frame,
                   fault, sessions>>

\* ... a last walk, for the frames there are, then every entry of the walked range ...
WalkClosing ==
    /\ cpc = "walk"
    /\ cpc' = "wipe"
    /\ LET walked == ParseFramesInJitterBuffer(jb, rtpPackets, TRUE)
       IN  Finish(jb, [walked EXCEPT !.packets = DiscardRange(@, walked.oldest, jb.newest)],
                  walked.frames)
    /\ UNCHANGED <<network, receiveSession, lpc, in_hand, sessions>>

\* ... and then every entry.
Free ==
    /\ cpc = "wipe"
    /\ cpc' = "none"
    /\ rtpPackets' = DiscardEntries(rtpPackets, Indexes)
    /\ allocated' = allocated \ (Buffers(rtpPackets) \ Buffers(rtpPackets'))
    /\ ready' = <<>>
    /\ UNCHANGED <<network, receiveSession, jb, lpc, in_hand, last_frame, fault, sessions>>

(***************************************************************************)
(* Each step above that works on the entries is whole, as it is when the   *)
(* tasks work one after the other or on different entries.  When they work *)
(* on one entry at the same time, a payload is freed twice, or used after  *)
(* it was freed, or a pointer just stored is cleared: undefined behaviour. *)
(***************************************************************************)
Collide ==
    /\ lpc \in {"allocating", "copy", "pushing"} /\ cpc \in {"walk", "wipe"}
    /\ fault' = TRUE
    /\ UNCHANGED <<network, receiveSession, buffer, lpc, in_hand, cpc, ready, last_frame, sessions>>

\* A fault stops the core.
Next ==
    /\ ~fault
    /\ \/ Remote \/ Listener \/ Create
       \/ DeInit \/ BeginFree \/ WalkClosing \/ Free \/ Collide

Spec == Init /\ [][Next]_vars

-----------------------------------------------------------------------------
(***************************************************************************)
(* Properties.                                                             *)
(***************************************************************************)

\* The packets f are a whole frame, but for its beginning when that is lost.
Intact(f) ==
    /\ f # <<>>
    /\ \A k \in 1 .. Len(f) : f[k] = f[1] + k - 1
    /\ \A k \in 1 .. Len(f) : stream[f[k] + 1].frame = stream[f[1] + 1].frame
    /\ KindOf(f[1]) = "start"
    /\ Last(f) + 1 < sent
    /\ stream[Last(f) + 2].frame # stream[f[1] + 1].frame

\* What is handed over as a frame is a run of consecutive packets of one
\* frame that begins at a start packet and reaches the frame's last packet,
\* when single packets are lost, a packet is overtaken by a few and the
\* sequence numbers wrap (ParseFramesInJitterBuffer trusts positions in a
\* table that is reused, not the packets' numbers).
FrameIsIntact == \A f \in Range(ready) : Intact(f)

\* Frames are handed over in the order they were sent, each at most once: a
\* late packet does not bring back a frame the walk has gone past
\* (lastPopRtpTimestamp and oldestReceivedSequenceNumber move back for it).
FramesInOrder ==
    [][ready' # ready =>
        LET frames == [k \in DOMAIN ready' |-> stream[ready'[k][1] + 1].frame]
        IN  /\ \A k \in DOMAIN frames : frames[k] > last_frame
            /\ \A k, l \in DOMAIN frames : k < l => frames[k] < frames[l]]_vars

\* Every payload on the heap is reachable from an entry, and none is left of a
\* closed session once the listener is done with its packet, also when it
\* passed a test of isInit before the closing task cleared it and stored a
\* payload after that task had gone over the entries (AllocateBuffer, Push and
\* Free of the jitter buffer).
NoPayloadLeak ==
    /\ allocated = Buffers(rtpPackets)
    /\ cpc = "none" /\ lpc = "idle" => allocated = {}
=============================================================================
