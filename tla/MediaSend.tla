----------------------------- MODULE MediaSend -----------------------------
(***************************************************************************)
(* The sending side of one media track: the packet loop of                 *)
(* peer_connection_h264_helper.c, the packets kept for retransmission in   *)
(* peer_connection_rolling_buffer.c, the answer to a NACK in               *)
(* peer_connection_srtcp.c and the start and end of the SRTP sessions in   *)
(* peer_connection_srtp.c.                                                 *)
(*                                                                         *)
(* Three tasks meet here: the writer (the media task in WriteFrame), the   *)
(* listener (the ICE socket listener, which starts the session when DTLS   *)
(* completes and answers NACKs) and the closer (the task that runs         *)
(* CloseSession).  senderMutex is held over a whole frame and a whole      *)
(* retransmission; srtpSessionMutex only around calls into libsrtp, so     *)
(* what it protects is one step.                                           *)
(*                                                                         *)
(* A packet's payload is the number of the packet.  The start of a session *)
(* is one step: its race with the end is the subject of PeerSession.  The  *)
(* heap never runs out.                                                    *)
(***************************************************************************)
EXTENDS Naturals, Sequences, FiniteSets

CONSTANTS
    HeapSize,     \* bound: heap blocks packets are kept in
    Capacity,     \* rolling buffer: duration * bit rate / 8 / packet size
    SeqModulus,   \* 2^16 in the code
    NackMax,      \* bound: sequence numbers in one NACK
    FrameMax,     \* bound: packets in a frame
    MaxPackets,   \* bound: packets put in the rolling buffer
    MaxNacks,     \* bound: NACKs received
    MaxSessions   \* bound: peers connected

ASSUME MediaSendAssumption ==
    /\ HeapSize \in Nat
    /\ {Capacity, SeqModulus, FrameMax, NackMax} \subseteq Nat \ {0}
    /\ Capacity < SeqModulus
    /\ {MaxPackets, MaxNacks, MaxSessions} \subseteq Nat

Blocks == 1 .. HeapSize
Null == 0

VARIABLES
    ready,         \* state >= PEER_CONNECTION_SESSION_STATE_CONNECTION_READY
    path,          \* kind of the nominated local candidate, or "none"
    rtx,           \* videoCodecRtxPayload is set and is not videoCodecPayload
    srtp,          \* srtpTransmitSession # NULL and srtpReceiveSession # NULL
    senderMutex,   \* the task that holds it
    isInit,        \* txRollingBuffer.isInit
    packetQueue,   \* txRollingBuffer.packetQueue, the oldest packet first
    packet,        \* what the heap blocks hold
    allocated,     \* the heap blocks that are allocated
    videoSequenceNumber,
    writer,
    listener,
    closer,        \* label of the closing task
    original,      \* ghost: the packet last stored under a sequence number
    packets,       \* number of packets numbered so far
    nacks,
    sessions

transport == <<ready, path, rtx, srtp>>
buffer == <<isInit, packetQueue, packet, allocated, videoSequenceNumber, original, packets>>
vars == <<transport, senderMutex, buffer, writer, listener, closer, nacks, sessions>>

SeqNums == 0 .. SeqModulus - 1
Next1Unwrapped(seq) == seq + 1  \* mutant: not kept to 16 bits
Next1(seq) == (seq + 1) % SeqModulus
Entries == [seqNum : SeqNums, block : Blocks]
Queued == {packetQueue[i].block : i \in 1 .. Len(packetQueue)}
Held(task) == IF task.block = Null THEN {} ELSE {task.block}

WriterStates ==
    [pc : {"idle", "lock", "get", "construct", "set", "send", "unlock"},
     left : 0 .. FrameMax, block : Blocks \union {Null}, protected : BOOLEAN]
ListenerStates ==
    [pc : {"idle", "lock", "search", "construct", "send", "unlock"},
     seqNumList : Seq(SeqNums), block : Blocks \union {Null}, protected : BOOLEAN]

TypeOK ==
    /\ ready \in BOOLEAN /\ rtx \in BOOLEAN /\ srtp \in BOOLEAN /\ isInit \in BOOLEAN
    /\ path \in {"none", "host", "relay"}
    /\ senderMutex \in {"none", "writer", "listener", "closer"}
    /\ packetQueue \in Seq(Entries)
    /\ Len(packetQueue) <= Capacity
    /\ packet \in [Blocks -> [payload : Nat, protected : BOOLEAN]]
    /\ allocated \subseteq Blocks
    /\ videoSequenceNumber \in SeqNums
    /\ writer \in WriterStates
    /\ listener \in ListenerStates
    /\ closer \in {"idle", "destroy", "srtp", "lock", "free"}
    /\ original \in [SeqNums -> Nat]
    /\ packets \in Nat /\ nacks \in Nat /\ sessions \in Nat

\* No peer has connected yet.
Init ==
    /\ ready = FALSE /\ path = "none" /\ rtx = FALSE /\ srtp = FALSE
    /\ senderMutex = "none"
    /\ isInit = FALSE /\ packetQueue = <<>>
    /\ packet = [b \in Blocks |-> [payload |-> 0, protected |-> FALSE]]
    /\ allocated = {}
    /\ videoSequenceNumber = 0
    /\ writer = [pc |-> "idle", left |-> 0, block |-> Null, protected |-> FALSE]
    /\ listener = [pc |-> "idle", seqNumList |-> <<>>, block |-> Null, protected |-> FALSE]
    /\ closer = "idle"
    /\ original = [s \in SeqNums |-> 0]
    /\ packets = 0 /\ nacks = 0 /\ sessions = 0

\* DTLS completes for a new peer: both SRTP sessions are created, then the
\* rolling buffer, and the session is ready.  The answer to the peer's offer
\* has set the sequence number to 0 and chosen how to retransmit.
Start ==
    /\ listener.pc = "idle" /\ closer = "idle" /\ path = "none" /\ sessions < MaxSessions
    /\ path' \in {"host", "relay"}
    /\ rtx' \in BOOLEAN
    /\ srtp' = TRUE
    /\ isInit' = TRUE
    /\ packetQueue' = <<>>
    /\ videoSequenceNumber' = 0
    /\ ready' = TRUE
    /\ sessions' = sessions + 1
    /\ UNCHANGED <<senderMutex, packet, allocated, original, packets, writer, listener, closer,
                   nacks>>

(***************************************************************************)
(* PeerConnectionRollingBuffer_*.                                          *)
(***************************************************************************)
FreeBlock == CHOOSE b \in Blocks : b \notin allocated

\* DiscardRtpSequenceBuffer: nothing is freed once the rolling buffer is gone.
AfterDiscard(blocks, b) == IF isInit THEN blocks \ {b} ELSE blocks

MatchingPlace(seq) ==  \* mutant: found by its place
    {i \in 1 .. Len(packetQueue) : isInit /\ i = (seq % Capacity) + 1}

\* SearchRtpSequenceBuffer: the entries kept under a sequence number.
Matching(seq) ==
    IF isInit THEN {i \in 1 .. Len(packetQueue) : packetQueue[i].seqNum = seq} ELSE {}

SetPacketOverNewest(seq, b) ==  \* mutant: the newest makes room
    LET full == Len(packetQueue) = Capacity
        kept == IF full THEN SubSeq(packetQueue, 1, Capacity - 1) ELSE packetQueue
    IN  /\ packetQueue' = IF isInit THEN Append(kept, [seqNum |-> seq, block |-> b])
                          ELSE packetQueue
        /\ allocated' = IF isInit /\ full
                        THEN AfterDiscard(allocated, packetQueue[Capacity].block) ELSE allocated
        /\ original' = IF isInit THEN [original EXCEPT ![seq] = packet[b].payload] ELSE original

\* SetPacket of block b under seq: the oldest packet makes room and is freed.
\* A rolling buffer that is gone takes nothing, and nothing is freed.
SetPacket(seq, b) ==
    LET full == Len(packetQueue) = Capacity
        kept == IF full THEN Tail(packetQueue) ELSE packetQueue
    IN  /\ packetQueue' = IF isInit THEN Append(kept, [seqNum |-> seq, block |-> b])
                          ELSE packetQueue
        /\ allocated' = IF isInit /\ full THEN AfterDiscard(allocated, Head(packetQueue).block)
                        ELSE allocated
        /\ original' = IF isInit THEN [original EXCEPT ![seq] = packet[b].payload] ELSE original

(***************************************************************************)
(* The writer: PeerConnectionH264Helper_WriteH264Frame.                    *)
(***************************************************************************)
WriterGoes(label) == writer' = [writer EXCEPT !.pc = label]

\* PeerConnection_WriteFrame looks at the state once, before the lock.
WriteFrame(n) ==
    /\ writer.pc = "idle" /\ ready /\ packets + n <= MaxPackets
    /\ writer' = [writer EXCEPT !.pc = "lock", !.left = n]
    /\ UNCHANGED <<transport, senderMutex, buffer, listener, closer, nacks, sessions>>

WriterLocks ==
    /\ writer.pc = "lock" /\ senderMutex = "none"
    /\ senderMutex' = "writer"
    /\ WriterGoes("get")
    /\ UNCHANGED <<transport, buffer, listener, closer, nacks, sessions>>

\* 500 ms went by: the frame is dropped.
WriterTimesOut ==
    /\ writer.pc = "lock" /\ senderMutex # "none"
    /\ WriterGoes("idle")
    /\ UNCHANGED <<transport, senderMutex, buffer, listener, closer, nacks, sessions>>

\* GetRtpSequenceBuffer, then GetPacket: without a packet left the buffer just
\* allocated is discarded.  A rolling buffer that is gone ends the frame.
GetPacket ==
    /\ writer.pc = "get"
    /\ IF isInit /\ writer.left > 0
       THEN /\ Blocks \ allocated # {}
            /\ allocated' = allocated \union {FreeBlock}
            /\ writer' = [writer EXCEPT !.pc = "construct", !.block = FreeBlock]
       ELSE /\ WriterGoes("unlock")
            /\ UNCHANGED allocated
    /\ UNCHANGED <<transport, senderMutex, isInit, packetQueue, packet, videoSequenceNumber,
                   original, packets, listener, closer, nacks, sessions>>

\* ConstructSrtpPacket: it goes on without a transmit session and says OK.
\* With rtx the block keeps the payload and the packet to send is a local one.
ConstructPacket ==
    /\ writer.pc = "construct"
    /\ packet' = [packet EXCEPT ![writer.block] =
                    [payload |-> packets + 1, protected |-> srtp /\ ~rtx]]
    /\ packets' = packets + 1
    /\ writer' = [writer EXCEPT !.pc = "set", !.protected = srtp]
    /\ UNCHANGED <<transport, senderMutex, isInit, packetQueue, allocated, videoSequenceNumber,
                   original, listener, closer, nacks, sessions>>

ConstructFailsKeeping ==  \* mutant: the packet is not discarded
    /\ writer.pc = "construct"
    /\ writer' = [writer EXCEPT !.pc = "unlock", !.block = Null]
    /\ UNCHANGED <<transport, senderMutex, buffer, listener, closer, nacks, sessions>>

\* It times out on srtpSessionMutex, or libsrtp fails: the rest of the frame is lost.
ConstructFails ==
    /\ writer.pc = "construct"
    /\ allocated' = AfterDiscard(allocated, writer.block)
    /\ writer' = [writer EXCEPT !.pc = "unlock", !.block = Null]
    /\ UNCHANGED <<transport, senderMutex, isInit, packetQueue, packet, videoSequenceNumber,
                   original, packets, listener, closer, nacks, sessions>>

StorePacket ==
    /\ writer.pc = "set"
    /\ SetPacket(videoSequenceNumber, writer.block)
    /\ videoSequenceNumber' = Next1(videoSequenceNumber)
    /\ writer' = IF isInit THEN [writer EXCEPT !.pc = "send"]
                 ELSE [writer EXCEPT !.pc = "unlock", !.block = Null]
    /\ UNCHANGED <<transport, senderMutex, isInit, packet, packets, listener, closer, nacks,
                   sessions>>

SendPacketKeepingLock(sent) ==  \* mutant: an early return without unlocking
    /\ writer.pc = "send" /\ (sent => path # "none")
    /\ writer' = [writer EXCEPT !.pc = IF sent THEN "get" ELSE "idle",
                                !.left = writer.left - 1, !.block = Null]
    /\ UNCHANGED <<transport, senderMutex, buffer, listener, closer, nacks, sessions>>

\* A packet that cannot be sent ends the frame; it stays in the rolling buffer.
SendPacket(sent) ==
    /\ writer.pc = "send" /\ (sent => path # "none")
    /\ writer' = [writer EXCEPT !.pc = IF sent THEN "get" ELSE "unlock",
                                !.left = writer.left - 1, !.block = Null]
    /\ UNCHANGED <<transport, senderMutex, buffer, listener, closer, nacks, sessions>>

WriterUnlocks ==
    /\ writer.pc = "unlock"
    /\ senderMutex' = "none"
    /\ writer' = [writer EXCEPT !.pc = "idle", !.left = 0]
    /\ UNCHANGED <<transport, buffer, listener, closer, nacks, sessions>>

(***************************************************************************)
(* The listener: HandleSrtcpPacket, OnRtcpNackEvent, ResendSrtpPacket.     *)
(***************************************************************************)
\* A NACK is decrypted only while there is a receive session.  It may ask for
\* what was never sent or is no longer kept.
ReceiveNack(list) ==
    /\ listener.pc = "idle" /\ srtp /\ path # "none" /\ nacks < MaxNacks
    /\ listener' = [listener EXCEPT !.pc = "lock", !.seqNumList = list]
    /\ nacks' = nacks + 1
    /\ UNCHANGED <<transport, senderMutex, buffer, writer, closer, sessions>>

ListenerLocksNothing ==  \* mutant: the NACK is answered without the lock
    /\ listener.pc = "lock"
    /\ listener' = [listener EXCEPT !.pc = "search"]
    /\ UNCHANGED <<transport, senderMutex, buffer, writer, closer, nacks, sessions>>

ListenerLocks ==
    /\ listener.pc = "lock" /\ senderMutex = "none"
    /\ senderMutex' = "listener"
    /\ listener' = [listener EXCEPT !.pc = "search"]
    /\ UNCHANGED <<transport, buffer, writer, closer, nacks, sessions>>

\* The listener gives up: what is left of the list is not looked at.
ListEnded == [listener EXCEPT !.pc = "unlock", !.block = Null, !.seqNumList = <<>>]

SearchPacket ==
    /\ listener.pc = "search"
    /\ LET found == Matching(Head(listener.seqNumList))
       IN  IF found = {} THEN listener' = ListEnded
           ELSE \E i \in found :
                  listener' = [listener EXCEPT !.block = packetQueue[i].block,
                                               !.pc = IF rtx THEN "construct" ELSE "send",
                                               !.protected =
                                                   packet[packetQueue[i].block].protected]
    /\ UNCHANGED <<transport, senderMutex, buffer, writer, closer, nacks, sessions>>

\* With rtx the kept payload is put in a packet of its own.
ConstructAgain ==
    /\ listener.pc = "construct"
    /\ \/ listener' = [listener EXCEPT !.pc = "send", !.protected = srtp]
       \/ listener' = ListEnded
    /\ UNCHANGED <<transport, senderMutex, buffer, writer, closer, nacks, sessions>>

ResendPacket(sent) ==
    /\ listener.pc = "send" /\ (sent => path # "none")
    /\ listener' = IF sent THEN [listener EXCEPT !.pc = "unlock", !.block = Null,
                                                 !.seqNumList = Tail(@)]
                   ELSE ListEnded
    /\ UNCHANGED <<transport, senderMutex, buffer, writer, closer, nacks, sessions>>

\* The lock is released after every packet of the list.
ListenerUnlocks ==
    /\ listener.pc = "unlock"
    /\ senderMutex' = "none"
    /\ listener' = [listener EXCEPT !.pc = IF listener.seqNumList = <<>> THEN "idle" ELSE "lock"]
    /\ UNCHANGED <<transport, buffer, writer, closer, nacks, sessions>>

(***************************************************************************)
(* The closer: PeerConnection_CloseSession and PeerConnectionSrtp_DeInit.  *)
(***************************************************************************)
CloseSession ==
    /\ closer = "idle" /\ sessions > 0
    /\ ready' = FALSE
    /\ closer' = "destroy"
    /\ UNCHANGED <<path, rtx, srtp, senderMutex, buffer, writer, listener, nacks, sessions>>

DestroyIceControllerLater ==  \* mutant: the sockets stay open
    /\ closer = "destroy"
    /\ closer' = IF path = "none" THEN "idle" ELSE "srtp"
    /\ UNCHANGED <<transport, senderMutex, buffer, writer, listener, nacks, sessions>>

\* The sockets close, except those of a relay candidate, which live on until
\* the TURN server has confirmed; without ICE nothing else is closed.
DestroyIceController ==
    /\ closer = "destroy"
    /\ path' = IF path = "host" THEN "none" ELSE path
    /\ closer' = IF path = "none" THEN "idle" ELSE "srtp"
    /\ UNCHANGED <<ready, rtx, srtp, senderMutex, buffer, writer, listener, nacks, sessions>>

TurnReleased ==
    /\ path = "relay" /\ ~ready /\ closer # "destroy"
    /\ path' = "none"
    /\ UNCHANGED <<ready, rtx, srtp, senderMutex, buffer, writer, listener, closer, nacks,
                   sessions>>

FreeSrtpSessions ==
    /\ closer = "srtp"
    /\ srtp' = FALSE
    /\ closer' = "lock"
    /\ UNCHANGED <<ready, path, rtx, senderMutex, buffer, writer, listener, nacks, sessions>>

CloserLocks ==
    /\ closer = "lock" /\ senderMutex = "none"
    /\ senderMutex' = "closer"
    /\ closer' = "free"
    /\ UNCHANGED <<transport, buffer, writer, listener, nacks, sessions>>

\* PeerConnectionRollingBuffer_Free, and the lock is released.
FreeRollingBuffer ==
    /\ closer = "free"
    /\ isInit' = FALSE
    /\ allocated' = IF isInit THEN allocated \ Queued ELSE allocated
    /\ packetQueue' = IF isInit THEN <<>> ELSE packetQueue
    /\ senderMutex' = "none"
    /\ closer' = "idle"
    /\ UNCHANGED <<transport, packet, videoSequenceNumber, original, packets, writer, listener,
                   nacks, sessions>>

Writer ==
    \/ WriterLocks \/ WriterTimesOut \/ GetPacket \/ ConstructPacket \/ ConstructFails
    \/ StorePacket \/ WriterUnlocks
    \/ \E sent \in BOOLEAN : SendPacket(sent)

Listener ==
    \/ ListenerLocks \/ SearchPacket \/ ConstructAgain \/ ListenerUnlocks
    \/ \E sent \in BOOLEAN : ResendPacket(sent)

Closer == DestroyIceController \/ FreeSrtpSessions \/ CloserLocks \/ FreeRollingBuffer

NackLists == UNION {[1 .. n -> SeqNums] : n \in 1 .. NackMax}

Next ==
    \/ Start \/ CloseSession \/ TurnReleased
    \/ \E n \in 1 .. FrameMax : WriteFrame(n)
    \/ \E list \in NackLists : ReceiveNack(list)
    \/ Writer \/ Listener \/ Closer

\* Every task is scheduled while it can run.  New frames, NACKs and calls of
\* CloseSession need not come.
Fairness == WF_vars(Writer) /\ WF_vars(Listener) /\ WF_vars(Closer)

Spec == Init /\ [][Next]_vars /\ Fairness

-----------------------------------------------------------------------------
(***************************************************************************)
(* Properties.                                                             *)
(***************************************************************************)
\* No packet is freed while the rolling buffer still lists it or a task still
\* reads it: eviction, the frame that failed and DeInit free blocks that a
\* retransmission may have in hand.
NoUseAfterFree == Queued \union Held(writer) \union Held(listener) \subseteq allocated

\* Every allocated block is listed or in the writer's hand, so none is left
\* when the session has ended, however the frame in progress went.
NothingLeaks == allocated \subseteq Queued \union Held(writer)

\* The rolling buffer lists each block once, under consecutive numbers that end
\* just before the next one: a NACK for any of the last Capacity packets stored is
\* answered from what was stored under that number.
WindowIsNewest ==
    \A i \in 1 .. Len(packetQueue) :
        /\ Next1(packetQueue[i].seqNum) = IF i = Len(packetQueue) THEN videoSequenceNumber
                                          ELSE packetQueue[i + 1].seqNum
        /\ \A j \in 1 .. Len(packetQueue) :
               packetQueue[i].block = packetQueue[j].block => i = j

\* What is retransmitted is the packet that carried the asked number last, also
\* after the numbers wrapped and the blocks were used again.
AskedPacketIsSent ==
    listener.block # Null =>
        packet[listener.block].payload = original[Head(listener.seqNumList)]

\* A packet built after the SRTP sessions were freed is not protected; over a
\* host candidate it is never sent, because CloseSession closes the sockets
\* before it frees the sessions.
SentOverHostIsProtected ==
    path = "host" => /\ writer.pc = "send" => writer.protected
                     /\ listener.pc = "send" => listener.protected

(***************************************************************************)
(* The rolling buffer as the writer and the listener may think of it: the  *)
(* packet in the writer's hand is not stored yet, and a retransmission is  *)
(* in progress while the listener has a block in hand.                     *)
(***************************************************************************)
window == [i \in 1 .. Len(packetQueue) |-> packet[packetQueue[i].block].payload]

answer ==
    IF listener.block = Null THEN <<>>
    ELSE <<Head(listener.seqNumList), packet[listener.block].payload>>

Retransmit == INSTANCE RetransmitStore WITH
                  open <- isInit,
                  next <- videoSequenceNumber,
                  newest <- IF writer.pc = "set" THEN packets - 1 ELSE packets

\* The steps of the three tasks amount to whole operations of RetransmitStore: no
\* packet is skipped, stored twice or listed out of order, and none is stored,
\* evicted or freed while a retransmission of any kept packet is in progress.
BufferIsStore == Retransmit!Spec

\* CloseSession ends although it waits for senderMutex without a limit: the
\* tasks that hold it let it go.
CloseEnds == (closer # "idle") ~> (closer = "idle")

=============================================================================
