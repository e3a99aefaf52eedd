-------------------------- MODULE MediaSendProofs --------------------------
(***************************************************************************)
(* Proofs about MediaSend, for a heap, a rolling buffer, frames and NACKs  *)
(* of any size: types, no use of a freed packet, no packet leaked, no      *)
(* unprotected packet sent through a host candidate, the rolling buffer is *)
(* the newest packets, a NACK is answered with the packet it asks for, and *)
(* the three tasks together implement RetransmitStore.                     *)
(*                                                                         *)
(* The argument: senderMutex is held over a whole frame and a whole        *)
(* retransmission, so the blocks a task has in hand are listed or its own  *)
(* (Owned); and a session starts only when the rolling buffer of the one   *)
(* before is gone (Ended), because the sockets close before it is freed.   *)
(* The numbers of the listed packets are those just before the next one    *)
(* (Numbered), so with fewer packets than numbers each is listed once.     *)
(* The lock keeps the list as it is while a retransmission is in progress, *)
(* which is all the refinement needs besides.                              *)
(***************************************************************************)
EXTENDS MediaSend, TLAPS

\* What a task has done its lock for.
InFrame == {"get", "construct", "set", "send", "unlock"}
InReply == {"search", "construct", "send", "unlock"}

Locked ==
    /\ writer.pc \in InFrame <=> senderMutex = "writer"
    /\ listener.pc \in InReply <=> senderMutex = "listener"
    /\ closer = "free" <=> senderMutex = "closer"
    /\ writer.pc \in {"construct", "set", "send"} => writer.left > 0
    /\ listener.pc \in {"lock", "search", "construct", "send"} => listener.seqNumList # <<>>

\* Where the blocks are.
Owned ==
    /\ ~isInit => packetQueue = <<>>
    /\ \A i, j \in 1 .. Len(packetQueue) :
           packetQueue[i].block = packetQueue[j].block => i = j
    /\ writer.pc \in {"construct", "set"} =>
           isInit /\ writer.block # Null /\ writer.block \notin Queued
    /\ writer.pc = "send" => writer.block \in Queued
    /\ writer.pc \notin {"construct", "set", "send"} => writer.block = Null
    /\ listener.block # Null => listener.pc \in InReply /\ listener.block \in Queued
    /\ listener.pc \in {"idle", "lock", "search", "unlock"} => listener.block = Null
    /\ allocated = Queued \union Held(writer)

\* When the rolling buffer is gone.
Ended ==
    /\ ready => closer = "idle"
    /\ path = "none" => ~ready
    /\ closer = "idle" /\ ~ready => ~isInit
    /\ closer = "destroy" /\ path = "none" => ~isInit
    /\ closer \in {"srtp", "lock", "free"} => path # "host"
    /\ path = "host" => srtp

\* What is protected while a host candidate is nominated.
Protected ==
    path = "host" =>
        /\ writer.pc \in {"set", "send"} => writer.protected
        /\ listener.pc = "send" => listener.protected
        /\ ~rtx => /\ \A i \in 1 .. Len(packetQueue) : packet[packetQueue[i].block].protected
                   /\ writer.pc = "set" => packet[writer.block].protected

IInv == TypeOK /\ Locked /\ Owned /\ Ended /\ Protected

-----------------------------------------------------------------------------
\* The numbers of a packet follow each other.
LEMMA Next1Type ==
    ASSUME NEW s \in SeqNums
    PROVE  Next1(s) \in SeqNums
BY MediaSendAssumption DEF Next1, SeqNums

\* What SetPacket does to the list: the oldest entry goes if the list is full,
\* and the new one comes last.
LEMMA ListStep ==
    ASSUME packetQueue \in Seq(Entries), Len(packetQueue) <= Capacity, isInit,
           NEW seq \in SeqNums, NEW b \in Blocks, SetPacket(seq, b)
    PROVE  LET gone == IF Len(packetQueue) = Capacity THEN 1 ELSE 0
           IN  /\ packetQueue' \in Seq(Entries)
               /\ Len(packetQueue') = Len(packetQueue) - gone + 1
               /\ Len(packetQueue') <= Capacity
               /\ packetQueue'[Len(packetQueue')] = [seqNum |-> seq, block |-> b]
               /\ \A i \in 1 .. Len(packetQueue') - 1 :
                      packetQueue'[i] = packetQueue[i + gone]
<1>1. Capacity \in Nat \ {0}
    BY MediaSendAssumption
<1>2. [seqNum |-> seq, block |-> b] \in Entries
    BY DEF Entries
<1>3. CASE Len(packetQueue) = Capacity
    <2>1. packetQueue # <<>>
        BY <1>1, <1>3
    <2>2. /\ Tail(packetQueue) \in Seq(Entries)
          /\ Len(Tail(packetQueue)) = Len(packetQueue) - 1
          /\ \A i \in 1 .. Len(packetQueue) - 1 : Tail(packetQueue)[i] = packetQueue[i + 1]
        BY <2>1
    <2>3. packetQueue' = Append(Tail(packetQueue), [seqNum |-> seq, block |-> b])
        BY <1>3 DEF SetPacket
    <2>4. QED
        BY <1>1, <1>2, <1>3, <2>2, <2>3
<1>4. CASE Len(packetQueue) # Capacity
    <2>1. packetQueue' = Append(packetQueue, [seqNum |-> seq, block |-> b])
        BY <1>4 DEF SetPacket
    <2>2. QED
        BY <1>1, <1>2, <1>4, <2>1
<1>5. QED
    BY <1>3, <1>4

-----------------------------------------------------------------------------

\* What the listener's record is after it gave up.
LEMMA GivenUp ==
    ASSUME listener \in ListenerStates, listener' = ListEnded
    PROVE  /\ listener' \in ListenerStates
           /\ listener'.pc = "unlock" /\ listener'.block = Null
<1>1. listener' = [pc |-> "unlock", seqNumList |-> <<>>, block |-> Null,
                   protected |-> listener.protected]
    BY Zenon DEF ListenerStates, ListEnded
<1>2. QED
    BY <1>1 DEF ListenerStates


\* SearchRtpSequenceBuffer returns a block that is listed.
LEMMA MatchingBlock ==
    ASSUME TypeOK, NEW seq, NEW i \in Matching(seq)
    PROVE  /\ i \in 1 .. Len(packetQueue) /\ isInit
           /\ packetQueue[i].block \in Blocks
           /\ packetQueue[i].block \in Queued
           /\ packetQueue[i].block # Null
<1>1. i \in 1 .. Len(packetQueue) /\ isInit
    BY DEF Matching
<1>2. packetQueue[i] \in Entries
    BY <1>1 DEF TypeOK
<1>3. packetQueue[i].block \in Blocks
    BY <1>2 DEF Entries
<1>4. packetQueue[i].block \in Queued
    BY <1>1 DEF Queued
<1>5. QED
    BY <1>1, <1>3, <1>4, MediaSendAssumption DEF Blocks, Null

\* A NACK names at least one number.
LEMMA NackListType ==
    ASSUME NEW list \in NackLists
    PROVE  list \in Seq(SeqNums) /\ list # <<>>
<1>1. PICK n \in 1 .. NackMax : list \in [1 .. n -> SeqNums]
    BY DEF NackLists
<1>2. n \in Nat /\ n > 0
    BY MediaSendAssumption
<1>3. QED
    BY <1>1, <1>2

-----------------------------------------------------------------------------
(***************************************************************************)
(* The invariant holds at the start and every step keeps it.               *)
(***************************************************************************)
\* Nothing is allocated and no task holds the lock.
LEMMA Initially == Init => IInv
<1> SUFFICES ASSUME Init PROVE IInv
    OBVIOUS
<1> USE DEF Init
<1>1. TypeOK
    <2>1. ready \in BOOLEAN /\ rtx \in BOOLEAN /\ srtp \in BOOLEAN /\ isInit \in BOOLEAN
        OBVIOUS
    <2>2. packet \in [Blocks -> [payload : Nat, protected : BOOLEAN]]
        OBVIOUS
    <2>3. packetQueue \in Seq(Entries) /\ Len(packetQueue) <= Capacity
        BY MediaSendAssumption
    <2>4. videoSequenceNumber \in SeqNums /\ original \in [SeqNums -> Nat]
        BY MediaSendAssumption DEF SeqNums
    <2>5. writer \in WriterStates /\ listener \in ListenerStates
        BY MediaSendAssumption DEF WriterStates, ListenerStates
    <2>6. QED
        BY <2>1, <2>2, <2>3, <2>4, <2>5 DEF TypeOK
<1>2. Locked
    BY DEF Locked, InFrame, InReply
<1>3. Owned
    BY DEF Owned, Queued, Held, Null
<1>4. Ended /\ Protected
    BY DEF Ended, Protected
<1>5. QED
    BY <1>1, <1>2, <1>3, <1>4 DEF IInv

\* A session starts with an empty list, and nothing is left of the one before.
LEMMA StartStep ==
    ASSUME IInv, Start
    PROVE  IInv'
<1> USE DEF IInv, Start, transport, buffer
<1>1. TypeOK'
    <2>1. (ready \in BOOLEAN /\ rtx \in BOOLEAN /\ srtp \in BOOLEAN /\ isInit \in BOOLEAN)'
        BY Zenon DEF TypeOK
    <2>2. packetQueue' \in Seq(Entries) /\ Len(packetQueue') <= Capacity
        BY MediaSendAssumption
    <2>3. videoSequenceNumber' \in SeqNums /\ sessions' \in Nat
        BY MediaSendAssumption DEF SeqNums, TypeOK
    <2>4. path' \in {"none", "host", "relay"}
        OBVIOUS
    <2>5. QED
        BY <2>1, <2>2, <2>3, <2>4, Zenon DEF TypeOK
<1>2. Locked'
    BY DEF TypeOK, WriterStates, ListenerStates, Locked, InFrame, InReply
<1>3. Owned'
    BY DEF TypeOK, WriterStates, ListenerStates, Locked, InFrame, InReply, Owned,
       Ended, Queued, Held, Null
<1>4. Ended'
    BY DEF TypeOK, Locked, Ended
<1>5. Protected'
    BY DEF TypeOK, WriterStates, ListenerStates, Locked, InFrame, InReply, Owned,
       Ended, Queued, Protected, Null
<1>6. QED
    BY <1>1, <1>2, <1>3, <1>4, <1>5

\* The state is no longer ready, and the closer has work to do.
LEMMA CloseSessionStep ==
    ASSUME IInv, CloseSession
    PROVE  IInv'
<1> USE DEF IInv, CloseSession, transport, buffer
<1>1. TypeOK'
    <2>1. (ready \in BOOLEAN /\ rtx \in BOOLEAN /\ srtp \in BOOLEAN /\ isInit \in BOOLEAN)'
        BY Zenon DEF TypeOK
    <2>2. QED
        BY <2>1, MediaSendAssumption DEF TypeOK, Entries, Null
<1>2. Locked'
    BY DEF TypeOK, WriterStates, ListenerStates, Locked, InFrame, InReply
<1>3. Owned'
    BY DEF TypeOK, WriterStates, ListenerStates, Locked, InFrame, InReply, Owned,
       Ended, Queued, Held, Null
<1>4. Ended'
    BY DEF TypeOK, Locked, Ended
<1>5. Protected'
    BY DEF TypeOK, WriterStates, ListenerStates, Locked, InFrame, InReply, Owned,
       Ended, Queued, Protected, Null
<1>6. QED
    BY <1>1, <1>2, <1>3, <1>4, <1>5

\* A relay goes away only when the session is no longer ready.
LEMMA TurnReleasedStep ==
    ASSUME IInv, TurnReleased
    PROVE  IInv'
<1> USE DEF IInv, TurnReleased, transport, buffer
<1>1. TypeOK'
    <2>1. (ready \in BOOLEAN /\ rtx \in BOOLEAN /\ srtp \in BOOLEAN /\ isInit \in BOOLEAN)'
        BY Zenon DEF TypeOK
    <2>2. QED
        BY <2>1, MediaSendAssumption DEF TypeOK, Entries, Null
<1>2. Locked'
    BY DEF TypeOK, WriterStates, ListenerStates, Locked, InFrame, InReply
<1>3. Owned'
    BY DEF TypeOK, WriterStates, ListenerStates, Locked, InFrame, InReply, Owned,
       Ended, Queued, Held, Null
<1>4. Ended'
    BY DEF TypeOK, Locked, Ended
<1>5. Protected'
    BY DEF TypeOK, WriterStates, ListenerStates, Locked, InFrame, InReply, Owned,
       Ended, Queued, Protected, Null
<1>6. QED
    BY <1>1, <1>2, <1>3, <1>4, <1>5

\* A frame waits for the lock: it holds nothing yet.
LEMMA WriteFrameStep ==
    ASSUME IInv, NEW n \in 1 .. FrameMax, WriteFrame(n)
    PROVE  IInv'
<1> USE DEF IInv, WriteFrame, transport, buffer
<1>1. TypeOK'
    <2>1. (ready \in BOOLEAN /\ rtx \in BOOLEAN /\ srtp \in BOOLEAN /\ isInit \in BOOLEAN)'
        BY Zenon DEF TypeOK
    <2>2. writer' = [pc |-> "lock", left |-> n,
                     block |-> writer.block, protected |-> writer.protected]
        BY Zenon DEF TypeOK, WriterStates
    <2>3. writer' \in WriterStates
        BY <2>2, MediaSendAssumption DEF TypeOK, WriterStates, Locked, Owned
    <2>4. QED
        BY <2>1, <2>3, MediaSendAssumption DEF TypeOK, Entries, Null
<1>2. Locked'
    BY DEF TypeOK, WriterStates, ListenerStates, Locked, InFrame, InReply
<1>3. Owned'
    BY DEF TypeOK, WriterStates, ListenerStates, Locked, InFrame, InReply, Owned,
       Ended, Queued, Held, Null
<1>4. Ended'
    BY DEF TypeOK, Locked, Ended
<1>5. Protected'
    BY DEF TypeOK, WriterStates, ListenerStates, Locked, InFrame, InReply, Owned,
       Ended, Queued, Protected, Null
<1>6. QED
    BY <1>1, <1>2, <1>3, <1>4, <1>5

\* A NACK waits for the lock, with at least one number to look for.
LEMMA ReceiveNackStep ==
    ASSUME IInv, NEW list \in NackLists, ReceiveNack(list)
    PROVE  IInv'
<1> USE DEF IInv, ReceiveNack, transport, buffer
<1>1. TypeOK'
    <2>1. (ready \in BOOLEAN /\ rtx \in BOOLEAN /\ srtp \in BOOLEAN /\ isInit \in BOOLEAN)'
        BY Zenon DEF TypeOK
    <2>2. listener' = [pc |-> "lock",
                       seqNumList |-> list, block |-> listener.block, protected |-> listener.protected]
        BY Zenon DEF TypeOK, ListenerStates
    <2>3. list \in Seq(SeqNums)
        BY NackListType
    <2>4. listener' \in ListenerStates
        BY <2>2, <2>3, MediaSendAssumption DEF TypeOK, ListenerStates, Locked, Owned
    <2>5. nacks' \in Nat
        BY DEF TypeOK
    <2>6. QED
        BY <2>1, <2>4, <2>5, Zenon DEF TypeOK
<1>2. Locked'
    BY NackListType DEF TypeOK, WriterStates, ListenerStates, Locked, InFrame, InReply
<1>3. Owned'
    BY NackListType DEF TypeOK, WriterStates, ListenerStates, Locked, InFrame, InReply, Owned,
       Ended, Queued, Held, Null
<1>4. Ended'
    BY DEF TypeOK, Locked, Ended
<1>5. Protected'
    BY NackListType DEF TypeOK, WriterStates, ListenerStates, Locked, InFrame, InReply, Owned,
       Ended, Queued, Protected, Null
<1>6. QED
    BY <1>1, <1>2, <1>3, <1>4, <1>5

\* The writer gets the lock.
LEMMA WriterLocksStep ==
    ASSUME IInv, WriterLocks
    PROVE  IInv'
<1> USE DEF IInv, WriterLocks, transport, buffer, WriterGoes
<1>1. TypeOK'
    <2>1. (ready \in BOOLEAN /\ rtx \in BOOLEAN /\ srtp \in BOOLEAN /\ isInit \in BOOLEAN)'
        BY Zenon DEF TypeOK
    <2>2. writer' = [pc |-> "get", left |-> writer.left,
                     block |-> writer.block, protected |-> writer.protected]
        BY Zenon DEF TypeOK, WriterStates
    <2>3. writer' \in WriterStates
        BY <2>2, MediaSendAssumption DEF TypeOK, WriterStates, Locked, Owned
    <2>4. QED
        BY <2>1, <2>3, MediaSendAssumption DEF TypeOK, Entries, Null
<1>2. Locked'
    BY DEF TypeOK, WriterStates, ListenerStates, Locked, InFrame, InReply
<1>3. Owned'
    BY DEF TypeOK, WriterStates, ListenerStates, Locked, InFrame, InReply, Owned,
       Ended, Queued, Held, Null
<1>4. Ended'
    BY DEF TypeOK, Locked, Ended
<1>5. Protected'
    BY DEF TypeOK, WriterStates, ListenerStates, Locked, InFrame, InReply, Owned,
       Ended, Queued, Protected, Null
<1>6. QED
    BY <1>1, <1>2, <1>3, <1>4, <1>5

\* The frame is dropped: it held nothing.
LEMMA WriterTimesOutStep ==
    ASSUME IInv, WriterTimesOut
    PROVE  IInv'
<1> USE DEF IInv, WriterTimesOut, transport, buffer, WriterGoes
<1>1. TypeOK'
    <2>1. (ready \in BOOLEAN /\ rtx \in BOOLEAN /\ srtp \in BOOLEAN /\ isInit \in BOOLEAN)'
        BY Zenon DEF TypeOK
    <2>2. writer' = [pc |-> "idle", left |-> writer.left,
                     block |-> writer.block, protected |-> writer.protected]
        BY Zenon DEF TypeOK, WriterStates
    <2>3. writer' \in WriterStates
        BY <2>2, MediaSendAssumption DEF TypeOK, WriterStates, Locked, Owned
    <2>4. QED
        BY <2>1, <2>3, MediaSendAssumption DEF TypeOK, Entries, Null
<1>2. Locked'
    BY DEF TypeOK, WriterStates, ListenerStates, Locked, InFrame, InReply
<1>3. Owned'
    BY DEF TypeOK, WriterStates, ListenerStates, Locked, InFrame, InReply, Owned,
       Ended, Queued, Held, Null
<1>4. Ended'
    BY DEF TypeOK, Locked, Ended
<1>5. Protected'
    BY DEF TypeOK, WriterStates, ListenerStates, Locked, InFrame, InReply, Owned,
       Ended, Queued, Protected, Null
<1>6. QED
    BY <1>1, <1>2, <1>3, <1>4, <1>5

\* The block allocated is a new one, in no list and no other hand.
LEMMA GetPacketStep ==
    ASSUME IInv, GetPacket
    PROVE  IInv'
<1> USE DEF IInv, GetPacket, transport, buffer, FreeBlock, WriterGoes
<1>1. TypeOK'
    <2>1. (ready \in BOOLEAN /\ rtx \in BOOLEAN /\ srtp \in BOOLEAN /\ isInit \in BOOLEAN)'
        BY Zenon DEF TypeOK
    <2>2. 
          \/ writer' = [pc |-> "construct", left |-> writer.left,
                        block |-> FreeBlock, protected |-> writer.protected]
          \/ writer' = [pc |-> "unlock", left |-> writer.left,
                        block |-> writer.block, protected |-> writer.protected]
        BY Zenon DEF TypeOK, WriterStates
    <2>3. writer' \in WriterStates
        BY <2>2, MediaSendAssumption DEF TypeOK, WriterStates, Locked, Owned
    <2>4. QED
        BY <2>1, <2>3, MediaSendAssumption DEF TypeOK, Entries, Null
<1>2. Locked'
    BY DEF TypeOK, WriterStates, ListenerStates, Locked, InFrame, InReply
<1>3. Owned'
    <2>1. CASE isInit /\ writer.left > 0
        <3>1. FreeBlock \in Blocks /\ FreeBlock \notin allocated
            BY <2>1
        <3>2. /\ writer'.pc = "construct" /\ writer'.block = FreeBlock
              /\ allocated' = allocated \union {FreeBlock}
            BY <2>1, Zenon DEF TypeOK, WriterStates
        <3>3. FreeBlock # Null
            BY <3>1, MediaSendAssumption DEF Blocks, Null
        <3>4. allocated = Queued /\ Queued' = Queued
            BY DEF Owned, Held, Queued
        <3>5. Held(writer)' = {FreeBlock}
            BY <3>2, <3>3 DEF Held
        <3>6. QED
            BY <2>1, <3>1, <3>2, <3>3, <3>4, <3>5 DEF Owned
    <2>2. CASE ~(isInit /\ writer.left > 0)
        BY <2>2 DEF TypeOK, WriterStates, Owned, Queued, Held
    <2>3. QED
        BY <2>1, <2>2
<1>4. Ended'
    BY DEF TypeOK, Locked, Ended
<1>5. Protected'
    BY DEF TypeOK, WriterStates, ListenerStates, Locked, InFrame, InReply, Owned,
       Ended, Queued, Protected, Null
<1>6. QED
    BY <1>1, <1>2, <1>3, <1>4, <1>5

\* The block in hand is filled; over a host candidate it is protected.
LEMMA ConstructPacketStep ==
    ASSUME IInv, ConstructPacket
    PROVE  IInv'
<1> USE DEF IInv, ConstructPacket, transport, buffer
<1>1. TypeOK'
    <2>1. (ready \in BOOLEAN /\ rtx \in BOOLEAN /\ srtp \in BOOLEAN /\ isInit \in BOOLEAN)'
        BY Zenon DEF TypeOK
    <2>2. writer' = [pc |-> "set", left |-> writer.left,
                     block |-> writer.block, protected |-> srtp]
        BY Zenon DEF TypeOK, WriterStates
    <2>3. writer' \in WriterStates
        BY <2>2, MediaSendAssumption DEF TypeOK, WriterStates, Locked, Owned
    <2>4. packets + 1 \in Nat /\ (srtp /\ ~rtx) \in BOOLEAN
        BY DEF TypeOK
    <2>5. packet' \in [Blocks -> [payload : Nat, protected : BOOLEAN]]
        BY <2>4, Zenon DEF TypeOK
    <2>6. packets' \in Nat
        BY DEF TypeOK
    <2>7. QED
        BY <2>1, <2>3, <2>5, <2>6, MediaSendAssumption DEF TypeOK, Entries, Null
<1>2. Locked'
    BY DEF TypeOK, WriterStates, ListenerStates, Locked, InFrame, InReply
<1>3. Owned'
    BY DEF TypeOK, WriterStates, ListenerStates, Locked, InFrame, InReply, Owned,
       Ended, Queued, Held, Null
<1>4. Ended'
    BY DEF TypeOK, Locked, Ended
<1>5. Protected'
    BY DEF TypeOK, WriterStates, ListenerStates, Locked, InFrame, InReply, Owned,
       Ended, Queued, Protected, Null
<1>6. QED
    BY <1>1, <1>2, <1>3, <1>4, <1>5

\* The block in hand is freed: nobody else has it.
LEMMA ConstructFailsStep ==
    ASSUME IInv, ConstructFails
    PROVE  IInv'
<1> USE DEF IInv, ConstructFails, transport, buffer, AfterDiscard
<1>1. TypeOK'
    <2>1. (ready \in BOOLEAN /\ rtx \in BOOLEAN /\ srtp \in BOOLEAN /\ isInit \in BOOLEAN)'
        BY Zenon DEF TypeOK
    <2>2. writer' = [pc |-> "unlock", left |-> writer.left,
                     block |-> Null, protected |-> writer.protected]
        BY Zenon DEF TypeOK, WriterStates
    <2>3. writer' \in WriterStates
        BY <2>2, MediaSendAssumption DEF TypeOK, WriterStates, Locked, Owned
    <2>4. QED
        BY <2>1, <2>3, MediaSendAssumption DEF TypeOK, Entries, Null
<1>2. Locked'
    BY DEF TypeOK, WriterStates, ListenerStates, Locked, InFrame, InReply
<1>3. Owned'
    BY DEF TypeOK, WriterStates, ListenerStates, Locked, InFrame, InReply, Owned,
       Ended, Queued, Held, Null
<1>4. Ended'
    BY DEF TypeOK, Locked, Ended
<1>5. Protected'
    BY DEF TypeOK, WriterStates, ListenerStates, Locked, InFrame, InReply, Owned,
       Ended, Queued, Protected, Null
<1>6. QED
    BY <1>1, <1>2, <1>3, <1>4, <1>5

\* The packet built goes into the list: the oldest one is freed if the list is full.
LEMMA StorePacketStep ==
    ASSUME IInv, StorePacket
    PROVE  IInv'
<1> USE DEF IInv
<1> DEFINE b == writer.block
           gone == IF Len(packetQueue) = Capacity THEN 1 ELSE 0
<1>0. /\ writer.pc = "set" /\ SetPacket(videoSequenceNumber, b)
      /\ videoSequenceNumber' = Next1(videoSequenceNumber)
      /\ UNCHANGED <<ready, path, rtx, srtp, senderMutex, isInit, packet, packets, listener,
                     closer, nacks, sessions>>
    BY DEF StorePacket, transport
<1>1. /\ isInit /\ b \in Blocks /\ b # Null /\ b \notin Queued
      /\ packetQueue \in Seq(Entries) /\ videoSequenceNumber \in SeqNums
      /\ allocated = Queued \union {b}
    BY <1>0 DEF TypeOK, WriterStates, Owned, Held
<1>2. SetPacket(videoSequenceNumber, b)
    BY <1>0
<1>3. /\ packetQueue' \in Seq(Entries)
      /\ Len(packetQueue') = Len(packetQueue) - gone + 1
      /\ Len(packetQueue') <= Capacity
      /\ packetQueue'[Len(packetQueue')].block = b
      /\ \A i \in 1 .. Len(packetQueue') - 1 : packetQueue'[i] = packetQueue[i + gone]
    <2>1. Len(packetQueue) <= Capacity
        BY DEF TypeOK
    <2>2. /\ packetQueue' \in Seq(Entries)
          /\ Len(packetQueue') = Len(packetQueue) - gone + 1
          /\ Len(packetQueue') <= Capacity
          /\ packetQueue'[Len(packetQueue')] =
                 [seqNum |-> videoSequenceNumber, block |-> b]
          /\ \A i \in 1 .. Len(packetQueue') - 1 :
                 packetQueue'[i] = packetQueue[i + gone]
        BY <1>1, <1>2, <2>1, ListStep
    <2>3. QED
        BY <2>2
<1>4. /\ Len(packetQueue) \in Nat /\ gone \in {0, 1} /\ gone <= Len(packetQueue)
      /\ Len(packetQueue') \in 1 .. Len(packetQueue) + 1
    BY <1>1, <1>3, MediaSendAssumption
<1>5. \A i \in 1 .. Len(packetQueue) : packetQueue[i].block \in Queued
    BY DEF Queued
<1>6. writer' = [pc |-> "send", left |-> writer.left, block |-> b,
                 protected |-> writer.protected]
    BY <1>1, Zenon DEF StorePacket, TypeOK, WriterStates
<1>7. TypeOK'
    <2>1. (ready \in BOOLEAN /\ rtx \in BOOLEAN /\ srtp \in BOOLEAN /\ isInit \in BOOLEAN)'
        BY <1>0, Zenon DEF TypeOK
    <2>2. writer' \in WriterStates
        BY <1>1, <1>6 DEF TypeOK, WriterStates
    <2>3. allocated' \subseteq Blocks
        BY <1>0 DEF SetPacket, AfterDiscard, TypeOK
    <2>4. videoSequenceNumber' \in SeqNums
        BY <1>0, <1>1, Next1Type
    <2>5. original' \in [SeqNums -> Nat]
        <3>1. packet[b].payload \in Nat
            BY <1>1 DEF TypeOK
        <3>2. original' = [original EXCEPT ![videoSequenceNumber] = packet[b].payload]
            BY <1>1, <1>2 DEF SetPacket
        <3>3. QED
            BY <1>1, <3>1, <3>2 DEF TypeOK
    <2>6. QED
        BY <1>0, <1>3, <2>1, <2>2, <2>3, <2>4, <2>5 DEF TypeOK
<1>8. Locked'
    BY <1>0, <1>6 DEF TypeOK, WriterStates, ListenerStates, Locked, InFrame, InReply
<1>9. \A i, j \in 1 .. Len(packetQueue') :
          packetQueue'[i].block = packetQueue'[j].block => i = j
    <2>1. \A i \in 1 .. Len(packetQueue') - 1 :
              i + gone \in 1 .. Len(packetQueue) /\ packetQueue'[i].block # b
        <3>1. TAKE i \in 1 .. Len(packetQueue') - 1
        <3>2. i + gone \in 1 .. Len(packetQueue)
            BY <1>3, <1>4
        <3>3. packetQueue'[i].block \in Queued
            BY <1>3, <1>5, <3>2
        <3>4. QED
            BY <1>1, <3>2, <3>3
    <2>2. \A i, j \in 1 .. Len(packetQueue') - 1 :
              packetQueue'[i].block = packetQueue'[j].block => i = j
        <3>1. TAKE i, j \in 1 .. Len(packetQueue') - 1
        <3>2. HAVE packetQueue'[i].block = packetQueue'[j].block
        <3>3. packetQueue[i + gone].block = packetQueue[j + gone].block
            BY <1>3, <3>2
        <3>4. i + gone = j + gone
            BY <2>1, <3>3 DEF Owned
        <3>5. QED
            BY <1>4, <3>4
    <2>3. QED
        BY <1>3, <1>4, <2>1, <2>2
<1>10. Queued' = {packetQueue[i].block : i \in 1 + gone .. Len(packetQueue)} \union {b}
    <2> DEFINE kept == {packetQueue[i].block : i \in 1 + gone .. Len(packetQueue)}
    <2>1. ASSUME NEW x \in Queued'
          PROVE  x \in kept \union {b}
        <3>1. PICK i \in 1 .. Len(packetQueue') : x = packetQueue'[i].block
            BY <2>1 DEF Queued
        <3>2. CASE i = Len(packetQueue')
            BY <1>3, <3>1, <3>2
        <3>3. CASE i # Len(packetQueue')
            <4>1. i \in 1 .. Len(packetQueue') - 1
                BY <1>4, <3>3
            <4>2. i + gone \in 1 + gone .. Len(packetQueue)
                BY <1>3, <1>4, <4>1
            <4>3. QED
                BY <1>3, <3>1, <4>1, <4>2
        <3>4. QED
            BY <3>2, <3>3
    <2>2. ASSUME NEW x \in kept
          PROVE  x \in Queued'
        <3>1. PICK k \in 1 + gone .. Len(packetQueue) : x = packetQueue[k].block
            BY <2>2
        <3>2. k - gone \in 1 .. Len(packetQueue') - 1 /\ (k - gone) + gone = k
            BY <1>3, <1>4, <3>1
        <3>3. x = packetQueue'[k - gone].block /\ k - gone \in 1 .. Len(packetQueue')
            BY <1>3, <1>4, <3>1, <3>2
        <3>4. QED
            BY <3>3 DEF Queued
    <2>3. b \in Queued'
        BY <1>3, <1>4 DEF Queued
    <2>4. QED
        BY <2>1, <2>2, <2>3
<1>11. allocated' = Queued'
    <2>1. CASE gone = 0
        <3>1. {packetQueue[i].block : i \in 1 + gone .. Len(packetQueue)} = Queued
            BY <2>1 DEF Queued
        <3>2. allocated' = allocated
            BY <1>1, <1>2, <2>1 DEF SetPacket
        <3>3. QED
            BY <1>1, <1>10, <3>1, <3>2
    <2>2. CASE gone = 1
        <3>1. Len(packetQueue) = Capacity /\ 1 \in 1 .. Len(packetQueue)
            BY <1>4, <2>2, MediaSendAssumption
        <3>2. allocated' = allocated \ {packetQueue[1].block}
            BY <1>1, <1>2, <3>1 DEF SetPacket, AfterDiscard
        <3>3. Queued = {packetQueue[1].block} \union
                       {packetQueue[i].block : i \in 2 .. Len(packetQueue)}
            BY <3>1 DEF Queued
        <3>4. \A i \in 2 .. Len(packetQueue) : packetQueue[i].block # packetQueue[1].block
            BY <3>1 DEF Owned
        <3>5. packetQueue[1].block # b
            BY <1>1, <1>5, <3>1
        <3>6. QED
            BY <1>1, <1>10, <2>2, <3>2, <3>3, <3>4, <3>5
    <2>3. QED
        BY <1>4, <2>1, <2>2
<1>12. Owned'
    <2>1. b \in Queued'
        BY <1>10
    <2>2. Held(writer)' = {b}
        BY <1>1, <1>6 DEF Held
    <2>3. listener.block = Null /\ listener.pc \notin InReply
        BY <1>0 DEF Locked, Owned, InFrame, TypeOK
    <2>4. (~isInit => packetQueue = <<>>)'
        BY <1>0, <1>1
    <2>5. writer'.pc = "send" /\ writer'.block = b
        BY <1>6
    <2>6. QED
        BY <1>0, <1>9, <1>11, <2>1, <2>2, <2>3, <2>4, <2>5 DEF Owned, InReply
<1>13. Ended'
    BY <1>0 DEF Ended
<1>14. Protected'
    <2>1. ASSUME path = "host", ~rtx, NEW i \in 1 .. Len(packetQueue')
          PROVE  packet[packetQueue'[i].block].protected
        <3>1. packet[b].protected
            BY <1>0, <2>1 DEF Protected
        <3>2. CASE i = Len(packetQueue')
            BY <1>3, <3>1, <3>2
        <3>3. CASE i # Len(packetQueue')
            <4>1. i \in 1 .. Len(packetQueue') - 1 /\ i + gone \in 1 .. Len(packetQueue)
                BY <1>3, <1>4, <3>3
            <4>2. QED
                BY <1>0, <1>3, <2>1, <4>1 DEF Protected
        <3>4. QED
            BY <3>2, <3>3
    <2>2. writer'.protected = writer.protected /\ writer'.pc = "send"
        BY <1>6
    <2>3. writer.pc = "set" /\ listener.protected' = listener.protected
        BY <1>0
    <2>4. listener.pc # "send"
        BY <1>0 DEF TypeOK, Locked, InFrame, InReply
    <2>5. QED
        BY <1>0, <2>1, <2>2, <2>3, <2>4 DEF Protected
<1>15. QED
    BY <1>7, <1>8, <1>12, <1>13, <1>14

\* The block goes out of hand; the list keeps it.
LEMMA SendPacketStep ==
    ASSUME IInv, NEW sent \in BOOLEAN, SendPacket(sent)
    PROVE  IInv'
<1> USE DEF IInv, SendPacket, transport, buffer
<1>1. TypeOK'
    <2>1. (ready \in BOOLEAN /\ rtx \in BOOLEAN /\ srtp \in BOOLEAN /\ isInit \in BOOLEAN)'
        BY Zenon DEF TypeOK
    <2>2. writer' = [pc |-> IF sent THEN "get" ELSE "unlock", left |-> writer.left - 1,
                     block |-> Null, protected |-> writer.protected]
        BY Zenon DEF TypeOK, WriterStates
    <2>3. writer.left - 1 \in 0 .. FrameMax
        <3>1. writer.left \in 0 .. FrameMax
            BY DEF TypeOK, WriterStates
        <3>2. writer.left > 0
            BY DEF Locked
        <3>3. QED
            BY <3>1, <3>2, MediaSendAssumption
    <2>4. writer' \in WriterStates
        BY <2>2, <2>3, MediaSendAssumption DEF TypeOK, WriterStates, Locked, Owned
    <2>5. QED
        BY <2>1, <2>4, MediaSendAssumption DEF TypeOK, Entries, Null
<1>2. Locked'
    BY DEF TypeOK, WriterStates, ListenerStates, Locked, InFrame, InReply
<1>3. Owned'
    BY DEF TypeOK, WriterStates, ListenerStates, Locked, InFrame, InReply, Owned,
       Ended, Queued, Held, Null
<1>4. Ended'
    BY DEF TypeOK, Locked, Ended
<1>5. Protected'
    BY DEF TypeOK, WriterStates, ListenerStates, Locked, InFrame, InReply, Owned,
       Ended, Queued, Protected, Null
<1>6. QED
    BY <1>1, <1>2, <1>3, <1>4, <1>5

\* The writer lets the lock go with empty hands.
LEMMA WriterUnlocksStep ==
    ASSUME IInv, WriterUnlocks
    PROVE  IInv'
<1> USE DEF IInv, WriterUnlocks, transport, buffer
<1>1. TypeOK'
    <2>1. (ready \in BOOLEAN /\ rtx \in BOOLEAN /\ srtp \in BOOLEAN /\ isInit \in BOOLEAN)'
        BY Zenon DEF TypeOK
    <2>2. writer' = [pc |-> "idle", left |-> 0,
                     block |-> writer.block, protected |-> writer.protected]
        BY Zenon DEF TypeOK, WriterStates
    <2>3. writer' \in WriterStates
        BY <2>2, MediaSendAssumption DEF TypeOK, WriterStates, Locked, Owned
    <2>4. QED
        BY <2>1, <2>3, MediaSendAssumption DEF TypeOK, Entries, Null
<1>2. Locked'
    BY DEF TypeOK, WriterStates, ListenerStates, Locked, InFrame, InReply
<1>3. Owned'
    BY DEF TypeOK, WriterStates, ListenerStates, Locked, InFrame, InReply, Owned,
       Ended, Queued, Held, Null
<1>4. Ended'
    BY DEF TypeOK, Locked, Ended
<1>5. Protected'
    BY DEF TypeOK, WriterStates, ListenerStates, Locked, InFrame, InReply, Owned,
       Ended, Queued, Protected, Null
<1>6. QED
    BY <1>1, <1>2, <1>3, <1>4, <1>5

\* The listener gets the lock.
LEMMA ListenerLocksStep ==
    ASSUME IInv, ListenerLocks
    PROVE  IInv'
<1> USE DEF IInv, ListenerLocks, transport, buffer
<1>1. TypeOK'
    <2>1. (ready \in BOOLEAN /\ rtx \in BOOLEAN /\ srtp \in BOOLEAN /\ isInit \in BOOLEAN)'
        BY Zenon DEF TypeOK
    <2>2. listener' = [pc |-> "search", seqNumList |-> listener.seqNumList,
                       block |-> listener.block, protected |-> listener.protected]
        BY Zenon DEF TypeOK, ListenerStates
    <2>3. listener' \in ListenerStates
        BY <2>2, MediaSendAssumption DEF TypeOK, ListenerStates, Locked, Owned
    <2>4. QED
        BY <2>1, <2>3, MediaSendAssumption DEF TypeOK, Entries, Null
<1>2. Locked'
    BY DEF TypeOK, WriterStates, ListenerStates, Locked, InFrame, InReply
<1>3. Owned'
    BY DEF TypeOK, WriterStates, ListenerStates, Locked, InFrame, InReply, Owned,
       Ended, Queued, Held, Null
<1>4. Ended'
    BY DEF TypeOK, Locked, Ended
<1>5. Protected'
    BY DEF TypeOK, WriterStates, ListenerStates, Locked, InFrame, InReply, Owned,
       Ended, Queued, Protected, Null
<1>6. QED
    BY <1>1, <1>2, <1>3, <1>4, <1>5

\* The listener takes a listed block in hand, or gives up.
LEMMA SearchPacketStep ==
    ASSUME IInv, SearchPacket
    PROVE  IInv'
<1> USE DEF IInv, transport, buffer
<1> DEFINE FoundPacket(i) ==
        listener' = [pc |-> IF rtx THEN "construct" ELSE "send",
                     seqNumList |-> listener.seqNumList, block |-> packetQueue[i].block,
                     protected |-> packet[packetQueue[i].block].protected]
<1>0. /\ listener.pc = "search"
      /\ \/ listener' = ListEnded
         \/ \E i \in Matching(Head(listener.seqNumList)) : FoundPacket(i)
      /\ UNCHANGED <<transport, senderMutex, buffer, writer, closer, nacks, sessions>>
    BY Zenon DEF SearchPacket, TypeOK, ListenerStates
<1>  HIDE DEF FoundPacket
<1>1. TypeOK'
    <2>1. (ready \in BOOLEAN /\ rtx \in BOOLEAN /\ srtp \in BOOLEAN /\ isInit \in BOOLEAN)'
        BY <1>0, Zenon DEF TypeOK
    <2>2. ASSUME NEW i \in Matching(Head(listener.seqNumList)), FoundPacket(i)
          PROVE  listener' \in ListenerStates
        <3>1. packetQueue[i].block \in Blocks
            BY MatchingBlock
        <3>2. packet[packetQueue[i].block].protected \in BOOLEAN
            BY <3>1 DEF TypeOK
        <3>3. QED
            BY <2>2, <3>1, <3>2 DEF FoundPacket, TypeOK, ListenerStates
    <2>3. listener' \in ListenerStates
        BY <1>0, <2>2, GivenUp DEF TypeOK
    <2>4. QED
        BY <1>0, <2>1, <2>3 DEF TypeOK
<1>2. CASE listener' = ListEnded
    <2>1. listener'.pc = "unlock" /\ listener'.block = Null
        BY <1>2, GivenUp DEF TypeOK
    <2>2. Locked' /\ Owned' /\ Ended' /\ Protected'
        BY <1>0, <2>1 DEF TypeOK, Locked, InFrame, InReply, Owned, Ended, Queued, Held, Protected
    <2>3. QED
        BY <1>1, <2>2
<1>3. ASSUME NEW i \in Matching(Head(listener.seqNumList)), FoundPacket(i)
      PROVE  IInv'
    <2>1. /\ i \in 1 .. Len(packetQueue)
          /\ packetQueue[i].block \in Queued /\ packetQueue[i].block # Null
        BY MatchingBlock
    <2>2. /\ listener'.pc = IF rtx THEN "construct" ELSE "send"
          /\ listener'.seqNumList = listener.seqNumList
          /\ listener'.block = packetQueue[i].block
          /\ listener'.protected = packet[packetQueue[i].block].protected
        BY <1>3 DEF FoundPacket
    <2>3. Locked'
        BY <1>0, <2>2 DEF Locked, InFrame, InReply
    <2>4. Owned'
        BY <1>0, <2>1, <2>2 DEF Locked, InFrame, InReply, Owned, Queued, Held
    <2>5. Ended'
        BY <1>0 DEF Ended
    <2>6. Protected'
        BY <1>0, <2>1, <2>2 DEF Protected
    <2>7. QED
        BY <1>1, <2>3, <2>4, <2>5, <2>6
<1>4. QED
    BY <1>0, <1>2, <1>3

\* The packet sent again is protected while there is a session.
LEMMA ConstructAgainStep ==
    ASSUME IInv, ConstructAgain
    PROVE  IInv'
<1> USE DEF IInv, ConstructAgain, transport, buffer
<1>1. TypeOK'
    <2>1. (ready \in BOOLEAN /\ rtx \in BOOLEAN /\ srtp \in BOOLEAN /\ isInit \in BOOLEAN)'
        BY Zenon DEF TypeOK
    <2>2. CASE listener' = [listener EXCEPT !.pc = "send", !.protected = srtp]
        <3>1. listener' = [pc |-> "send", seqNumList |-> listener.seqNumList,
                           block |-> listener.block, protected |-> srtp]
            BY <2>2, Zenon DEF TypeOK, ListenerStates
        <3>2. listener' \in ListenerStates
            BY <3>1 DEF TypeOK, ListenerStates
        <3>3. QED
            BY <2>1, <3>2 DEF TypeOK
    <2>3. CASE listener' = ListEnded
        BY <2>1, <2>3, GivenUp DEF TypeOK
    <2>4. QED
        BY <2>2, <2>3
<1>2. Locked'
    BY GivenUp DEF TypeOK, WriterStates, ListenerStates, Locked, InFrame, InReply
<1>3. Owned'
    <2>1. \/ listener'.pc = "send" /\ listener'.block = listener.block
          \/ listener'.pc = "unlock" /\ listener'.block = Null
        BY GivenUp, Zenon DEF TypeOK, ListenerStates
    <2>2. QED
        BY <2>1 DEF Owned, InReply, Queued, Held
<1>4. Ended'
    BY DEF TypeOK, Locked, Ended
<1>5. Protected'
    <2>1. path = "host" => srtp
        BY DEF Ended
    <2>2. listener'.pc = "send" => listener'.protected = srtp
        BY GivenUp DEF TypeOK, ListenerStates
    <2>3. QED
        BY <2>1, <2>2 DEF Protected
<1>6. QED
    BY <1>1, <1>2, <1>3, <1>4, <1>5

\* The block goes out of hand.
LEMMA ResendPacketStep ==
    ASSUME IInv, NEW sent \in BOOLEAN, ResendPacket(sent)
    PROVE  IInv'
<1> USE DEF IInv, ResendPacket, transport, buffer
<1>1. TypeOK'
    <2>1. (ready \in BOOLEAN /\ rtx \in BOOLEAN /\ srtp \in BOOLEAN /\ isInit \in BOOLEAN)'
        BY Zenon DEF TypeOK
    <2>2. PICK s \in Seq(SeqNums) :
              listener' = [pc |-> "unlock", seqNumList |-> s, block |-> Null,
                           protected |-> listener.protected]
        <3>1. Tail(listener.seqNumList) \in Seq(SeqNums) /\ <<>> \in Seq(SeqNums)
            BY DEF TypeOK, ListenerStates, Locked
        <3>2. \/ listener' = [pc |-> "unlock", seqNumList |-> Tail(listener.seqNumList),
                             block |-> Null, protected |-> listener.protected]
              \/ listener' = [pc |-> "unlock", seqNumList |-> <<>>,
                             block |-> Null, protected |-> listener.protected]
            BY Zenon DEF TypeOK, ListenerStates, ListEnded
        <3>3. QED
            BY <3>1, <3>2
    <2>3. listener' \in ListenerStates
        BY <2>2 DEF TypeOK, ListenerStates
    <2>4. QED
        BY <2>1, <2>3 DEF TypeOK
<1>2. Locked'
    BY GivenUp DEF TypeOK, WriterStates, ListenerStates, Locked, InFrame, InReply
<1>3. Owned'
    BY GivenUp DEF TypeOK, WriterStates, ListenerStates, Locked, InFrame, InReply, Owned,
       Ended, Queued, Held, Null
<1>4. Ended'
    BY DEF TypeOK, Locked, Ended
<1>5. Protected'
    BY GivenUp DEF TypeOK, WriterStates, ListenerStates, Locked, InFrame, InReply, Owned,
       Ended, Queued, Protected, Null
<1>6. QED
    BY <1>1, <1>2, <1>3, <1>4, <1>5

\* The listener lets the lock go with empty hands.
LEMMA ListenerUnlocksStep ==
    ASSUME IInv, ListenerUnlocks
    PROVE  IInv'
<1> USE DEF IInv, ListenerUnlocks, transport, buffer
<1>1. TypeOK'
    <2>1. (ready \in BOOLEAN /\ rtx \in BOOLEAN /\ srtp \in BOOLEAN /\ isInit \in BOOLEAN)'
        BY Zenon DEF TypeOK
    <2>2. listener' = [pc |-> IF listener.seqNumList = <<>> THEN "idle" ELSE "lock",
                       seqNumList |-> listener.seqNumList,
                       block |-> listener.block, protected |-> listener.protected]
        BY Zenon DEF TypeOK, ListenerStates
    <2>3. listener' \in ListenerStates
        BY <2>2, MediaSendAssumption DEF TypeOK, ListenerStates, Locked, Owned
    <2>4. QED
        BY <2>1, <2>3, MediaSendAssumption DEF TypeOK, Entries, Null
<1>2. Locked'
    BY DEF TypeOK, WriterStates, ListenerStates, Locked, InFrame, InReply
<1>3. Owned'
    BY DEF TypeOK, WriterStates, ListenerStates, Locked, InFrame, InReply, Owned,
       Ended, Queued, Held, Null
<1>4. Ended'
    BY DEF TypeOK, Locked, Ended
<1>5. Protected'
    BY DEF TypeOK, WriterStates, ListenerStates, Locked, InFrame, InReply, Owned,
       Ended, Queued, Protected, Null
<1>6. QED
    BY <1>1, <1>2, <1>3, <1>4, <1>5

\* No host candidate is left before the SRTP sessions are freed.
LEMMA DestroyIceControllerStep ==
    ASSUME IInv, DestroyIceController
    PROVE  IInv'
<1> USE DEF IInv, DestroyIceController, transport, buffer
<1>1. TypeOK'
    <2>1. (ready \in BOOLEAN /\ rtx \in BOOLEAN /\ srtp \in BOOLEAN /\ isInit \in BOOLEAN)'
        BY Zenon DEF TypeOK
    <2>2. QED
        BY <2>1, MediaSendAssumption DEF TypeOK, Entries, Null
<1>2. Locked'
    BY DEF TypeOK, WriterStates, ListenerStates, Locked, InFrame, InReply
<1>3. Owned'
    BY DEF TypeOK, WriterStates, ListenerStates, Locked, InFrame, InReply, Owned,
       Ended, Queued, Held, Null
<1>4. Ended'
    BY DEF TypeOK, Locked, Ended
<1>5. Protected'
    BY DEF TypeOK, WriterStates, ListenerStates, Locked, InFrame, InReply, Owned,
       Ended, Queued, Protected, Null
<1>6. QED
    BY <1>1, <1>2, <1>3, <1>4, <1>5

\* The sessions are freed when no host candidate is nominated.
LEMMA FreeSrtpSessionsStep ==
    ASSUME IInv, FreeSrtpSessions
    PROVE  IInv'
<1> USE DEF IInv, FreeSrtpSessions, transport, buffer
<1>1. TypeOK'
    <2>1. (ready \in BOOLEAN /\ rtx \in BOOLEAN /\ srtp \in BOOLEAN /\ isInit \in BOOLEAN)'
        BY Zenon DEF TypeOK
    <2>2. QED
        BY <2>1, MediaSendAssumption DEF TypeOK, Entries, Null
<1>2. Locked'
    BY DEF TypeOK, WriterStates, ListenerStates, Locked, InFrame, InReply
<1>3. Owned'
    BY DEF TypeOK, WriterStates, ListenerStates, Locked, InFrame, InReply, Owned,
       Ended, Queued, Held, Null
<1>4. Ended'
    BY DEF TypeOK, Locked, Ended
<1>5. Protected'
    BY DEF TypeOK, WriterStates, ListenerStates, Locked, InFrame, InReply, Owned,
       Ended, Queued, Protected, Null
<1>6. QED
    BY <1>1, <1>2, <1>3, <1>4, <1>5

\* The closer gets the lock, so no other task has a block in hand.
LEMMA CloserLocksStep ==
    ASSUME IInv, CloserLocks
    PROVE  IInv'
<1> USE DEF IInv, CloserLocks, transport, buffer
<1>1. TypeOK'
    <2>1. (ready \in BOOLEAN /\ rtx \in BOOLEAN /\ srtp \in BOOLEAN /\ isInit \in BOOLEAN)'
        BY Zenon DEF TypeOK
    <2>2. QED
        BY <2>1, MediaSendAssumption DEF TypeOK, Entries, Null
<1>2. Locked'
    BY DEF TypeOK, WriterStates, ListenerStates, Locked, InFrame, InReply
<1>3. Owned'
    BY DEF TypeOK, WriterStates, ListenerStates, Locked, InFrame, InReply, Owned,
       Ended, Queued, Held, Null
<1>4. Ended'
    BY DEF TypeOK, Locked, Ended
<1>5. Protected'
    BY DEF TypeOK, WriterStates, ListenerStates, Locked, InFrame, InReply, Owned,
       Ended, Queued, Protected, Null
<1>6. QED
    BY <1>1, <1>2, <1>3, <1>4, <1>5

\* Every listed block is freed, and no other is allocated.
LEMMA FreeRollingBufferStep ==
    ASSUME IInv, FreeRollingBuffer
    PROVE  IInv'
<1> USE DEF IInv, FreeRollingBuffer, transport, buffer
<1>1. TypeOK'
    <2>1. (ready \in BOOLEAN /\ rtx \in BOOLEAN /\ srtp \in BOOLEAN /\ isInit \in BOOLEAN)'
        BY Zenon DEF TypeOK
    <2>2. QED
        BY <2>1, MediaSendAssumption DEF TypeOK, Entries, Null
<1>2. Locked'
    BY DEF TypeOK, WriterStates, ListenerStates, Locked, InFrame, InReply
<1>3. Owned'
    BY DEF TypeOK, WriterStates, ListenerStates, Locked, InFrame, InReply, Owned,
       Ended, Queued, Held, Null
<1>4. Ended'
    BY DEF TypeOK, Locked, Ended
<1>5. Protected'
    BY DEF TypeOK, WriterStates, ListenerStates, Locked, InFrame, InReply, Owned,
       Ended, Queued, Protected, Null
<1>6. QED
    BY <1>1, <1>2, <1>3, <1>4, <1>5

-----------------------------------------------------------------------------
(***************************************************************************)
(* The theorems.                                                           *)
(***************************************************************************)
\* Every step keeps the invariant, whichever task makes it.
LEMMA Inductive == IInv /\ [Next]_vars => IInv'
<1> SUFFICES ASSUME IInv, [Next]_vars PROVE IInv'
    OBVIOUS
<1>1. CASE Writer
    BY <1>1, WriterLocksStep, WriterTimesOutStep, GetPacketStep, ConstructPacketStep,
       ConstructFailsStep, StorePacketStep, WriterUnlocksStep, SendPacketStep DEF Writer
<1>2. CASE Listener
    BY <1>2, ListenerLocksStep, SearchPacketStep, ConstructAgainStep, ListenerUnlocksStep,
       ResendPacketStep DEF Listener
<1>3. CASE Closer
    BY <1>3, DestroyIceControllerStep, FreeSrtpSessionsStep, CloserLocksStep, FreeRollingBufferStep
    DEF Closer
<1>4. CASE Start \/ CloseSession \/ TurnReleased
    BY <1>4, StartStep, CloseSessionStep, TurnReleasedStep
<1>5. CASE \E n \in 1 .. FrameMax : WriteFrame(n)
    BY <1>5, WriteFrameStep
<1>6. CASE \E list \in NackLists : ReceiveNack(list)
    BY <1>6, ReceiveNackStep
<1>7. CASE UNCHANGED vars
    BY <1>7 DEF vars, transport, buffer, IInv, TypeOK, WriterStates, ListenerStates, Locked,
       Owned, Ended, Protected, Queued, Held
<1>8. QED
    BY <1>1, <1>2, <1>3, <1>4, <1>5, <1>6, <1>7 DEF Next

\* The invariant holds in every state of every behaviour.
LEMMA Always == Spec => []IInv
<1>1. Init => IInv
    BY Initially
<1>2. IInv /\ [Next]_vars => IInv'
    BY Inductive
<1>3. QED
    BY <1>1, <1>2, PTL DEF Spec

\* The types of the sending side hold for a heap, a rolling buffer and frames of
\* any size.
THEOREM TypeCorrect == Spec => []TypeOK
<1>1. IInv => TypeOK
    BY DEF IInv
<1>2. QED
    BY <1>1, Always, PTL

\* No task ever reads a packet that eviction, a failed frame or DeInit has freed.
THEOREM NoUseAfterFreeSafe == Spec => []NoUseAfterFree
<1>1. IInv => NoUseAfterFree
    BY DEF IInv, Owned, NoUseAfterFree, Held
<1>2. QED
    BY <1>1, Always, PTL

\* No packet stays allocated that neither the list nor the writer holds.
THEOREM NothingLeaksSafe == Spec => []NothingLeaks
<1>1. IInv => NothingLeaks
    BY DEF IInv, Owned, NothingLeaks
<1>2. QED
    BY <1>1, Always, PTL

\* Nothing unprotected is sent through a host candidate while a session closes.
THEOREM ProtectedSafe == Spec => []SentOverHostIsProtected
<1>1. IInv => SentOverHostIsProtected
    BY DEF IInv, Protected, SentOverHostIsProtected
<1>2. QED
    BY <1>1, Always, PTL

-----------------------------------------------------------------------------
(***************************************************************************)
(* The window of packets kept for retransmission.                          *)
(***************************************************************************)
\* The first half of WindowIsNewest; the second is part of Owned.
NumbersFollow ==
    \A i \in 1 .. Len(packetQueue) :
        Next1(packetQueue[i].seqNum) = IF i = Len(packetQueue) THEN videoSequenceNumber
                                       ELSE packetQueue[i + 1].seqNum

\* The number given to the packet stored is the one after the last in the list.
LEMMA StoreNumbers ==
    ASSUME IInv, NumbersFollow, StorePacket
    PROVE  NumbersFollow'
<1> USE DEF IInv
<1> DEFINE b == writer.block
           gone == IF Len(packetQueue) = Capacity THEN 1 ELSE 0
<1>1. /\ isInit /\ b \in Blocks /\ packetQueue \in Seq(Entries)
      /\ Len(packetQueue) <= Capacity /\ videoSequenceNumber \in SeqNums
    BY DEF StorePacket, TypeOK, WriterStates, Owned
<1>2. SetPacket(videoSequenceNumber, b) /\ videoSequenceNumber' = Next1(videoSequenceNumber)
    BY DEF StorePacket
<1>3. /\ packetQueue' \in Seq(Entries)
      /\ Len(packetQueue') = Len(packetQueue) - gone + 1
      /\ packetQueue'[Len(packetQueue')] = [seqNum |-> videoSequenceNumber, block |-> b]
      /\ \A i \in 1 .. Len(packetQueue') - 1 : packetQueue'[i] = packetQueue[i + gone]
    BY <1>1, <1>2, ListStep
<1>4. /\ Len(packetQueue) \in Nat /\ gone \in {0, 1} /\ gone <= Len(packetQueue)
      /\ Len(packetQueue') \in Nat
    BY <1>1, <1>3, MediaSendAssumption
<1>5. packetQueue'[Len(packetQueue')].seqNum = videoSequenceNumber
    BY <1>3
<1>6. ASSUME NEW i \in 1 .. Len(packetQueue')
      PROVE  Next1(packetQueue'[i].seqNum) =
                 IF i = Len(packetQueue') THEN videoSequenceNumber'
                 ELSE packetQueue'[i + 1].seqNum
    <2>1. CASE i = Len(packetQueue')
        BY <1>2, <1>5, <2>1
    <2>2. CASE i = Len(packetQueue') - 1
        <3>1. i + gone = Len(packetQueue) /\ i + gone \in 1 .. Len(packetQueue)
            BY <1>3, <1>4, <2>2
        <3>2. packetQueue'[i] = packetQueue[i + gone] /\ i + 1 = Len(packetQueue')
            BY <1>3, <1>4, <2>2
        <3>3. QED
            BY <1>4, <1>5, <2>2, <3>1, <3>2 DEF NumbersFollow
    <2>3. CASE i < Len(packetQueue') - 1
        <3>1. PICK k \in 1 .. Len(packetQueue) :
                  k = i + gone /\ k # Len(packetQueue) /\ k + 1 = (i + 1) + gone
            BY <1>3, <1>4, <2>3
        <3>2. Next1(packetQueue[k].seqNum) = packetQueue[k + 1].seqNum
            BY <3>1 DEF NumbersFollow
        <3>3. packetQueue'[i] = packetQueue[k] /\ packetQueue'[i + 1] = packetQueue[k + 1]
            BY <1>3, <1>4, <2>3, <3>1
        <3>4. QED
            BY <1>4, <2>3, <3>2, <3>3
    <2>4. QED
        BY <1>4, <2>1, <2>2, <2>3
<1>7. QED
    BY <1>6 DEF NumbersFollow

\* Only Start, StorePacket and FreeRollingBuffer touch the list.
LEMMA NumbersStep == IInv /\ NumbersFollow /\ [Next]_vars => NumbersFollow'
<1> SUFFICES ASSUME IInv, NumbersFollow, [Next]_vars PROVE NumbersFollow'
    OBVIOUS
<1>1. CASE StorePacket
    BY <1>1, StoreNumbers
<1>2. CASE Start \/ FreeRollingBuffer
    <2>1. packetQueue' = <<>> \/ UNCHANGED <<packetQueue, videoSequenceNumber>>
        BY <1>2 DEF Start, FreeRollingBuffer
    <2>2. QED
        BY <2>1 DEF NumbersFollow
<1>3. CASE UNCHANGED <<packetQueue, videoSequenceNumber>>
    BY <1>3 DEF NumbersFollow
<1>4. Next => StorePacket \/ Start \/ FreeRollingBuffer
              \/ UNCHANGED <<packetQueue, videoSequenceNumber>>
    BY DEF Next, Writer, Listener, Closer, CloseSession, TurnReleased, WriteFrame,
           ReceiveNack, WriterLocks, WriterTimesOut, GetPacket, ConstructPacket,
           ConstructFails, SendPacket, WriterUnlocks, ListenerLocks, SearchPacket,
           ConstructAgain, ResendPacket, ListenerUnlocks, DestroyIceController,
           FreeSrtpSessions, CloserLocks, buffer, transport
<1>5. QED
    BY <1>1, <1>2, <1>3, <1>4 DEF vars, buffer

\* The packets kept are the newest, under consecutive numbers, each block once,
\* across wraps of the number, new sessions and frames that fail half-way.
THEOREM WindowSafe == Spec => []WindowIsNewest
<1>1. Init => IInv /\ NumbersFollow
    BY Initially DEF Init, NumbersFollow
<1>2. (IInv /\ NumbersFollow) /\ [Next]_vars => (IInv /\ NumbersFollow)'
    BY Inductive, NumbersStep
<1>3. IInv /\ NumbersFollow => WindowIsNewest
    BY DEF IInv, Owned, NumbersFollow, WindowIsNewest
<1>4. QED
    BY <1>1, <1>2, <1>3, PTL DEF Spec

-----------------------------------------------------------------------------
(***************************************************************************)
(* What a NACK is answered with.  The entry i of the list has the number   *)
(* Len + 1 - i before the next one, so two entries have the same number    *)
(* only after a whole turn, which the list is too short for.               *)
(***************************************************************************)
\* The sequence number d before the next one.
Back(d) == IF d <= videoSequenceNumber THEN videoSequenceNumber - d
           ELSE videoSequenceNumber + SeqModulus - d

Numbered ==
    \A i \in 1 .. Len(packetQueue) :
        packetQueue[i].seqNum = Back(Len(packetQueue) + 1 - i)

\* A listed packet is the one last stored under its number.
Kept ==
    \A i \in 1 .. Len(packetQueue) :
        packet[packetQueue[i].block].payload = original[packetQueue[i].seqNum]

\* The packet in the listener's hand is listed under the number asked for.
Asked ==
    listener.block # Null =>
        \E i \in 1 .. Len(packetQueue) :
            /\ packetQueue[i].block = listener.block
            /\ packetQueue[i].seqNum = Head(listener.seqNumList)

Answered == Numbered /\ Kept /\ Asked

\* The number after the last one is 0.
LEMMA Next1Is ==
    ASSUME NEW s \in SeqNums
    PROVE  Next1(s) = IF s + 1 = SeqModulus THEN 0 ELSE s + 1
<1>1. SeqModulus \in Nat /\ SeqModulus > 0 /\ s \in Nat /\ s < SeqModulus
    BY MediaSendAssumption DEF SeqNums
<1>2. CASE s + 1 = SeqModulus
    BY <1>1, <1>2 DEF Next1
<1>3. CASE s + 1 < SeqModulus
    BY <1>1, <1>3 DEF Next1
<1>4. QED
    BY <1>1, <1>2, <1>3

\* The packet stored takes a number no packet that stays has, and the others are
\* one further back than they were.
LEMMA StoreNumbered ==
    ASSUME IInv, Numbered, StorePacket
    PROVE  /\ Numbered'
           /\ \A i \in 1 .. Len(packetQueue) : packetQueue[i].seqNum # videoSequenceNumber
<1> USE DEF IInv
<1> DEFINE b == writer.block
           gone == IF Len(packetQueue) = Capacity THEN 1 ELSE 0
<1>1. /\ isInit /\ b \in Blocks /\ packetQueue \in Seq(Entries)
      /\ Len(packetQueue) <= Capacity /\ videoSequenceNumber \in SeqNums
    BY DEF StorePacket, TypeOK, WriterStates, Owned
<1>2. SetPacket(videoSequenceNumber, b) /\ videoSequenceNumber' = Next1(videoSequenceNumber)
    BY DEF StorePacket
<1>3. /\ Len(packetQueue') = Len(packetQueue) - gone + 1
      /\ Len(packetQueue') <= Capacity
      /\ packetQueue'[Len(packetQueue')] = [seqNum |-> videoSequenceNumber, block |-> b]
      /\ \A i \in 1 .. Len(packetQueue') - 1 : packetQueue'[i] = packetQueue[i + gone]
    BY <1>1, <1>2, ListStep
<1>4. /\ Len(packetQueue) \in Nat /\ gone \in {0, 1} /\ gone <= Len(packetQueue)
      /\ Len(packetQueue') \in Nat /\ Capacity \in Nat /\ SeqModulus \in Nat
      /\ Capacity < SeqModulus
      /\ videoSequenceNumber \in Nat /\ videoSequenceNumber < SeqModulus
    BY <1>1, <1>3, MediaSendAssumption DEF SeqNums
<1>5. videoSequenceNumber' = IF videoSequenceNumber + 1 = SeqModulus THEN 0
                             ELSE videoSequenceNumber + 1
    BY <1>1, <1>2, Next1Is
<1>6. ASSUME NEW i \in 1 .. Len(packetQueue')
      PROVE  packetQueue'[i].seqNum = Back(Len(packetQueue) + 1 - i)'
    <2>1. CASE i = Len(packetQueue')
        <3>1. packetQueue'[i].seqNum = videoSequenceNumber
            BY <1>3, <2>1
        <3>2. Len(packetQueue') + 1 - i = 1
            BY <1>4, <2>1
        <3>3. QED
            BY <1>4, <1>5, <3>1, <3>2 DEF Back
    <2>2. CASE i # Len(packetQueue')
        <3>1. PICK k \in 1 .. Len(packetQueue) : k = i + gone
            BY <1>3, <1>4, <2>2
        <3>2. packetQueue'[i] = packetQueue[k]
            BY <1>3, <1>4, <2>2, <3>1
        <3>3. packetQueue[k].seqNum = Back(Len(packetQueue) + 1 - k)
            BY DEF Numbered
        <3>4. PICK d \in Nat : /\ d = Len(packetQueue) + 1 - k /\ d <= Capacity
                               /\ Len(packetQueue') + 1 - i = d + 1
            <4>1. Len(packetQueue) + 1 - k \in Nat /\ Len(packetQueue) + 1 - k <= Capacity
                BY <1>1, <1>4, <3>1
            <4>2. Len(packetQueue') + 1 - i = (Len(packetQueue) + 1 - k) + 1
                BY <1>3, <1>4, <3>1
            <4>3. QED
                BY <4>1, <4>2
        <3>5. packetQueue'[i].seqNum = Back(d)
            BY <3>2, <3>3, <3>4
        <3>6. Back(d) = Back(d + 1)'
            <4>1. CASE videoSequenceNumber + 1 = SeqModulus
                BY <1>4, <1>5, <3>4, <4>1 DEF Back
            <4>2. CASE videoSequenceNumber + 1 # SeqModulus
                BY <1>4, <1>5, <3>4, <4>2 DEF Back
            <4>3. QED
                BY <4>1, <4>2
        <3>7. QED
            BY <3>4, <3>5, <3>6 DEF Back
    <2>3. QED
        BY <2>1, <2>2
<1>7. ASSUME NEW i \in 1 .. Len(packetQueue)
      PROVE  packetQueue[i].seqNum # videoSequenceNumber
    <2>1. PICK d \in Nat : d = Len(packetQueue) + 1 - i /\ 0 < d /\ d < SeqModulus
        BY <1>1, <1>4
    <2>2. packetQueue[i].seqNum = Back(d)
        BY <2>1 DEF Numbered
    <2>3. QED
        BY <1>4, <2>1, <2>2 DEF Back
<1>8. QED
    BY <1>6, <1>7 DEF Numbered

\* The numbers follow the list, which only Start, StorePacket and
\* FreeRollingBuffer touch.
LEMMA NumberedStep ==
    ASSUME IInv, Numbered, [Next]_vars
    PROVE  Numbered'
<1>1. CASE StorePacket
    BY <1>1, StoreNumbered
<1>2. CASE Start \/ FreeRollingBuffer
    <2>1. packetQueue' = <<>> \/ UNCHANGED <<packetQueue, videoSequenceNumber>>
        BY <1>2 DEF Start, FreeRollingBuffer
    <2>2. QED
        BY <2>1 DEF Numbered, Back
<1>3. CASE UNCHANGED <<packetQueue, videoSequenceNumber>>
    BY <1>3 DEF Numbered, Back
<1>4. Next => StorePacket \/ Start \/ FreeRollingBuffer
              \/ UNCHANGED <<packetQueue, videoSequenceNumber>>
    BY DEF Next, Writer, Listener, Closer, CloseSession, TurnReleased, WriteFrame,
           ReceiveNack, WriterLocks, WriterTimesOut, GetPacket, ConstructPacket,
           ConstructFails, SendPacket, WriterUnlocks, ListenerLocks, SearchPacket,
           ConstructAgain, ResendPacket, ListenerUnlocks, DestroyIceController,
           FreeSrtpSessions, CloserLocks, buffer, transport
<1>5. QED
    BY <1>1, <1>2, <1>3, <1>4 DEF vars, buffer

\* A packet is written only in the writer's hand, and the number of the packet
\* stored is no other's.
LEMMA KeptStep ==
    ASSUME IInv, Numbered, Kept, [Next]_vars
    PROVE  Kept'
<1> USE DEF IInv
<1>1. CASE ConstructPacket
    <2>1. packetQueue' = packetQueue /\ original' = original
        BY <1>1 DEF ConstructPacket
    <2>2. writer.block \notin Queued
        BY <1>1 DEF ConstructPacket, Owned
    <2>3. ASSUME NEW i \in 1 .. Len(packetQueue)
          PROVE  packet'[packetQueue[i].block] = packet[packetQueue[i].block]
        <3>1. packetQueue[i] \in Entries
            BY DEF TypeOK
        <3>2. packetQueue[i].block \in Blocks /\ packetQueue[i].block # writer.block
            BY <2>2, <3>1 DEF Entries, Queued
        <3>3. QED
            BY <1>1, <3>2 DEF ConstructPacket, TypeOK
    <2>4. QED
        BY <2>1, <2>3 DEF Kept
<1>2. CASE StorePacket
    <2> DEFINE b == writer.block
               gone == IF Len(packetQueue) = Capacity THEN 1 ELSE 0
    <2>1. /\ isInit /\ b \in Blocks /\ packetQueue \in Seq(Entries)
          /\ Len(packetQueue) <= Capacity /\ videoSequenceNumber \in SeqNums
          /\ original \in [SeqNums -> Nat]
        BY <1>2 DEF StorePacket, TypeOK, WriterStates, Owned
    <2>2. SetPacket(videoSequenceNumber, b) /\ packet' = packet
        BY <1>2 DEF StorePacket
    <2>3. /\ Len(packetQueue') = Len(packetQueue) - gone + 1
          /\ packetQueue'[Len(packetQueue')] = [seqNum |-> videoSequenceNumber, block |-> b]
          /\ \A i \in 1 .. Len(packetQueue') - 1 : packetQueue'[i] = packetQueue[i + gone]
        BY <2>1, <2>2, ListStep
    <2>4. original' = [original EXCEPT ![videoSequenceNumber] = packet[b].payload]
        BY <2>1, <2>2 DEF SetPacket
    <2>5. ASSUME NEW i \in 1 .. Len(packetQueue')
          PROVE  packet'[packetQueue'[i].block].payload = original'[packetQueue'[i].seqNum]
        <3>1. CASE i = Len(packetQueue')
            BY <2>1, <2>2, <2>3, <2>4, <3>1
        <3>2. CASE i # Len(packetQueue')
            <4>1. PICK k \in 1 .. Len(packetQueue) : k = i + gone
                BY <2>1, <2>3, <3>2, MediaSendAssumption
            <4>2. packetQueue'[i] = packetQueue[k]
                BY <2>1, <2>3, <3>2, <4>1, MediaSendAssumption
            <4>3. packetQueue[k].seqNum # videoSequenceNumber
                BY <1>2, StoreNumbered
            <4>4. packetQueue[k].seqNum \in SeqNums
                <5>1. packetQueue[k] \in Entries
                    BY <2>1
                <5>2. QED
                    BY <5>1 DEF Entries
            <4>5. original'[packetQueue[k].seqNum] = original[packetQueue[k].seqNum]
                BY <2>1, <2>4, <4>3, <4>4
            <4>6. QED
                BY <2>2, <4>2, <4>5 DEF Kept
        <3>3. QED
            BY <3>1, <3>2
    <2>6. QED
        BY <2>5 DEF Kept
<1>3. CASE Start \/ FreeRollingBuffer
    <2>1. /\ packetQueue' = <<>> \/ UNCHANGED packetQueue
          /\ UNCHANGED <<packet, original>>
        BY <1>3 DEF Start, FreeRollingBuffer
    <2>2. QED
        BY <2>1 DEF Kept
<1>4. CASE UNCHANGED <<packetQueue, packet, original>>
    BY <1>4 DEF Kept
<1>5. Next => ConstructPacket \/ StorePacket \/ Start \/ FreeRollingBuffer
              \/ UNCHANGED <<packetQueue, packet, original>>
    BY DEF Next, Writer, Listener, Closer, CloseSession, TurnReleased, WriteFrame,
           ReceiveNack, WriterLocks, WriterTimesOut, GetPacket,
           ConstructFails, SendPacket, WriterUnlocks, ListenerLocks, SearchPacket,
           ConstructAgain, ResendPacket, ListenerUnlocks, DestroyIceController,
           FreeSrtpSessions, CloserLocks, buffer, transport
<1>6. QED
    BY <1>1, <1>2, <1>3, <1>4, <1>5 DEF vars, buffer

\* The list does not change while the listener has a packet in hand: it holds
\* the lock.
LEMMA AskedStep ==
    ASSUME IInv, Asked, [Next]_vars
    PROVE  Asked'
<1> USE DEF IInv
<1>1. CASE SearchPacket
    <2>1. packetQueue' = packetQueue
        BY <1>1 DEF SearchPacket, buffer
    <2>2. CASE listener' = ListEnded
        BY <2>2, GivenUp DEF TypeOK, Asked
    <2>3. CASE listener' # ListEnded
        <3>1. PICK i \in Matching(Head(listener.seqNumList)) :
                  listener' = [listener EXCEPT !.block = packetQueue[i].block,
                                               !.pc = IF rtx THEN "construct" ELSE "send",
                                               !.protected =
                                                   packet[packetQueue[i].block].protected]
            BY <1>1, <2>3 DEF SearchPacket
        <3>2. /\ listener'.block = packetQueue[i].block
              /\ listener'.seqNumList = listener.seqNumList
            BY <3>1 DEF TypeOK, ListenerStates
        <3>3. i \in 1 .. Len(packetQueue) /\ packetQueue[i].seqNum = Head(listener.seqNumList)
            BY DEF Matching
        <3>4. QED
            BY <2>1, <3>2, <3>3 DEF Asked
    <2>4. QED
        BY <2>2, <2>3
<1>2. CASE ConstructAgain
    <2>1. packetQueue' = packetQueue
        BY <1>2 DEF ConstructAgain, buffer
    <2>2. CASE listener' = ListEnded
        BY <2>2, GivenUp DEF TypeOK, Asked
    <2>3. CASE listener' # ListEnded
        <3>1. listener'.block = listener.block /\ listener'.seqNumList = listener.seqNumList
            BY <1>2, <2>3 DEF ConstructAgain, TypeOK, ListenerStates
        <3>2. QED
            BY <2>1, <3>1 DEF Asked
    <2>4. QED
        BY <2>2, <2>3
<1>3. CASE \E sent \in BOOLEAN : ResendPacket(sent)
    <2>1. PICK sent \in BOOLEAN : ResendPacket(sent)
        BY <1>3
    <2>2. listener'.block = Null
        BY <2>1, GivenUp DEF ResendPacket, ListEnded, TypeOK, ListenerStates
    <2>3. QED
        BY <2>2 DEF Asked
<1>4. CASE ListenerLocks \/ ListenerUnlocks \/ \E list \in NackLists : ReceiveNack(list)
    <2>1. listener.block = Null
        BY <1>4 DEF ListenerLocks, ListenerUnlocks, ReceiveNack, Owned
    <2>2. listener'.block = listener.block
        BY <1>4 DEF ListenerLocks, ListenerUnlocks, ReceiveNack, TypeOK, ListenerStates
    <2>3. QED
        BY <2>1, <2>2 DEF Asked
<1>5. CASE Start \/ StorePacket \/ FreeRollingBuffer
    <2>1. listener.block = Null
        BY <1>5 DEF Start, StorePacket, FreeRollingBuffer, Owned, Locked, InFrame, InReply
    <2>2. listener' = listener
        BY <1>5 DEF Start, StorePacket, FreeRollingBuffer
    <2>3. QED
        BY <2>1, <2>2 DEF Asked
<1>6. CASE UNCHANGED <<packetQueue, listener>>
    BY <1>6 DEF Asked
<1>7. Next => \/ SearchPacket \/ ConstructAgain \/ \E sent \in BOOLEAN : ResendPacket(sent)
              \/ ListenerLocks \/ ListenerUnlocks \/ \E list \in NackLists : ReceiveNack(list)
              \/ Start \/ StorePacket \/ FreeRollingBuffer
              \/ UNCHANGED <<packetQueue, listener>>
    BY DEF Next, Writer, Listener, Closer, CloseSession, TurnReleased, WriteFrame,
           WriterLocks, WriterTimesOut, GetPacket, ConstructPacket,
           ConstructFails, SendPacket, WriterUnlocks, DestroyIceController,
           FreeSrtpSessions, CloserLocks, buffer, transport
<1>8. QED
    BY <1>1, <1>2, <1>3, <1>4, <1>5, <1>6, <1>7 DEF vars, buffer

\* A NACK is answered with the packet that carried the asked number last, for any
\* capacity below the number of sequence numbers, also when the blocks of the
\* heap were used again and another session has begun.
THEOREM AskedPacketIsSentSafe == Spec => []AskedPacketIsSent
<1>1. Init => IInv /\ Answered
    BY Initially DEF Init, Answered, Numbered, Kept, Asked
<1>2. (IInv /\ Answered) /\ [Next]_vars => (IInv /\ Answered)'
    BY Inductive, NumberedStep, KeptStep, AskedStep DEF Answered
<1>3. IInv /\ Answered => AskedPacketIsSent
    BY DEF Answered, Kept, Asked, AskedPacketIsSent
<1>4. QED
    BY <1>1, <1>2, <1>3, PTL DEF Spec

-----------------------------------------------------------------------------
(***************************************************************************)
(* The refinement of RetransmitStore.  StorePacket is Store, SearchPacket  *)
(* that finds a packet is Answer, and the listener's block does not change *)
(* hands while the lock is held; the other steps are stutters.             *)
(***************************************************************************)
\* The packet about to be stored is the one built last.
Fresh == writer.pc = "set" => packet[writer.block].payload = packets

newest == IF writer.pc = "set" THEN packets - 1 ELSE packets

\* Only ConstructPacket builds a packet, and StorePacket follows it.
LEMMA FreshStep ==
    ASSUME IInv, Fresh, [Next]_vars
    PROVE  Fresh'
<1> USE DEF IInv
<1>1. CASE ConstructPacket
    <2>1. writer.block \in Blocks /\ writer'.block = writer.block
        BY <1>1 DEF ConstructPacket, TypeOK, WriterStates, Owned
    <2>2. packet'[writer.block].payload = packets + 1 /\ packets' = packets + 1
        BY <1>1, <2>1 DEF ConstructPacket, TypeOK
    <2>3. QED
        BY <2>1, <2>2 DEF Fresh
<1>2. CASE UNCHANGED <<packet, packets>> /\ (writer'.pc = "set" => writer' = writer)
    BY <1>2 DEF Fresh
<1>3. ASSUME Writer, ~ConstructPacket
      PROVE  UNCHANGED <<packet, packets>> /\ writer'.pc # "set"
    BY <1>3 DEF Writer, WriterLocks, WriterTimesOut, GetPacket, ConstructFails, StorePacket,
           SendPacket, WriterUnlocks, WriterGoes, TypeOK, WriterStates, buffer
<1>4. ASSUME NEW n \in 1 .. FrameMax, WriteFrame(n)
      PROVE  UNCHANGED <<packet, packets>> /\ writer'.pc # "set"
    BY <1>4 DEF WriteFrame, TypeOK, WriterStates, buffer
<1>5. [Next]_vars => \/ ConstructPacket \/ (Writer /\ ~ConstructPacket)
                     \/ \E n \in 1 .. FrameMax : WriteFrame(n)
                     \/ UNCHANGED <<packet, packets, writer>>
    BY DEF vars, Next, Listener, Closer, Start, CloseSession, TurnReleased, ReceiveNack,
           ListenerLocks, SearchPacket, ConstructAgain, ResendPacket, ListenerUnlocks,
           DestroyIceController, FreeSrtpSessions, CloserLocks, FreeRollingBuffer, buffer,
           transport
<1>6. QED
    BY <1>1, <1>2, <1>3, <1>4, <1>5

\* Steps that leave the list, the payloads of the listed packets and the
\* listener's block alone leave RetransmitStore as it was.
LEMMA Stutter ==
    ASSUME UNCHANGED <<isInit, packetQueue, videoSequenceNumber>>, newest' = newest,
           \A i \in 1 .. Len(packetQueue) :
               packet'[packetQueue[i].block].payload = packet[packetQueue[i].block].payload,
           answer' = answer
    PROVE  UNCHANGED Retransmit!store
<1>1. window' = window
    BY DEF window
<1>2. QED
    BY <1>1 DEF Retransmit!store, newest

\* The oldest packet goes if the store is full, and the new one comes last.
LEMMA WindowGrows ==
    ASSUME IInv, Fresh, StorePacket
    PROVE  window' = Append(IF Len(window) = Capacity THEN Tail(window) ELSE window, packets)
<1> USE DEF IInv
<1> DEFINE gone == IF Len(packetQueue) = Capacity THEN 1 ELSE 0
           kept == IF Len(window) = Capacity THEN Tail(window) ELSE window
           longer == Append(kept, packets)
           payload(i) == packet[packetQueue[i].block].payload
<1>1. /\ isInit /\ writer.block \in Blocks /\ packetQueue \in Seq(Entries)
      /\ Len(packetQueue) <= Capacity /\ videoSequenceNumber \in SeqNums
      /\ Capacity \in Nat \ {0} /\ packets \in Nat
    BY MediaSendAssumption DEF StorePacket, TypeOK, WriterStates, Owned
<1>2. /\ SetPacket(videoSequenceNumber, writer.block) /\ packet' = packet
      /\ packet[writer.block].payload = packets
    BY DEF StorePacket, Fresh
<1>3. /\ Len(packetQueue') = Len(packetQueue) - gone + 1
      /\ packetQueue'[Len(packetQueue')] = [seqNum |-> videoSequenceNumber,
                                            block |-> writer.block]
      /\ \A i \in 1 .. Len(packetQueue') - 1 : packetQueue'[i] = packetQueue[i + gone]
    BY <1>1, <1>2, ListStep
<1>4. \A i \in 1 .. Len(packetQueue) : payload(i) \in Nat
    <2>1. ASSUME NEW i \in 1 .. Len(packetQueue) PROVE payload(i) \in Nat
        <3>1. packetQueue[i] \in Entries
            BY <1>1
        <3>2. packetQueue[i].block \in Blocks
            BY <3>1 DEF Entries
        <3>3. QED
            BY <3>2 DEF TypeOK
    <2>2. QED
        BY <2>1
<1>5. window \in Seq(Nat) /\ Len(window) = Len(packetQueue)
    BY <1>1, <1>4 DEF window
<1>6. \A i \in 1 .. Len(window) : window[i] = payload(i)
    BY <1>1, <1>5 DEF window
<1>7. /\ kept \in Seq(Nat) /\ Len(kept) = Len(window) - gone
      /\ \A i \in 1 .. Len(kept) : kept[i] = window[i + gone]
    <2> HIDE DEF payload
    <2>1. CASE Len(window) = Capacity
        <3>1. window # <<>>
            BY <1>1, <2>1
        <3>2. QED
            BY <1>1, <1>5, <2>1, <3>1
    <2>2. CASE Len(window) # Capacity
        BY <1>1, <1>5, <2>2
    <2>3. QED
        BY <2>1, <2>2
<1>8. gone \in {0, 1}
    OBVIOUS
<1>9. /\ longer \in Seq(Nat) /\ Len(longer) = Len(packetQueue')
      /\ longer = [i \in 1 .. Len(longer) |-> longer[i]]
    <2> HIDE DEF payload, gone, kept
    <2>1. longer \in Seq(Nat) /\ Len(longer) = Len(kept) + 1
        BY <1>1, <1>7
    <2>2. Len(longer) = Len(packetQueue')
        BY <1>1, <1>3, <1>5, <1>7, <1>8, <2>1
    <2> HIDE DEF longer
    <2>3. longer = [i \in 1 .. Len(longer) |-> longer[i]]
        BY <2>1
    <2>4. QED
        BY <2>1, <2>2, <2>3
<1>10. ASSUME NEW i \in 1 .. Len(packetQueue')
       PROVE  packet'[packetQueue'[i].block].payload = longer[i]
    <2>1. CASE i = Len(packetQueue')
        <3>1. packet'[packetQueue'[i].block].payload = packets
            BY <1>2, <1>3, <2>1
        <3> HIDE DEF kept, gone, payload
        <3>2. QED
            BY <1>1, <1>3, <1>5, <1>7, <2>1, <3>1
    <2>2. CASE i # Len(packetQueue')
        <3> HIDE DEF kept, gone, payload
        <3>1. i \in 1 .. Len(kept) /\ i \in 1 .. Len(packetQueue') - 1
            BY <1>1, <1>3, <1>5, <1>7, <1>8, <2>2
        <3>2. i + gone \in 1 .. Len(window)
            BY <1>1, <1>5, <1>7, <1>8, <3>1
        <3>3. longer[i] = payload(i + gone)
            BY <1>1, <1>6, <1>7, <3>1, <3>2
        <3>4. packet'[packetQueue'[i].block].payload = payload(i + gone)
            BY <1>2, <1>3, <3>1 DEF payload
        <3>5. QED
            BY <3>3, <3>4
    <2>3. QED
        BY <2>1, <2>2
<1>11. window' = [i \in 1 .. Len(packetQueue') |-> longer[i]]
    <2> HIDE DEF longer
    <2>1. QED
        BY <1>10 DEF window
<1>12. QED
    BY <1>9, <1>11

\* With nothing in the listener's hand no retransmission is in progress.
LEMMA NoAnswer ==
    ASSUME listener.block = Null, listener'.block = Null
    PROVE  answer = <<>> /\ answer' = <<>>
BY DEF answer

\* StorePacket stores one packet.
LEMMA StoreStep ==
    ASSUME IInv, Fresh, StorePacket
    PROVE  Retransmit!Store
<1> USE DEF IInv
<1>1. isInit /\ listener.block = Null
    BY DEF StorePacket, Owned, Locked, InFrame, InReply
<1>2. UNCHANGED <<isInit, packets, listener>>
    BY DEF StorePacket
<1>3. writer'.pc = "send"
    BY <1>1 DEF StorePacket, TypeOK, WriterStates
<1>4. newest = packets - 1 /\ newest' = packets /\ newest' = newest + 1
    BY <1>2, <1>3 DEF StorePacket, newest, TypeOK
<1>5. window' = Append(IF Len(window) = Capacity THEN Tail(window) ELSE window, newest')
    BY <1>4, WindowGrows
<1>6. videoSequenceNumber' = IF videoSequenceNumber + 1 = SeqModulus THEN 0
                             ELSE videoSequenceNumber + 1
    BY Next1Is DEF StorePacket, TypeOK
<1>7. answer = <<>> /\ answer' = <<>>
    BY <1>1, <1>2, NoAnswer
<1>8. QED
    BY <1>1, <1>2, <1>4, <1>5, <1>6, <1>7, Zenon DEF Retransmit!Store, newest

\* The packet found is kept under the number asked for.
LEMMA SearchStep ==
    ASSUME IInv, Numbered, SearchPacket
    PROVE  UNCHANGED Retransmit!store \/ \E k \in 1 .. Len(window) : Retransmit!Answer(k)
<1> USE DEF IInv
<1>1. UNCHANGED <<isInit, packetQueue, videoSequenceNumber, packet, packets, writer>>
    BY DEF SearchPacket, buffer
<1>2. window' = window /\ newest' = newest
    BY <1>1 DEF window, newest
<1>3. listener.block = Null
    BY DEF SearchPacket, Owned
<1>4. CASE listener' = ListEnded
    <2>1. answer' = answer
        BY <1>3, <1>4, GivenUp, NoAnswer DEF TypeOK
    <2>2. QED
        BY <1>1, <1>2, <2>1, Stutter
<1>5. CASE listener' # ListEnded
    <2>1. PICK i \in Matching(Head(listener.seqNumList)) :
              listener' = [listener EXCEPT !.block = packetQueue[i].block,
                                           !.pc = IF rtx THEN "construct" ELSE "send",
                                           !.protected =
                                               packet[packetQueue[i].block].protected]
        BY <1>5 DEF SearchPacket
    <2>2. /\ listener'.block = packetQueue[i].block
          /\ listener'.seqNumList = listener.seqNumList
        BY <2>1 DEF TypeOK, ListenerStates
    <2>3. /\ i \in 1 .. Len(packetQueue) /\ packetQueue[i].seqNum = Head(listener.seqNumList)
          /\ packetQueue[i].block # Null
        BY MatchingBlock DEF Matching
    <2>4. Len(window) = Len(packetQueue)
        BY DEF window, TypeOK
    <2>5. window[i] = packet[packetQueue[i].block].payload
        BY <2>3 DEF window
    <2>6. answer = <<>>
        BY <1>3 DEF answer
    <2>7. answer' = <<packetQueue[i].seqNum, window[i]>>
        BY <1>1, <2>2, <2>3, <2>5 DEF answer
    <2>8. packetQueue[i].seqNum = Retransmit!Number(i)
        BY <2>3, <2>4 DEF Numbered, Back, Retransmit!Number
    <2>9. Retransmit!Answer(i)
        BY <1>1, <1>2, <2>6, <2>7, <2>8 DEF Retransmit!Answer, newest
    <2>10. QED
        BY <2>3, <2>4, <2>9
<1>6. QED
    BY <1>4, <1>5

\* The listener keeps its block or drops it, and then the retransmission is over.
LEMMA ReplyStep ==
    ASSUME IInv, ConstructAgain \/ \E sent \in BOOLEAN : ResendPacket(sent)
    PROVE  UNCHANGED Retransmit!store \/ Retransmit!Answered
<1> USE DEF IInv
<1>1. UNCHANGED <<isInit, packetQueue, videoSequenceNumber, packet, packets, writer>>
    BY DEF ConstructAgain, ResendPacket, buffer
<1>2. window' = window /\ newest' = newest
    BY <1>1 DEF window, newest
<1>3. \/ listener'.block = listener.block /\ listener'.seqNumList = listener.seqNumList
      \/ listener'.block = Null
    BY GivenUp DEF ConstructAgain, ResendPacket, ListEnded, TypeOK, ListenerStates
<1>4. answer' = answer \/ answer' = <<>>
    BY <1>1, <1>3 DEF answer
<1>5. CASE answer' = answer
    BY <1>1, <1>2, <1>5, Stutter
<1>6. CASE answer' # answer
    BY <1>1, <1>2, <1>4, <1>6 DEF Retransmit!Answered, newest
<1>7. QED
    BY <1>5, <1>6

\* A packet is built in a block that is not listed, while no other is in hand.
LEMMA ConstructStutters ==
    ASSUME IInv, ConstructPacket
    PROVE  UNCHANGED Retransmit!store
<1> USE DEF IInv
<1>1. UNCHANGED <<isInit, packetQueue, videoSequenceNumber, listener>>
    BY DEF ConstructPacket
<1>2. newest' = newest
    <2>1. writer'.pc = "set" /\ packets' = packets + 1 /\ packets \in Nat
        BY DEF ConstructPacket, TypeOK, WriterStates
    <2>2. QED
        BY <2>1 DEF ConstructPacket, newest
<1>3. ASSUME NEW i \in 1 .. Len(packetQueue)
      PROVE  packet'[packetQueue[i].block].payload = packet[packetQueue[i].block].payload
    <2>1. packetQueue[i] \in Entries
        BY DEF TypeOK
    <2>2. packetQueue[i].block \in Blocks /\ packetQueue[i].block # writer.block
        BY <2>1 DEF ConstructPacket, Owned, Entries, Queued
    <2>3. QED
        BY <2>2 DEF ConstructPacket, TypeOK
<1>4. answer' = answer
    <2>1. listener.block = Null
        BY DEF ConstructPacket, Owned, Locked, InFrame, InReply
    <2>2. QED
        BY <1>1, <2>1, NoAnswer
<1>5. QED
    BY <1>1, <1>2, <1>3, <1>4, Stutter

\* The buffer is made and thrown away while nothing is retransmitted.
LEMMA SessionStep ==
    ASSUME IInv, Start \/ FreeRollingBuffer
    PROVE  UNCHANGED Retransmit!store \/ Retransmit!Open \/ Retransmit!Close
<1> USE DEF IInv
<1>1. listener.block = Null /\ UNCHANGED <<listener, packet, packets, writer>>
    BY DEF Start, FreeRollingBuffer, Owned, Locked, InReply
<1>2. answer = <<>> /\ answer' = <<>> /\ newest' = newest
    BY <1>1, NoAnswer DEF newest
<1>3. packetQueue = <<>> => window = <<>>
    BY DEF window
<1>4. packetQueue' = <<>> => window' = <<>>
    BY DEF window
<1>5. CASE Start
    <2>1. ~isInit /\ packetQueue = <<>>
        BY <1>5 DEF Start, Ended, Owned
    <2>2. isInit' = TRUE /\ packetQueue' = <<>> /\ videoSequenceNumber' = 0
        BY <1>5 DEF Start
    <2>3. QED
        BY <1>2, <1>3, <1>4, <2>1, <2>2 DEF Retransmit!Open, newest
<1>6. CASE FreeRollingBuffer /\ isInit
    <2>1. isInit' = FALSE /\ packetQueue' = <<>> /\ UNCHANGED videoSequenceNumber
        BY <1>6 DEF FreeRollingBuffer
    <2>2. QED
        BY <1>2, <1>4, <1>6, <2>1 DEF Retransmit!Close, newest
<1>7. CASE FreeRollingBuffer /\ ~isInit
    <2>1. UNCHANGED <<isInit, packetQueue, videoSequenceNumber>>
        BY <1>7, Zenon DEF FreeRollingBuffer, TypeOK
    <2>2. QED
        BY <1>1, <1>2, <2>1, Stutter
<1>8. QED
    BY <1>5, <1>6, <1>7

\* The other steps concern the lock, the transport and the place of the tasks.
Elsewhere ==
    \/ CloseSession \/ TurnReleased
    \/ \E n \in 1 .. FrameMax : WriteFrame(n)
    \/ \E list \in NackLists : ReceiveNack(list)
    \/ WriterLocks \/ WriterTimesOut \/ GetPacket \/ ConstructFails \/ WriterUnlocks
    \/ \E sent \in BOOLEAN : SendPacket(sent)
    \/ ListenerLocks \/ ListenerUnlocks
    \/ DestroyIceController \/ FreeSrtpSessions \/ CloserLocks

LEMMA ElsewhereStutters ==
    ASSUME IInv, Elsewhere
    PROVE  UNCHANGED Retransmit!store
<1> USE DEF IInv
<1>1. UNCHANGED <<isInit, packetQueue, videoSequenceNumber, packet, packets>>
    BY DEF Elsewhere, CloseSession, TurnReleased, WriteFrame, ReceiveNack, WriterLocks,
           WriterTimesOut, GetPacket, ConstructFails, WriterUnlocks, SendPacket,
           ListenerLocks, ListenerUnlocks, DestroyIceController, FreeSrtpSessions,
           CloserLocks, buffer
<1>2. (writer.pc # "set" /\ writer'.pc # "set") \/ writer' = writer
    <2>1. CASE \/ \E n \in 1 .. FrameMax : WriteFrame(n)
               \/ WriterLocks \/ WriterTimesOut \/ GetPacket \/ ConstructFails
               \/ WriterUnlocks \/ \E sent \in BOOLEAN : SendPacket(sent)
        BY <2>1 DEF WriteFrame, WriterLocks, WriterTimesOut, GetPacket, ConstructFails,
               WriterUnlocks, SendPacket, WriterGoes, TypeOK, WriterStates
    <2>2. CASE UNCHANGED writer
        BY <2>2
    <2>3. QED
        BY <2>1, <2>2 DEF Elsewhere, CloseSession, TurnReleased, ReceiveNack,
               ListenerLocks, ListenerUnlocks, DestroyIceController, FreeSrtpSessions,
               CloserLocks
<1>3. newest' = newest
    BY <1>1, <1>2 DEF newest
<1>4. answer' = answer
    <2>1. CASE ListenerLocks \/ ListenerUnlocks \/ \E list \in NackLists : ReceiveNack(list)
        <3>1. listener.block = Null
            BY <2>1 DEF ListenerLocks, ListenerUnlocks, ReceiveNack, Owned
        <3>2. listener'.block = listener.block
            BY <2>1 DEF ListenerLocks, ListenerUnlocks, ReceiveNack, TypeOK, ListenerStates
        <3>3. QED
            BY <3>1, <3>2, NoAnswer
    <2>2. CASE UNCHANGED listener
        BY <1>1, <2>2 DEF answer
    <2>3. QED
        BY <2>1, <2>2 DEF Elsewhere, CloseSession, TurnReleased, WriteFrame, WriterLocks,
               WriterTimesOut, GetPacket, ConstructFails, WriterUnlocks, SendPacket,
               DestroyIceController, FreeSrtpSessions, CloserLocks
<1>5. QED
    BY <1>1, <1>3, <1>4, Stutter

\* Every step is a step of RetransmitStore or a stutter.
LEMMA RetransmitStep ==
    ASSUME IInv, Numbered, Fresh, [Next]_vars
    PROVE  [Retransmit!Next]_(Retransmit!store)
<1>1. CASE StorePacket
    BY <1>1, StoreStep DEF Retransmit!Next
<1>2. CASE SearchPacket
    BY <1>2, SearchStep DEF Retransmit!Next
<1>3. CASE ConstructAgain \/ \E sent \in BOOLEAN : ResendPacket(sent)
    BY <1>3, ReplyStep DEF Retransmit!Next
<1>4. CASE ConstructPacket
    BY <1>4, ConstructStutters
<1>5. CASE Start \/ FreeRollingBuffer
    BY <1>5, SessionStep DEF Retransmit!Next
<1>6. CASE Elsewhere
    BY <1>6, ElsewhereStutters
<1>7. CASE UNCHANGED vars
    <2>1. /\ UNCHANGED <<isInit, packetQueue, videoSequenceNumber, packet, packets>>
          /\ UNCHANGED <<writer, listener>>
        BY <1>7 DEF vars, buffer
    <2>2. newest' = newest /\ answer' = answer
        BY <2>1 DEF newest, answer
    <2>3. QED
        BY <2>1, <2>2, Stutter
<1>8. QED
    BY <1>1, <1>2, <1>3, <1>4, <1>5, <1>6, <1>7 DEF Next, Writer, Listener, Closer, Elsewhere

\* The rolling buffer under the three tasks implements RetransmitStore, for a heap,
\* a buffer, frames and NACKs of any size: storing a packet, answering one number of a
\* NACK, starting and ending a session each take effect as a whole.
THEOREM BufferImplementsStore == Spec => BufferIsStore
<1>1. Init => Retransmit!Init
    <2> SUFFICES ASSUME Init PROVE Retransmit!Init
        OBVIOUS
    <2>1. window = <<>> /\ answer = <<>>
        BY DEF Init, window, answer
    <2>2. QED
        BY <2>1 DEF Init, Retransmit!Init
<1>2. Init => IInv /\ Answered /\ Fresh
    BY Initially DEF Init, Answered, Numbered, Kept, Asked, Fresh
<1>3. (IInv /\ Answered /\ Fresh) /\ [Next]_vars => (IInv /\ Answered /\ Fresh)'
    BY Inductive, NumberedStep, KeptStep, AskedStep, FreshStep DEF Answered
<1>4. (IInv /\ Answered /\ Fresh) /\ [Next]_vars => [Retransmit!Next]_(Retransmit!store)
    BY RetransmitStep DEF Answered
<1>5. QED
    BY <1>1, <1>2, <1>3, <1>4, PTL DEF Spec, BufferIsStore, Retransmit!Spec
=============================================================================
