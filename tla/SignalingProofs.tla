-------------------------- MODULE SignalingProofs --------------------------
(***************************************************************************)
(* Proofs about Signaling, for any viewers, any room in the outbox and in  *)
(* the buffer of early candidates: types, the four invariants of what is   *)
(* queued and buffered.                                                    *)
(*                                                                         *)
(* The argument: the latched client id is that of the parked offer         *)
(* (Latch), so it is the served viewer's from the moment an offer is       *)
(* handed out until frames are received again (Serving); a closed channel  *)
(* has nothing left of its connection (Closed); and before the replay      *)
(* every candidate of the round is in the buffer or lost (Buffered).       *)
(***************************************************************************)
EXTENDS Signaling, SequenceTheorems, TLAPS

\* Where a session is attached, and where a viewer is served.
AttachedPlaces == {"attached", "flush", "answer", "pump", "pump_recv", "detach"}
ServingPlaces == {"setup", "attached", "flush", "answer", "pump", "pump_recv"}
BufferingPlaces == {"wait", "wait_recv", "setup", "attached", "flush"}

Places ==
    /\ connected <=> wpc # "closed"
    /\ attached <=> wpc \in AttachedPlaces

Latch == pending_offer # NoViewer => peer_client_id = pending_offer

Serving ==
    /\ wpc \in ServingPlaces => serving \in Viewers
    /\ wpc \in {"setup", "attached", "flush", "answer"} => serving = peer_client_id

AnswersIn(queue) == {e \in Range(queue) : e.kind = "answer"}

Closed == wpc = "closed" => AnswersIn(outbox) = {} /\ early_ice = <<>>

\* Until they are replayed, candidates of a round are in the buffer or lost.
Buffered ==
    /\ \A v \in Viewers : \A c \in received[v] : c.round <= round
    /\ wpc \in BufferingPlaces =>
           \A v \in Viewers : \A c \in received[v] :
               c.round = round => c \in Range(early_ice) \union lost

\* What is queued and buffered, put together.
QueuedOK ==
    /\ Closed
    /\ AnswerGoesToOfferer /\ AnswerIsOfThisConnection /\ EarlyIceIsOfThisRound

IInv ==
    /\ TypeOK
    /\ Places /\ Latch /\ Serving
    /\ QueuedOK
    /\ Buffered /\ EarlyIceIsReplayed

-----------------------------------------------------------------------------
\* What a queue has after something was appended to it.
LEMMA RangeOfAppend ==
    ASSUME NEW S, NEW queue \in Seq(S), NEW e \in S
    PROVE  /\ Append(queue, e) \in Seq(S)
           /\ Len(Append(queue, e)) = Len(queue) + 1
           /\ Range(Append(queue, e)) = Range(queue) \union {e}
<1>1. /\ Append(queue, e) \in Seq(S)
      /\ Len(Append(queue, e)) = Len(queue) + 1
      /\ \A i \in 1 .. Len(queue) : Append(queue, e)[i] = queue[i]
      /\ Append(queue, e)[Len(queue) + 1] = e
    BY AppendProperties
<1>2. /\ Len(queue) \in Nat
      /\ DOMAIN queue = 1 .. Len(queue)
      /\ DOMAIN Append(queue, e) = 1 .. Len(queue) + 1
    BY <1>1, LenProperties
<1>3. QED
    BY <1>1, <1>2 DEF Range

\* A queue that is drained or left as it is still fits.
LEMMA DrainedFits ==
    ASSUME NEW S, NEW n \in Nat, NEW queue \in Seq(S), Len(queue) <= n,
           NEW left, left = <<>> \/ left = queue
    PROVE  left \in Seq(S) /\ Len(left) <= n
<1>1. <<>> \in Seq(S) /\ Len(<<>>) = 0
    BY EmptySeq
<1>2. 0 <= n
    OBVIOUS
<1>3. QED
    BY <1>1, <1>2

\* An empty queue has nothing.
LEMMA RangeOfEmpty == Range(<<>>) = {}
BY DEF Range

\* What is in a queue is of the queue's kind.
LEMMA RangeInSet ==
    ASSUME NEW S, NEW queue \in Seq(S)
    PROVE  Range(queue) \subseteq S
BY RangeOfSeq

-----------------------------------------------------------------------------
\* The bounds, one by one.
LEMMA Bounds ==
    /\ OutboxDepth \in Nat /\ EarlyMax \in Nat
    /\ MaxFrames \in Nat /\ MaxRounds \in Nat /\ MaxLocal \in Nat
BY SignalingAssumption

\* A drain leaves nothing, or what there was.
LEMMA DrainStep ==
    ASSUME NEW dead \in BOOLEAN, Drain(dead)
    PROVE  outbox' = <<>> \/ outbox' = outbox
BY DEF Drain, Drained

\* Types.
LEMMA TypeStep ==
    ASSUME TypeOK, [Next]_vars
    PROVE  TypeOK'
<1> USE Bounds DEF TypeOK, ViewerOrNone
<1>1. CASE Connect
    <2>1. /\ connected' \in BOOLEAN /\ pending_offer' \in ViewerOrNone
          /\ peer_client_id' \in ViewerOrNone /\ attached' \in BOOLEAN
        BY <1>1 DEF Connect, callback
    <2>2. /\ early_ice' \in Seq(Candidate) /\ Len(early_ice') <= EarlyMax
          /\ outbox' \in Seq(Envelope) /\ Len(outbox') <= OutboxDepth
        BY <1>1 DEF Connect, callback
    <2>3. frames' \in 0 .. MaxFrames /\ round' \in 0 .. MaxRounds /\ connection' \in Nat
        BY <1>1 DEF Connect, callback
    <2>4. /\ serving' \in ViewerOrNone /\ remote' \subseteq Candidate
          /\ received' \in [Viewers -> SUBSET Candidate] /\ lost' \subseteq Candidate
        BY <1>1 DEF Connect, callback
    <2>5. QED
        BY <1>1, <2>1, <2>2, <2>3, <2>4 DEF Connect, callback
<1>2. CASE Disconnect
    <2>1. /\ connected' \in BOOLEAN /\ pending_offer' \in ViewerOrNone
          /\ peer_client_id' \in ViewerOrNone /\ attached' \in BOOLEAN
        BY <1>2 DEF Disconnect, Drained, FreeEarlyIce, callback, history
    <2>2. /\ early_ice' \in Seq(Candidate) /\ Len(early_ice') <= EarlyMax
          /\ outbox' \in Seq(Envelope) /\ Len(outbox') <= OutboxDepth
        BY <1>2 DEF Disconnect, Drained, FreeEarlyIce, callback, history
    <2>3. /\ frames' \in 0 .. MaxFrames /\ round' \in 0 .. MaxRounds
          /\ connection' \in Nat /\ serving' \in ViewerOrNone
          /\ remote' \subseteq Candidate
          /\ received' \in [Viewers -> SUBSET Candidate] /\ lost' \subseteq Candidate
        BY <1>2 DEF Disconnect, Drained, FreeEarlyIce, callback, history
    <2>4. QED
        BY <1>2, <2>1, <2>2, <2>3 DEF Disconnect, Drained, FreeEarlyIce, callback, history
<1>3. ASSUME NEW v \in Viewers, DispatchOffer(v)
      PROVE  TypeOK'
    BY <1>3 DEF DispatchOffer, Receiving, Latched, callback
<1>4. ASSUME NEW v \in Viewers, NEW ok \in BOOLEAN, DispatchCandidate(v, ok)
      PROVE  TypeOK'
    <2> DEFINE c == [from |-> v, round |-> round, n |-> frames]
    <2>1. c \in Candidate
        BY DEF Candidate
    <2>2. early_ice' \in Seq(Candidate) /\ Len(early_ice') <= EarlyMax
        BY <1>4, <2>1, RangeOfAppend DEF DispatchCandidate
    <2>3. remote' \subseteq Candidate /\ received' \in [Viewers -> SUBSET Candidate]
        BY <1>4, <2>1 DEF DispatchCandidate
    <2>4. QED
        BY <1>4, <2>2, <2>3 DEF DispatchCandidate, Receiving, callback
<1>5. ASSUME NEW dead \in BOOLEAN, ConsumeParked(dead) \/ EndWaitRecv(dead)
      PROVE  TypeOK'
    <2>1. /\ connected' \in BOOLEAN /\ pending_offer' \in ViewerOrNone
          /\ peer_client_id' \in ViewerOrNone /\ attached' \in BOOLEAN
        BY <1>5 DEF ConsumeParked, EndWaitRecv, HandOut, channel, callback, history
    <2>2. /\ early_ice' \in Seq(Candidate) /\ Len(early_ice') <= EarlyMax
          /\ outbox' \in Seq(Envelope) /\ Len(outbox') <= OutboxDepth
        BY <1>5 DEF ConsumeParked, EndWaitRecv, HandOut, channel, callback, history
    <2>3. /\ frames' \in 0 .. MaxFrames /\ round' \in 0 .. MaxRounds
          /\ connection' \in Nat /\ serving' \in ViewerOrNone
          /\ remote' \subseteq Candidate
          /\ received' \in [Viewers -> SUBSET Candidate] /\ lost' \subseteq Candidate
        BY <1>5 DEF ConsumeParked, EndWaitRecv, HandOut, channel, callback, history
    <2>4. QED
        BY <1>5, <2>1, <2>2, <2>3 DEF ConsumeParked, EndWaitRecv, HandOut, channel,
           callback, history
<1>6. ASSUME NEW dead \in BOOLEAN, BeginWaitRecv(dead)
      PROVE  TypeOK'
    <2>1. outbox' = <<>> \/ outbox' = outbox
        BY <1>6, DrainStep DEF BeginWaitRecv
    <2>2. outbox' \in Seq(Envelope) /\ Len(outbox') <= OutboxDepth
        BY <2>1, DrainedFits
    <2>3. QED
        BY <1>6, <2>2 DEF BeginWaitRecv, channel, callback, history
<1>7. ASSUME NEW dead \in BOOLEAN, BeginTick(dead)
      PROVE  TypeOK'
    <2>1. outbox' = <<>> \/ outbox' = outbox
        BY <1>7, DrainStep DEF BeginTick
    <2>2. outbox' \in Seq(Envelope) /\ Len(outbox') <= OutboxDepth
        BY <2>1, DrainedFits
    <2>3. wpc' \in {"pump_recv", "detach"} /\ failed' \in BOOLEAN
        BY <1>7 DEF BeginTick, Fail
    <2>4. UNCHANGED <<channel, callback, history>>
        BY <1>7 DEF BeginTick
    <2>5. QED
        BY <2>2, <2>3, <2>4 DEF channel, callback, history
<1>8. ASSUME NEW dead \in BOOLEAN, EndTick(dead)
      PROVE  TypeOK'
    <2>1. wpc' \in {"pump", "detach"} /\ failed' \in BOOLEAN
        BY <1>8 DEF EndTick, Fail
    <2>2. UNCHANGED <<channel, outbox, callback, history>>
        BY <1>8 DEF EndTick
    <2>3. QED
        BY <2>1, <2>2 DEF channel, callback, history
<1>9. ASSUME NEW ok \in BOOLEAN, Attach(ok)
      PROVE  TypeOK'
    <2>1. /\ wpc' \in {"attached", "disconnect"} /\ attached' \in BOOLEAN
          /\ failed' \in BOOLEAN
        BY <1>9 DEF Attach
    <2>2. UNCHANGED <<callback, history>>
        BY <1>9 DEF Attach
    <2>3. QED
        BY <1>9, <2>1, <2>2 DEF Attach, callback, history
<1>10. ASSUME NEW ok \in BOOLEAN, SetRemoteDescription(ok)
       PROVE  TypeOK'
    <2>1. wpc' \in {"flush", "detach"} /\ failed' \in BOOLEAN
        BY <1>10 DEF SetRemoteDescription, Fail
    <2>2. UNCHANGED <<channel, outbox, callback, history>>
        BY <1>10 DEF SetRemoteDescription
    <2>3. QED
        BY <2>1, <2>2 DEF channel, callback, history
<1>11. ASSUME NEW ok \in BOOLEAN, SendAnswer(ok)
       PROVE  TypeOK'
    <2> DEFINE e == [kind |-> "answer", to |-> peer_client_id,
                     for |-> serving, on |-> connection]
    <2>1. e \in Envelope
        BY DEF Envelope
    <2>2. \/ outbox' = outbox
          \/ outbox' = Append(outbox, e) /\ Len(outbox) < OutboxDepth
        BY <1>11 DEF SendAnswer, OutboxHasRoom, Fail
    <2> HIDE DEF e
    <2>3. outbox' \in Seq(Envelope) /\ Len(outbox') <= OutboxDepth
        <3>1. /\ Append(outbox, e) \in Seq(Envelope)
              /\ Len(Append(outbox, e)) = Len(outbox) + 1
            BY <2>1, RangeOfAppend, Zenon
        <3>2. Len(outbox) \in Nat /\ OutboxDepth \in Nat
            BY SignalingAssumption
        <3>3. outbox \in Seq(Envelope) /\ Len(outbox) <= OutboxDepth
            OBVIOUS
        <3>4. CASE outbox' = outbox
            BY <3>3, <3>4
        <3>5. CASE outbox' = Append(outbox, e) /\ Len(outbox) < OutboxDepth
            <4>1. Len(outbox) + 1 <= OutboxDepth
                BY <3>2, <3>5
            <4>2. QED
                BY <3>1, <3>5, <4>1
        <3>6. QED
            BY <2>2, <3>4, <3>5
    <2>4. wpc' \in {"pump", "detach"} /\ failed' \in BOOLEAN
        BY <1>11 DEF SendAnswer, Fail
    <2>5. UNCHANGED <<channel, callback, history>>
        BY <1>11 DEF SendAnswer
    <2>6. QED
        BY <2>3, <2>4, <2>5 DEF channel, callback, history
<1>12. ASSUME NEW ok \in BOOLEAN, Detach(ok)
       PROVE  TypeOK'
    <2>1. /\ connected' \in BOOLEAN /\ pending_offer' \in ViewerOrNone
          /\ peer_client_id' \in ViewerOrNone /\ attached' \in BOOLEAN
        BY <1>12 DEF Detach, FreeEarlyIce, callback
    <2>2. /\ early_ice' \in Seq(Candidate) /\ Len(early_ice') <= EarlyMax
          /\ outbox' \in Seq(Envelope) /\ Len(outbox') <= OutboxDepth
        BY <1>12 DEF Detach, FreeEarlyIce, callback
    <2>3. frames' \in 0 .. MaxFrames /\ round' \in 0 .. MaxRounds /\ connection' \in Nat
        BY <1>12 DEF Detach, FreeEarlyIce, callback
    <2>4. /\ serving' \in ViewerOrNone /\ remote' \subseteq Candidate
          /\ received' \in [Viewers -> SUBSET Candidate] /\ lost' \subseteq Candidate
        BY <1>12 DEF Detach, FreeEarlyIce, callback
    <2>5. QED
        BY <1>12, <2>1, <2>2, <2>3, <2>4 DEF Detach, FreeEarlyIce, callback
<1>13. ASSUME NEW taken \in SUBSET Range(early_ice), FlushEarlyCandidates(taken)
      PROVE  TypeOK'
    <2>1. /\ connected' \in BOOLEAN /\ pending_offer' \in ViewerOrNone
          /\ peer_client_id' \in ViewerOrNone /\ attached' \in BOOLEAN
        BY <1>13 DEF FlushEarlyCandidates, Flushed, callback
    <2>2. /\ early_ice' \in Seq(Candidate) /\ Len(early_ice') <= EarlyMax
          /\ outbox' \in Seq(Envelope) /\ Len(outbox') <= OutboxDepth
        BY <1>13, RangeInSet DEF FlushEarlyCandidates, Flushed, callback
    <2>3. /\ frames' \in 0 .. MaxFrames /\ round' \in 0 .. MaxRounds
          /\ connection' \in Nat /\ serving' \in ViewerOrNone
          /\ remote' \subseteq Candidate
          /\ received' \in [Viewers -> SUBSET Candidate] /\ lost' \subseteq Candidate
        BY <1>13, RangeInSet DEF FlushEarlyCandidates, Flushed, callback
    <2>4. QED
        BY <1>13, <2>1, <2>2, <2>3 DEF FlushEarlyCandidates, Flushed, callback
<1>14. CASE EndPump
    BY <1>14 DEF EndPump, channel, callback, history
<1>15. CASE LocalCandidate
    BY <1>15 DEF LocalCandidate, channel, history
<1>16. CASE QueueCandidate
    <2> DEFINE e == [kind |-> "ice", to |-> to, for |-> meant.for, on |-> meant.on]
    <2>1. e \in Envelope
        BY DEF Envelope
    <2>2. outbox' \in Seq(Envelope) /\ Len(outbox') <= OutboxDepth
        BY <1>16, <2>1, RangeOfAppend DEF QueueCandidate, OutboxHasRoom
    <2>3. QED
        BY <1>16, <2>2 DEF QueueCandidate, channel, history
<1>17. CASE UNCHANGED vars
    BY <1>17 DEF vars, channel, callback, history
<1>18. QED
    BY <1>1, <1>2, <1>3, <1>4, <1>5, <1>6, <1>7, <1>8, <1>9, <1>10, <1>11, <1>12,
       <1>13, <1>14, <1>15, <1>16, <1>17 DEF Next, WebrtcTask

\* Where the tasks are, whose id is latched and who is served.
LEMMA ControlStep ==
    ASSUME TypeOK, Places, Latch, Serving, [Next]_vars
    PROVE  Places' /\ Latch' /\ Serving'
<1> USE DEF TypeOK, ViewerOrNone, Places, AttachedPlaces, ServingPlaces, Latch, Serving
<1>1. CASE Connect
    BY <1>1 DEF Connect, callback
<1>2. CASE Disconnect
    BY <1>2 DEF Disconnect, Drained, FreeEarlyIce, callback, history
<1>3. ASSUME NEW v \in Viewers, DispatchOffer(v)
      PROVE  Places' /\ Latch' /\ Serving'
    BY <1>3 DEF DispatchOffer, Receiving, Latched, callback
<1>4. ASSUME NEW v \in Viewers, NEW ok \in BOOLEAN, DispatchCandidate(v, ok)
      PROVE  Places' /\ Latch' /\ Serving'
    BY <1>4 DEF DispatchCandidate, Receiving, callback
<1>5. ASSUME NEW dead \in BOOLEAN, ConsumeParked(dead)
      PROVE  Places' /\ Latch' /\ Serving'
    BY <1>5 DEF ConsumeParked, HandOut, channel, callback
<1>6. ASSUME NEW dead \in BOOLEAN, EndWaitRecv(dead)
      PROVE  Places' /\ Latch' /\ Serving'
    BY <1>6 DEF EndWaitRecv, HandOut, channel, callback, history
<1>7. ASSUME NEW dead \in BOOLEAN, BeginWaitRecv(dead)
      PROVE  Places' /\ Latch' /\ Serving'
    BY <1>7 DEF BeginWaitRecv, channel, callback, history
<1>8. ASSUME NEW dead \in BOOLEAN, BeginTick(dead)
      PROVE  Places' /\ Latch' /\ Serving'
    BY <1>8 DEF BeginTick, Fail, channel, callback, history
<1>9. ASSUME NEW dead \in BOOLEAN, EndTick(dead)
      PROVE  Places' /\ Latch' /\ Serving'
    BY <1>9 DEF EndTick, Fail, channel, callback, history
<1>10. ASSUME NEW ok \in BOOLEAN, Attach(ok)
      PROVE  Places' /\ Latch' /\ Serving'
    BY <1>10 DEF Attach, callback, history
<1>11. ASSUME NEW ok \in BOOLEAN, SetRemoteDescription(ok)
      PROVE  Places' /\ Latch' /\ Serving'
    BY <1>11 DEF SetRemoteDescription, Fail, channel, callback, history
<1>12. ASSUME NEW ok \in BOOLEAN, SendAnswer(ok)
      PROVE  Places' /\ Latch' /\ Serving'
    BY <1>12 DEF SendAnswer, Fail, channel, callback, history
<1>13. ASSUME NEW ok \in BOOLEAN, Detach(ok)
      PROVE  Places' /\ Latch' /\ Serving'
    BY <1>13 DEF Detach, FreeEarlyIce, callback
<1>14. ASSUME NEW taken \in SUBSET Range(early_ice), FlushEarlyCandidates(taken)
      PROVE  Places' /\ Latch' /\ Serving'
    BY <1>14 DEF FlushEarlyCandidates, Flushed, callback
<1>15. CASE EndPump
    BY <1>15 DEF EndPump, channel, callback, history
<1>16. CASE LocalCandidate
    BY <1>16 DEF LocalCandidate, channel, history
<1>17. CASE QueueCandidate
    BY <1>17 DEF QueueCandidate, channel, history
<1>18. CASE UNCHANGED vars
    BY <1>18 DEF vars, channel, callback, history
<1>19. QED
    BY <1>1, <1>2, <1>3, <1>4, <1>5, <1>6, <1>7, <1>8, <1>9, <1>10, <1>11, <1>12, <1>13,
       <1>14, <1>15, <1>16, <1>17, <1>18 DEF Next, WebrtcTask

\* They stay so: only SendAnswer queues an answer, and nothing leaves a closed channel behind.
LEMMA QueueStep ==
    ASSUME TypeOK, Places, Serving, QueuedOK,
           [Next]_vars
    PROVE  QueuedOK'
<1> USE DEF QueuedOK, Closed, AnswersIn, AnswerGoesToOfferer, AnswerIsOfThisConnection,
            EarlyIceIsOfThisRound, Places
<1>1. CASE Connect
    BY <1>1, RangeOfEmpty DEF Connect, callback
<1>2. CASE Disconnect
    BY <1>2, RangeOfEmpty DEF Disconnect, Drained, FreeEarlyIce, callback, history
<1>3. ASSUME NEW v \in Viewers, DispatchOffer(v)
      PROVE  QueuedOK'
    BY <1>3 DEF DispatchOffer, Receiving, Latched, callback
<1>4. ASSUME NEW v \in Viewers, NEW ok \in BOOLEAN, DispatchCandidate(v, ok)
      PROVE  QueuedOK'
    <2> DEFINE c == [from |-> v, round |-> round, n |-> frames]
    <2>1. c \in Candidate /\ c.round = round
        BY DEF Candidate, TypeOK
    <2>2. early_ice' = early_ice \/ early_ice' = Append(early_ice, c)
        BY <1>4 DEF DispatchCandidate
    <2> HIDE DEF c
    <2>3. early_ice \in Seq(Candidate)
        BY DEF TypeOK
    <2>4. Range(Append(early_ice, c)) = Range(early_ice) \union {c}
        BY <2>1, <2>3, RangeOfAppend
    <2>5. Range(early_ice') \subseteq Range(early_ice) \union {c}
        BY <2>2, <2>4
    <2>6. QED
        BY <1>4, <2>1, <2>5 DEF DispatchCandidate, Receiving, callback
<1>5. ASSUME NEW dead \in BOOLEAN, ConsumeParked(dead)
      PROVE  QueuedOK'
    BY <1>5 DEF ConsumeParked, HandOut, channel, callback
<1>6. ASSUME NEW dead \in BOOLEAN, EndWaitRecv(dead)
      PROVE  QueuedOK'
    BY <1>6 DEF EndWaitRecv, HandOut, channel, callback, history
<1>7. ASSUME NEW dead \in BOOLEAN, BeginWaitRecv(dead)
      PROVE  QueuedOK'
    <2>1. outbox' = <<>> \/ outbox' = outbox
        BY <1>7, DrainStep DEF BeginWaitRecv
    <2>2. Range(outbox') \subseteq Range(outbox)
        BY <2>1, RangeOfEmpty
    <2>3. QED
        BY <1>7, <2>2 DEF BeginWaitRecv, channel, callback, history, Places
<1>8. ASSUME NEW dead \in BOOLEAN, BeginTick(dead)
      PROVE  QueuedOK'
    <2>1. outbox' = <<>> \/ outbox' = outbox
        BY <1>8, DrainStep DEF BeginTick
    <2>2. Range(outbox') \subseteq Range(outbox)
        BY <2>1, RangeOfEmpty
    <2>3. QED
        BY <1>8, <2>2 DEF BeginTick, Fail, channel, callback, history, Places
<1>9. ASSUME NEW dead \in BOOLEAN, EndTick(dead)
      PROVE  QueuedOK'
    BY <1>9 DEF EndTick, Fail, channel, callback, history
<1>10. ASSUME NEW ok \in BOOLEAN, Attach(ok)
      PROVE  QueuedOK'
    BY <1>10 DEF Attach, callback, history
<1>11. ASSUME NEW ok \in BOOLEAN, SetRemoteDescription(ok)
      PROVE  QueuedOK'
    BY <1>11 DEF SetRemoteDescription, Fail, channel, callback, history
<1>12. ASSUME NEW ok \in BOOLEAN, SendAnswer(ok)
      PROVE  QueuedOK'
    <2> DEFINE e == [kind |-> "answer", to |-> peer_client_id, for |-> serving, on |-> connection]
    <2>1. e \in Envelope
        BY DEF Envelope, TypeOK, ViewerOrNone
    <2>2. e.kind = "answer" /\ e.to = peer_client_id /\ e.for = serving /\ e.on = connection
        OBVIOUS
    <2>3. \/ outbox' = outbox
          \/ outbox' = Append(outbox, e)
        BY <1>12 DEF SendAnswer, Fail
    <2> HIDE DEF e
    <2>4. outbox \in Seq(Envelope)
        BY DEF TypeOK
    <2>5. Range(Append(outbox, e)) = Range(outbox) \union {e}
        BY <2>1, <2>4, RangeOfAppend
    <2>6. Range(outbox') \subseteq Range(outbox) \union {e}
        BY <2>3, <2>5
    <2>7. QED
        BY <1>12, <2>2, <2>6 DEF SendAnswer, Fail, channel, callback, history, Serving, Places
<1>13. ASSUME NEW ok \in BOOLEAN, Detach(ok)
      PROVE  QueuedOK'
    BY <1>13, RangeOfEmpty DEF Detach, FreeEarlyIce, callback
<1>14. ASSUME NEW taken \in SUBSET Range(early_ice), FlushEarlyCandidates(taken)
      PROVE  QueuedOK'
    BY <1>14, RangeOfEmpty DEF FlushEarlyCandidates, Flushed, callback
<1>15. CASE EndPump
    BY <1>15 DEF EndPump, channel, callback, history
<1>16. CASE LocalCandidate
    BY <1>16 DEF LocalCandidate, channel, history
<1>17. CASE QueueCandidate
    <2> DEFINE e == [kind |-> "ice", to |-> to, for |-> meant.for, on |-> meant.on]
    <2>1. e \in Envelope
        BY DEF Envelope, TypeOK, ViewerOrNone
    <2>2. e.kind = "ice" /\ e.to = to /\ e.for = meant.for /\ e.on = meant.on
        OBVIOUS
    <2>3. \/ outbox' = outbox
          \/ outbox' = Append(outbox, e)
        BY <1>17 DEF QueueCandidate
    <2> HIDE DEF e
    <2>4. outbox \in Seq(Envelope)
        BY DEF TypeOK
    <2>5. Range(Append(outbox, e)) = Range(outbox) \union {e}
        BY <2>1, <2>4, RangeOfAppend
    <2>6. Range(outbox') \subseteq Range(outbox) \union {e}
        BY <2>3, <2>5
    <2>7. QED
        BY <1>17, <2>2, <2>6 DEF QueueCandidate, channel, history
<1>18. CASE UNCHANGED vars
    BY <1>18 DEF vars, channel, callback, history
<1>19. QED
    BY <1>1, <1>2, <1>3, <1>4, <1>5, <1>6, <1>7, <1>8, <1>9, <1>10, <1>11, <1>12, <1>13,
       <1>14, <1>15, <1>16, <1>17, <1>18 DEF Next, WebrtcTask

\* The candidates of the round: the one that DispatchCandidate gets, and where it
\* puts it.
Arrived(v) == [from |-> v, round |-> round, n |-> frames]

LEMMA CandidateStored ==
    ASSUME TypeOK, NEW v \in Viewers, NEW ok \in BOOLEAN, DispatchCandidate(v, ok)
    PROVE  /\ Arrived(v).round = round
           /\ \A w \in Viewers : received'[w] \subseteq received[w] \union {Arrived(v)}
           /\ remote \subseteq remote' /\ lost \subseteq lost'
           /\ Range(early_ice) \subseteq Range(early_ice')
           /\ attached => Arrived(v) \in remote' \union lost'
           /\ ~attached => Arrived(v) \in Range(early_ice') \union lost'
<1>1. Arrived(v) \in Candidate /\ Arrived(v).round = round
    BY DEF Candidate, TypeOK, Arrived
<1>2. received' = [received EXCEPT ![v] = @ \union {Arrived(v)}]
    BY DEF DispatchCandidate, Arrived
<1>3. \/ attached /\ remote' = remote \union {Arrived(v)} /\ lost' = lost /\ early_ice' = early_ice
      \/ ~attached /\ early_ice' = Append(early_ice, Arrived(v)) /\ lost' = lost /\ remote' = remote
      \/ lost' = lost \union {Arrived(v)} /\ remote' = remote /\ early_ice' = early_ice
    BY DEF DispatchCandidate, Arrived, TypeOK
<1>4. received \in [Viewers -> SUBSET Candidate] /\ early_ice \in Seq(Candidate)
    BY DEF TypeOK
<1>5. Range(Append(early_ice, Arrived(v))) = Range(early_ice) \union {Arrived(v)}
    BY <1>1, <1>4, RangeOfAppend
<1>6. \A w \in Viewers : received'[w] \subseteq received[w] \union {Arrived(v)}
    BY <1>2, <1>4
<1>7. QED
    BY <1>1, <1>3, <1>5, <1>6

\* Early candidates are in the buffer, and after the replay with the session.
LEMMA BufferStep ==
    ASSUME TypeOK, Places, Serving, Buffered, EarlyIceIsReplayed,
           [Next]_vars
    PROVE  Buffered' /\ EarlyIceIsReplayed'
<1> USE DEF Buffered, BufferingPlaces, EarlyIceIsReplayed, Places, AttachedPlaces, Serving,
            ServingPlaces
<1>1. CASE Connect
    BY <1>1 DEF Connect, callback
<1>2. CASE Disconnect
    BY <1>2 DEF Disconnect, Drained, FreeEarlyIce, callback, history
<1>3. ASSUME NEW v \in Viewers, DispatchOffer(v)
      PROVE  Buffered' /\ EarlyIceIsReplayed'
    BY <1>3 DEF DispatchOffer, Receiving, Latched, callback
<1>4. ASSUME NEW v \in Viewers, NEW ok \in BOOLEAN, DispatchCandidate(v, ok)
      PROVE  Buffered' /\ EarlyIceIsReplayed'
    <2>1. /\ Arrived(v).round = round
          /\ \A w \in Viewers : received'[w] \subseteq received[w] \union {Arrived(v)}
          /\ remote \subseteq remote' /\ lost \subseteq lost'
          /\ Range(early_ice) \subseteq Range(early_ice')
          /\ attached => Arrived(v) \in remote' \union lost'
          /\ ~attached => Arrived(v) \in Range(early_ice') \union lost'
        BY <1>4, CandidateStored
    <2>2. /\ wpc \in {"wait_recv", "pump_recv"} /\ wpc' = wpc
          /\ round' = round /\ serving' = serving
        BY <1>4 DEF DispatchCandidate, Receiving
    <2>3. \A w \in Viewers : \A d \in received'[w] : d.round <= round'
        BY <2>1, <2>2 DEF TypeOK
    <2>4. CASE wpc = "wait_recv"
        BY <2>1, <2>2, <2>3, <2>4
    <2>5. CASE wpc = "pump_recv"
        BY <2>1, <2>2, <2>3, <2>5 DEF TypeOK
    <2>6. QED
        BY <2>2, <2>4, <2>5
<1>5. ASSUME NEW dead \in BOOLEAN, ConsumeParked(dead)
      PROVE  Buffered' /\ EarlyIceIsReplayed'
    BY <1>5 DEF ConsumeParked, HandOut, channel, callback
<1>6. ASSUME NEW dead \in BOOLEAN, EndWaitRecv(dead)
      PROVE  Buffered' /\ EarlyIceIsReplayed'
    BY <1>6 DEF EndWaitRecv, HandOut, channel, callback, history
<1>7. ASSUME NEW dead \in BOOLEAN, BeginWaitRecv(dead)
      PROVE  Buffered' /\ EarlyIceIsReplayed'
    BY <1>7 DEF BeginWaitRecv, channel, callback, history
<1>8. ASSUME NEW dead \in BOOLEAN, BeginTick(dead)
      PROVE  Buffered' /\ EarlyIceIsReplayed'
    BY <1>8 DEF BeginTick, Fail, channel, callback, history
<1>9. ASSUME NEW dead \in BOOLEAN, EndTick(dead)
      PROVE  Buffered' /\ EarlyIceIsReplayed'
    BY <1>9 DEF EndTick, Fail, channel, callback, history
<1>10. ASSUME NEW ok \in BOOLEAN, Attach(ok)
      PROVE  Buffered' /\ EarlyIceIsReplayed'
    BY <1>10 DEF Attach, callback, history
<1>11. ASSUME NEW ok \in BOOLEAN, SetRemoteDescription(ok)
      PROVE  Buffered' /\ EarlyIceIsReplayed'
    BY <1>11 DEF SetRemoteDescription, Fail, channel, callback, history
<1>12. ASSUME NEW ok \in BOOLEAN, SendAnswer(ok)
      PROVE  Buffered' /\ EarlyIceIsReplayed'
    BY <1>12 DEF SendAnswer, Fail, channel, callback, history
<1>13. ASSUME NEW ok \in BOOLEAN, Detach(ok)
      PROVE  Buffered' /\ EarlyIceIsReplayed'
    <2>1. \A v \in Viewers : \A c \in received[v] : c.round \in Nat
        BY DEF TypeOK, Candidate
    <2>2. /\ received' = received /\ wpc' \in {"wait", "disconnect"}
          /\ round \in Nat
          /\ round' = IF wpc' = "wait" THEN round + 1 ELSE round
        BY <1>13 DEF Detach, TypeOK
    <2>3. QED
        BY <2>1, <2>2
<1>14. ASSUME NEW taken \in SUBSET Range(early_ice), FlushEarlyCandidates(taken)
      PROVE  Buffered' /\ EarlyIceIsReplayed'
    BY <1>14 DEF FlushEarlyCandidates, Flushed, callback
<1>15. CASE EndPump
    BY <1>15 DEF EndPump, channel, callback, history
<1>16. CASE LocalCandidate
    BY <1>16 DEF LocalCandidate, channel, history
<1>17. CASE QueueCandidate
    BY <1>17 DEF QueueCandidate, channel, history
<1>18. CASE UNCHANGED vars
    BY <1>18 DEF vars, channel, callback, history
<1>19. QED
    BY <1>1, <1>2, <1>3, <1>4, <1>5, <1>6, <1>7, <1>8, <1>9, <1>10, <1>11, <1>12, <1>13,
       <1>14, <1>15, <1>16, <1>17, <1>18 DEF Next, WebrtcTask

-----------------------------------------------------------------------------
LEMMA Inductive == Spec => []IInv
<1>1. Init => IInv
    <2> SUFFICES ASSUME Init
                 PROVE  IInv
        OBVIOUS
    <2>1. TypeOK
        <3>1. /\ early_ice \in Seq(Candidate) /\ Len(early_ice) <= EarlyMax
              /\ outbox \in Seq(Envelope) /\ Len(outbox) <= OutboxDepth
            BY Bounds DEF Init
        <3>2. /\ frames \in 0 .. MaxFrames /\ locals \in 0 .. MaxLocal
              /\ round \in 0 .. MaxRounds /\ connection \in Nat
            BY Bounds DEF Init
        <3>3. /\ received \in [Viewers -> SUBSET Candidate] /\ remote \subseteq Candidate
              /\ meant \in [for : ViewerOrNone, on : Nat]
            BY DEF Init, ViewerOrNone
        <3>4. QED
            BY <3>1, <3>2, <3>3 DEF Init, TypeOK, ViewerOrNone
    <2>2. Places /\ Latch /\ Serving
        BY DEF Init, Places, AttachedPlaces, Latch, Serving, ServingPlaces
    <2>3. QueuedOK
        BY RangeOfEmpty DEF Init, QueuedOK, Closed, AnswersIn, AnswerGoesToOfferer,
                            AnswerIsOfThisConnection, EarlyIceIsOfThisRound
    <2>4. Buffered /\ EarlyIceIsReplayed
        BY DEF Init, Buffered, EarlyIceIsReplayed
    <2>5. QED
        BY <2>1, <2>2, <2>3, <2>4 DEF IInv
<1>2. IInv /\ [Next]_vars => IInv'
    BY TypeStep, ControlStep, QueueStep, BufferStep DEF IInv
<1>3. QED
    BY <1>1, <1>2, PTL DEF Spec

\* The tasks stay in their places and within their bounds: the outbox never
\* holds more than SIG_OUTBOX_DEPTH envelopes, nor the buffer of early candidates
\* more than SIG_EARLY_ICE_MAX.
THEOREM TypeCorrect == Spec => []TypeOK
<1>1. IInv => TypeOK
    BY DEF IInv
<1>2. QED
    BY <1>1, Inductive, PTL

\* An answer in the outbox is addressed to the viewer whose offer it answers,
\* although the client id is read without the lock after offers may have come in.
THEOREM AnswerGoesToOffererSafe == Spec => []AnswerGoesToOfferer
<1>1. IInv => AnswerGoesToOfferer
    BY DEF IInv, QueuedOK
<1>2. QED
    BY <1>1, Inductive, PTL

\* No answer in the outbox is older than the connection that is up: every way
\* out of a connection passes the drain of signaling_disconnect.
THEOREM AnswerIsOfThisConnectionSafe == Spec => []AnswerIsOfThisConnection
<1>1. IInv => AnswerIsOfThisConnection
    BY DEF IInv, QueuedOK
<1>2. QED
    BY <1>1, Inductive, PTL

\* The buffer of early candidates holds candidates of the present wait for an
\* offer only: detach and disconnect both free it.
THEOREM EarlyIceIsOfThisRoundSafe == Spec => []EarlyIceIsOfThisRound
<1>1. IInv => EarlyIceIsOfThisRound
    BY DEF IInv, QueuedOK
<1>2. QED
    BY <1>1, Inductive, PTL

\* After the replay no candidate that the served viewer sent in this round is
\* left in the buffer: the session took it, or refused it, or it never got in.
THEOREM EarlyIceIsReplayedSafe == Spec => []EarlyIceIsReplayed
<1>1. IInv => EarlyIceIsReplayed
    BY DEF IInv
<1>2. QED
    BY <1>1, Inductive, PTL

=============================================================================
