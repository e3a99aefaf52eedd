-------------------------- MODULE VideoRingProofs --------------------------
(***************************************************************************)
(* Proofs about VideoRing, for every bound on frames and sessions.         *)
(*                                                                         *)
(* InSessionInv is inductive for Spec, whatever the restarts; QuietInv is  *)
(* inductive for QuietSpec.                                                *)
(***************************************************************************)
EXTENDS VideoRing, SequenceTheorems, TLAPS

(***************************************************************************)
(* The shmem task reads a slot in the two steps fill and write.  If the    *)
(* session it peeked in is still current, the slot's flag is up, and the   *)
(* WebRTC task is not wiping (that opens the next session).                *)
(***************************************************************************)
Reading == spc \in {"fill", "write"}

InSessionInv ==
    /\ TypeOK
    /\ NoFlagOnSlotBeingWritten
    /\ peek_sess <= sess
    /\ Reading /\ peek_sess = sess => available[slot] /\ wpc = "idle"
    /\ SendingInSession => payload[slot] = view

-----------------------------------------------------------------------------
\* The initial state is well typed.
LEMMA InitType == Init => TypeOK
<1> SUFFICES ASSUME Init PROVE TypeOK
  OBVIOUS
<1>1. /\ enabled \in BOOLEAN
      /\ prev_enabled \in BOOLEAN
      /\ peek_outstanding \in BOOLEAN
      /\ shmem_video_running \in BOOLEAN
      /\ session_ready \in BOOLEAN
      /\ available \in [Slots -> BOOLEAN]
  BY Zenon DEF Init
<1>2. NoFrame \in Frame
  BY DEF NoFrame, Frame
<1>3. payload \in [Slots -> Frame]
  BY <1>2, Zenon DEF Init
<1> QED
  BY <1>1, <1>2, <1>3 DEF Init, TypeOK, Slots

\* Every step keeps the variables in their types.
LEMMA TypeStep == TypeOK /\ [Next]_vars => TypeOK'
<1> SUFFICES ASSUME TypeOK, [Next]_vars PROVE TypeOK'
  OBVIOUS
<1> USE DEF TypeOK, Slots, Frame
<1>1. ASSUME NEW o \in BOOLEAN, BeginPublish(o) PROVE TypeOK'
  BY <1>1 DEF BeginPublish, RearmedIdx, shared, ring_consumer, shmem_task, webrtc_task
<1>2. CASE DropBusy
  BY <1>2 DEF DropBusy, SlotIsFree, IdxAfterDrop, shared, ring_consumer, shmem_task, webrtc_task
<1>3. CASE BeginCopy
  BY <1>3 DEF BeginCopy, SlotIsFree, shared, ring_consumer, shmem_task, webrtc_task
<1>4. CASE EndPublish
  BY <1>4 DEF EndPublish, Other, ring_consumer, shmem_task, webrtc_task
<1>5. CASE CheckRunning
  BY <1>5 DEF CheckRunning, shared, producer, ring_consumer, webrtc_task
<1>6. ASSUME NEW r \in BOOLEAN, CheckState(r) PROVE TypeOK'
  BY <1>6 DEF CheckState, PollAgain, shared, producer, ring_consumer, webrtc_task
<1>7. CASE BeginPeek
  BY <1>7 DEF BeginPeek, PollAgain, shared, producer, ring_consumer, webrtc_task
<1>8. CASE FillView
  BY <1>8 DEF FillView, ReadSlot, shared, producer, webrtc_task
<1>9. CASE WriteFrame
  BY <1>9 DEF WriteFrame, shared, producer, ring_consumer, webrtc_task
<1>10. CASE BeginRelease
  BY <1>10 DEF BeginRelease, PollAgain, shared, producer, ring_consumer, webrtc_task
<1>11. CASE ClearSlot
  BY <1>11 DEF ClearSlot, Emptied, producer, ring_consumer, webrtc_task
<1>12. CASE EndRelease
  <2>1. peek_outstanding' \in BOOLEAN
    BY <1>12, Zenon DEF EndRelease, Other
  <2> QED
    BY <1>12, <2>1 DEF EndRelease, Other, PollAgain, shared, producer, webrtc_task
<1>13. CASE BeginStart
  BY <1>13 DEF BeginStart, shared, producer, ring_consumer, shmem_task
<1>14. CASE WipeSlot0
  BY <1>14 DEF WipeSlot0, Emptied, producer, ring_consumer, shmem_task
<1>15. CASE WipeSlot1
  <2>1. peek_outstanding' \in BOOLEAN
    BY <1>15, Zenon DEF WipeSlot1, Emptied
  <2> QED
    BY <1>15, <2>1 DEF WipeSlot1, Emptied, producer, shmem_task
<1>16. CASE EndStart
  BY <1>16 DEF EndStart, producer, ring_consumer, shmem_task
<1>17. CASE Stop
  <2>1. enabled' \in BOOLEAN /\ shmem_video_running' \in BOOLEAN
    BY <1>17, Zenon DEF Stop
  <2> QED
    BY <1>17, <2>1 DEF Stop, producer, ring_consumer, shmem_task
<1>18. CASE SessionStateChanges
  BY <1>18 DEF SessionStateChanges, shared, producer, ring_consumer, shmem_task
<1>19. CASE UNCHANGED vars
  BY <1>19 DEF vars, shared, producer, ring_consumer, shmem_task, webrtc_task
<1> QED
  BY <1>1, <1>2, <1>3, <1>4, <1>5, <1>6, <1>7, <1>8, <1>9, <1>10, <1>11, <1>12, <1>13,
     <1>14, <1>15, <1>16, <1>17, <1>18, <1>19
  DEF Next, Producer, ShmemTask, WebrtcTask

\* Type correctness, however sessions start and stop.
THEOREM TypeCorrect == Spec => []TypeOK
<1>1. Init => TypeOK
  BY InitType
<1> QED
  BY <1>1, TypeStep, PTL DEF Spec

-----------------------------------------------------------------------------
(***************************************************************************)
(* The slot a frame of the running session is sent from.  A step of the    *)
(* producer cannot disturb it, because the producer writes to a slot whose *)
(* flag is down; the WebRTC task cannot, because its first step makes the  *)
(* session another one.                                                    *)
(***************************************************************************)
LEMMA InSessionStep == InSessionInv /\ [Next]_vars => InSessionInv'
<1> SUFFICES ASSUME InSessionInv, [Next]_vars PROVE InSessionInv'
  OBVIOUS
<1>t. TypeOK /\ TypeOK'
  BY TypeStep DEF InSessionInv
<1> USE <1>t DEF InSessionInv, NoFlagOnSlotBeingWritten, BeingWritten, Reading, SendingInSession
<1>1. ASSUME NEW o \in BOOLEAN, BeginPublish(o) PROVE InSessionInv'
  BY <1>1 DEF BeginPublish, shared, ring_consumer, shmem_task, webrtc_task
<1>2. CASE DropBusy
  BY <1>2 DEF DropBusy, SlotIsFree, IdxAfterDrop, shared, ring_consumer, shmem_task, webrtc_task
<1>3. CASE BeginCopy
  BY <1>3 DEF BeginCopy, SlotIsFree, shared, ring_consumer, shmem_task, webrtc_task
<1>4. CASE EndPublish
  BY <1>4 DEF EndPublish, Other, ring_consumer, shmem_task, webrtc_task, TypeOK
<1>5. CASE CheckRunning
  BY <1>5 DEF CheckRunning, shared, producer, ring_consumer, webrtc_task
<1>6. ASSUME NEW r \in BOOLEAN, CheckState(r) PROVE InSessionInv'
  BY <1>6 DEF CheckState, PollAgain, shared, producer, ring_consumer, webrtc_task
<1>7. CASE BeginPeek /\ wpc = "idle"
  BY <1>7 DEF BeginPeek, PollAgain, shared, producer, ring_consumer, webrtc_task, TypeOK
<1>8. CASE FillView
  <2>1. PICK f \in ReadSlot(slot) : view' = f
    BY <1>8 DEF FillView
  <2>2. peek_sess = sess => f = payload[slot]
    BY <1>8, <2>1 DEF FillView, ReadSlot, TypeOK
  <2> QED
    BY <1>8, <2>1, <2>2 DEF FillView, shared, producer, webrtc_task
<1>9. CASE WriteFrame
  BY <1>9 DEF WriteFrame, shared, producer, ring_consumer, webrtc_task
<1>10. CASE BeginRelease
  BY <1>10 DEF BeginRelease, PollAgain, shared, producer, ring_consumer, webrtc_task
<1>11. CASE ClearSlot
  BY <1>11 DEF ClearSlot, Emptied, producer, ring_consumer, webrtc_task, TypeOK
<1>12. CASE EndRelease
  BY <1>12 DEF EndRelease, Other, PollAgain, shared, producer, webrtc_task
<1>13. CASE BeginStart
  BY <1>13 DEF BeginStart, shared, producer, ring_consumer, shmem_task, TypeOK
<1>14. CASE WipeSlot0
  BY <1>14 DEF WipeSlot0, Emptied, producer, ring_consumer, shmem_task, TypeOK
<1>15. CASE WipeSlot1
  BY <1>15 DEF WipeSlot1, Emptied, producer, shmem_task, TypeOK
<1>16. CASE EndStart
  BY <1>16 DEF EndStart, producer, ring_consumer, shmem_task
<1>17. CASE Stop
  BY <1>17 DEF Stop, producer, shmem_task
<1>18. CASE SessionStateChanges
  BY <1>18 DEF SessionStateChanges, shared, producer, ring_consumer, shmem_task
<1>19. CASE UNCHANGED vars
  BY <1>19 DEF vars, shared, producer, ring_consumer, shmem_task, webrtc_task
<1> QED
  BY <1>1, <1>2, <1>3, <1>4, <1>5, <1>6, <1>7, <1>8, <1>9, <1>10, <1>11, <1>12, <1>13,
     <1>14, <1>15, <1>16, <1>17, <1>18, <1>19
  DEF Next, Producer, ShmemTask, WebrtcTask

\* InSessionInv holds however sessions start and stop.
LEMMA InSession == Spec => []InSessionInv
<1>1. Init => InSessionInv
  <2> SUFFICES ASSUME Init PROVE InSessionInv
    OBVIOUS
  <2>1. TypeOK
    BY InitType
  <2> QED
    BY <2>1 DEF Init, InSessionInv, NoFlagOnSlotBeingWritten, BeingWritten, Reading,
                SendingInSession
<1> QED
  BY <1>1, InSessionStep, PTL DEF Spec

\* A frame of the running session is sent from a slot that stays owned by
\* the CM33 and keeps that frame, however sessions start and stop.
THEOREM HeldSlotSafe == Spec => []HeldSlotIntactInSession
<1>1. InSessionInv => HeldSlotIntactInSession
  BY DEF InSessionInv, HeldSlotIntactInSession, NoFlagOnSlotBeingWritten, BeingWritten,
         Reading, SendingInSession, TypeOK
<1> QED
  BY <1>1, InSession, PTL

\* The flag of a slot being written stays down, however sessions start and
\* stop: neither core ever sees a half-written slot as filled.
THEOREM FlagSafe == Spec => []NoFlagOnSlotBeingWritten
<1>1. InSessionInv => NoFlagOnSlotBeingWritten
  BY DEF InSessionInv
<1> QED
  BY <1>1, InSession, PTL

-----------------------------------------------------------------------------
(***************************************************************************)
(* The invariant of quiet sessions.                                        *)
(***************************************************************************)

Publishing == ppc \in {"check", "copy"}
Holding == spc \in {"fill", "write", "release", "clear"}

\* What the WebRTC task has done so far in session_start.
WipeInv ==
    /\ enabled <=> shmem_video_running
    /\ wpc # "idle" => /\ ~enabled
                       /\ ~prev_enabled
                       /\ spc \in {"running", "state", "peek"}
    /\ wpc \in {"wipe1", "enable"} => ~available[0]
    /\ wpc = "enable" => ~available[1] /\ consumer_idx = 0

\* What the shmem task holds.
HoldInv ==
    /\ peek_outstanding <=> spc \in {"write", "release", "clear", "advance"}
    /\ Holding => slot = consumer_idx /\ available[slot]
    /\ spc \in {"fill", "write"} => peek_sess = sess
    /\ spc \in {"write", "release"} => payload[slot] = view

\* What the producer is about to publish.
PublishInv ==
    /\ Publishing => /\ prev_enabled
                     /\ in_hand.sess = sess
                     /\ in_hand.seq > last_published.seq
                     /\ in_hand.seq = encoder_frame_seq
    /\ last_published.seq <= encoder_frame_seq
    /\ last_published.sess <= sess
    /\ prev_enabled /\ last_published.sess # sess => producer_idx = 0

\* Outside session_start the consumer meets the frames in the order in which
\* they were published.
OrderInv ==
    wpc = "idle" =>
        /\ available[1 - first] => /\ available[first]
                                   /\ payload[1 - first] = last_published
                                   /\ payload[first].seq < last_published.seq
        /\ available[first] /\ ~available[1 - first] => payload[first] = last_published

\* Producer and consumer walk the slots in step once the producer has seen
\* the session; until then the ring is empty and the consumer is at slot 0.
InStep ==
    /\ prev_enabled =>
          producer_idx = IF (available[first] <=> available[1 - first]) THEN first ELSE 1 - first
    /\ enabled /\ ~prev_enabled => first = 0 /\ ~available[0] /\ ~available[1]

\* The frames that wait in the ring are of this session and were not sent.
WaitInv ==
    /\ last_sent <= last_published.seq
    /\ \A s \in Slots : available[s] => payload[s].seq \in 1 .. last_published.seq
    /\ wpc = "idle" => \A s \in Slots : available[s] => payload[s].sess = sess
    /\ spc \in {"release", "clear"} => last_sent = payload[slot].seq
    /\ \A s \in Slots :
          available[s] /\ ~(spc \in {"release", "clear"} /\ s = slot) =>
              payload[s].seq > last_sent

QuietInv ==
    /\ InSessionInv
    /\ WipeInv
    /\ HoldInv
    /\ PublishInv
    /\ OrderInv
    /\ InStep
    /\ WaitInv

Parts == WipeInv /\ HoldInv /\ PublishInv /\ OrderInv /\ InStep /\ WaitInv

\* Every step of a quiet specification, of the encoder, of the drain task or
\* of the start and stop of a session, keeps QuietInv.
LEMMA QuietStep == QuietInv /\ [QuietNext]_vars => QuietInv'
<1> SUFFICES ASSUME QuietInv, [QuietNext]_vars PROVE QuietInv'
  OBVIOUS
<1>t. InSessionInv'
  BY InSessionStep DEF QuietInv, QuietNext
<1>u. TypeOK /\ TypeOK' /\ InSessionInv
  BY <1>t DEF InSessionInv, QuietInv
<1> USE <1>t, <1>u DEF TypeOK, Slots, Frame, QuietInv, Publishing, Holding, first, Reading, BeingWritten
<1>1. ASSUME NEW o \in BOOLEAN, BeginPublish(o) PROVE Parts'
  <2>1. WipeInv'
    BY <1>1 DEF WipeInv, BeginPublish, RearmedIdx, shared, ring_consumer, shmem_task, webrtc_task
  <2>2. HoldInv'
    BY <1>1 DEF HoldInv, BeginPublish, RearmedIdx, shared, ring_consumer, shmem_task, webrtc_task
  <2>3. PublishInv'
    BY <1>1 DEF PublishInv, BeginPublish, RearmedIdx, shared, ring_consumer, shmem_task, webrtc_task
  <2>4. OrderInv'
    BY <1>1 DEF OrderInv, BeginPublish, RearmedIdx, shared, ring_consumer, shmem_task, webrtc_task
  <2>5. InStep'
    BY <1>1 DEF InStep, BeginPublish, RearmedIdx, shared, ring_consumer, shmem_task, webrtc_task
  <2>6. WaitInv'
    BY <1>1 DEF WaitInv, BeginPublish, RearmedIdx, shared, ring_consumer, shmem_task, webrtc_task
  <2> QED
    BY <2>1, <2>2, <2>3, <2>4, <2>5, <2>6 DEF Parts
<1>2. ASSUME DropBusy PROVE Parts'
  <2>0. producer_idx' = producer_idx /\ Publishing
    BY <1>2, Zenon DEF DropBusy, IdxAfterDrop, Publishing
  <2>1. WipeInv'
    BY <1>2, <2>0 DEF WipeInv, DropBusy, shared, ring_consumer, shmem_task, webrtc_task
  <2>2. HoldInv'
    BY <1>2, <2>0 DEF HoldInv, DropBusy, shared, ring_consumer, shmem_task, webrtc_task
  <2>3. PublishInv'
    BY <1>2, <2>0 DEF PublishInv, DropBusy, shared, ring_consumer, shmem_task, webrtc_task
  <2>4. OrderInv'
    BY <1>2, <2>0 DEF OrderInv, DropBusy, shared, ring_consumer, shmem_task, webrtc_task
  <2>5. InStep'
    BY <1>2, <2>0 DEF InStep, DropBusy, shared, ring_consumer, shmem_task, webrtc_task
  <2>6. WaitInv'
    BY <1>2, <2>0 DEF WaitInv, DropBusy, shared, ring_consumer, shmem_task, webrtc_task
  <2> QED
    BY <2>1, <2>2, <2>3, <2>4, <2>5, <2>6 DEF Parts
<1>3. ASSUME BeginCopy PROVE Parts'
  <2>1. WipeInv'
    BY <1>3 DEF WipeInv, BeginCopy, shared, ring_consumer, shmem_task, webrtc_task
  <2>2. HoldInv'
    BY <1>3 DEF HoldInv, BeginCopy, shared, ring_consumer, shmem_task, webrtc_task
  <2>3. PublishInv'
    BY <1>3 DEF PublishInv, BeginCopy, shared, ring_consumer, shmem_task, webrtc_task
  <2>4. OrderInv'
    BY <1>3 DEF OrderInv, BeginCopy, shared, ring_consumer, shmem_task, webrtc_task
  <2>5. InStep'
    BY <1>3 DEF InStep, BeginCopy, shared, ring_consumer, shmem_task, webrtc_task
  <2>6. WaitInv'
    BY <1>3 DEF WaitInv, BeginCopy, shared, ring_consumer, shmem_task, webrtc_task
  <2> QED
    BY <2>1, <2>2, <2>3, <2>4, <2>5, <2>6 DEF Parts
<1>4. ASSUME EndPublish PROVE Parts'
  <2>0. /\ wpc = "idle" /\ prev_enabled
        /\ ~available[producer_idx]
        /\ in_hand.sess = sess
        /\ in_hand.seq > last_published.seq
    BY <1>4 DEF EndPublish, Other, WipeInv, PublishInv, InSessionInv, NoFlagOnSlotBeingWritten
  <2>1. WipeInv'
    BY <1>4, <2>0 DEF WipeInv, EndPublish, Other, ring_consumer, shmem_task, webrtc_task
  <2>2. HoldInv'
    BY <1>4, <2>0 DEF HoldInv, EndPublish, Other, ring_consumer, shmem_task, webrtc_task
  <2>3. PublishInv'
    BY <1>4 DEF PublishInv, EndPublish, Other, ring_consumer, shmem_task, webrtc_task
  <2>4. OrderInv'
    BY <1>4, <2>0 DEF OrderInv, EndPublish, Other, ring_consumer, shmem_task, webrtc_task, InStep, WaitInv
  <2>5. InStep'
    BY <1>4, <2>0 DEF InStep, EndPublish, Other, ring_consumer, shmem_task, webrtc_task, OrderInv
  <2>6. WaitInv'
    BY <1>4, <2>0 DEF WaitInv, EndPublish, Other, ring_consumer, shmem_task, webrtc_task, OrderInv, HoldInv
  <2> QED
    BY <2>1, <2>2, <2>3, <2>4, <2>5, <2>6 DEF Parts
<1>5. ASSUME CheckRunning /\ wpc = "idle" PROVE Parts'
  <2>1. WipeInv'
    BY <1>5 DEF WipeInv, CheckRunning, shared, producer, ring_consumer, webrtc_task
  <2>2. HoldInv'
    BY <1>5 DEF HoldInv, CheckRunning, shared, producer, ring_consumer, webrtc_task
  <2>3. PublishInv'
    BY <1>5 DEF PublishInv, CheckRunning, shared, producer, ring_consumer, webrtc_task
  <2>4. OrderInv'
    BY <1>5 DEF OrderInv, CheckRunning, shared, producer, ring_consumer, webrtc_task
  <2>5. InStep'
    BY <1>5 DEF InStep, CheckRunning, shared, producer, ring_consumer, webrtc_task
  <2>6. WaitInv'
    BY <1>5 DEF WaitInv, CheckRunning, shared, producer, ring_consumer, webrtc_task
  <2> QED
    BY <2>1, <2>2, <2>3, <2>4, <2>5, <2>6 DEF Parts
<1>6. ASSUME NEW r \in BOOLEAN, CheckState(r) PROVE Parts'
  <2>1. WipeInv'
    BY <1>6 DEF WipeInv, CheckState, PollAgain, shared, producer, ring_consumer, webrtc_task
  <2>2. HoldInv'
    BY <1>6 DEF HoldInv, CheckState, PollAgain, shared, producer, ring_consumer, webrtc_task
  <2>3. PublishInv'
    BY <1>6 DEF PublishInv, CheckState, PollAgain, shared, producer, ring_consumer, webrtc_task
  <2>4. OrderInv'
    BY <1>6 DEF OrderInv, CheckState, PollAgain, shared, producer, ring_consumer, webrtc_task
  <2>5. InStep'
    BY <1>6 DEF InStep, CheckState, PollAgain, shared, producer, ring_consumer, webrtc_task
  <2>6. WaitInv'
    BY <1>6 DEF WaitInv, CheckState, PollAgain, shared, producer, ring_consumer, webrtc_task
  <2> QED
    BY <2>1, <2>2, <2>3, <2>4, <2>5, <2>6 DEF Parts
<1>7. ASSUME BeginPeek /\ wpc = "idle" PROVE Parts'
  <2>1. WipeInv'
    BY <1>7 DEF WipeInv, BeginPeek, PollAgain, shared, producer, ring_consumer, webrtc_task
  <2>2. HoldInv'
    BY <1>7 DEF HoldInv, BeginPeek, PollAgain, shared, producer, ring_consumer, webrtc_task
  <2>3. PublishInv'
    BY <1>7 DEF PublishInv, BeginPeek, PollAgain, shared, producer, ring_consumer, webrtc_task
  <2>4. OrderInv'
    BY <1>7 DEF OrderInv, BeginPeek, PollAgain, shared, producer, ring_consumer, webrtc_task
  <2>5. InStep'
    BY <1>7 DEF InStep, BeginPeek, PollAgain, shared, producer, ring_consumer, webrtc_task
  <2>6. WaitInv'
    BY <1>7 DEF WaitInv, BeginPeek, PollAgain, shared, producer, ring_consumer, webrtc_task
  <2> QED
    BY <2>1, <2>2, <2>3, <2>4, <2>5, <2>6 DEF Parts
<1>8. ASSUME FillView /\ wpc = "idle" PROVE Parts'
  <2>0. PICK f \in ReadSlot(slot) : view' = f
    BY <1>8 DEF FillView
  <2>00. available[slot] /\ f = payload[slot]
    BY <1>8, <2>0 DEF FillView, ReadSlot, HoldInv, InSessionInv, NoFlagOnSlotBeingWritten
  <2>1. WipeInv'
    BY <1>8 DEF WipeInv, FillView, shared, producer, webrtc_task
  <2>2. HoldInv'
    BY <1>8, <2>0, <2>00 DEF HoldInv, FillView, shared, producer, webrtc_task
  <2>3. PublishInv'
    BY <1>8 DEF PublishInv, FillView, shared, producer, webrtc_task
  <2>4. OrderInv'
    BY <1>8 DEF OrderInv, FillView, shared, producer, webrtc_task
  <2>5. InStep'
    BY <1>8 DEF InStep, FillView, shared, producer, webrtc_task
  <2>6. WaitInv'
    BY <1>8 DEF WaitInv, FillView, shared, producer, webrtc_task
  <2> QED
    BY <2>1, <2>2, <2>3, <2>4, <2>5, <2>6 DEF Parts
<1>9. ASSUME WriteFrame /\ wpc = "idle" PROVE Parts'
  <2>1. WipeInv'
    BY <1>9 DEF WipeInv, WriteFrame, shared, producer, ring_consumer, webrtc_task
  <2>2. HoldInv'
    BY <1>9 DEF HoldInv, WriteFrame, shared, producer, ring_consumer, webrtc_task
  <2>3. PublishInv'
    BY <1>9 DEF PublishInv, WriteFrame, shared, producer, ring_consumer, webrtc_task
  <2>4. OrderInv'
    BY <1>9 DEF OrderInv, WriteFrame, shared, producer, ring_consumer, webrtc_task
  <2>5. InStep'
    BY <1>9 DEF InStep, WriteFrame, shared, producer, ring_consumer, webrtc_task
  <2>6. WaitInv'
    BY <1>9 DEF WaitInv, WriteFrame, shared, producer, ring_consumer, webrtc_task, HoldInv, OrderInv
  <2> QED
    BY <2>1, <2>2, <2>3, <2>4, <2>5, <2>6 DEF Parts
<1>10. ASSUME BeginRelease /\ wpc = "idle" PROVE Parts'
  <2>1. WipeInv'
    BY <1>10 DEF WipeInv, BeginRelease, PollAgain, shared, producer, ring_consumer, webrtc_task
  <2>2. HoldInv'
    BY <1>10 DEF HoldInv, BeginRelease, PollAgain, shared, producer, ring_consumer, webrtc_task
  <2>3. PublishInv'
    BY <1>10 DEF PublishInv, BeginRelease, PollAgain, shared, producer, ring_consumer, webrtc_task
  <2>4. OrderInv'
    BY <1>10 DEF OrderInv, BeginRelease, PollAgain, shared, producer, ring_consumer, webrtc_task
  <2>5. InStep'
    BY <1>10 DEF InStep, BeginRelease, PollAgain, shared, producer, ring_consumer, webrtc_task
  <2>6. WaitInv'
    BY <1>10 DEF WaitInv, BeginRelease, PollAgain, shared, producer, ring_consumer, webrtc_task, HoldInv
  <2> QED
    BY <2>1, <2>2, <2>3, <2>4, <2>5, <2>6 DEF Parts
<1>11. ASSUME ClearSlot /\ wpc = "idle" PROVE Parts'
  <2>1. WipeInv'
    BY <1>11 DEF WipeInv, ClearSlot, Emptied, producer, ring_consumer, webrtc_task
  <2>2. HoldInv'
    BY <1>11 DEF HoldInv, ClearSlot, Emptied, producer, ring_consumer, webrtc_task
  <2>3. PublishInv'
    BY <1>11 DEF PublishInv, ClearSlot, Emptied, producer, ring_consumer, webrtc_task
  <2>4. OrderInv'
    BY <1>11 DEF OrderInv, ClearSlot, Emptied, producer, ring_consumer, webrtc_task, HoldInv
  <2>5. InStep'
    BY <1>11 DEF InStep, ClearSlot, Emptied, producer, ring_consumer, webrtc_task, HoldInv, OrderInv
  <2>6. WaitInv'
    BY <1>11 DEF WaitInv, ClearSlot, Emptied, producer, ring_consumer, webrtc_task
  <2> QED
    BY <2>1, <2>2, <2>3, <2>4, <2>5, <2>6 DEF Parts
<1>12. ASSUME EndRelease /\ wpc = "idle" PROVE Parts'
  <2>1. WipeInv'
    BY <1>12 DEF WipeInv, EndRelease, Other, PollAgain, shared, producer, webrtc_task
  <2>2. HoldInv'
    BY <1>12 DEF HoldInv, EndRelease, Other, PollAgain, shared, producer, webrtc_task
  <2>3. PublishInv'
    BY <1>12 DEF PublishInv, EndRelease, Other, PollAgain, shared, producer, webrtc_task
  <2>4. OrderInv'
    BY <1>12 DEF OrderInv, EndRelease, Other, PollAgain, shared, producer, webrtc_task
  <2>5. InStep'
    BY <1>12 DEF InStep, EndRelease, Other, PollAgain, shared, producer, webrtc_task
  <2>6. WaitInv'
    BY <1>12 DEF WaitInv, EndRelease, Other, PollAgain, shared, producer, webrtc_task
  <2> QED
    BY <2>1, <2>2, <2>3, <2>4, <2>5, <2>6 DEF Parts
<1>13. ASSUME BeginStart /\ Quiet PROVE Parts'
  <2>1. WipeInv'
    BY <1>13 DEF WipeInv, BeginStart, Quiet, shared, producer, ring_consumer, shmem_task
  <2>2. HoldInv'
    BY <1>13 DEF HoldInv, BeginStart, Quiet, shared, producer, ring_consumer, shmem_task
  <2>3. PublishInv'
    BY <1>13 DEF PublishInv, BeginStart, Quiet, shared, producer, ring_consumer, shmem_task
  <2>4. OrderInv'
    BY <1>13 DEF OrderInv, BeginStart, Quiet, shared, producer, ring_consumer, shmem_task
  <2>5. InStep'
    BY <1>13 DEF InStep, BeginStart, Quiet, shared, producer, ring_consumer, shmem_task
  <2>6. WaitInv'
    BY <1>13 DEF WaitInv, BeginStart, Quiet, shared, producer, ring_consumer, shmem_task
  <2> QED
    BY <2>1, <2>2, <2>3, <2>4, <2>5, <2>6 DEF Parts
<1>14. ASSUME WipeSlot0 PROVE Parts'
  <2>1. WipeInv'
    BY <1>14 DEF WipeInv, WipeSlot0, Emptied, producer, ring_consumer, shmem_task
  <2>2. HoldInv'
    BY <1>14 DEF HoldInv, WipeSlot0, Emptied, producer, ring_consumer, shmem_task, WipeInv
  <2>3. PublishInv'
    BY <1>14 DEF PublishInv, WipeSlot0, Emptied, producer, ring_consumer, shmem_task
  <2>4. OrderInv'
    BY <1>14 DEF OrderInv, WipeSlot0, Emptied, producer, ring_consumer, shmem_task
  <2>5. InStep'
    BY <1>14 DEF InStep, WipeSlot0, Emptied, producer, ring_consumer, shmem_task, WipeInv
  <2>6. WaitInv'
    BY <1>14 DEF WaitInv, WipeSlot0, Emptied, producer, ring_consumer, shmem_task
  <2> QED
    BY <2>1, <2>2, <2>3, <2>4, <2>5, <2>6 DEF Parts
<1>15. ASSUME WipeSlot1 PROVE Parts'
  <2>1. WipeInv'
    BY <1>15 DEF WipeInv, WipeSlot1, Emptied, producer, shmem_task
  <2>2. HoldInv'
    BY <1>15 DEF HoldInv, WipeSlot1, Emptied, producer, shmem_task, WipeInv
  <2>3. PublishInv'
    BY <1>15 DEF PublishInv, WipeSlot1, Emptied, producer, shmem_task
  <2>4. OrderInv'
    BY <1>15 DEF OrderInv, WipeSlot1, Emptied, producer, shmem_task
  <2>5. InStep'
    BY <1>15 DEF InStep, WipeSlot1, Emptied, producer, shmem_task, WipeInv
  <2>6. WaitInv'
    BY <1>15 DEF WaitInv, WipeSlot1, Emptied, producer, shmem_task
  <2> QED
    BY <2>1, <2>2, <2>3, <2>4, <2>5, <2>6 DEF Parts
<1>16. ASSUME EndStart PROVE Parts'
  <2>1. WipeInv'
    BY <1>16 DEF WipeInv, EndStart, producer, ring_consumer, shmem_task
  <2>2. HoldInv'
    BY <1>16 DEF HoldInv, EndStart, producer, ring_consumer, shmem_task
  <2>3. PublishInv'
    BY <1>16 DEF PublishInv, EndStart, producer, ring_consumer, shmem_task
  <2>4. OrderInv'
    BY <1>16 DEF OrderInv, EndStart, producer, ring_consumer, shmem_task, WipeInv
  <2>5. InStep'
    BY <1>16 DEF InStep, EndStart, producer, ring_consumer, shmem_task, WipeInv
  <2>6. WaitInv'
    BY <1>16 DEF WaitInv, EndStart, producer, ring_consumer, shmem_task, WipeInv
  <2> QED
    BY <2>1, <2>2, <2>3, <2>4, <2>5, <2>6 DEF Parts
<1>17. ASSUME Stop PROVE Parts'
  <2>1. WipeInv'
    BY <1>17 DEF WipeInv, Stop, producer, shmem_task
  <2>2. HoldInv'
    BY <1>17 DEF HoldInv, Stop, producer, ring_consumer, shmem_task
  <2>3. PublishInv'
    BY <1>17 DEF PublishInv, Stop, producer, shmem_task
  <2>4. OrderInv'
    BY <1>17 DEF OrderInv, Stop, producer, ring_consumer, shmem_task
  <2>5. InStep'
    BY <1>17 DEF InStep, Stop, producer, ring_consumer, shmem_task
  <2>6. WaitInv'
    BY <1>17 DEF WaitInv, Stop, producer, shmem_task
  <2> QED
    BY <2>1, <2>2, <2>3, <2>4, <2>5, <2>6 DEF Parts
<1>18. ASSUME SessionStateChanges PROVE Parts'
  <2>1. WipeInv'
    BY <1>18 DEF WipeInv, SessionStateChanges, shared, producer, ring_consumer, shmem_task
  <2>2. HoldInv'
    BY <1>18 DEF HoldInv, SessionStateChanges, shared, producer, ring_consumer, shmem_task
  <2>3. PublishInv'
    BY <1>18 DEF PublishInv, SessionStateChanges, shared, producer, ring_consumer, shmem_task
  <2>4. OrderInv'
    BY <1>18 DEF OrderInv, SessionStateChanges, shared, producer, ring_consumer, shmem_task
  <2>5. InStep'
    BY <1>18 DEF InStep, SessionStateChanges, shared, producer, ring_consumer, shmem_task
  <2>6. WaitInv'
    BY <1>18 DEF WaitInv, SessionStateChanges, shared, producer, ring_consumer, shmem_task
  <2> QED
    BY <2>1, <2>2, <2>3, <2>4, <2>5, <2>6 DEF Parts
<1>19. ASSUME UNCHANGED vars PROVE Parts'
  <2>1. WipeInv'
    BY <1>19 DEF WipeInv, vars, shared, producer, ring_consumer, shmem_task, webrtc_task
  <2>2. HoldInv'
    BY <1>19 DEF HoldInv, vars, shared, producer, ring_consumer, shmem_task, webrtc_task
  <2>3. PublishInv'
    BY <1>19 DEF PublishInv, vars, shared, producer, ring_consumer, shmem_task, webrtc_task
  <2>4. OrderInv'
    BY <1>19 DEF OrderInv, vars, shared, producer, ring_consumer, shmem_task, webrtc_task
  <2>5. InStep'
    BY <1>19 DEF InStep, vars, shared, producer, ring_consumer, shmem_task, webrtc_task
  <2>6. WaitInv'
    BY <1>19 DEF WaitInv, vars, shared, producer, ring_consumer, shmem_task, webrtc_task
  <2> QED
    BY <2>1, <2>2, <2>3, <2>4, <2>5, <2>6 DEF Parts
<1> QED
  BY <1>1, <1>2, <1>3, <1>4, <1>5, <1>6, <1>7, <1>8, <1>9, <1>10, <1>11, <1>12, <1>13,
     <1>14, <1>15, <1>16, <1>17, <1>18, <1>19
  DEF QuietNext, Next, Producer, ShmemTask, WebrtcTask, Parts, BeginStart

\* QuietInv holds when sessions follow each other quietly.
LEMMA QuietInvariant == QuietSpec => []QuietInv
<1>1. Init => QuietInv
  <2> SUFFICES ASSUME Init PROVE QuietInv
    OBVIOUS
  <2>1. InSessionInv
    BY InitType DEF Init, InSessionInv, NoFlagOnSlotBeingWritten, BeingWritten, Reading,
                    SendingInSession
  <2>2. /\ enabled <=> FALSE
        /\ shmem_video_running <=> FALSE
        /\ prev_enabled <=> FALSE
        /\ peek_outstanding <=> FALSE
        /\ \A s \in Slots : ~available[s]
    BY Zenon DEF Init
  <2> QED
    BY <2>1, <2>2 DEF Init, QuietInv, WipeInv, HoldInv, PublishInv, OrderInv, InStep, WaitInv,
                      Publishing, Holding, first, Slots, NoFrame
<1> QED
  BY <1>1, QuietStep, PTL DEF QuietSpec

\* The three properties of quiet sessions that QuietInv contains.
LEMMA QuietParts ==
    QuietSpec => [](NoStaleFrame /\ SentInOrder /\ FirstFrameInSlot0)
<1>1. ASSUME QuietInv PROVE NoStaleFrame /\ SentInOrder /\ FirstFrameInSlot0
  <2>1. NoStaleFrame
    BY <1>1 DEF QuietInv, NoStaleFrame, SendingInSession, HoldInv, WaitInv, WipeInv, Holding,
                InSessionInv, TypeOK
  <2>2. SentInOrder
    BY <1>1 DEF QuietInv, SentInOrder, SendingInSession, HoldInv, WaitInv, Holding,
                InSessionInv, TypeOK
  <2>3. FirstFrameInSlot0
    BY <1>1 DEF QuietInv, FirstFrameInSlot0, PublishInv, Publishing
  <2> QED
    BY <2>1, <2>2, <2>3
<1> QED
  BY <1>1, QuietInvariant, PTL

\* When sessions follow each other quietly, no frame accepted for an earlier
\* session is sent.
THEOREM NoStaleFrameSafe == QuietSpec => []NoStaleFrame
BY QuietParts, PTL

\* And each frame handed to WriteFrame is newer than the one before it.
THEOREM SentInOrderSafe == QuietSpec => []SentInOrder
BY QuietParts, PTL

\* And the first frame of a session is put where the consumer starts.
THEOREM FirstFrameInSlot0Safe == QuietSpec => []FirstFrameInSlot0
BY QuietParts, PTL

-----------------------------------------------------------------------------
(***************************************************************************)
(* The refinement.  Ring is what the abstract queue looks like from the    *)
(* flags and the frame numbers of the two slots.                           *)
(***************************************************************************)
Sent == spc \in {"release", "clear"}

\* Concatenating two sequences of one number.
LEMMA ShortConcat ==
  ASSUME NEW a \in Nat, NEW b \in Nat
  PROVE  <<a>> \o <<b>> = <<a, b>>
<1> DEFINE s == <<a>> \o <<b>>
           t == <<a, b>>
<1>1. s \in Seq(Nat) /\ t \in Seq(Nat) /\ Len(s) = 2 /\ Len(t) = 2
  BY ConcatProperties
<1>2. s[1] = a /\ s[2] = b
  BY ConcatProperties
<1>3. \A i \in 1 .. Len(s) : s[i] = t[i]
  BY <1>1, <1>2
<1> QED
  BY <1>1, <1>3, SeqEqual

\* Appending a second number.
LEMMA ShortAppend ==
  ASSUME NEW a \in Nat, NEW b \in Nat
  PROVE  Append(<<a>>,b) = <<a,b>>
<1> DEFINE s == Append(<<a>>, b)
           t == <<a, b>>
<1>1. s \in Seq(Nat) /\ t \in Seq(Nat) /\ Len(s) = 2 /\ Len(t) = 2
  OBVIOUS
<1>2. s[1] = a /\ s[2] = b
  OBVIOUS
<1>3. \A i \in 1 .. Len(s) : s[i] = t[i]
  BY <1>1, <1>2
<1> HIDE DEF s, t
<1> QED
  BY <1>1, <1>3, SeqEqual DEF s, t

\* The tails of sequences of one and of two numbers.
LEMMA ShortTail ==
  ASSUME NEW a \in Nat, NEW b \in Nat
  PROVE  /\ <<a>> # <<>> /\ <<a, b>> # <<>>
         /\ Len(<<a, b>>) - 1 = 1
         /\ Tail(<<a>>) = <<>> /\ Tail(<<a, b>>) = <<b>>
  OBVIOUS

\* Two numbers without the last one.
LEMMA ShortSubSeq ==
  ASSUME NEW a \in Nat, NEW b \in Nat
  PROVE  SubSeq(<<a,b>>,1,1) = <<a>>
<1> DEFINE s == SubSeq(<<a, b>>, 1, 1)
           t == <<a>>
<1>1. s \in Seq(Nat) /\ t \in Seq(Nat) /\ Len(s) = 1 /\ Len(t) = 1
  OBVIOUS
<1>2. s[1] = a
  OBVIOUS
<1>3. \A i \in 1 .. Len(s) : s[i] = t[i]
  BY <1>1, <1>2
<1> HIDE DEF s, t
<1>4. s = t
  BY <1>1, <1>3, SeqEqual
<1> QED
  BY <1>4 DEF s, t

\* The unsent frames, by the flags of the slots.
UnsentIs ==
    LET a == payload[first].seq
        b == payload[1 - first].seq
    IN  /\ a \in Nat /\ b \in Nat
        /\ Sent => available[first]
        /\ Sent /\ available[1 - first] => unsent = <<b>>
        /\ Sent /\ ~available[1 - first] => unsent = <<>>
        /\ ~Sent /\ available[first] /\ available[1 - first] => unsent = <<a, b>>
        /\ ~Sent /\ available[first] /\ ~available[1 - first] => unsent = <<a>>
        /\ ~Sent /\ ~available[first] /\ available[1 - first] => unsent = <<b>>
        /\ ~Sent /\ ~available[first] /\ ~available[1 - first] => unsent = <<>>

\* The refinement mapping's queue is what the two flags say it is.
LEMMA UnsentForm == QuietInv => UnsentIs
<1> SUFFICES ASSUME QuietInv PROVE UnsentIs
  OBVIOUS
<1> DEFINE a == payload[first].seq
           b == payload[1 - first].seq
<1>1. a \in Nat /\ b \in Nat
  BY DEF QuietInv, InSessionInv, TypeOK, first, Slots, Frame
<1>2. Sent => available[first]
  BY DEF Sent, QuietInv, HoldInv, Holding, first
<1>3. unconsumed = (IF available[first] THEN <<a>> ELSE <<>>)
                   \o (IF available[1 - first] THEN <<b>> ELSE <<>>)
  BY DEF unconsumed
<1>4. unsent = IF Sent THEN Tail(unconsumed) ELSE unconsumed
  BY DEF unsent, Sent
<1> HIDE DEF a, b
<1>5. /\ <<a>> \o <<>> = <<a>>
      /\ <<>> \o <<b>> = <<b>>
      /\ <<>> \o <<>> = <<>>
      /\ Tail(<<a, b>>) = <<b>>
      /\ Tail(<<a>>) = <<>>
  BY <1>1
<1>6. <<a>> \o <<b>> = <<a, b>>
  BY <1>1, ShortConcat
<1>7. UnsentIs <=> LET c == a  d == b IN
        /\ a \in Nat /\ b \in Nat
        /\ Sent => available[first]
        /\ Sent /\ available[1 - first] => unsent = <<b>>
        /\ Sent /\ ~available[1 - first] => unsent = <<>>
        /\ ~Sent /\ available[first] /\ available[1 - first] => unsent = <<a, b>>
        /\ ~Sent /\ available[first] /\ ~available[1 - first] => unsent = <<a>>
        /\ ~Sent /\ ~available[first] /\ available[1 - first] => unsent = <<b>>
        /\ ~Sent /\ ~available[first] /\ ~available[1 - first] => unsent = <<>>
  BY DEF UnsentIs, a, b
<1> QED
  BY <1>1, <1>2, <1>3, <1>4, <1>5, <1>6, <1>7

FirstOK == first \in Slots

\* The slot the consumer reads next is a slot.
LEMMA FirstInSlots == TypeOK => FirstOK
BY DEF TypeOK, FirstOK, first, Slots

\* Every step of the ring is a step of the queue or leaves it alone: the
\* publication is Put, WriteFrame is Take, the wipes of session_start are Wipe.
LEMMA FifoStep ==
    QuietInv /\ QuietInv' /\ [QuietNext]_vars => [Fifo!Next]_(Fifo!fifo)
<1> SUFFICES ASSUME QuietInv, QuietInv', [QuietNext]_vars
             PROVE  Fifo!Next \/ UNCHANGED Fifo!fifo
  BY DEF QuietInv
<1>a. UnsentIs
  BY UnsentForm
<1>b. UnsentIs'
  BY UnsentForm, PTL
<1>c. TypeOK /\ TypeOK'
  BY DEF QuietInv, InSessionInv
<1>d. first \in Slots /\ first' \in Slots
  <2>1. FirstOK
    BY <1>c, FirstInSlots
  <2>2. FirstOK'
    BY <1>c, FirstInSlots, PTL
  <2> QED
    BY <2>1, <2>2 DEF FirstOK, Slots
<1> DEFINE Stutter == UNCHANGED <<shmem_video_running, unsent, last_published, last_sent>>
<1>s. Stutter => UNCHANGED Fifo!fifo
  BY DEF Fifo!fifo
<1>1. ASSUME NEW o \in BOOLEAN, BeginPublish(o) PROVE Stutter
  BY <1>1 DEF BeginPublish, shared, ring_consumer, shmem_task, webrtc_task, unsent, unconsumed, first
<1>2. ASSUME DropBusy PROVE Stutter
  BY <1>2 DEF DropBusy, SlotIsFree, IdxAfterDrop, shared, ring_consumer, shmem_task, webrtc_task, unsent, unconsumed, first
<1>3. ASSUME BeginCopy PROVE Stutter
  BY <1>3 DEF BeginCopy, SlotIsFree, shared, ring_consumer, shmem_task, webrtc_task, unsent, unconsumed, first
<1>5. ASSUME CheckRunning PROVE Stutter
  BY <1>5 DEF CheckRunning, shared, producer, ring_consumer, webrtc_task, unsent, unconsumed, first
<1>6. ASSUME NEW r \in BOOLEAN, CheckState(r) PROVE Stutter
  BY <1>6 DEF CheckState, PollAgain, shared, producer, ring_consumer, webrtc_task, unsent, unconsumed, first
<1>7. ASSUME BeginPeek PROVE Stutter
  BY <1>7 DEF BeginPeek, PollAgain, shared, producer, ring_consumer, webrtc_task, unsent, unconsumed, first
<1>8. ASSUME FillView PROVE Stutter
  BY <1>8 DEF FillView, shared, producer, webrtc_task, unsent, unconsumed, first
<1>10. ASSUME BeginRelease PROVE Stutter
  BY <1>10 DEF BeginRelease, PollAgain, shared, producer, ring_consumer, webrtc_task, unsent, unconsumed, first, QuietInv, HoldInv
<1>12. ASSUME EndRelease PROVE Stutter
  BY <1>12, <1>c DEF EndRelease, Other, PollAgain, shared, producer, webrtc_task, unsent, unconsumed, first, TypeOK, Slots
<1>18. ASSUME SessionStateChanges PROVE Stutter
  BY <1>18 DEF SessionStateChanges, shared, producer, ring_consumer, shmem_task, webrtc_task, unsent, unconsumed, first
<1>19. ASSUME UNCHANGED vars PROVE Stutter
  BY <1>19 DEF vars, shared, producer, ring_consumer, shmem_task, webrtc_task, unsent, unconsumed, first
<1> USE DEF Sent
<1>11. ASSUME ClearSlot PROVE Stutter
  <2>1. /\ first' = 1 - first /\ slot = first
        /\ available' = [available EXCEPT ![first] = FALSE]
        /\ 1 - (1 - first) = first /\ first \in Slots
        /\ payload' = payload
    BY <1>11, <1>c DEF ClearSlot, Emptied, QuietInv, HoldInv, Holding, first, ring_consumer, TypeOK, Slots
  <2>2. ~available'[first] /\ (available'[1 - first] <=> available[1 - first])
    BY <2>1, <1>c DEF TypeOK, Slots
  <2>3. unsent' = unsent
    BY <1>11, <1>a, <1>b, <2>1, <2>2 DEF ClearSlot, Emptied, UnsentIs
  <2> QED
    BY <1>11, <2>3 DEF ClearSlot, Emptied, producer, webrtc_task
<1>13. ASSUME BeginStart PROVE Fifo!Renew
  <2>1. unsent' = unsent
    BY <1>13 DEF BeginStart, shared, ring_consumer, shmem_task, unsent, unconsumed, first
  <2> QED
    BY <1>13, <2>1 DEF BeginStart, producer, Fifo!Renew
<1>17. ASSUME Stop PROVE Fifo!Close
  <2>1. unsent' = unsent
    BY <1>17 DEF Stop, ring_consumer, shmem_task, unsent, unconsumed, first
  <2>2. shmem_video_running /\ ~shmem_video_running'
    BY <1>17 DEF Stop
  <2>3. shmem_video_running' = FALSE
    BY <1>17 DEF Stop
  <2> QED
    BY <1>17, <2>1, <2>2, <2>3 DEF Stop, producer, Fifo!Close
<1>16. ASSUME EndStart PROVE Fifo!Open
  <2>1. ~available[0] /\ ~available[1] /\ ~Sent /\ ~shmem_video_running /\ first = 0
    BY <1>16 DEF EndStart, QuietInv, WipeInv, first
  <2>2. unsent = <<>>
    BY <2>1, <1>a DEF UnsentIs
  <2>3. unsent' = unsent
    BY <1>16 DEF EndStart, ring_consumer, shmem_task, unsent, unconsumed, first
  <2> QED
    BY <1>16, <2>1, <2>2, <2>3 DEF EndStart, producer, Fifo!Open
<1>4. ASSUME EndPublish PROVE Fifo!Put
  <2> DEFINE n == in_hand.seq
  <2>1. /\ prev_enabled
        /\ ~available[producer_idx]
        /\ n > last_published.seq
        /\ n \in Nat
    BY <1>4, <1>c DEF EndPublish, Other, QuietInv, PublishInv, Publishing, InSessionInv,
                      NoFlagOnSlotBeingWritten, BeingWritten, TypeOK, Frame, Slots
  <2>2. first' = first /\ first \in Slots /\ (Sent' <=> Sent)
    BY <1>4, <1>c DEF EndPublish, Other, ring_consumer, shmem_task, first, TypeOK, Slots
  <2>3. unsent' = Append(unsent, n) /\ Len(unsent) < 2
    <3>1. CASE producer_idx = first
      <4>1. ~available[1 - first] /\ ~Sent
        BY <2>1, <3>1, <1>a DEF QuietInv, WipeInv, OrderInv, UnsentIs
      <4>2. available'[first] /\ ~available'[1 - first] /\ payload'[first] = in_hand
        BY <1>4, <2>2, <3>1, <4>1, <1>c DEF EndPublish, Other, TypeOK, Slots
      <4>3. unsent = <<>> /\ unsent' = <<n>>
        BY <2>1, <2>2, <3>1, <4>1, <4>2, <1>a, <1>b DEF UnsentIs
      <4> QED
        BY <4>3, <2>1
    <3>2. CASE producer_idx = 1 - first
      <4>1. available[first] /\ 1 - first # first
        BY <2>1, <3>2, <2>2, <1>c DEF QuietInv, InStep, TypeOK, Slots
      <4>2. /\ available'[first] /\ available'[1 - first]
            /\ payload'[first] = payload[first] /\ payload'[1 - first] = in_hand
        BY <1>4, <2>2, <3>2, <4>1, <1>c DEF EndPublish, Other, TypeOK, Slots
      <4>3. /\ Sent => unsent = <<>> /\ unsent' = <<n>>
            /\ ~Sent => unsent = <<payload[first].seq>> /\ unsent' = <<payload[first].seq, n>>
        BY <2>1, <2>2, <3>2, <4>1, <4>2, <1>a, <1>b DEF UnsentIs
      <4> DEFINE m == payload[first].seq
      <4>4. m \in Nat
        BY <1>a DEF UnsentIs
      <4> HIDE DEF m, n
      <4>5. /\ Append(<<>>, n) = <<n>> /\ Len(<<>>) = 0
            /\ Append(<<m>>, n) = <<m, n>> /\ Len(<<m>>) = 1
        BY <2>1, <4>4, ShortAppend
      <4>6. \/ unsent = <<>> /\ unsent' = <<n>>
            \/ unsent = <<m>> /\ unsent' = <<m, n>>
        BY <4>3 DEF m, n
      <4>7. unsent' = Append(unsent, n) /\ (Len(unsent) = 0 \/ Len(unsent) = 1)
        BY <4>5, <4>6, Zenon
      <4> QED
        BY ONLY <4>7
    <3> QED
      BY <3>1, <3>2, <2>2, <1>c DEF TypeOK, Slots
  <2> QED
    BY <1>4, <2>1, <2>3 DEF EndPublish, Other, webrtc_task, Fifo!Put
<1>9. ASSUME WriteFrame PROVE Fifo!Take
  <2> DEFINE a == payload[first].seq
             b == payload[1 - first].seq
  <2>1. /\ ~Sent /\ Sent' /\ available[first] /\ last_sent' = a
        /\ first' = first /\ UNCHANGED <<available, payload>>
    BY <1>9 DEF WriteFrame, QuietInv, HoldInv, Holding, first, ring_consumer, shared
  <2>2. /\ a \in Nat /\ b \in Nat
        /\ available[1 - first] => unsent = <<a, b>> /\ unsent' = <<b>>
        /\ ~available[1 - first] => unsent = <<a>> /\ unsent' = <<>>
    BY <2>1, <1>a, <1>b DEF UnsentIs
  <2> HIDE DEF a, b
  <2>3. /\ <<a, b>> # <<>> /\ Head(<<a, b>>) = a /\ Tail(<<a, b>>) = <<b>>
        /\ <<a>> # <<>> /\ Head(<<a>>) = a /\ Tail(<<a>>) = <<>>
    BY <2>2
  <2>4. unsent # <<>> /\ Head(unsent) = a /\ Tail(unsent) = unsent'
    BY <2>2, <2>3
  <2> QED
    BY <1>9, <2>1, <2>4 DEF WriteFrame, webrtc_task, producer, Fifo!Take
<1>14. ASSUME WipeSlot0 PROVE Fifo!Wipe \/ Stutter
  <2> DEFINE x == payload[0].seq
             y == payload[1].seq
  <2>1. /\ ~Sent /\ ~Sent' /\ ~shmem_video_running
        /\ UNCHANGED <<payload, shmem_video_running, last_published, last_sent>>
    BY <1>14 DEF WipeSlot0, Emptied, QuietInv, WipeInv, shmem_task, producer
  <2>2. x \in Nat /\ y \in Nat
    BY <1>a, <1>d DEF UnsentIs, Slots
  <2>3. /\ first' = first
        /\ ~available'[0]
        /\ available'[1] <=> available[1]
    BY <1>14, <1>c DEF WipeSlot0, Emptied, ring_consumer, shmem_task, first, TypeOK, Slots
  <2>4. \/ unsent' = unsent
        \/ unsent = <<x>> /\ unsent' = <<>>
        \/ unsent = <<x, y>> /\ unsent' = <<y>>
        \/ unsent = <<y, x>> /\ unsent' = <<y>>
    <3>1. CASE first = 0
      BY <1>a, <1>b, <2>1, <2>3, <3>1 DEF UnsentIs
    <3>2. CASE first = 1
      BY <1>a, <1>b, <2>1, <2>3, <3>2 DEF UnsentIs
    <3> QED
      BY <3>1, <3>2, <1>d DEF Slots
  <2> DEFINE Shorter == /\ unsent # <<>>
                        /\ \/ unsent' = Tail(unsent)
                           \/ unsent' = SubSeq(unsent, 1, Len(unsent) - 1)
  <2> HIDE DEF x, y
  <2>5. unsent' = unsent \/ Shorter
    BY <2>2, <2>4, ShortSubSeq, ShortTail
  <2> QED
    BY <2>1, <2>5 DEF Fifo!Wipe
<1>15. ASSUME WipeSlot1 PROVE Fifo!Wipe \/ Stutter
  <2> DEFINE x == payload[0].seq
             y == payload[1].seq
  <2>1. /\ ~Sent /\ ~Sent' /\ ~shmem_video_running
        /\ UNCHANGED <<payload, shmem_video_running, last_published, last_sent>>
    BY <1>15 DEF WipeSlot1, Emptied, QuietInv, WipeInv, shmem_task, producer
  <2>2. x \in Nat /\ y \in Nat
    BY <1>a, <1>d DEF UnsentIs, Slots
  <2>3. ~available[0] /\ ~available'[0] /\ ~available'[1]
    BY <1>15, <1>c DEF WipeSlot1, Emptied, QuietInv, WipeInv, TypeOK, Slots
  <2>4. unsent' = <<>> /\ (unsent = <<>> \/ unsent = <<y>>)
    <3>1. unsent' = <<>>
      BY <1>b, <1>d, <2>1, <2>3 DEF UnsentIs, Slots
    <3>2. CASE first = 0
      BY <1>a, <2>1, <2>3, <3>1, <3>2 DEF UnsentIs
    <3>3. CASE first = 1
      BY <1>a, <2>1, <2>3, <3>1, <3>3 DEF UnsentIs
    <3> QED
      BY <3>1, <3>2, <3>3, <1>d DEF Slots
  <2> DEFINE Shorter == /\ unsent # <<>>
                        /\ \/ unsent' = Tail(unsent)
                           \/ unsent' = SubSeq(unsent, 1, Len(unsent) - 1)
  <2> HIDE DEF x, y
  <2>5. unsent' = unsent \/ Shorter
    BY <2>2, <2>4, ShortSubSeq, ShortTail
  <2> QED
    BY <2>1, <2>5 DEF Fifo!Wipe
<1> QED
  BY <1>s, <1>1, <1>2, <1>3, <1>4, <1>5, <1>6, <1>7, <1>8, <1>9, <1>10, <1>11, <1>12, <1>13,
     <1>14, <1>15, <1>16, <1>17, <1>18, <1>19
  DEF QuietNext, Next, Producer, ShmemTask, WebrtcTask, Fifo!Next

\* The ring implements the two-place queue of FrameFifo.
THEOREM RingImplementsFifo == QuietSpec => RingIsFifo
<1>1. Init => Fifo!Init
  <2> SUFFICES ASSUME Init PROVE Fifo!Init
    OBVIOUS
  <2>1. ~available[0] /\ ~available[1] /\ first = 0 /\ ~Sent
    BY DEF Init, Slots, first, Sent
  <2>2. unsent = <<>>
    BY <2>1 DEF unsent, unconsumed, Sent
  <2>3. shmem_video_running = FALSE
    BY DEF Init
  <2> QED
    BY <2>2, <2>3 DEF Init, Fifo!Init, NoFrame
<1>2. QuietInv /\ QuietInv' /\ [QuietNext]_vars => [Fifo!Next]_(Fifo!fifo)
  BY FifoStep
<1> QED
  BY <1>1, <1>2, QuietInvariant, PTL DEF QuietSpec, RingIsFifo, Fifo!Spec
=============================================================================
