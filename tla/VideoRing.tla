----------------------------- MODULE VideoRing -----------------------------
(***************************************************************************)
(* The H.264 ring the two cores share: shared/source/COMPONENT_CM55/       *)
(* video_ring.c (producer, called by the encoder task of the CM55),        *)
(* shared/source/COMPONENT_CM33/video_ring_consumer.c (consumer) and       *)
(* proj_cm33_ns/webrtc/app_shmem_video.c (the task of the CM33 that drains *)
(* the ring into PeerConnection_WriteFrame, and the start and stop that    *)
(* the WebRTC task calls).                                                 *)
(*                                                                         *)
(* A step is one access to memory that another actor also uses, with the   *)
(* private work up to the next such access.  Three actors take steps:      *)
(*                                                                         *)
(*   - the encoder task, program counter ppc;                              *)
(*   - the shmem video task, program counter spc;                          *)
(*   - the WebRTC task, program counter wpc.  It runs on the same core as  *)
(*     the shmem task at a higher priority and its start and stop do not   *)
(*     block, so the shmem task takes no step in the middle of either; the *)
(*     encoder, on the other core, does.                                   *)
(*                                                                         *)
(* The shared region is taken to be coherent (see the README).             *)
(***************************************************************************)
EXTENDS Naturals, Sequences

CONSTANTS
    MaxFrames,   \* bound: frames the encoder produces
    MaxSessions  \* bound: calls of app_shmem_video_start that start a session

ASSUME BoundsAssumption == MaxFrames \in Nat /\ MaxSessions \in Nat

Slots == {0, 1}  \* VIDEO_RING_SLOTS

(***************************************************************************)
(* What a slot carries: the sequence number of the frame and, as history,  *)
(* the session whose enable the producer had observed when it accepted it. *)
(***************************************************************************)
Frame == [seq : Nat, sess : Nat]
NoFrame == [seq |-> 0, sess |-> 0]

VARIABLES
    \* Shared between the cores.
    enabled,              \* ring_header->enabled
    available,            \* ring_slots[i].available
    payload,              \* the rest of ring_slots[i]
    \* The encoder task (CM55).
    producer_idx,
    prev_enabled,
    encoder_frame_seq,
    in_hand,              \* the encoded frame try_publish was called with
    ppc,
    \* The shmem video task (CM33).
    consumer_idx,
    peek_outstanding,
    slot,                 \* the slot pointer of the call in progress
    view,                 \* video_ring_slot_view_t: what the metadata said
    spc,
    \* The WebRTC task (CM33) and what it shares with the shmem task.
    shmem_video_running,
    session_ready,        \* shmem_video_session->state is CONNECTION_READY
    wpc,
    \* History.
    sess,                 \* number of sessions started
    peek_sess,            \* session in which the peek in progress began
    last_published,       \* last frame made available
    last_sent             \* last sequence number given to WriteFrame in sess

shared == <<enabled, available, payload>>
producer == <<producer_idx, prev_enabled, encoder_frame_seq, in_hand, ppc,
              last_published>>
ring_consumer == <<consumer_idx, peek_outstanding>>
shmem_task == <<slot, view, spc, peek_sess>>
webrtc_task == <<shmem_video_running, session_ready, wpc, sess>>
vars == <<shared, producer, ring_consumer, shmem_task, webrtc_task, last_sent>>

TypeOK ==
    /\ enabled \in BOOLEAN
    /\ available \in [Slots -> BOOLEAN]
    /\ payload \in [Slots -> Frame]
    /\ producer_idx \in Slots
    /\ prev_enabled \in BOOLEAN
    /\ encoder_frame_seq \in Nat
    /\ in_hand \in Frame
    /\ ppc \in {"encode", "check", "copy"}
    /\ consumer_idx \in Slots
    /\ peek_outstanding \in BOOLEAN
    /\ slot \in Slots
    /\ view \in Frame
    /\ spc \in {"running", "state", "peek", "fill", "write", "release",
                "clear", "advance"}
    /\ shmem_video_running \in BOOLEAN
    /\ session_ready \in BOOLEAN
    /\ wpc \in {"idle", "wipe0", "wipe1", "enable"}
    /\ sess \in Nat
    /\ peek_sess \in Nat
    /\ last_published \in Frame
    /\ last_sent \in Nat

(***************************************************************************)
(* Both cores are up, video_ring_init has run (the CM55 runs it before its *)
(* scheduler starts, and app_task waits for the CM55 before it starts the  *)
(* WebRTC task) and no session has been started.                           *)
(***************************************************************************)
Init ==
    /\ enabled = FALSE
    /\ available = [s \in Slots |-> FALSE]
    /\ payload = [s \in Slots |-> NoFrame]
    /\ producer_idx = 0
    /\ prev_enabled = FALSE
    /\ encoder_frame_seq = 0
    /\ in_hand = NoFrame
    /\ ppc = "encode"
    /\ consumer_idx = 0
    /\ peek_outstanding = FALSE
    /\ slot = 0
    /\ view = NoFrame
    /\ spc = "running"
    /\ shmem_video_running = FALSE
    /\ session_ready = FALSE
    /\ wpc = "idle"
    /\ sess = 0
    /\ peek_sess = 0
    /\ last_published = NoFrame
    /\ last_sent = 0

-----------------------------------------------------------------------------
\* The other slot of the ring.
OtherNoWrap(s) == s + 1  \* mutant: the index is not wrapped
Other(s) == 1 - s

\* The flags once the CM33 has emptied slot s.
EmptiedNot(s) == available  \* mutant: the flag stays up
Emptied(s) == [available EXCEPT ![s] = FALSE]

(***************************************************************************)
(* The producer: video_ring_try_publish, called once per encoded frame.    *)
(* encoder_frame_seq is incremented after the call whatever it returns;    *)
(* the model numbers frames from 1 and increments on entry.                *)
(***************************************************************************)

\* Slot 0 is the first of a session: re-arm on a 0->1 transition of enabled.
RearmedNever == producer_idx  \* mutant: no re-arm
RearmedIdx == IF enabled /\ ~prev_enabled THEN 0 ELSE producer_idx

\* The encoder finishes a frame and try_publish reads enabled.
BeginPublish(oversize) ==
    /\ ppc = "encode"
    /\ encoder_frame_seq < MaxFrames
    /\ encoder_frame_seq' = encoder_frame_seq + 1
    /\ producer_idx' = RearmedIdx
    /\ prev_enabled' = enabled
    /\ IF enabled /\ ~oversize
       THEN /\ ppc' = "check"
            /\ in_hand' = [seq |-> encoder_frame_seq + 1, sess |-> sess]
       ELSE UNCHANGED <<ppc, in_hand>>  \* dropped_disabled, dropped_oversize
    /\ UNCHANGED <<shared, last_published, ring_consumer, shmem_task,
                   webrtc_task, last_sent>>

SlotUnchecked == TRUE  \* mutant: the slot is taken whoever owns it
SlotIsFree == ~available[producer_idx]

IdxAfterDropMoved == Other(producer_idx)  \* mutant: a drop moves on as well
IdxAfterDrop == producer_idx

\* The target slot is still occupied: drop without advancing producer_idx.
DropBusy ==
    /\ ppc = "check"
    /\ ~SlotIsFree
    /\ ppc' = "encode"
    /\ producer_idx' = IdxAfterDrop
    /\ UNCHANGED <<shared, prev_enabled, encoder_frame_seq,
                   in_hand, last_published, ring_consumer, shmem_task,
                   webrtc_task, last_sent>>

\* The target slot is free: memcpy and the metadata stores begin.
BeginCopy ==
    /\ ppc = "check"
    /\ SlotIsFree
    /\ ppc' = "copy"
    /\ UNCHANGED <<shared, producer_idx, prev_enabled, encoder_frame_seq,
                   in_hand, last_published, ring_consumer, shmem_task,
                   webrtc_task, last_sent>>

\* The slot is written; available := 1 publishes it and the index moves on.
EndPublish ==
    /\ ppc = "copy"
    /\ payload' = [payload EXCEPT ![producer_idx] = in_hand]
    /\ available' = [available EXCEPT ![producer_idx] = TRUE]
    /\ producer_idx' = Other(producer_idx)
    /\ last_published' = in_hand
    /\ ppc' = "encode"
    /\ UNCHANGED <<enabled, prev_enabled, encoder_frame_seq, in_hand,
                   ring_consumer, shmem_task, webrtc_task, last_sent>>

\* The producer is in the middle of writing slot s.
BeingWritten(s) == ppc = "copy" /\ producer_idx = s

Producer == \/ \E oversize \in BOOLEAN : BeginPublish(oversize)
            \/ DropBusy
            \/ BeginCopy
            \/ EndPublish

-----------------------------------------------------------------------------
(***************************************************************************)
(* The shmem video task.  ShmemTask is its loop body; it does not run      *)
(* while the WebRTC task is inside start or stop.                          *)
(***************************************************************************)

PollAgain == spc' = "running"

\* if (!shmem_video_running): poll.
CheckRunning ==
    /\ spc = "running"
    /\ shmem_video_running
    /\ spc' = "state"
    /\ UNCHANGED <<shared, producer, ring_consumer, slot, view, peek_sess,
                   webrtc_task, last_sent>>

(***************************************************************************)
(* shmem_video_session->state is read.  If the session was stopped since   *)
(* shmem_video_running was read, the pointer is NULL and what the read     *)
(* returns is undefined: either answer is possible.                        *)
(***************************************************************************)
CheckState(ready) ==
    /\ spc = "state"
    /\ shmem_video_running => ready = session_ready
    /\ IF ready THEN spc' = "peek" ELSE PollAgain
    /\ UNCHANGED <<shared, producer, ring_consumer, slot, view, peek_sess,
                   webrtc_task, last_sent>>

\* video_ring_consumer_try_peek up to its test of available.
BeginPeek ==
    /\ spc = "peek"
    /\ slot' = consumer_idx
    /\ peek_sess' = sess
    /\ IF ~peek_outstanding /\ available[consumer_idx]
       THEN spc' = "fill"
       ELSE PollAgain
    /\ UNCHANGED <<shared, producer, ring_consumer, view, webrtc_task,
                   last_sent>>

\* What reading a slot can return: a slot being written yields old or new.
ReadSlot(s) == {payload[s]} \union IF BeingWritten(s) THEN {in_hand} ELSE {}

\* The view is filled and the peek recorded; the warning about a gap in the
\* sequence numbers, which changes nothing, is left out.
FillView ==
    /\ spc = "fill"
    /\ view' \in ReadSlot(slot)
    /\ peek_outstanding' = TRUE
    /\ spc' = "write"
    /\ UNCHANGED <<shared, producer, consumer_idx, slot, peek_sess,
                   webrtc_task, last_sent>>

\* PeerConnection_WriteFrame reads the payload in place, and returns.
WriteFrame ==
    /\ spc = "write"
    /\ last_sent' = view.seq
    /\ spc' = "release"
    /\ UNCHANGED <<shared, producer, ring_consumer, slot, view, peek_sess,
                   webrtc_task>>

\* video_ring_consumer_release: the guard, and the slot it will free.
BeginRelease ==
    /\ spc = "release"
    /\ IF peek_outstanding
       THEN spc' = "clear" /\ slot' = consumer_idx
       ELSE PollAgain /\ UNCHANGED slot
    /\ UNCHANGED <<shared, producer, ring_consumer, view, peek_sess,
                   webrtc_task, last_sent>>

\* available := 0 gives the slot back to the producer.
ClearSlot ==
    /\ spc = "clear"
    /\ available' = Emptied(slot)
    /\ spc' = "advance"
    /\ UNCHANGED <<enabled, payload, producer, ring_consumer, slot, view,
                   peek_sess, webrtc_task, last_sent>>

\* consumer_idx moves on and the peek is over.
EndRelease ==
    /\ spc = "advance"
    /\ consumer_idx' = Other(consumer_idx)
    /\ peek_outstanding' = FALSE
    /\ PollAgain
    /\ UNCHANGED <<shared, producer, slot, view, peek_sess, webrtc_task,
                   last_sent>>

ShmemTask ==
    /\ wpc = "idle"
    /\ \/ CheckRunning
       \/ \E ready \in BOOLEAN : CheckState(ready)
       \/ BeginPeek
       \/ FillView
       \/ WriteFrame
       \/ BeginRelease
       \/ ClearSlot
       \/ EndRelease

-----------------------------------------------------------------------------
(***************************************************************************)
(* The WebRTC task: app_shmem_video_start and app_shmem_video_stop with    *)
(* the consumer's session_start and session_stop they call.                *)
(***************************************************************************)

\* app_shmem_video_start: guard, and the first store of session_start.
BeginStart ==
    /\ wpc = "idle"
    /\ ~shmem_video_running
    /\ sess < MaxSessions
    /\ sess' = sess + 1
    /\ last_sent' = 0
    /\ wpc' = "wipe0"
    /\ UNCHANGED <<shared, producer, ring_consumer, shmem_task,
                   shmem_video_running, session_ready>>

WipeSlot0 ==
    /\ wpc = "wipe0"
    /\ available' = Emptied(0)
    /\ wpc' = "wipe1"
    /\ UNCHANGED <<enabled, payload, producer, ring_consumer, shmem_task,
                   shmem_video_running, session_ready, sess, last_sent>>

\* The second slot, then the consumer's private state.
WipeSlot1 ==
    /\ wpc = "wipe1"
    /\ available' = Emptied(1)
    /\ consumer_idx' = 0
    /\ peek_outstanding' = FALSE
    /\ wpc' = "enable"
    /\ UNCHANGED <<enabled, payload, producer, shmem_task,
                   shmem_video_running, session_ready, sess, last_sent>>

\* enabled := 1, then shmem_video_running := true.
EndStart ==
    /\ wpc = "enable"
    /\ enabled' = TRUE
    /\ shmem_video_running' = TRUE
    /\ wpc' = "idle"
    /\ UNCHANGED <<available, payload, producer, ring_consumer, shmem_task,
                   session_ready, sess, last_sent>>

\* app_shmem_video_stop: one store the encoder can see.
Stop ==
    /\ wpc = "idle"
    /\ shmem_video_running
    /\ shmem_video_running' = FALSE
    /\ enabled' = FALSE
    /\ UNCHANGED <<available, payload, producer, ring_consumer, shmem_task,
                   session_ready, wpc, sess, last_sent>>

\* The peer connection becomes ready or leaves that state, at any time.
SessionStateChanges ==
    /\ session_ready' = ~session_ready
    /\ UNCHANGED <<shared, producer, ring_consumer, shmem_task,
                   shmem_video_running, wpc, sess, last_sent>>

WebrtcTask == BeginStart \/ WipeSlot0 \/ WipeSlot1 \/ EndStart \/ Stop

Next == Producer \/ ShmemTask \/ WebrtcTask \/ SessionStateChanges

Spec == Init /\ [][Next]_vars

(***************************************************************************)
(* Every call that began returns: the encoder finishes try_publish, the    *)
(* shmem task, which nothing in the loop blocks, keeps running, and the    *)
(* WebRTC task finishes start.  Nothing says that the encoder delivers     *)
(* another frame or that a session starts, stops or becomes ready.         *)
(***************************************************************************)
Fairness ==
    /\ WF_vars(DropBusy \/ BeginCopy \/ EndPublish)
    /\ WF_vars(ShmemTask)
    /\ WF_vars(WipeSlot0 \/ WipeSlot1 \/ EndStart)

FairSpec == Spec /\ Fairness

(***************************************************************************)
(* A quiet restart: when a session begins, the encoder is between frames   *)
(* and has seen the stop, and the shmem task holds no slot.  That is how   *)
(* sessions follow each other when a frame was encoded, and the shmem task *)
(* was scheduled, after the last stop.  Nothing in the code waits for it.  *)
(***************************************************************************)
Quiet ==
    /\ ppc = "encode"
    /\ ~prev_enabled
    /\ spc \in {"running", "state", "peek"}

QuietNext == Next /\ (sess' # sess => Quiet)

QuietSpec == Init /\ [][QuietNext]_vars
QuietFairSpec == QuietSpec /\ Fairness
-----------------------------------------------------------------------------
(***************************************************************************)
(* What holds however sessions start and stop.                             *)
(***************************************************************************)

\* The shmem task is inside WriteFrame, on a slot it peeked in this session.
SendingInSession == spc = "write" /\ peek_sess = sess

\* While the session a frame was peeked in is the current one, the slot it
\* is sent from stays owned by the CM33 and holds that very frame, whatever
\* the encoder does (video_ring.h, ownership rules; the try_publish guard).
HeldSlotIntactInSession ==
    SendingInSession => /\ available[slot]
                        /\ ~BeingWritten(slot)
                        /\ payload[slot] = view

\* The CM33 never frees a slot the encoder is still filling: the ownership
\* flag of a slot stays 0 from the encoder's check to its publication.
NoFlagOnSlotBeingWritten ==
    \A s \in Slots : BeingWritten(s) => ~available[s]

(***************************************************************************)
(* What holds when sessions follow each other quietly.                     *)
(***************************************************************************)

\* A session sends no frame that the encoder accepted for an earlier one
\* (session_start wipes what the earlier session left).
NoStaleFrame == SendingInSession => view.sess = sess

\* Within a session frames are sent in the order they were encoded: each one
\* handed to WriteFrame is newer than the one before (producer and consumer
\* walk the two slots in step).
SentInOrder == SendingInSession => view.seq > last_sent

\* The first frame of a session goes to slot 0, where the consumer looks for
\* it (the re-arm of producer_idx in try_publish).
FirstFrameInSlot0 ==
    ppc = "check" /\ in_hand.sess # last_published.sess => producer_idx = 0

(***************************************************************************)
(* The frames in the ring that were not sent, oldest first.  The consumer  *)
(* has still to step over a slot it has just freed, and a slot whose frame *)
(* has been handed to WriteFrame no longer counts.                         *)
(***************************************************************************)
first == IF spc = "advance" THEN 1 - consumer_idx ELSE consumer_idx

unconsumed == LET filled(s) == IF available[s] THEN <<payload[s].seq>> ELSE <<>>
              IN  filled(first) \o filled(1 - first)

unsent == IF spc \in {"release", "clear"} THEN Tail(unconsumed) ELSE unconsumed

\* The ring is a two-place queue: nothing is sent twice, skipped or
\* overwritten, and a session opens with both slots empty.
Fifo == INSTANCE FrameFifo WITH
            Capacity <- 2,
            open <- shmem_video_running,
            queue <- unsent,
            newest <- last_published.seq,
            taken <- last_sent

RingIsFifo == Fifo!Spec

\* A published frame does not stay in its slot for ever while the session is
\* ready: the consumer frees every slot the encoder fills, so the encoder can
\* be refused for as long as one WriteFrame lasts, not longer.
SlotsAreFreed ==
    \A s \in Slots :
        available[s] ~> (~available[s] \/ ~shmem_video_running \/ ~session_ready)
=============================================================================
