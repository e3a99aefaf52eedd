----------------------------- MODULE Signaling -----------------------------
(***************************************************************************)
(* The signaling channel of the CM33 and the viewer sessions that run over *)
(* it: webrtc/algorithm/signaling.c and the calls run_viewer_session and   *)
(* run_signaling_session of webrtc/app_webrtc.c make.                      *)
(*                                                                         *)
(* The WebRTC task (program counter wpc) owns the web socket: it alone     *)
(* receives frames, and takes them while it waits for an offer and while   *)
(* it ticks during the media pump.  A task of the peer connection (program *)
(* counter cpc) finds local candidates and puts envelopes for the viewer   *)
(* into the outbox without taking the lock.                                *)
(*                                                                         *)
(* Calls into the peer connection succeed or fail freely; module           *)
(* PeerSession says what they do.  Viewers are browsers: they send         *)
(* offers and candidates in any order the service may deliver.             *)
(***************************************************************************)
EXTENDS Naturals, Sequences, SequencesExt

CONSTANTS
    Viewers,        \* client ids of the browsers
    NoViewer,       \* no client id
    OutboxDepth,    \* SIG_OUTBOX_DEPTH
    EarlyMax,       \* SIG_EARLY_ICE_MAX
    MaxFrames,      \* bound: frames dispatched
    MaxRounds,      \* bound: waits for an offer
    MaxLocal        \* bound: local candidates found

ASSUME SignalingAssumption ==
    /\ NoViewer \notin Viewers
    /\ {OutboxDepth, EarlyMax, MaxFrames, MaxRounds, MaxLocal} \subseteq Nat

VARIABLES
    \* struct Signaling, guarded by ws_mutex except where noted
    connected,          \* read without the lock by the candidate callback
    pending_offer,      \* viewer whose offer is parked, or NoViewer
    peer_client_id,     \* read without the lock by the senders
    attached,           \* peer_connection_session # NULL
    early_ice,          \* candidates buffered before the session is attached
    outbox,
    \* the WebRTC task and the candidate callback
    wpc,
    failed,             \* run_viewer_session is about to return -1
    cpc,
    to,                 \* peer_client_id as the callback copied it
    \* history
    frames, locals, round,
    connection,         \* number of connections made
    serving,            \* viewer whose offer the session answers
    remote,             \* candidates the peer connection took
    received,           \* candidates dispatched, by sender, since its offer
    lost,               \* candidates it refused, or there was no room or memory for
    meant               \* the session and connection the callback runs for

channel == <<connected, pending_offer, peer_client_id, attached, early_ice>>
callback == <<cpc, to, locals, meant>>
history == <<frames, round, connection, serving, remote, received, lost>>
vars == <<channel, outbox, wpc, failed, callback, history>>

ViewerOrNone == Viewers \union {NoViewer}
Candidate == [from : Viewers, round : Nat, n : Nat]
Envelope == [kind : {"answer", "ice"}, to : ViewerOrNone, for : ViewerOrNone, on : Nat]

TypeOK ==
    /\ connected \in BOOLEAN
    /\ pending_offer \in ViewerOrNone
    /\ peer_client_id \in ViewerOrNone
    /\ attached \in BOOLEAN
    /\ early_ice \in Seq(Candidate) /\ Len(early_ice) <= EarlyMax
    /\ outbox \in Seq(Envelope) /\ Len(outbox) <= OutboxDepth
    /\ wpc \in {"closed", "wait", "wait_recv", "setup", "attached", "flush", "answer",
                "pump", "pump_recv", "detach", "disconnect"}
    /\ failed \in BOOLEAN
    /\ cpc \in {"idle", "send"}
    /\ to \in ViewerOrNone
    /\ frames \in 0 .. MaxFrames
    /\ locals \in 0 .. MaxLocal
    /\ round \in 0 .. MaxRounds
    /\ connection \in Nat
    /\ serving \in ViewerOrNone
    /\ remote \subseteq Candidate
    /\ received \in [Viewers -> SUBSET Candidate]
    /\ lost \subseteq Candidate
    /\ meant \in [for : ViewerOrNone, on : Nat]

Init ==
    /\ connected = FALSE
    /\ pending_offer = NoViewer
    /\ peer_client_id = NoViewer
    /\ attached = FALSE
    /\ early_ice = <<>>
    /\ outbox = <<>>
    /\ wpc = "closed"
    /\ failed = FALSE
    /\ cpc = "idle"
    /\ to = NoViewer
    /\ frames = 0 /\ locals = 0 /\ round = 0 /\ connection = 0
    /\ serving = NoViewer
    /\ remote = {}
    /\ received = [v \in Viewers |-> {}]
    /\ lost = {}
    /\ meant = [for |-> NoViewer, on |-> 0]

-----------------------------------------------------------------------------
(***************************************************************************)
(* run_signaling_session opens and closes the channel.                     *)
(***************************************************************************)

\* signaling_connect, once the upgrade to a web socket has succeeded.  The
\* outbox, created once, and the early candidates are left as they are.
Connect ==
    /\ wpc = "closed"
    /\ round < MaxRounds
    /\ connected' = TRUE
    /\ pending_offer' = NoViewer
    /\ peer_client_id' = NoViewer
    /\ attached' = FALSE
    /\ connection' = connection + 1
    /\ round' = round + 1
    /\ received' = [v \in Viewers |-> {}]
    /\ lost' = {}
    /\ wpc' = "wait"
    /\ UNCHANGED <<early_ice, outbox, failed, callback, frames, serving, remote>>

DrainNothing(queue) == queue  \* mutant: the envelopes stay in the queue
Drained(queue) == <<>>

FreeNothing(candidates) == candidates  \* mutant: the buffer is not freed
FreeEarlyIce(candidates) == <<>>

\* signaling_disconnect: drains the outbox and forgets offer and session.
Disconnect ==
    /\ wpc = "disconnect"
    /\ outbox' = Drained(outbox)
    /\ pending_offer' = NoViewer
    /\ attached' = FALSE
    /\ early_ice' = FreeEarlyIce(early_ice)
    /\ connected' = FALSE
    /\ wpc' = "closed"
    /\ UNCHANGED <<peer_client_id, failed, callback, history>>

-----------------------------------------------------------------------------
(***************************************************************************)
(* dispatch_text_frame, called for each frame while the WebRTC task is in  *)
(* wslay_event_recv.                                                       *)
(***************************************************************************)
Receiving == wpc \in {"wait_recv", "pump_recv"} /\ frames < MaxFrames

LatchNothing(v) == peer_client_id  \* mutant: the sender is not latched
Latched(v) == v

\* SDP_OFFER: the newest offer is parked and its sender latched.
DispatchOffer(v) ==
    /\ Receiving
    /\ pending_offer' = v
    /\ peer_client_id' = Latched(v)
    /\ frames' = frames + 1
    /\ received' = [received EXCEPT ![v] = {}]
    /\ UNCHANGED <<connected, attached, early_ice, outbox, wpc, failed, callback, round,
                   connection, serving, remote, lost>>

\* ICE_CANDIDATE: to the attached session, which may refuse it, or to the
\* buffer if that has room and malloc succeeds.  Failures are only logged.
DispatchCandidate(v, ok) ==
    LET c == [from |-> v, round |-> round, n |-> frames]
        taken == ok /\ (attached \/ Len(early_ice) < EarlyMax)
    IN  /\ Receiving
        /\ frames' = frames + 1
        /\ received' = [received EXCEPT ![v] = @ \union {c}]
        /\ remote' = IF attached /\ taken THEN remote \union {c} ELSE remote
        /\ early_ice' = IF ~attached /\ taken THEN Append(early_ice, c) ELSE early_ice
        /\ lost' = IF taken THEN lost ELSE lost \union {c}
        /\ UNCHANGED <<connected, pending_offer, peer_client_id, attached, outbox, wpc,
                       failed, callback, round, connection, serving>>

-----------------------------------------------------------------------------
(***************************************************************************)
(* run_viewer_session, step by step, as the WebRTC task takes it.          *)
(***************************************************************************)

\* What a captured offer leads to: it is handed out, unless the transport is
\* dead, in which case it is dropped and the session fails.
HandOut(v, dead) ==
    /\ pending_offer' = NoViewer
    /\ IF dead
       THEN wpc' = "disconnect" /\ UNCHANGED <<serving, remote>>
       ELSE wpc' = "setup" /\ serving' = v /\ remote' = {}
    /\ UNCHANGED <<connected, peer_client_id, attached, early_ice, failed, callback,
                   frames, round, connection, received, lost>>

\* wait_for_offer finds an offer parked since the last viewer session.
ConsumeParked(dead) ==
    /\ wpc = "wait"
    /\ pending_offer # NoViewer
    /\ HandOut(pending_offer, dead)
    /\ UNCHANGED outbox

\* drain_outbox_locked hands every envelope to the web socket.  A transport
\* found dead before that leaves the outbox as it is.
Drain(dead) == outbox' \in {Drained(outbox)} \union IF dead THEN {outbox} ELSE {}

\* wait_for_offer with no offer parked: send what is queued, then receive.
BeginWaitRecv(dead) ==
    /\ wpc = "wait"
    /\ pending_offer = NoViewer
    /\ Drain(dead)
    /\ wpc' = IF dead THEN "disconnect" ELSE "wait_recv"
    /\ UNCHANGED <<channel, failed, callback, history>>

EndWaitRecv(dead) ==
    /\ wpc = "wait_recv"
    /\ IF pending_offer # NoViewer
       THEN HandOut(pending_offer, dead)
       ELSE /\ wpc' = IF dead THEN "disconnect" ELSE "wait"
            /\ UNCHANGED <<channel, failed, callback, history>>
    /\ UNCHANGED outbox

Fail == failed' = TRUE /\ wpc' = "detach"

\* Transceivers and PeerConnection_Start, then signaling_set_peer_connection.
\* A failure before the session is attached skips the detach.
Attach(ok) ==
    /\ wpc = "setup"
    /\ IF ok
       THEN attached' = TRUE /\ wpc' = "attached"
       ELSE wpc' = "disconnect" /\ UNCHANGED attached
    /\ UNCHANGED <<connected, pending_offer, peer_client_id, early_ice, outbox, failed,
                   callback, history>>

\* PeerConnection_SetRemoteDescription.
SetRemoteDescription(ok) ==
    /\ wpc = "attached"
    /\ IF ok THEN wpc' = "flush" /\ UNCHANGED failed ELSE Fail
    /\ UNCHANGED <<channel, outbox, callback, history>>

FlushNothing == {}  \* mutant: the buffered candidates are freed, not replayed
Flushed == Range(early_ice)

\* signaling_flush_early_candidates: all are offered to the session and freed,
\* those it refuses (its queue is full, they do not deserialize) as well.
FlushEarlyCandidates(taken) ==
    /\ wpc = "flush"
    /\ taken \subseteq Flushed
    /\ remote' = remote \union taken
    /\ lost' = lost \union (Flushed \ taken)
    /\ early_ice' = <<>>
    /\ wpc' = "answer"
    /\ UNCHANGED <<connected, pending_offer, peer_client_id, attached, outbox, failed,
                   callback, frames, round, connection, serving, received>>

RoomForOneTooMany == Len(outbox) <= OutboxDepth  \* mutant: off by one
OutboxHasRoom == Len(outbox) < OutboxDepth

\* PeerConnection_CreateAnswer and signaling_send_answer; the media start.
SendAnswer(ok) ==
    /\ wpc = "answer"
    /\ IF ok /\ OutboxHasRoom
       THEN /\ outbox' = Append(outbox, [kind |-> "answer", to |-> peer_client_id,
                                         for |-> serving, on |-> connection])
            /\ wpc' = "pump"
            /\ UNCHANGED failed
       ELSE Fail /\ UNCHANGED outbox
    /\ UNCHANGED <<channel, callback, history>>

\* signaling_tick: drain the outbox, send, receive; -1 ends the session.
BeginTick(dead) ==
    /\ wpc = "pump"
    /\ Drain(dead)
    /\ IF dead THEN Fail ELSE wpc' = "pump_recv" /\ UNCHANGED failed
    /\ UNCHANGED <<channel, callback, history>>

EndTick(dead) ==
    /\ wpc = "pump_recv"
    /\ IF dead THEN Fail ELSE wpc' = "pump" /\ UNCHANGED failed
    /\ UNCHANGED <<channel, outbox, callback, history>>

\* The viewer is gone or streaming was stopped: a graceful end.
EndPump ==
    /\ wpc = "pump"
    /\ wpc' = "detach"
    /\ UNCHANGED <<channel, outbox, failed, callback, history>>

\* cleanup: signaling_set_peer_connection(NULL) drops unflushed candidates.
\* A failed session rebuilds the channel, as does the end of streaming.
Detach(again) ==
    /\ wpc = "detach"
    /\ again => round < MaxRounds
    /\ attached' = FALSE
    /\ early_ice' = FreeEarlyIce(early_ice)
    /\ serving' = NoViewer
    /\ failed' = FALSE
    /\ IF again /\ ~failed
       THEN wpc' = "wait" /\ round' = round + 1
       ELSE wpc' = "disconnect" /\ UNCHANGED round
    /\ lost' = {}
    /\ UNCHANGED <<connected, pending_offer, peer_client_id, outbox, callback, frames,
                   connection, remote, received>>

WebrtcTask ==
    \/ Connect
    \/ Disconnect
    \/ \E v \in Viewers : DispatchOffer(v) \/ \E ok \in BOOLEAN : DispatchCandidate(v, ok)
    \/ \E dead \in BOOLEAN : \/ ConsumeParked(dead)
                             \/ BeginWaitRecv(dead)
                             \/ EndWaitRecv(dead)
                             \/ BeginTick(dead)
                             \/ EndTick(dead)
    \/ \E ok \in BOOLEAN : Attach(ok) \/ SetRemoteDescription(ok) \/ SendAnswer(ok) \/ Detach(ok)
    \/ \E taken \in SUBSET Range(early_ice) : FlushEarlyCandidates(taken)
    \/ EndPump

-----------------------------------------------------------------------------
(***************************************************************************)
(* on_local_candidate_ready and signaling_send_ice_candidate, on a task of *)
(* the peer connection, while its session is attached.                     *)
(***************************************************************************)

\* The checks and the copy of peer_client_id.
LocalCandidate ==
    /\ cpc = "idle"
    /\ locals < MaxLocal
    /\ attached /\ connected
    /\ peer_client_id # NoViewer
    /\ cpc' = "send"
    /\ to' = peer_client_id
    /\ meant' = [for |-> serving, on |-> connection]
    /\ locals' = locals + 1
    /\ UNCHANGED <<channel, outbox, wpc, failed, history>>

\* The envelope is complete: xQueueSend without waiting.
QueueCandidate ==
    /\ cpc = "send"
    /\ outbox' = IF OutboxHasRoom
                 THEN Append(outbox, [kind |-> "ice", to |-> to, for |-> meant.for,
                                      on |-> meant.on])
                 ELSE outbox
    /\ cpc' = "idle"
    /\ UNCHANGED <<channel, wpc, failed, to, locals, meant, history>>

Next == WebrtcTask \/ LocalCandidate \/ QueueCandidate

Spec == Init /\ [][Next]_vars

\* The WebRTC task and the callback keep running: every blocking call of
\* theirs returns (the socket receive has a timeout).
FairSpec == Spec /\ WF_vars(WebrtcTask) /\ WF_vars(QueueCandidate)

-----------------------------------------------------------------------------
\* The answer goes to the viewer whose offer it answers, although the client
\* id is latched when an offer arrives and read, without the lock, much
\* later (signaling_send_answer).
AnswerGoesToOfferer == \A e \in Range(outbox) : e.kind = "answer" => e.to = e.for

\* No answer outlives the connection it was written for, although the session
\* may fail, and the channel be rebuilt, before the outbox is sent (the drain
\* of disconnect).  An envelope of the candidate callback may: its task is not
\* stopped by the disconnect.
AnswerIsOfThisConnection ==
    connected => \A e \in Range(outbox) : e.kind = "answer" => e.on = connection

\* Candidates buffered while no session was attached belong to the wait they
\* were received in: none survives into a later viewer session or connection
\* (free_early_ice on detach and on disconnect).
EarlyIceIsOfThisRound == \A c \in Range(early_ice) : c.round = round

\* Once the early candidates are replayed, no candidate that the served viewer
\* sent in this round is left behind: the session has it, unless it refused it
\* or there was no room or memory to buffer it, which the code does no more
\* about than a log line.  Candidates that follow an offer parked during the
\* pump came in the round before, and went to the session of that round.
EarlyIceIsReplayed ==
    wpc \in {"answer", "pump", "pump_recv"} =>
        \A c \in received[serving] : c.round = round => c \in remote \union lost

\* What is queued while the channel is up is sent or thrown away, in whichever
\* state the viewer session is and however it ends (drain_outbox_locked in
\* tick and in wait_for_offer, the drain of disconnect).
OutboxIsDrained == connected /\ outbox # <<>> ~> outbox = <<>> \/ ~connected

-----------------------------------------------------------------------------
(***************************************************************************)
(* What a comment of the code says, and the code does not do.              *)
(***************************************************************************)

\* peer_client_id is stable for a session: candidates of a session go to the
\* viewer of that session.
CandidateGoesToOfferer == \A e \in Range(outbox) : e.kind = "ice" => e.to = e.for
=============================================================================
