---------------------------- MODULE PeerSession ----------------------------
(***************************************************************************)
(* The one peer connection session of the CM33 and its reuse for one       *)
(* viewer after another: webrtc/algorithm/peer_connection.c, the closing   *)
(* path and the timer of ice_controller.c, the listener task of            *)
(* ice_controller_socket_listener.c, and the calls that run_viewer_session *)
(* of webrtc/app_webrtc.c makes.                                           *)
(*                                                                         *)
(* Three tasks of one priority work on the session without a common lock:  *)
(* the WebRTC task, the session task and the listener task.  Each has a    *)
(* label in pc, and each may be inside PeerConnection_CloseSession.  The   *)
(* timer task has a higher priority: its callback is one step.             *)
(*                                                                         *)
(* The media, the candidate pairs and the contents of packets are left     *)
(* out: a packet nominates a pair, completes the DTLS handshake, breaks    *)
(* DTLS, ends a socket or does nothing.                                    *)
(***************************************************************************)
EXTENDS Naturals, Sequences

CONSTANTS
    QueueMax,      \* PEER_CONNECTION_MAX_QUEUE_MSG_NUM
    MaxViewers,    \* bound: offers taken
    MaxCandidates  \* bound: candidates of the viewer in the queue at a time

ASSUME SessionAssumption ==
    QueueMax \in Nat \ {0} /\ MaxViewers \in Nat /\ MaxCandidates \in Nat

TransceiverMax == 2  \* PEER_CONNECTION_TRANSCEIVER_MAX_COUNT, the video and the audio one

VARIABLES
    \* PeerConnectionSession_t
    state,
    transceiverCount,
    startupBarrier,
    requestQueue,
    handshaking,            \* DTLS is set up and its handshake is not complete
    \* its IceControllerContext_t
    iceState,
    timerSet,               \* the one-shot timer runs
    addLocalCandidates,
    nominated,              \* pNominatedSocketContext # NULL
    plainSockets,           \* a socket other than a relay one is open
    relaySocket,            \* a socket with a TURN allocation is open
    executeSocketListener,
    \* the tasks
    pc,
    after,                  \* where the listener task goes on after CloseSession
    ever_ready,
    viewer                  \* number of offers taken

session == <<state, transceiverCount, startupBarrier, requestQueue, handshaking>>
sockets == <<nominated, plainSockets, relaySocket, executeSocketListener>>
ice == <<iceState, timerSet, addLocalCandidates, sockets>>
vars == <<session, ice, pc, after, ever_ready, viewer>>

Tasks == {"webrtc", "session", "listener"}
States == {"INITED", "START", "FIND_CONNECTION", "P2P_CONNECTION_FOUND", "CONNECTION_READY",
           "CLOSING"}
Requests == {"candidate", "process", "periodic", "ice_closing", "ice_closed", "close"}
Closing == {"close", "destroy", "notify", "closed", "srtp_deinit"}
Handshake == {"srtp_init", "ready"}
Labels == [webrtc |-> {"offer", "add_video", "add_audio", "start", "remote", "wake", "answer",
                       "pump", "cleanup", "drain"} \union Closing,
           session |-> {"asleep", "handle", "check"} \union Handshake \union Closing,
           listener |-> {"poll", "packet", "nominate", "handshake", "found"}
                        \union Handshake \union Closing]

TypeOK ==
    /\ state \in States
    /\ transceiverCount \in 0 .. TransceiverMax
    /\ startupBarrier \in BOOLEAN
    /\ requestQueue \in Seq(Requests)
    /\ Len(requestQueue) <= QueueMax
    /\ handshaking \in BOOLEAN
    /\ iceState \in {"NEW", "NONE", "PROCESS", "READY", "CLOSING", "CLOSED"}
    /\ {timerSet, addLocalCandidates, nominated, plainSockets, relaySocket,
        executeSocketListener, ever_ready} \subseteq BOOLEAN
    /\ pc \in [Tasks -> UNION {Labels[t] : t \in Tasks}]
    /\ \A t \in Tasks : pc[t] \in Labels[t]
    /\ after \in {"poll", "found"}
    /\ viewer \in 0 .. MaxViewers

\* PeerConnection_Init has run; no offer has been taken.
Init ==
    /\ state = "INITED"
    /\ transceiverCount = 0
    /\ startupBarrier = FALSE
    /\ requestQueue = <<>>
    /\ handshaking = FALSE
    /\ iceState = "NEW"
    /\ timerSet = FALSE
    /\ addLocalCandidates = FALSE
    /\ nominated = FALSE
    /\ plainSockets = FALSE
    /\ relaySocket = FALSE
    /\ executeSocketListener = FALSE
    /\ pc = [webrtc |-> "offer", session |-> "asleep", listener |-> "poll"]
    /\ after = "poll"
    /\ ever_ready = FALSE
    /\ viewer = 0

-----------------------------------------------------------------------------
At(t, label) == pc[t] = label
Goto(t, label) == pc' = [pc EXCEPT ![t] = label]

AlwaysRoom(queue) == TRUE  \* mutant: one request too many
HasRoom(queue) == Len(queue) < QueueMax

\* SendPeerConnectionEvent: a request that finds the queue full is dropped.
Sent(queue, type) == IF HasRoom(queue) THEN Append(queue, type) ELSE queue

Send(type) == requestQueue' = Sent(requestQueue, type)

(***************************************************************************)
(* OnTimerExpire: the event depends on the state of the ICE controller.    *)
(* If its request cannot be queued the timer is started again.             *)
(***************************************************************************)
TimerEvent == [PROCESS |-> "process", READY |-> "periodic", CLOSING |-> "ice_closing",
               CLOSED |-> "ice_closed"]

OnTimerExpire(running) ==
    IF iceState \notin DOMAIN TimerEvent
    THEN timerSet' = running /\ UNCHANGED requestQueue
    ELSE /\ Send(TimerEvent[iceState])
         /\ timerSet' = (running \/ ~HasRoom(requestQueue))

TimerExpires ==
    /\ timerSet
    /\ OnTimerExpire(FALSE)
    /\ UNCHANGED <<state, transceiverCount, startupBarrier, handshaking, iceState,
                   addLocalCandidates, sockets, pc, after, ever_ready, viewer>>

-----------------------------------------------------------------------------
(***************************************************************************)
(* PeerConnection_CloseSession with IceController_Destroy, by any task.    *)
(***************************************************************************)
Returned(t) == CASE t = "webrtc" -> "drain" [] t = "session" -> "check" [] OTHER -> after

BeginClose(t) ==
    /\ At(t, "close")
    /\ state' = "CLOSING"
    /\ Goto(t, "destroy")
    /\ UNCHANGED <<transceiverCount, startupBarrier, requestQueue, handshaking, ice, after,
                   ever_ready, viewer>>

AlreadyClosed == iceState \in {"NONE", "CLOSED"}

\* Destroy fails if the controller is closed, and the close ends there.  It
\* frees the sockets but a relay one, for which the timer keeps looking.
Destroy(t) ==
    /\ At(t, "destroy")
    /\ IF AlreadyClosed
       THEN Goto(t, Returned(t)) /\ UNCHANGED <<iceState, plainSockets, timerSet>>
       ELSE /\ iceState' = IF iceState = "NEW" THEN "NONE" ELSE "CLOSING"
            /\ plainSockets' = FALSE
            /\ timerSet' = (timerSet \/ relaySocket)
            /\ Goto(t, IF relaySocket THEN "srtp_deinit" ELSE "notify")
    /\ UNCHANGED <<session, addLocalCandidates, nominated, relaySocket,
                   executeSocketListener, after, ever_ready, viewer>>

\* StopPolling and the event ICE_CLOSED.
Notify(t) ==
    /\ At(t, "notify")
    /\ executeSocketListener' = FALSE
    /\ Send("ice_closed")
    /\ Goto(t, "closed")
    /\ UNCHANGED <<state, transceiverCount, startupBarrier, handshaking, iceState, timerSet,
                   addLocalCandidates, nominated, plainSockets, relaySocket, after,
                   ever_ready, viewer>>

\* Only now is the controller marked as closed.
MarkClosed(t) ==
    /\ At(t, "closed")
    /\ iceState' = "CLOSED"
    /\ Goto(t, "srtp_deinit")
    /\ UNCHANGED <<session, timerSet, addLocalCandidates, sockets, after, ever_ready,
                   viewer>>

\* PeerConnectionSrtp_DeInit and PeerConnection_ResetTimer.
SrtpDeInit(t) ==
    /\ At(t, "srtp_deinit")
    /\ Goto(t, Returned(t))
    /\ UNCHANGED <<state, transceiverCount, startupBarrier, requestQueue, handshaking, ice,
                   after, ever_ready, viewer>>

CloseSession(t) == BeginClose(t) \/ Destroy(t) \/ Notify(t) \/ MarkClosed(t) \/ SrtpDeInit(t)

-----------------------------------------------------------------------------
(***************************************************************************)
(* OnDtlsHandshakeComplete, on the listener or the session task: the SRTP  *)
(* sessions, then the state and, if a relay pair was nominated, the        *)
(* release of the other sockets; a failure closes the session.             *)
(***************************************************************************)
SrtpInit(t, ok) ==
    /\ At(t, "srtp_init")
    /\ handshaking' = FALSE
    /\ Goto(t, IF ok THEN "ready" ELSE "close")
    /\ UNCHANGED <<state, transceiverCount, startupBarrier, requestQueue, ice, after,
                   ever_ready, viewer>>

ConnectionReady(t) ==
    /\ At(t, "ready")
    /\ state' = "CONNECTION_READY"
    /\ plainSockets' \in {plainSockets, plainSockets /\ ~relaySocket}
    /\ Goto(t, Returned(t))
    /\ UNCHANGED <<transceiverCount, startupBarrier, requestQueue, handshaking, iceState,
                   timerSet, addLocalCandidates, nominated, relaySocket, executeSocketListener,
                   after, ever_ready, viewer>>

HandshakeComplete(t) == ConnectionReady(t) \/ \E ok \in BOOLEAN : SrtpInit(t, ok)

-----------------------------------------------------------------------------
(***************************************************************************)
(* The WebRTC task: run_viewer_session.                                    *)
(***************************************************************************)
TakeOffer ==
    /\ At("webrtc", "offer")
    /\ viewer < MaxViewers
    /\ viewer' = viewer + 1
    /\ ever_ready' = FALSE
    /\ Goto("webrtc", "add_video")
    /\ UNCHANGED <<session, ice, after>>

\* AllocateTransceiver compares the count with the size of the array.
NoLimit(count) == TRUE  \* mutant
HasSlot(count) == count < TransceiverMax

\* PeerConnection_AddTransceiver; without a free entry the viewer is given up.
AddTransceiver(label, next) ==
    /\ At("webrtc", label)
    /\ IF HasSlot(transceiverCount)
       THEN transceiverCount' = transceiverCount + 1 /\ Goto("webrtc", next)
       ELSE Goto("webrtc", "cleanup") /\ UNCHANGED transceiverCount
    /\ UNCHANGED <<state, startupBarrier, requestQueue, handshaking, ice, after, ever_ready,
                   viewer>>

\* PeerConnection_Start.
Start ==
    /\ At("webrtc", "start")
    /\ requestQueue' = <<>>
    /\ state' = "START"
    /\ Goto("webrtc", "remote")
    /\ UNCHANGED <<transceiverCount, startupBarrier, handshaking, ice, after, ever_ready,
                   viewer>>

\* PeerConnection_SetRemoteDescription to the end of IceController_Start.
\* An offer it cannot use is rejected before that.
SetRemoteDescription(ok) ==
    /\ At("webrtc", "remote")
    /\ IF ok
       THEN /\ iceState' = "PROCESS"
            /\ nominated' = FALSE
            /\ plainSockets' = FALSE
            /\ relaySocket' = FALSE
            /\ addLocalCandidates' = TRUE
            /\ executeSocketListener' = TRUE
            /\ handshaking' = TRUE
            /\ Goto("webrtc", "wake")
       ELSE /\ Goto("webrtc", "cleanup")
            /\ UNCHANGED <<handshaking, iceState, addLocalCandidates, sockets>>
    /\ UNCHANGED <<state, transceiverCount, startupBarrier, requestQueue, timerSet,
                   after, ever_ready, viewer>>

\* The first timer event by hand, the state, and the startup barrier.
Wake ==
    /\ At("webrtc", "wake")
    /\ OnTimerExpire(timerSet)
    /\ state' = "FIND_CONNECTION"
    /\ startupBarrier' = TRUE
    /\ Goto("webrtc", "answer")
    /\ UNCHANGED <<transceiverCount, handshaking, iceState, addLocalCandidates, sockets, after,
                   ever_ready, viewer>>

Answer(ok) ==
    /\ At("webrtc", "answer")
    /\ Goto("webrtc", IF ok THEN "pump" ELSE "cleanup")
    /\ UNCHANGED <<session, ice, after, ever_ready, viewer>>

IsCandidate(request) == request = "candidate"

\* A candidate of the viewer: while answering (flush) or in the pump (tick).
AddRemoteCandidate ==
    /\ pc["webrtc"] \in {"answer", "pump"}
    /\ HasRoom(requestQueue)
    /\ Len(SelectSeq(requestQueue, IsCandidate)) < MaxCandidates
    /\ Send("candidate")
    /\ UNCHANGED <<state, transceiverCount, startupBarrier, handshaking, ice, pc, after,
                   ever_ready, viewer>>

\* One turn of the pump: the state is looked at.
Pump ==
    /\ At("webrtc", "pump")
    /\ ever_ready' = (ever_ready \/ state = "CONNECTION_READY")
    /\ IF ever_ready /\ state # "CONNECTION_READY"
       THEN Goto("webrtc", "cleanup")
       ELSE UNCHANGED pc
    /\ UNCHANGED <<session, ice, after, viewer>>

\* Streaming was stopped, or the signaling channel is dead.
EndPump ==
    /\ At("webrtc", "pump")
    /\ Goto("webrtc", "cleanup")
    /\ UNCHANGED <<session, ice, after, ever_ready, viewer>>

\* A session that is idle or closing is not closed again.
Cleanup ==
    /\ At("webrtc", "cleanup")
    /\ Goto("webrtc", IF state \in {"INITED", "CLOSING"} THEN "drain" ELSE "close")
    /\ UNCHANGED <<session, ice, after, ever_ready, viewer>>

\* wait_for_session_idle, which gives up after a while.
Drained ==
    /\ At("webrtc", "drain")
    /\ Goto("webrtc", "offer")
    /\ UNCHANGED <<session, ice, after, ever_ready, viewer>>

WebrtcTask ==
    \/ AddTransceiver("add_video", "add_audio")
    \/ AddTransceiver("add_audio", "start")
    \/ Start
    \/ \E ok \in BOOLEAN : SetRemoteDescription(ok) \/ Answer(ok)
    \/ Wake
    \/ Pump
    \/ Cleanup
    \/ Drained
    \/ CloseSession("webrtc")

-----------------------------------------------------------------------------
(***************************************************************************)
(* The session task.                                                       *)
(***************************************************************************)
WakeUp ==
    /\ At("session", "asleep")
    /\ startupBarrier
    /\ startupBarrier' = FALSE
    /\ Goto("session", "handle")
    /\ UNCHANGED <<state, transceiverCount, requestQueue, handshaking, ice, after, ever_ready,
                   viewer>>

Received(type) ==
    /\ At("session", "handle")
    /\ requestQueue # <<>>
    /\ Head(requestQueue) = type

HandleAddRemoteCandidate ==
    /\ Received("candidate")
    /\ requestQueue' = Tail(requestQueue)
    /\ Goto("session", "check")
    /\ UNCHANGED <<state, transceiverCount, startupBarrier, handshaking, ice, after, ever_ready,
                   viewer>>

\* IceController_ProcessIceCandidatesAndPairs: the sockets the first time,
\* and after the connectivity timeout a request to close.
HandleProcess(relay, timeout) ==
    /\ Received("process")
    /\ addLocalCandidates' = FALSE
    /\ plainSockets' = (plainSockets \/ addLocalCandidates)
    /\ relaySocket' = (relaySocket \/ (addLocalCandidates /\ relay))
    /\ requestQueue' = IF timeout THEN Sent(Tail(requestQueue), "close") ELSE Tail(requestQueue)
    /\ timerSet' = TRUE
    /\ Goto("session", "check")
    /\ UNCHANGED <<state, transceiverCount, startupBarrier, handshaking, iceState, nominated,
                   executeSocketListener, after, ever_ready, viewer>>

\* HandlePeriodConnectionCheck, and the handshake while a pair is found: it
\* goes on, is complete, or has timed out.
HandlePeriodic(next) ==
    /\ Received("periodic")
    /\ requestQueue' = Tail(requestQueue)
    /\ timerSet' = (timerSet \/ nominated)
    /\ next = "srtp_init" => handshaking
    /\ Goto("session", IF state = "P2P_CONNECTION_FOUND" THEN next ELSE "check")
    /\ UNCHANGED <<state, transceiverCount, startupBarrier, handshaking, iceState,
                   addLocalCandidates, sockets, after, ever_ready, viewer>>

TimerLeft == timerSet  \* mutant: nobody looks again
TimerRearmed == TRUE

\* IceController_AddressClosing.
HandleIceClosing ==
    /\ Received("ice_closing")
    /\ IF plainSockets \/ relaySocket
       THEN /\ timerSet' = TimerRearmed
            /\ requestQueue' = Tail(requestQueue)
            /\ UNCHANGED <<iceState, executeSocketListener>>
       ELSE /\ executeSocketListener' = FALSE
            /\ requestQueue' = Sent(Tail(requestQueue), "ice_closed")
            /\ iceState' = "CLOSED"
            /\ UNCHANGED timerSet
    /\ Goto("session", "check")
    /\ UNCHANGED <<state, transceiverCount, startupBarrier, handshaking, addLocalCandidates,
                   nominated, plainSockets, relaySocket, after, ever_ready, viewer>>

\* OnClosePeerConnection: the session can be used again; back to the barrier.
HandleIceClosed ==
    /\ Received("ice_closed")
    /\ requestQueue' = Tail(requestQueue)
    /\ transceiverCount' = 0
    /\ state' = "INITED"
    /\ Goto("session", "asleep")
    /\ UNCHANGED <<startupBarrier, handshaking, ice, after, ever_ready, viewer>>

HandleClose ==
    /\ Received("close")
    /\ requestQueue' = Tail(requestQueue)
    /\ Goto("session", "close")
    /\ UNCHANGED <<state, transceiverCount, startupBarrier, handshaking, ice, after, ever_ready,
                   viewer>>

\* The inactivity check after each request.
CheckInactive(inactive) ==
    /\ At("session", "check")
    /\ Goto("session", IF inactive /\ state = "CONNECTION_READY" THEN "close" ELSE "handle")
    /\ UNCHANGED <<session, ice, after, ever_ready, viewer>>

SessionTask ==
    \/ WakeUp
    \/ HandleAddRemoteCandidate
    \/ \E relay, timeout \in BOOLEAN : HandleProcess(relay, timeout)
    \/ \E next \in {"check", "srtp_init", "close"} : HandlePeriodic(next)
    \/ HandleIceClosing
    \/ HandleIceClosed
    \/ HandleClose
    \/ \E inactive \in BOOLEAN : CheckInactive(inactive)
    \/ HandshakeComplete("session")
    \/ CloseSession("session")

-----------------------------------------------------------------------------
(***************************************************************************)
(* The listener task.                                                      *)
(***************************************************************************)

\* The flag is read, the sockets are polled, and one of them has a packet.
\* It is handled even if the sockets are closed meanwhile.
Poll ==
    /\ At("listener", "poll")
    /\ executeSocketListener
    /\ plainSockets \/ relaySocket
    /\ Goto("listener", "packet")
    /\ UNCHANGED <<session, ice, after, ever_ready, viewer>>

HasPacket == At("listener", "packet")

\* It changes nothing here.
IgnorePacket ==
    /\ HasPacket
    /\ Goto("listener", "poll")
    /\ UNCHANGED <<session, ice, after, ever_ready, viewer>>

\* It nominates a pair, the first one.
NominatingPacket ==
    /\ HasPacket
    /\ ~nominated
    /\ nominated' = TRUE
    /\ Goto("listener", "nominate")
    /\ UNCHANGED <<session, iceState, timerSet, addLocalCandidates, plainSockets,
                   relaySocket, executeSocketListener, after, ever_ready, viewer>>

\* ProcessDtlsPacket: it completes the handshake, or DTLS is over.
DtlsPacket(next) ==
    /\ HasPacket
    /\ nominated
    /\ next = "srtp_init" => handshaking
    /\ Goto("listener", next)
    /\ UNCHANGED <<session, ice, after, ever_ready, viewer>>

\* A socket fails, or the TURN server confirms the end of the allocation.
SocketFails ==
    /\ HasPacket
    /\ plainSockets
    /\ plainSockets' = FALSE
    /\ Goto("listener", "poll")
    /\ UNCHANGED <<session, iceState, timerSet, addLocalCandidates, nominated, relaySocket,
                   executeSocketListener, after, ever_ready, viewer>>

RelayEnds ==
    /\ HasPacket
    /\ relaySocket
    /\ relaySocket' = FALSE
    /\ Goto("listener", "poll")
    /\ UNCHANGED <<session, iceState, timerSet, addLocalCandidates, nominated, plainSockets,
                   executeSocketListener, after, ever_ready, viewer>>

\* UpdateNominatedSocketContext: the state of the controller and its timer.
Nominate ==
    /\ At("listener", "nominate")
    /\ iceState' = "READY"
    /\ timerSet' = TRUE
    /\ Goto("listener", "handshake")
    /\ UNCHANGED <<session, addLocalCandidates, sockets, after, ever_ready, viewer>>

\* ExecuteDtlsHandshake sends the first flight, or finds its time is up.
BeginHandshake(timeout) ==
    /\ At("listener", "handshake")
    /\ after' = "found"
    /\ Goto("listener", IF timeout THEN "close" ELSE "found")
    /\ UNCHANGED <<session, ice, ever_ready, viewer>>

\* HandleIceEventCallback sets the state whatever the handshake came to; the
\* packet that nominated may be a DTLS one and is handled next.
ConnectionFound ==
    /\ At("listener", "found")
    /\ state' = "P2P_CONNECTION_FOUND"
    /\ after' = "poll"
    /\ Goto("listener", "packet")
    /\ UNCHANGED <<transceiverCount, startupBarrier, requestQueue, handshaking, ice, ever_ready,
                   viewer>>

HandlePacket ==
    \/ IgnorePacket
    \/ NominatingPacket
    \/ \E next \in {"srtp_init", "close"} : DtlsPacket(next)
    \/ SocketFails
    \/ RelayEnds
    \/ Nominate
    \/ \E timeout \in BOOLEAN : BeginHandshake(timeout)
    \/ ConnectionFound
    \/ HandshakeComplete("listener")
    \/ CloseSession("listener")

ListenerTask == Poll \/ HandlePacket

-----------------------------------------------------------------------------
Next ==
    \/ TakeOffer
    \/ AddRemoteCandidate
    \/ EndPump
    \/ WebrtcTask
    \/ SessionTask
    \/ ListenerTask
    \/ TimerExpires

Spec == Init /\ [][Next]_vars

(***************************************************************************)
(* The three tasks have one priority and are time-sliced, the timer task a *)
(* higher one.  Packets need not arrive, but a TURN server is assumed to   *)
(* answer and to confirm the end of an allocation at last.                 *)
(***************************************************************************)
Fairness ==
    /\ WF_vars(WebrtcTask)
    /\ WF_vars(SessionTask)
    /\ WF_vars(HandlePacket)
    /\ WF_vars(TimerExpires)
    /\ WF_vars(relaySocket /\ Poll)
    /\ SF_vars(RelayEnds)

FairSpec == Spec /\ Fairness

-----------------------------------------------------------------------------
\* A viewer session is prepared only while the session task sleeps: the
\* count of transceivers keeps the WebRTC task out until OnClosePeerConnection
\* has run, although its wait for that is bounded (wait_for_session_idle).
PreparedWhileAsleep ==
    pc["webrtc"] \in {"start", "remote", "wake"} => At("session", "asleep") /\ ~startupBarrier

\* A session whose task is awake does not stay in CLOSING: the close it is in
\* is driven to its end by the requests and the timer, with a TURN allocation
\* to be released first or without.
AwakeCloseEnds ==
    (state = "CLOSING" /\ ~At("session", "asleep")) ~> state # "CLOSING"

-----------------------------------------------------------------------------
(***************************************************************************)
(* What a comment says and the code does not do.                           *)
(***************************************************************************)

\* app_webrtc.c, session_init_once: the session is reused across viewer
\* sessions via the close-resets-to-INITED path.
CloseResetsToInited == state = "CLOSING" ~> state = "INITED"
=============================================================================
