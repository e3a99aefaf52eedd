------------------------- MODULE PeerSessionProofs -------------------------
(***************************************************************************)
(* Proofs about PeerSession, for queues and numbers of viewers of any      *)
(* size: a viewer session is prepared only while the session task sleeps,  *)
(* and every variable keeps its type.                                      *)
(*                                                                         *)
(* What keeps the WebRTC task out is the number of transceivers: it is two *)
(* from before the barrier is raised until the session task goes back to   *)
(* sleep, so that the next AddTransceiver fails in between.                *)
(***************************************************************************)
EXTENDS PeerSession, TLAPS

AllLabels == UNION {Labels[t] : t \in Tasks}
PcType == pc \in [Tasks -> AllLabels]

Preparing == {"start", "remote", "wake"}

\* The session task is awake, or about to be.
Engaged == pc["session"] # "asleep" \/ startupBarrier

Occupied ==
    /\ Engaged => transceiverCount = 2 /\ pc["webrtc"] \notin Preparing \union {"add_audio"}
    /\ pc["session"] # "asleep" => ~startupBarrier
    /\ pc["webrtc"] \in Preparing => transceiverCount = 2
    /\ pc["webrtc"] = "add_audio" => transceiverCount \in 1 .. 2

IInv ==
    /\ PcType
    /\ after \in {"poll", "found"}
    /\ transceiverCount \in 0 .. 2
    /\ startupBarrier \in BOOLEAN
    /\ Occupied

\* The labels that the actions go to are labels: the type of pc holds.
LEMMA LabelsOf ==
    {"offer", "add_video", "add_audio", "start", "remote", "wake", "answer", "pump", "cleanup",
     "drain", "close", "destroy", "notify", "closed", "srtp_deinit", "asleep", "handle", "check",
     "srtp_init", "ready", "poll", "packet", "nominate", "handshake", "found"}
        \subseteq AllLabels
<1>1. \A t \in Tasks : Labels[t] \subseteq AllLabels
    BY DEF AllLabels
<1>2. {"webrtc", "session", "listener"} \subseteq Tasks
    BY DEF Tasks
<1>3. Labels["webrtc"] \subseteq AllLabels /\ Labels["session"] \subseteq AllLabels
          /\ Labels["listener"] \subseteq AllLabels
    BY <1>1, <1>2
<1>4. QED
    BY <1>3 DEF Labels, Closing, Handshake

-----------------------------------------------------------------------------
\* A step that moves no task and leaves the count and the barrier alone.
LEMMA Stays ==
    ASSUME IInv, UNCHANGED <<pc, transceiverCount, startupBarrier, after>>
    PROVE  IInv'
BY DEF IInv, PcType, Occupied, Engaged

\* A step of a task that is not asleep to a label outside the preparation.
LEMMA Moves ==
    ASSUME IInv, NEW t \in Tasks, NEW label \in AllLabels,
           UNCHANGED <<transceiverCount, startupBarrier>>, after' \in {"poll", "found"},
           pc[t] # "asleep", Goto(t, label),
           label \notin Preparing \union {"add_audio", "asleep"}
    PROVE  IInv'
<1>1. PcType'
    BY DEF IInv, PcType, Goto
<1>2. pc'[t] = label /\ \A u \in Tasks : u # t => pc'[u] = pc[u]
    BY DEF IInv, PcType, Goto
<1>3. Occupied'
    BY <1>2 DEF IInv, Occupied, Engaged, Tasks
<1>4. QED
    BY <1>1, <1>3 DEF IInv

\* PeerConnection_CloseSession, by whichever task.
LEMMA CloseStep ==
    ASSUME IInv, NEW t \in Tasks, CloseSession(t)
    PROVE  IInv'
<1> DEFINE Target == {"destroy", "notify", "closed", "srtp_deinit", "drain", "check", "poll",
                      "found"}
<1>1. UNCHANGED <<transceiverCount, startupBarrier, after>> /\ pc[t] # "asleep"
    BY DEF CloseSession, BeginClose, Destroy, Notify, MarkClosed, SrtpDeInit, session, ice, At
<1>2. Returned(t) \in Target
    BY DEF Returned, IInv
<1>3. \E label \in Target : Goto(t, label)
    BY <1>2 DEF CloseSession, BeginClose, Destroy, Notify, MarkClosed, SrtpDeInit
<1>4. Target \subseteq AllLabels
    BY LabelsOf
<1>5. QED
    BY <1>1, <1>3, <1>4, Moves DEF Preparing, IInv

\* OnDtlsHandshakeComplete, by the session or the listener task.
LEMMA HandshakeStep ==
    ASSUME IInv, NEW t \in Tasks, HandshakeComplete(t)
    PROVE  IInv'
<1> DEFINE Target == {"ready", "close", "drain", "check", "poll", "found"}
<1>1. UNCHANGED <<transceiverCount, startupBarrier, after>> /\ pc[t] # "asleep"
    BY DEF HandshakeComplete, ConnectionReady, SrtpInit, At
<1>2. Returned(t) \in Target
    BY DEF Returned, IInv
<1>3. \E label \in Target : Goto(t, label)
    BY <1>2 DEF HandshakeComplete, ConnectionReady, SrtpInit
<1>4. Target \subseteq AllLabels
    BY LabelsOf
<1>5. QED
    BY <1>1, <1>3, <1>4, Moves DEF Preparing, IInv

-----------------------------------------------------------------------------
\* The steps of the WebRTC task, with the calls that come from outside it.
LEMMA WebrtcStep ==
    ASSUME IInv, TakeOffer \/ AddRemoteCandidate \/ EndPump \/ WebrtcTask
    PROVE  IInv'
<1> "webrtc" \in Tasks /\ "session" \in Tasks
    BY DEF Tasks
<1>1. CASE TakeOffer
    <2>1. Goto("webrtc", "add_video") /\ pc["webrtc"] # "asleep"
        BY <1>1 DEF TakeOffer, At
    <2>2. UNCHANGED <<transceiverCount, startupBarrier, after>>
        BY <1>1 DEF TakeOffer, session
    <2>3. QED
        BY <2>1, <2>2, Moves, LabelsOf DEF Preparing, IInv
<1>2. CASE AddRemoteCandidate
    BY <1>2, Stays DEF AddRemoteCandidate
<1>3. CASE EndPump \/ Cleanup \/ Drained \/ \E ok \in BOOLEAN : Answer(ok)
    <2>1. \E label \in {"cleanup", "drain", "close", "offer", "pump"} : Goto("webrtc", label)
        BY <1>3 DEF EndPump, Cleanup, Drained, Answer
    <2>2. UNCHANGED <<transceiverCount, startupBarrier, after>> /\ pc["webrtc"] # "asleep"
        BY <1>3 DEF EndPump, Cleanup, Drained, Answer, session, At
    <2>3. QED
        BY <2>1, <2>2, Moves, LabelsOf DEF Preparing, IInv
<1>4. CASE Pump
    <2>1. UNCHANGED <<transceiverCount, startupBarrier, after>> /\ pc["webrtc"] # "asleep"
        BY <1>4 DEF Pump, session, At
    <2>2. Goto("webrtc", "cleanup") \/ UNCHANGED pc
        BY <1>4 DEF Pump
    <2>3. QED
        BY <2>1, <2>2, Moves, Stays, LabelsOf DEF Preparing, IInv
<1>5. CASE CloseSession("webrtc")
    BY <1>5, CloseStep
<1>6. CASE AddTransceiver("add_video", "add_audio") \/ AddTransceiver("add_audio", "start")
    <2>1. UNCHANGED <<startupBarrier, after>> /\ pc["webrtc"] \in {"add_video", "add_audio"}
        BY <1>6 DEF AddTransceiver, At
    <2>2. CASE transceiverCount < 2
        <3>1. transceiverCount' = transceiverCount + 1
            BY <1>6, <2>2 DEF AddTransceiver, HasSlot, TransceiverMax
        <3>2. \/ Goto("webrtc", "add_audio") /\ pc["webrtc"] = "add_video"
              \/ Goto("webrtc", "start") /\ pc["webrtc"] = "add_audio"
            BY <1>6, <2>2 DEF AddTransceiver, HasSlot, TransceiverMax, At
        <3>3. PcType'
            BY <3>2, LabelsOf DEF IInv, PcType, Goto
        <3>4. Occupied'
            BY <2>1, <2>2, <3>1, <3>2 DEF IInv, PcType, Occupied, Engaged, Preparing, Goto
        <3>5. QED
            BY <2>1, <2>2, <3>1, <3>3, <3>4 DEF IInv
    <2>3. CASE ~(transceiverCount < 2)
        <3>1. Goto("webrtc", "cleanup") /\ UNCHANGED transceiverCount
            BY <1>6, <2>3 DEF AddTransceiver, HasSlot, TransceiverMax
        <3>2. QED
            BY <2>1, <3>1, Moves, LabelsOf DEF Preparing, IInv
    <2>4. QED
        BY <2>2, <2>3
<1>7. CASE Start \/ Wake \/ \E ok \in BOOLEAN : SetRemoteDescription(ok)
    <2>1. UNCHANGED <<transceiverCount, after>> /\ pc["webrtc"] \in Preparing
        BY <1>7 DEF Start, Wake, SetRemoteDescription, Preparing, At, sockets, ice
    <2>2. pc["session"] = "asleep" /\ ~startupBarrier /\ transceiverCount = 2
        BY <2>1 DEF IInv, Occupied, Engaged
    <2>3. \/ /\ \E label \in {"remote", "wake", "cleanup"} : Goto("webrtc", label)
             /\ UNCHANGED startupBarrier
          \/ Goto("webrtc", "answer") /\ startupBarrier' = TRUE
        BY <1>7 DEF Start, Wake, SetRemoteDescription
    <2>4. PcType'
        BY <2>3, LabelsOf DEF IInv, PcType, Goto
    <2>5. startupBarrier' \in BOOLEAN
        BY <2>3 DEF IInv
    <2>6. Occupied'
        BY <2>1, <2>2, <2>3 DEF IInv, PcType, Occupied, Engaged, Preparing, Goto
    <2>7. QED
        BY <2>1, <2>4, <2>5, <2>6 DEF IInv
<1>8. QED
    BY <1>1, <1>2, <1>3, <1>4, <1>5, <1>6, <1>7 DEF WebrtcTask

\* The steps of the session task.
LEMMA SessionStep ==
    ASSUME IInv, SessionTask
    PROVE  IInv'
<1> "webrtc" \in Tasks /\ "session" \in Tasks
    BY DEF Tasks
<1>1. CASE WakeUp
    <2>1. /\ pc["session"] = "asleep" /\ startupBarrier /\ startupBarrier' = FALSE
          /\ UNCHANGED <<transceiverCount, after>> /\ Goto("session", "handle")
        BY <1>1 DEF WakeUp, At
    <2>2. PcType'
        BY <2>1, LabelsOf DEF IInv, PcType, Goto
    <2>3. ~startupBarrier' /\ startupBarrier' \in BOOLEAN
        <3>1. startupBarrier' = FALSE
            BY <2>1
        <3>2. QED
            BY <3>1, Zenon
    <2>4. Occupied'
        BY <2>1, <2>3 DEF IInv, PcType, Occupied, Engaged, Preparing, Goto
    <2>5. QED
        BY <2>1, <2>2, <2>3, <2>4 DEF IInv
<1>2. CASE HandleIceClosed
    <2>1. /\ pc["session"] # "asleep" /\ transceiverCount' = 0
          /\ UNCHANGED <<startupBarrier, after>> /\ Goto("session", "asleep")
        BY <1>2 DEF HandleIceClosed, Received, At
    <2>2. PcType'
        BY <2>1, LabelsOf DEF IInv, PcType, Goto
    <2>3. Occupied'
        BY <2>1 DEF IInv, PcType, Occupied, Engaged, Preparing, Goto
    <2>4. QED
        BY <2>1, <2>2, <2>3 DEF IInv
<1>3. CASE \/ HandleAddRemoteCandidate
           \/ \E relay, timeout \in BOOLEAN : HandleProcess(relay, timeout)
           \/ \E next \in {"check", "srtp_init", "close"} : HandlePeriodic(next)
           \/ HandleIceClosing
           \/ HandleClose
           \/ \E inactive \in BOOLEAN : CheckInactive(inactive)
    <2>1. \E label \in {"check", "srtp_init", "close", "handle"} : Goto("session", label)
        BY <1>3 DEF HandleAddRemoteCandidate, HandleProcess, HandlePeriodic, HandleIceClosing,
                    HandleClose, CheckInactive
    <2>2. UNCHANGED <<transceiverCount, startupBarrier, after>>
        BY <1>3 DEF HandleAddRemoteCandidate, HandleProcess, HandlePeriodic, HandleIceClosing,
                    HandleClose, CheckInactive, session
    <2>3. pc["session"] # "asleep"
        BY <1>3 DEF HandleAddRemoteCandidate, HandleProcess, HandlePeriodic, HandleIceClosing,
                    HandleClose, CheckInactive, Received, At
    <2>4. QED
        BY <2>1, <2>2, <2>3, Moves, LabelsOf DEF Preparing, IInv
<1>4. CASE HandshakeComplete("session") \/ CloseSession("session")
    BY <1>4, HandshakeStep, CloseStep
<1>5. QED
    BY <1>1, <1>2, <1>3, <1>4 DEF SessionTask

\* The steps of the listener task.
LEMMA ListenerStep ==
    ASSUME IInv, ListenerTask
    PROVE  IInv'
<1> "listener" \in Tasks
    BY DEF Tasks
<1>1. CASE HandshakeComplete("listener") \/ CloseSession("listener")
    BY <1>1, HandshakeStep, CloseStep
<1>2. CASE \/ Poll \/ IgnorePacket \/ NominatingPacket \/ SocketFails \/ RelayEnds
           \/ \E next \in {"srtp_init", "close"} : DtlsPacket(next)
           \/ Nominate \/ ConnectionFound
           \/ \E timeout \in BOOLEAN : BeginHandshake(timeout)
    <2>1. \E label \in {"packet", "poll", "nominate", "srtp_init", "close", "handshake", "found"} :
              Goto("listener", label)
        BY <1>2 DEF Poll, IgnorePacket, NominatingPacket, SocketFails, RelayEnds, DtlsPacket,
                    Nominate, ConnectionFound, BeginHandshake
    <2>2. UNCHANGED <<transceiverCount, startupBarrier>> /\ after' \in {"poll", "found"}
        BY <1>2 DEF Poll, IgnorePacket, NominatingPacket, SocketFails, RelayEnds, DtlsPacket,
                    Nominate, ConnectionFound, BeginHandshake, session, IInv
    <2>3. pc["listener"] # "asleep"
        BY <1>2 DEF Poll, IgnorePacket, NominatingPacket, SocketFails, RelayEnds, DtlsPacket,
                    Nominate, ConnectionFound, BeginHandshake, HasPacket, At
    <2>4. QED
        BY <2>1, <2>2, <2>3, Moves, LabelsOf DEF Preparing
<1>3. QED
    BY <1>1, <1>2 DEF ListenerTask, HandlePacket

-----------------------------------------------------------------------------
\* The strengthened invariant is inductive.
LEMMA Inductive == Spec => []IInv
<1>1. Init => IInv
    <2>1. ASSUME Init PROVE PcType
        BY <2>1, LabelsOf DEF Init, PcType, Tasks
    <2>2. ASSUME Init PROVE startupBarrier \in BOOLEAN /\ ~startupBarrier
        BY <2>2, Zenon DEF Init
    <2>3. ASSUME Init PROVE Occupied
        BY <2>3, <2>2 DEF Init, Occupied, Engaged, Preparing, Tasks
    <2>4. ASSUME Init PROVE after = "poll" /\ transceiverCount = 0
        BY <2>4, Zenon DEF Init
    <2>5. 0 \in 0 .. 2
        OBVIOUS
    <2>6. QED
        BY <2>1, <2>2, <2>3, <2>4, <2>5, Zenon DEF IInv
<1>2. IInv /\ [Next]_vars => IInv'
    <2>1. ASSUME IInv, TimerExpires PROVE IInv'
        BY <2>1, Stays DEF TimerExpires
    <2>2. ASSUME IInv, UNCHANGED vars PROVE IInv'
        BY <2>2, Stays DEF vars, session
    <2>3. QED
        BY <2>1, <2>2, WebrtcStep, SessionStep, ListenerStep DEF Next
<1>3. QED
    BY <1>1, <1>2, PTL DEF Spec

\* A viewer session is prepared only while the session task sleeps, however
\* long the queue and whatever the wait in wait_for_session_idle came to.
THEOREM PreparedSafe == Spec => []PreparedWhileAsleep
<1>1. IInv => PreparedWhileAsleep
    BY DEF IInv, Occupied, Engaged, Preparing, PreparedWhileAsleep, At
<1>2. QED
    BY <1>1, Inductive, PTL

-----------------------------------------------------------------------------
\* The types of everything but the labels.
QueueFits(q) == q \in Seq(Requests) /\ Len(q) <= QueueMax

Flags ==
    /\ startupBarrier \in BOOLEAN /\ handshaking \in BOOLEAN /\ timerSet \in BOOLEAN
    /\ addLocalCandidates \in BOOLEAN /\ nominated \in BOOLEAN /\ plainSockets \in BOOLEAN
    /\ relaySocket \in BOOLEAN /\ executeSocketListener \in BOOLEAN /\ ever_ready \in BOOLEAN

Fields ==
    /\ state \in States
    /\ transceiverCount \in 0 .. TransceiverMax
    /\ QueueFits(requestQueue)
    /\ iceState \in {"NEW", "NONE", "PROCESS", "READY", "CLOSING", "CLOSED"}
    /\ after \in {"poll", "found"}
    /\ viewer \in 0 .. MaxViewers

LabelsFit == \A t \in Tasks : pc[t] \in Labels[t]

LEMMA SentFits ==
    ASSUME NEW q, QueueFits(q), NEW type \in Requests
    PROVE  QueueFits(Sent(q, type))
<1>1. CASE HasRoom(q)
  <2>1. Append(q, type) \in Seq(Requests) /\ Len(Append(q, type)) = Len(q) + 1
    BY DEF QueueFits
  <2>2. Len(q) \in Nat /\ Len(q) < QueueMax  BY <1>1 DEF QueueFits, HasRoom
  <2> QED  BY <1>1, <2>1, <2>2, SessionAssumption DEF QueueFits, Sent
<1>2. CASE ~HasRoom(q)  BY <1>2 DEF Sent
<1> QED  BY <1>1, <1>2

LEMMA TailFits ==
    ASSUME NEW q, QueueFits(q), q # <<>>
    PROVE  QueueFits(Tail(q))
<1>1. Tail(q) \in Seq(Requests) /\ Len(Tail(q)) = Len(q) - 1 /\ Len(q) \in Nat
  BY DEF QueueFits
<1> QED  BY <1>1, SessionAssumption DEF QueueFits

LEMMA TimerFits ==
    ASSUME Fields, Flags, NEW running \in BOOLEAN, OnTimerExpire(running)
    PROVE  QueueFits(requestQueue') /\ timerSet' \in BOOLEAN
<1>1. iceState \in DOMAIN TimerEvent => TimerEvent[iceState] \in Requests
  BY DEF TimerEvent, Requests
<1>2. QueueFits(requestQueue')
  <2>1. CASE UNCHANGED requestQueue  BY <2>1 DEF Fields
  <2>2. CASE \E type \in Requests : requestQueue' = Sent(requestQueue, type)
    BY <2>2, SentFits DEF Fields
  <2> QED  BY <1>1, <2>1, <2>2 DEF OnTimerExpire, Send
<1>3. timerSet' = running \/ timerSet' = (running \/ ~HasRoom(requestQueue))
  BY DEF OnTimerExpire
<1> QED  BY <1>2, <1>3

LEMMA FlagsStep ==
    ASSUME Fields, Flags, [Next]_vars
    PROVE  Flags'
<1>1. CASE \E t \in Tasks : BeginClose(t)
  BY <1>1 DEF BeginClose, Flags, session, ice, sockets
<1>2. CASE \E t \in Tasks : Destroy(t)
  BY <1>2 DEF Destroy, Flags, session, ice, sockets
<1>3. CASE \E t \in Tasks : Notify(t)
  BY <1>3 DEF Notify, Flags, session, ice, sockets
<1>4. CASE \E t \in Tasks : MarkClosed(t)
  BY <1>4 DEF MarkClosed, Flags, session, ice, sockets
<1>5. CASE \E t \in Tasks : SrtpDeInit(t)
  BY <1>5 DEF SrtpDeInit, Flags, session, ice, sockets
<1>6. CASE \E t \in {"session", "listener"}, ok \in BOOLEAN : SrtpInit(t, ok)
  BY <1>6 DEF SrtpInit, Flags, session, ice, sockets
<1>7. CASE \E t \in {"session", "listener"} : ConnectionReady(t)
  BY <1>7 DEF ConnectionReady, Flags, session, ice, sockets
<1>8. CASE TakeOffer
  BY <1>8 DEF TakeOffer, Flags, session, ice, sockets
<1>9. CASE AddTransceiver("add_video", "add_audio") \/ AddTransceiver("add_audio", "start")
  BY <1>9 DEF AddTransceiver, Flags, session, ice, sockets
<1>10. CASE Start
  BY <1>10 DEF Start, Flags, session, ice, sockets
<1>11. CASE \E ok \in BOOLEAN : SetRemoteDescription(ok)
  BY <1>11 DEF SetRemoteDescription, Flags, session, ice, sockets
<1>12. CASE Wake
  <2>1. timerSet' \in BOOLEAN  BY <1>12, TimerFits DEF Wake, Flags
  <2> QED  BY <1>12, <2>1 DEF Wake, Flags, sockets
<1>13. CASE \E ok \in BOOLEAN : Answer(ok)
  BY <1>13 DEF Answer, Flags, session, ice, sockets
<1>14. CASE AddRemoteCandidate
  BY <1>14 DEF AddRemoteCandidate, Flags, session, ice, sockets
<1>15. CASE Pump
  BY <1>15 DEF Pump, Flags, session, ice, sockets
<1>16. CASE EndPump
  BY <1>16 DEF EndPump, Flags, session, ice, sockets
<1>17. CASE Cleanup
  BY <1>17 DEF Cleanup, Flags, session, ice, sockets
<1>18. CASE Drained
  BY <1>18 DEF Drained, Flags, session, ice, sockets
<1>19. CASE WakeUp
  BY <1>19 DEF WakeUp, Flags, session, ice, sockets
<1>20. CASE HandleAddRemoteCandidate
  BY <1>20 DEF HandleAddRemoteCandidate, Flags, session, ice, sockets
<1>21. CASE \E relay, timeout \in BOOLEAN : HandleProcess(relay, timeout)
  BY <1>21 DEF HandleProcess, Flags, session, ice, sockets
<1>22. CASE \E next \in {"check", "srtp_init", "close"} : HandlePeriodic(next)
  BY <1>22 DEF HandlePeriodic, Flags, session, ice, sockets
<1>23. CASE HandleIceClosing
  BY <1>23 DEF HandleIceClosing, TimerRearmed, Flags, session, ice, sockets
<1>24. CASE HandleIceClosed
  BY <1>24 DEF HandleIceClosed, Flags, session, ice, sockets
<1>25. CASE HandleClose
  BY <1>25 DEF HandleClose, Flags, session, ice, sockets
<1>26. CASE \E inactive \in BOOLEAN : CheckInactive(inactive)
  BY <1>26 DEF CheckInactive, Flags, session, ice, sockets
<1>27. CASE Poll
  BY <1>27 DEF Poll, Flags, session, ice, sockets
<1>28. CASE IgnorePacket
  BY <1>28 DEF IgnorePacket, Flags, session, ice, sockets
<1>29. CASE NominatingPacket
  BY <1>29 DEF NominatingPacket, Flags, session, ice, sockets
<1>30. CASE \E next \in {"srtp_init", "close"} : DtlsPacket(next)
  BY <1>30 DEF DtlsPacket, Flags, session, ice, sockets
<1>31. CASE SocketFails
  BY <1>31 DEF SocketFails, Flags, session, ice, sockets
<1>32. CASE RelayEnds
  BY <1>32 DEF RelayEnds, Flags, session, ice, sockets
<1>33. CASE Nominate
  BY <1>33 DEF Nominate, Flags, session, ice, sockets
<1>34. CASE \E timeout \in BOOLEAN : BeginHandshake(timeout)
  BY <1>34 DEF BeginHandshake, Flags, session, ice, sockets
<1>35. CASE ConnectionFound
  BY <1>35 DEF ConnectionFound, Flags, session, ice, sockets
<1>36. CASE TimerExpires
  <2>1. timerSet' \in BOOLEAN  BY <1>36, TimerFits DEF TimerExpires, Flags
  <2> QED  BY <1>36, <2>1 DEF TimerExpires, Flags, sockets
<1>37. CASE UNCHANGED vars
  BY <1>37 DEF vars, Flags, session, ice, sockets
<1> QED
  BY <1>1, <1>2, <1>3, <1>4, <1>5, <1>6, <1>7, <1>8, <1>9, <1>10, <1>11, <1>12, <1>13,
     <1>14, <1>15, <1>16, <1>17, <1>18, <1>19, <1>20, <1>21, <1>22, <1>23, <1>24, <1>25,
     <1>26, <1>27, <1>28, <1>29, <1>30, <1>31, <1>32, <1>33, <1>34, <1>35, <1>36, <1>37
  DEF Next, WebrtcTask, SessionTask, ListenerTask, HandlePacket, HandshakeComplete, CloseSession,
     Tasks

LEMMA FieldsStep ==
    ASSUME Fields, Flags, [Next]_vars
    PROVE  Fields'
<1>1. CASE \E t \in Tasks : BeginClose(t)
  BY <1>1 DEF BeginClose, Fields, States, session, ice
<1>2. CASE \E t \in Tasks : Destroy(t)
  BY <1>2 DEF Destroy, Fields, States, session, ice
<1>3. CASE \E t \in Tasks : Notify(t)
  <2>1. QueueFits(requestQueue')
    BY <1>3, SentFits DEF Notify, Send, Fields, Requests
  <2> QED  BY <1>3, <2>1 DEF Notify, Fields, States
<1>4. CASE \E t \in Tasks : MarkClosed(t)
  BY <1>4 DEF MarkClosed, Fields, States, session, ice
<1>5. CASE \E t \in Tasks : SrtpDeInit(t)
  BY <1>5 DEF SrtpDeInit, Fields, States, session, ice
<1>6. CASE \E t \in {"session", "listener"}, ok \in BOOLEAN : SrtpInit(t, ok)
  BY <1>6 DEF SrtpInit, Fields, States, session, ice
<1>7. CASE \E t \in {"session", "listener"} : ConnectionReady(t)
  BY <1>7 DEF ConnectionReady, Fields, States, session, ice
<1>8. CASE TakeOffer
  <2>1. viewer' \in 0 .. MaxViewers
    BY <1>8, SessionAssumption DEF TakeOffer, Fields
  <2> QED  BY <1>8, <2>1 DEF TakeOffer, Fields, session, ice
<1>9. CASE AddTransceiver("add_video", "add_audio") \/ AddTransceiver("add_audio", "start")
  <2>1. transceiverCount' \in 0 .. TransceiverMax
    BY <1>9 DEF AddTransceiver, HasSlot, TransceiverMax, Fields
  <2> QED  BY <1>9, <2>1 DEF AddTransceiver, Fields, ice
<1>10. CASE Start
  <2>1. QueueFits(requestQueue')
    BY <1>10, SessionAssumption DEF Start, QueueFits
  <2> QED  BY <1>10, <2>1 DEF Start, Fields, States, ice
<1>11. CASE \E ok \in BOOLEAN : SetRemoteDescription(ok)
  BY <1>11 DEF SetRemoteDescription, Fields, States, session, ice
<1>12. CASE Wake
  <2>1. QueueFits(requestQueue')
    BY <1>12, TimerFits DEF Wake, Flags
  <2> QED  BY <1>12, <2>1 DEF Wake, Fields, States
<1>13. CASE \E ok \in BOOLEAN : Answer(ok)
  BY <1>13 DEF Answer, Fields, States, session, ice
<1>14. CASE AddRemoteCandidate
  <2>1. QueueFits(requestQueue')
    BY <1>14, SentFits DEF AddRemoteCandidate, Send, Fields, Requests
  <2> QED  BY <1>14, <2>1 DEF AddRemoteCandidate, Fields, States, ice
<1>15. CASE Pump
  BY <1>15 DEF Pump, Fields, States, session, ice
<1>16. CASE EndPump
  BY <1>16 DEF EndPump, Fields, States, session, ice
<1>17. CASE Cleanup
  BY <1>17 DEF Cleanup, Fields, States, session, ice
<1>18. CASE Drained
  BY <1>18 DEF Drained, Fields, States, session, ice
<1>19. CASE WakeUp
  BY <1>19 DEF WakeUp, Fields, States, session, ice
<1>20. CASE HandleAddRemoteCandidate
  <2>1. QueueFits(requestQueue')
    BY <1>20, TailFits DEF HandleAddRemoteCandidate, Received, Fields
  <2> QED  BY <1>20, <2>1 DEF HandleAddRemoteCandidate, Fields, States, ice
<1>21. CASE \E relay, timeout \in BOOLEAN : HandleProcess(relay, timeout)
  <2>1. QueueFits(requestQueue')
    BY <1>21, TailFits, SentFits DEF HandleProcess, Received, Fields, Requests
  <2> QED  BY <1>21, <2>1 DEF HandleProcess, Fields, States
<1>22. CASE \E next \in {"check", "srtp_init", "close"} : HandlePeriodic(next)
  <2>1. QueueFits(requestQueue')
    BY <1>22, TailFits DEF HandlePeriodic, Received, Fields
  <2> QED  BY <1>22, <2>1 DEF HandlePeriodic, Fields, States
<1>23. CASE HandleIceClosing
  <2>1. QueueFits(requestQueue')
    BY <1>23, TailFits, SentFits DEF HandleIceClosing, Received, Fields, Requests
  <2> QED  BY <1>23, <2>1 DEF HandleIceClosing, Fields, States
<1>24. CASE HandleIceClosed
  <2>1. QueueFits(requestQueue')
    BY <1>24, TailFits DEF HandleIceClosed, Received, Fields
  <2> QED  BY <1>24, <2>1 DEF HandleIceClosed, Fields, States, TransceiverMax, ice
<1>25. CASE HandleClose
  <2>1. QueueFits(requestQueue')
    BY <1>25, TailFits DEF HandleClose, Received, Fields
  <2> QED  BY <1>25, <2>1 DEF HandleClose, Fields, States, ice
<1>26. CASE \E inactive \in BOOLEAN : CheckInactive(inactive)
  BY <1>26 DEF CheckInactive, Fields, States, session, ice
<1>27. CASE Poll
  BY <1>27 DEF Poll, Fields, States, session, ice
<1>28. CASE IgnorePacket
  BY <1>28 DEF IgnorePacket, Fields, States, session, ice
<1>29. CASE NominatingPacket
  BY <1>29 DEF NominatingPacket, Fields, States, session, ice
<1>30. CASE \E next \in {"srtp_init", "close"} : DtlsPacket(next)
  BY <1>30 DEF DtlsPacket, Fields, States, session, ice
<1>31. CASE SocketFails
  BY <1>31 DEF SocketFails, Fields, States, session, ice
<1>32. CASE RelayEnds
  BY <1>32 DEF RelayEnds, Fields, States, session, ice
<1>33. CASE Nominate
  BY <1>33 DEF Nominate, Fields, States, session, ice
<1>34. CASE \E timeout \in BOOLEAN : BeginHandshake(timeout)
  BY <1>34 DEF BeginHandshake, Fields, States, session, ice
<1>35. CASE ConnectionFound
  BY <1>35 DEF ConnectionFound, Fields, States, session, ice
<1>36. CASE TimerExpires
  <2>1. QueueFits(requestQueue')
    BY <1>36, TimerFits DEF TimerExpires, Flags
  <2> QED  BY <1>36, <2>1 DEF TimerExpires, Fields, States
<1>37. CASE UNCHANGED vars
  BY <1>37 DEF vars, Fields, session, ice
<1> QED
  BY <1>1, <1>2, <1>3, <1>4, <1>5, <1>6, <1>7, <1>8, <1>9, <1>10, <1>11, <1>12, <1>13,
     <1>14, <1>15, <1>16, <1>17, <1>18, <1>19, <1>20, <1>21, <1>22, <1>23, <1>24, <1>25,
     <1>26, <1>27, <1>28, <1>29, <1>30, <1>31, <1>32, <1>33, <1>34, <1>35, <1>36, <1>37
  DEF Next, WebrtcTask, SessionTask, ListenerTask, HandlePacket, HandshakeComplete, CloseSession,
     Tasks

\* The labels of each task, one by one.
LEMMA LabelsAre ==
    /\ Tasks = {"webrtc", "session", "listener"}
    /\ \A t \in Tasks : {"close", "destroy", "notify", "closed", "srtp_deinit"} \subseteq Labels[t]
    /\ {"offer", "add_video", "add_audio", "start", "remote", "wake", "answer", "pump", "cleanup",
        "drain"} \subseteq Labels["webrtc"]
    /\ {"asleep", "handle", "check", "srtp_init", "ready"} \subseteq Labels["session"]
    /\ {"poll", "packet", "nominate", "handshake", "found", "srtp_init", "ready"}
           \subseteq Labels["listener"]
<1>1. /\ Labels["webrtc"] = {"offer", "add_video", "add_audio", "start", "remote", "wake", "answer",
                             "pump", "cleanup", "drain"} \union Closing
      /\ Labels["session"] = {"asleep", "handle", "check"} \union Handshake \union Closing
      /\ Labels["listener"] = {"poll", "packet", "nominate", "handshake", "found"}
                                  \union Handshake \union Closing
  BY DEF Labels
<1>2. Tasks = {"webrtc", "session", "listener"}  BY DEF Tasks
<1>3. \A t \in Tasks : Closing \subseteq Labels[t]  BY <1>1, <1>2
<1> QED  BY <1>1, <1>2, <1>3 DEF Handshake, Closing

LEMMA ReturnedFits ==
    ASSUME Fields, NEW t \in Tasks
    PROVE  Returned(t) \in Labels[t]
BY LabelsAre DEF Returned, Fields

LEMMA GotoFits ==
    ASSUME PcType, LabelsFit, NEW t \in Tasks, NEW l \in Labels[t], Goto(t, l)
    PROVE  LabelsFit'
BY DEF PcType, LabelsFit, Goto

LEMMA LabelsStep ==
    ASSUME PcType, LabelsFit, Fields, [Next]_vars
    PROVE  LabelsFit'
<1> USE LabelsAre
<1>1. CASE \E t \in Tasks : BeginClose(t)
  BY <1>1, GotoFits DEF BeginClose
<1>2. CASE \E t \in Tasks : Destroy(t)
  BY <1>2, GotoFits, ReturnedFits DEF Destroy
<1>3. CASE \E t \in Tasks : Notify(t)
  BY <1>3, GotoFits DEF Notify
<1>4. CASE \E t \in Tasks : MarkClosed(t)
  BY <1>4, GotoFits DEF MarkClosed
<1>5. CASE \E t \in Tasks : SrtpDeInit(t)
  BY <1>5, GotoFits, ReturnedFits DEF SrtpDeInit
<1>6. CASE \E t \in {"session", "listener"}, ok \in BOOLEAN : SrtpInit(t, ok)
  BY <1>6, GotoFits, ReturnedFits DEF SrtpInit
<1>7. CASE \E t \in {"session", "listener"} : ConnectionReady(t)
  BY <1>7, GotoFits, ReturnedFits DEF ConnectionReady
<1>8. CASE TakeOffer
  BY <1>8, GotoFits DEF TakeOffer
<1>9. CASE AddTransceiver("add_video", "add_audio") \/ AddTransceiver("add_audio", "start")
  BY <1>9, GotoFits DEF AddTransceiver
<1>10. CASE Start
  BY <1>10, GotoFits DEF Start
<1>11. CASE \E ok \in BOOLEAN : SetRemoteDescription(ok)
  BY <1>11, GotoFits DEF SetRemoteDescription
<1>12. CASE Wake
  BY <1>12, GotoFits DEF Wake
<1>13. CASE \E ok \in BOOLEAN : Answer(ok)
  BY <1>13, GotoFits DEF Answer
<1>14. CASE AddRemoteCandidate
  BY <1>14 DEF AddRemoteCandidate, LabelsFit
<1>15. CASE Pump
  <2>1. Goto("webrtc", "cleanup") \/ UNCHANGED pc  BY <1>15 DEF Pump
  <2> QED  BY <2>1, GotoFits DEF LabelsFit
<1>16. CASE EndPump
  BY <1>16, GotoFits DEF EndPump
<1>17. CASE Cleanup
  BY <1>17, GotoFits DEF Cleanup
<1>18. CASE Drained
  BY <1>18, GotoFits DEF Drained
<1>19. CASE WakeUp
  BY <1>19, GotoFits DEF WakeUp
<1>20. CASE HandleAddRemoteCandidate
  BY <1>20, GotoFits DEF HandleAddRemoteCandidate
<1>21. CASE \E relay, timeout \in BOOLEAN : HandleProcess(relay, timeout)
  BY <1>21, GotoFits DEF HandleProcess
<1>22. CASE \E next \in {"check", "srtp_init", "close"} : HandlePeriodic(next)
  BY <1>22, GotoFits DEF HandlePeriodic
<1>23. CASE HandleIceClosing
  BY <1>23, GotoFits DEF HandleIceClosing
<1>24. CASE HandleIceClosed
  BY <1>24, GotoFits DEF HandleIceClosed
<1>25. CASE HandleClose
  BY <1>25, GotoFits DEF HandleClose
<1>26. CASE \E inactive \in BOOLEAN : CheckInactive(inactive)
  BY <1>26, GotoFits DEF CheckInactive
<1>27. CASE Poll
  BY <1>27, GotoFits DEF Poll
<1>28. CASE IgnorePacket
  BY <1>28, GotoFits DEF IgnorePacket
<1>29. CASE NominatingPacket
  BY <1>29, GotoFits DEF NominatingPacket
<1>30. CASE \E next \in {"srtp_init", "close"} : DtlsPacket(next)
  BY <1>30, GotoFits DEF DtlsPacket
<1>31. CASE SocketFails
  BY <1>31, GotoFits DEF SocketFails
<1>32. CASE RelayEnds
  BY <1>32, GotoFits DEF RelayEnds
<1>33. CASE Nominate
  BY <1>33, GotoFits DEF Nominate
<1>34. CASE \E timeout \in BOOLEAN : BeginHandshake(timeout)
  BY <1>34, GotoFits DEF BeginHandshake
<1>35. CASE ConnectionFound
  BY <1>35, GotoFits DEF ConnectionFound
<1>36. CASE TimerExpires
  BY <1>36 DEF TimerExpires, LabelsFit
<1>37. CASE UNCHANGED vars
  BY <1>37 DEF vars, LabelsFit
<1> QED
  BY <1>1, <1>2, <1>3, <1>4, <1>5, <1>6, <1>7, <1>8, <1>9, <1>10, <1>11, <1>12, <1>13,
     <1>14, <1>15, <1>16, <1>17, <1>18, <1>19, <1>20, <1>21, <1>22, <1>23, <1>24, <1>25,
     <1>26, <1>27, <1>28, <1>29, <1>30, <1>31, <1>32, <1>33, <1>34, <1>35, <1>36, <1>37
  DEF Next, WebrtcTask, SessionTask, ListenerTask, HandlePacket, HandshakeComplete, CloseSession,
     Tasks

\* Every variable of the session keeps its type; above all no task is ever at a
\* label of another one, the queue does not grow beyond its length and no
\* transceiver is added beyond the table.
THEOREM TypeCorrect == Spec => []TypeOK
<1> DEFINE Types == Fields /\ Flags /\ LabelsFit
<1>1. Init => Types
  <2> SUFFICES ASSUME Init PROVE Types
    OBVIOUS
  <2>1. Flags  BY DEF Init, Flags
  <2>2. QueueFits(requestQueue)  BY SessionAssumption DEF Init, QueueFits
  <2>3. Fields
    BY <2>2, SessionAssumption DEF Init, Fields, States, TransceiverMax
  <2>4. LabelsFit  BY LabelsAre DEF Init, LabelsFit
  <2> QED  BY <2>1, <2>3, <2>4
<1>2. Types /\ IInv /\ [Next]_vars => Types'
  BY FieldsStep, FlagsStep, LabelsStep DEF IInv
<1>3. Types /\ IInv => TypeOK
  BY DEF IInv, Fields, Flags, LabelsFit, QueueFits, TypeOK, PcType, AllLabels
<1> QED  BY <1>1, <1>2, <1>3, Inductive, PTL DEF Spec
=============================================================================
