-------------------------- MODULE IceSocketsProofs --------------------------
(***************************************************************************)
(* Proofs about IceSockets, for any number of contexts and descriptors,    *)
(* any viewers and any ICE servers: types, and that no socket is           *)
(* forgotten, although a context is tested outside of the mutex that       *)
(* guards its close.                                                       *)
(*                                                                         *)
(* The argument: contexts are taken from the front of the table, and what  *)
(* is behind the count is closed (ClosedBeyond), so a context that is      *)
(* taken for a new socket has none; and the count goes back to the front   *)
(* only when IceController_Start, with nobody gathering, has closed every  *)
(* context up to the one it is at (ForcedClosed).                          *)
(***************************************************************************)
EXTENDS IceSockets, TLAPS

ClosedBeyond == \A s \in Slots : s > socketsContextsCount => ~IsOpen(s)

ForcedClosed ==
    pc["webrtc"] = "force" =>
        /\ pc["session"] = "asleep"
        /\ sessions # 0
        /\ index["webrtc"] # 0
        /\ \A s \in Slots : s < index["webrtc"] => ~IsOpen(s) \/ freeing["webrtc"] = s

\* Candidates are gathered for a viewer.
GathersForViewer == addLocalCandidates => sessions # 0

IInv == TypeOK /\ NoSocketLost /\ ClosedBeyond /\ ForcedClosed /\ GathersForViewer

-----------------------------------------------------------------------------
LEMMA UsedSlots ==
    TypeOK => Used \subseteq Slots /\ Slots \subseteq 0 .. SlotMax /\ SlotMax \in Nat
BY SocketAssumption DEF TypeOK, Used, Slots

\* What a step that neither opens nor closes a socket does to the contexts.
Kept ==
    /\ socketsContexts' \in Contexts
    /\ \A s \in Slots : socketsContexts'[s].socketFd = socketsContexts[s].socketFd
    /\ descriptors' = descriptors

\* The state of a context and its candidate do not matter to its socket.
LEMMA UpdateKeeps ==
    ASSUME TypeOK, descriptors' = descriptors, NEW s, NEW state \in States,
           NEW c \in 0 .. SlotMax, UpdateSocketContext(s, state, c)
    PROVE  Kept
BY DEF TypeOK, UpdateSocketContext, Contexts, Kept

LEMMA SameKeeps ==
    ASSUME TypeOK, UNCHANGED <<socketsContexts, descriptors>>
    PROVE  Kept
BY DEF TypeOK, Kept

\* Contexts may be given out; true of every step but three.
Grown ==
    /\ Kept
    /\ socketsContextsCount' \in 0 .. SlotMax
    /\ socketsContextsCount <= socketsContextsCount'

LEMMA CountStays ==
    ASSUME TypeOK, Kept, socketsContextsCount' = socketsContextsCount
    PROVE  Grown
BY SocketAssumption DEF Grown, TypeOK

LEMMA GrowStep ==
    ASSUME TypeOK, Next
    PROVE  \/ Grown
           \/ \E connecting \in BOOLEAN : CreateSocketContext(connecting)
           \/ \E t \in Tasks : CloseSocket(t)
           \/ Started
<1>0. /\ States = {"NONE", "CONNECTION_IN_PROGRESS", "CREATE", "READY", "SELECTED"}
      /\ at \in [Tasks -> 0 .. SlotMax] /\ numLocalCandidates \in 0 .. SlotMax
      /\ socketsContexts \in Contexts /\ socketsContextsCount \in 0 .. SlotMax
      /\ SlotMax \in Nat /\ 0 \in 0 .. SlotMax
  BY SocketAssumption DEF TypeOK, States
<1>1. CASE CreateFails
  <2>1. UNCHANGED <<socketsContexts, descriptors>>  BY <1>1 DEF CreateFails
  <2>2. socketsContextsCount' \in 0 .. SlotMax /\ socketsContextsCount <= socketsContextsCount'
    BY <1>1, <1>0 DEF CreateFails, Slots
  <2> QED  BY <2>1, <2>2, SameKeeps DEF Grown
<1>2. CASE CandidateCreated
  <2>1. PICK c \in 0 .. SlotMax, state \in States : UpdateSocketContext(Slot, state, c)
    BY <1>2, <1>0 DEF CandidateCreated, Tasks
  <2>2. UNCHANGED <<socketsContextsCount, descriptors>>  BY <1>2 DEF CandidateCreated
  <2> QED  BY <2>1, <2>2, UpdateKeeps, CountStays
<1>3. CASE ConnectionInProgress
  <2>1. UpdateSocketContext(Slot, "CONNECTION_IN_PROGRESS", 0)
        /\ UNCHANGED <<socketsContextsCount, descriptors>>
    BY <1>3 DEF ConnectionInProgress
  <2> QED  BY <1>0, <2>1, UpdateKeeps, CountStays
<1>4. CASE ShakenInSession
  <2>1. UNCHANGED <<socketsContextsCount, descriptors>>  BY <1>4 DEF ShakenInSession
  <2>2. CASE UNCHANGED socketsContexts  BY <2>1, <2>2, SameKeeps, CountStays
  <2>3. CASE /\ AddCandidate("relay")
             /\ UpdateSocketContext(at["session"], "CREATE", numLocalCandidates')
    <3>1. numLocalCandidates' \in 0 .. SlotMax
      BY <1>0, <2>3 DEF AddCandidate, TableFull
    <3> QED  BY <1>0, <2>1, <2>3, <3>1, UpdateKeeps, CountStays
  <2> QED  BY <1>4, <2>2, <2>3 DEF ShakenInSession
<1>5. CASE BindRelay
  <2>1. UpdateSocketContext(Rx, "CREATE", numLocalCandidates)
        /\ UNCHANGED <<socketsContextsCount, descriptors>>
    BY <1>5 DEF BindRelay
  <2> QED  BY <1>0, <2>1, UpdateKeeps, CountStays
<1>6. CASE AddressKnown
  <2> DEFINE c == socketsContexts[Rx].pLocalCandidate
  <2>1. UpdateSocketContext(Rx, "READY", c) /\ UNCHANGED <<socketsContextsCount, descriptors>>
    BY <1>6 DEF AddressKnown
  <2>2. CASE Rx \in Slots
    <3>1. c \in 0 .. SlotMax  BY <1>0, <2>2 DEF Contexts
    <3> HIDE DEF c
    <3> QED  BY <1>0, <2>1, <3>1, UpdateKeeps, CountStays
  <2>3. CASE Rx \notin Slots
    <3>1. socketsContexts' = socketsContexts
      BY <1>0, <2>1, <2>3 DEF UpdateSocketContext, Contexts
    <3> QED  BY <2>1, <3>1, SameKeeps, CountStays
  <2> QED  BY <2>2, <2>3
<1>7. CASE Nominate
  <2>1. /\ socketsContexts' = [socketsContexts EXCEPT ![Rx].state = "SELECTED"]
        /\ UNCHANGED <<socketsContextsCount, descriptors>>
    BY <1>7 DEF Nominate
  <2>2. Kept  BY <1>0, <2>1 DEF Kept, Contexts
  <2> QED  BY <2>1, <2>2, CountStays
<1>8. CASE UNCHANGED slots
  BY <1>8, SameKeeps, CountStays DEF slots
<1>9. CASE SendFailed("media")
  BY <1>8, <1>9 DEF SendFailed
<1>10. CASE \E t \in Tasks : CloseSocket(t)  BY <1>10
<1>11. ASSUME NEW t \in Tasks, Closing(t) PROVE Grown \/ CloseSocket(t)
  <2>1. CASE CloseSocket(t)  BY <2>1
  <2>2. CASE ~CloseSocket(t)
    <3>1. \/ SendFailed(t) \/ DestroyNext(t) \/ Releasing(t) \/ NothingToRelease(t)
          \/ Destroyed(t) \/ ReleaseOtherSockets(t) \/ OthersReleased(t)
      BY <1>11, <2>2 DEF Closing
    <3>2. UNCHANGED slots
      BY <3>1
      DEF SendFailed, DestroyNext, Releasing, NothingToRelease, Destroyed,
          ReleaseOtherSockets, OthersReleased
    <3> QED  BY <3>2, SameKeeps, CountStays DEF slots
  <2> QED  BY <2>1, <2>2
<1>12. CASE Listener
  BY <1>12, <1>5, <1>6, <1>7, <1>8, <1>11
  DEF Listener, PollingSockets, HandleReadable, ShakenInListener, ReceiveNothing,
      ReceivePacket, ReceiveFails, NoCandidate, OtherPacket, TurnSessionTerminated,
      ConnectionFound, DtlsPacket, Tasks
<1>13. CASE SessionTask
  BY <1>13, <1>1, <1>2, <1>3, <1>4, <1>8, <1>11
  DEF SessionTask, AddLocalCandidates, AddLocalCandidate, AddLocalCandidateFails,
      CandidateNotSent, HandleProcess, ProcessCandidatePairs, ProcessLocalCandidates,
      LocalsProcessed, HandlePeriodic, HandshakeCompleteInSession, HandleIceClosing,
      HandleClose, HandleIceClosed, Tasks
<1>14. CASE WebRTCTask
  BY <1>14, <1>8, <1>11
  DEF WebRTCTask, Start, ForceClose, Stop, Stopped, Tasks
<1>15. CASE Media \/ TimerExpires
  BY <1>15, <1>8, <1>9
  DEF Media, SendToRemotePeer, TimerExpires, Tasks
<1> QED  BY <1>12, <1>13, <1>14, <1>15 DEF Next

\* The socket contexts after a step, whatever the step was.
LEMMA SocketsStep ==
    ASSUME IInv, [Next]_vars
    PROVE  /\ socketsContexts' \in Contexts /\ socketsContextsCount' \in 0 .. SlotMax
           /\ descriptors' \subseteq Descriptors /\ NoSocketLost' /\ ClosedBeyond'
<1>0. /\ TypeOK /\ NoSocketLost /\ socketsContexts \in Contexts /\ ClosedBeyond
      /\ socketsContextsCount \in 0 .. SlotMax /\ SlotMax \in Nat
      /\ descriptors \subseteq Descriptors /\ NoSocket \notin Descriptors
  BY SocketAssumption DEF IInv, TypeOK
<1>10. /\ descriptors = {socketsContexts[s].socketFd : s \in Slots} \ {NoSocket}
       /\ \A r, s \in Slots :
             r # s /\ IsOpen(r) => socketsContexts[r].socketFd # socketsContexts[s].socketFd
  BY <1>0 DEF NoSocketLost
<1>11. ASSUME Kept PROVE NoSocketLost' /\ \A s \in Slots : IsOpen(s)' => IsOpen(s)
  BY <1>10, <1>11 DEF Kept, NoSocketLost, IsOpen
<1>1. CASE Grown
  <2>1. ClosedBeyond'  BY <1>0, <1>1, <1>11 DEF Grown, ClosedBeyond, Slots
  <2> QED  BY <1>0, <1>1, <1>11, <2>1 DEF Grown, Kept
<1>2. CASE \E connecting \in BOOLEAN : CreateSocketContext(connecting)
  <2> DEFINE new == socketsContextsCount + 1
  <2>1. PICK fd \in Descriptors \ descriptors, tls \in BOOLEAN :
           /\ descriptors' = descriptors \cup {fd}
           /\ socketsContexts' = [socketsContexts EXCEPT ![new].socketFd = fd,
                                                         ![new].tls = tls]
    BY <1>2 DEF CreateSocketContext
  <2>2. new \in Slots /\ socketsContextsCount' = new /\ new \in 0 .. SlotMax
    BY <1>0, <1>2 DEF CreateSocketContext, Slots
  <2>3. ~IsOpen(new)  BY <1>0, <2>2 DEF ClosedBeyond
  <2>4. ClosedBeyond'
    <3> SUFFICES ASSUME NEW s \in Slots, s > new PROVE ~IsOpen(s)'
      BY <2>2 DEF ClosedBeyond
    <3>1. s > socketsContextsCount /\ s # new  BY <1>0, <2>2 DEF Slots
    <3>2. socketsContexts'[s] = socketsContexts[s]  BY <1>0, <2>1, <3>1 DEF Contexts
    <3> QED  BY <1>0, <3>1, <3>2 DEF ClosedBeyond, IsOpen
  <2> HIDE DEF new
  <2>5. socketsContexts' \in Contexts  BY <1>0, <2>1 DEF Contexts
  <2>6. /\ socketsContexts'[new].socketFd = fd
        /\ \A s \in Slots \ {new} : socketsContexts'[s].socketFd = socketsContexts[s].socketFd
    BY <1>0, <2>1, <2>2 DEF Contexts
  <2>7. fd # NoSocket /\ fd \notin descriptors /\ socketsContexts[new].socketFd = NoSocket
    BY <1>0, <2>3 DEF IsOpen
  <2>8. NoSocketLost'
    <3>1. descriptors' = {socketsContexts'[s].socketFd : s \in Slots} \ {NoSocket}
      <4>1. \A d : d \in descriptors <=>
                      d # NoSocket /\ \E s \in Slots : socketsContexts[s].socketFd = d
        BY <1>10
      <4>2. \A d : d \in descriptors' <=> d = fd \/ d \in descriptors  BY <2>1
      <4>3. \A d : (\E s \in Slots : socketsContexts'[s].socketFd = d) /\ d # NoSocket
                  <=> d = fd \/ d \in descriptors
        BY <2>2, <2>6, <2>7, <4>1
      <4> QED  BY <4>2, <4>3
    <3>2. \A s \in Slots \ {new} : socketsContexts'[s].socketFd # fd
      BY <1>10, <2>6, <2>7
    <3>3. \A r, s \in Slots :
             r # s /\ socketsContexts'[r].socketFd # NoSocket
             => socketsContexts'[r].socketFd # socketsContexts'[s].socketFd
      <4> TAKE r, s \in Slots
      <4>1. CASE r = new  BY <2>6, <3>2, <4>1
      <4>2. CASE s = new  BY <2>6, <3>2, <4>2
      <4>3. CASE r # new /\ s # new  BY <1>10, <2>6, <4>3 DEF IsOpen
      <4> QED  BY <4>1, <4>2, <4>3
    <3> QED  BY <3>1, <3>3 DEF NoSocketLost, IsOpen
  <2>9. descriptors' \subseteq Descriptors  BY <1>0, <2>1
  <2> QED  BY <2>2, <2>4, <2>5, <2>8, <2>9
<1>3. CASE \E t \in Tasks : CloseSocket(t)
  <2>1. PICK t \in Tasks : CloseSocket(t)  BY <1>3
  <2> DEFINE s == freeing[t]
             fd == socketsContexts[s].socketFd
  <2>2. s \in Slots
    <3>1. freeing \in [Tasks -> 0 .. SlotMax]  BY <1>0 DEF TypeOK
    <3> QED  BY <1>0, <2>1, <3>1 DEF CloseSocket, Slots
  <2>3. /\ descriptors' = descriptors \ {fd}
        /\ socketsContexts' = [socketsContexts EXCEPT ![s].socketFd = NoSocket,
                                                      ![s].state = "NONE"]
        /\ socketsContextsCount' = socketsContextsCount
    BY <2>1 DEF CloseSocket
  <2> HIDE DEF s
  <2>4. socketsContexts' \in Contexts  BY <1>0, <2>3 DEF Contexts, States
  <2>5. /\ socketsContexts'[s].socketFd = NoSocket
        /\ \A r \in Slots \ {s} : socketsContexts'[r].socketFd = socketsContexts[r].socketFd
    BY <1>0, <2>2, <2>3 DEF Contexts
  <2>6. NoSocketLost'
    <3>1. CASE fd = NoSocket
      <4>1. Kept
        BY <1>0, <1>10, <2>2, <2>3, <2>4, <2>5, <3>1 DEF Kept
      <4> QED  BY <1>11, <4>1
    <3>2. CASE fd # NoSocket
      <4>1. \A r \in Slots \ {s} : socketsContexts[r].socketFd # fd
        BY <1>10, <2>2, <3>2 DEF IsOpen
      <4>2. descriptors' = {socketsContexts'[r].socketFd : r \in Slots} \ {NoSocket}
        <5>1. \A d : d \in descriptors <=>
                        d # NoSocket /\ \E r \in Slots : socketsContexts[r].socketFd = d
          BY <1>10
        <5>2. \A d : d \in descriptors' <=> d # fd /\ d \in descriptors  BY <2>3
        <5> HIDE DEF fd
        <5>3. \A d : (\E r \in Slots : socketsContexts'[r].socketFd = d) /\ d # NoSocket
                    <=> d # fd /\ d \in descriptors
          <6>1. socketsContexts[s].socketFd = fd  BY DEF fd
          <6> QED  BY <2>2, <2>5, <4>1, <5>1, <6>1
        <5> QED  BY <5>2, <5>3
      <4>3. \A r, q \in Slots :
               r # q /\ socketsContexts'[r].socketFd # NoSocket
               => socketsContexts'[r].socketFd # socketsContexts'[q].socketFd
        BY <1>10, <2>2, <2>5 DEF IsOpen
      <4> QED  BY <4>2, <4>3 DEF NoSocketLost, IsOpen
    <3> QED  BY <3>1, <3>2
  <2>7. ClosedBeyond'
    BY <1>0, <2>3, <2>5 DEF ClosedBeyond, IsOpen
  <2>8. descriptors' \subseteq Descriptors  BY <1>0, <2>3
  <2> QED  BY <1>0, <2>3, <2>4, <2>6, <2>7, <2>8
<1>4. CASE Started
  <2>1. Kept /\ socketsContextsCount' = 0
    BY <1>4, <1>0, SameKeeps DEF Started
  <2>2. \A s \in Slots : ~IsOpen(s)
    <3>1. index["webrtc"] \in 0 .. SlotMax + 1 /\ "webrtc" \in Tasks
      BY <1>0 DEF TypeOK, Tasks
    <3>2. index["webrtc"] \notin Slots /\ freeing["webrtc"] = 0 /\ pc["webrtc"] = "force"
      BY <1>4 DEF Started, At
    <3>3. index["webrtc"] # 0 /\ \A s \in Slots : s < index["webrtc"]
                                                  => ~IsOpen(s) \/ freeing["webrtc"] = s
      BY <3>2 DEF IInv, ForcedClosed
    <3>4. \A s \in Slots : s < index["webrtc"] /\ s # 0
      BY <1>0, <3>1, <3>2, <3>3 DEF Slots
    <3> QED  BY <3>2, <3>3, <3>4
  <2>3. ClosedBeyond'  BY <1>11, <2>1, <2>2 DEF ClosedBeyond
  <2> QED  BY <1>0, <1>11, <2>1, <2>3 DEF Kept
<1>5. CASE UNCHANGED vars
  <2>1. Grown  BY <1>0, <1>5, SameKeeps, CountStays DEF vars, slots
  <2> QED  BY <1>1, <2>1
<1> QED  BY <1>0, <1>1, <1>2, <1>3, <1>4, <1>5, GrowStep

-----------------------------------------------------------------------------
\* The library's table keeps its type.
Table ==
    /\ localCandidates \in [Slots -> [kind : Kinds, ending : BOOLEAN]]
    /\ numLocalCandidates \in 0 .. SlotMax

LEMMA CandidateClosed ==
    ASSUME Table, NEW s, CloseCandidate(s), numLocalCandidates' = numLocalCandidates
    PROVE  Table'
BY DEF CloseCandidate, Table

LEMMA CandidateAdded ==
    ASSUME Table, NEW kind \in Kinds, AddCandidate(kind)
    PROVE  Table'
<1>1. numLocalCandidates' \in 0 .. SlotMax
  BY SocketAssumption DEF Table, AddCandidate, TableFull
<1>2. [kind |-> kind, ending |-> FALSE] \in [kind : Kinds, ending : BOOLEAN]
  OBVIOUS
<1> QED  BY <1>1, <1>2 DEF Table, AddCandidate

LEMMA SentTable ==
    ASSUME Table, NEW t, NEW s, SendPacket(t, s)
    PROVE  Table'
<1>1. CASE UNCHANGED library  BY <1>1 DEF library, Table
<1>2. CASE CloseCandidate(s) /\ UNCHANGED numLocalCandidates  BY <1>2, CandidateClosed
<1> QED  BY <1>1, <1>2 DEF SendPacket

LEMMA TableStep ==
    ASSUME IInv, [Next]_vars
    PROVE  Table'
<1>0. TypeOK /\ Table /\ "relay" \in Kinds  BY DEF IInv, TypeOK, Table, Kinds
<1>1. CASE AddLocalCandidate
  <2>1. PICK kind \in Kinds : AddCandidate(kind)
    BY <1>1, <1>0 DEF AddLocalCandidate, Gathering, KindOf, Kinds, TypeOK
  <2> QED  BY <1>0, <2>1, CandidateAdded
<1>2. CASE ProcessCandidatePairs
  <2>1. UNCHANGED library \/ \E s : SendPacket("session", s)  BY <1>2 DEF ProcessCandidatePairs
  <2> QED  BY <1>0, <2>1, SentTable DEF library, Table
<1>3. CASE ProcessLocalCandidates
  <2>1. UNCHANGED library \/ \E s : SendPacket("session", s)  BY <1>3 DEF ProcessLocalCandidates
  <2> QED  BY <1>0, <2>1, SentTable DEF library, Table
<1>4. CASE ShakenInSession
  <2>1. UNCHANGED library \/ AddCandidate("relay")  BY <1>4 DEF ShakenInSession
  <2> QED  BY <1>0, <2>1, CandidateAdded DEF library, Table
<1>5. CASE ShakenInListener
  <2>1. UNCHANGED library \/ AddCandidate("relay")  BY <1>5 DEF ShakenInListener
  <2> QED  BY <1>0, <2>1, CandidateAdded DEF library, Table
<1>6. CASE ReceiveFails
  <2>1. CloseCandidate(Rx) /\ UNCHANGED numLocalCandidates  BY <1>6 DEF ReceiveFails
  <2> QED  BY <1>0, <2>1, CandidateClosed
<1>7. CASE Start
  <2>1. numLocalCandidates' = 0 /\ UNCHANGED localCandidates  BY <1>7 DEF Start
  <2> QED  BY <1>0, <2>1, SocketAssumption DEF Table
<1>8. CASE SendToRemotePeer
  <2>1. \E s : SendPacket("media", s)  BY <1>8 DEF SendToRemotePeer
  <2> QED  BY <1>0, <2>1, SentTable
<1>9. CASE UNCHANGED library
  BY <1>9, <1>0 DEF library, Table
<1>10. CASE \E t \in Tasks : DestroyNext(t) \/ ReleaseOtherSockets(t)
  <2>1. UNCHANGED numLocalCandidates
        /\ (UNCHANGED localCandidates \/ \E s : CloseCandidate(s))
    BY <1>10 DEF DestroyNext, ReleaseOtherSockets
  <2> QED  BY <1>0, <2>1, CandidateClosed DEF Table
<1>11. ASSUME NEW t \in Tasks, Closing(t) PROVE Table'
  <2>1. CASE DestroyNext(t) \/ ReleaseOtherSockets(t)  BY <1>10, <2>1
  <2>2. CASE ~(DestroyNext(t) \/ ReleaseOtherSockets(t))
    BY <1>9, <1>11, <2>2
    DEF Closing, CloseSocket, SendFailed, Releasing, NothingToRelease, Destroyed,
        OthersReleased
  <2> QED  BY <2>1, <2>2
<1>12. CASE Listener
  BY <1>12, <1>5, <1>6, <1>9, <1>11
  DEF Listener, PollingSockets, HandleReadable, BindRelay, ReceiveNothing, ReceivePacket,
      NoCandidate, OtherPacket, AddressKnown, TurnSessionTerminated, Nominate,
      ConnectionFound, DtlsPacket, Tasks
<1>13. CASE SessionTask
  BY <1>13, <1>1, <1>2, <1>3, <1>4, <1>9, <1>11
  DEF SessionTask, AddLocalCandidates, CreateFails, CreateSocketContext,
      AddLocalCandidateFails, CandidateNotSent, CandidateCreated, ConnectionInProgress,
      HandleProcess, LocalsProcessed, HandlePeriodic, HandshakeCompleteInSession,
      HandleIceClosing, HandleClose, HandleIceClosed, Tasks
<1>14. CASE WebRTCTask
  BY <1>14, <1>7, <1>9, <1>11
  DEF WebRTCTask, ForceClose, Started, Stop, Stopped, Tasks
<1>15. CASE Media \/ TimerExpires
  <2>1. CASE CloseSocket("media") \/ SendFailed("media") \/ TimerExpires
    BY <1>9, <2>1 DEF CloseSocket, SendFailed, TimerExpires
  <2> QED  BY <1>15, <1>8, <2>1 DEF Media
<1> QED  BY <1>9, <1>12, <1>13, <1>14, <1>15 DEF Next, vars

-----------------------------------------------------------------------------
\* The flags, the queue and the viewers after a step.
Flags ==
    /\ iceState \in {"NEW", "PROCESS", "READY", "CLOSING", "CLOSED"}
    /\ pNominatedSocketContext \in 0 .. SlotMax
    /\ {addLocalCandidates, executeSocketListener, timerSet, handshaking} \subseteq BOOLEAN
    /\ requestQueue \in Seq(Requests)
    /\ sessions \in 0 .. Len(Wanted)

LEMMA RequestedType ==
    ASSUME NEW q \in Seq(Requests), NEW r \in Requests
    PROVE  Requested(q, r) \in Seq(Requests)
BY DEF Requested

LEMMA ClosingFlags ==
    ASSUME Flags, NEW t \in Tasks, Closing(t)
    PROVE  Flags'
<1>0. "close" \in Requests /\ "ice_closed" \in Requests  BY DEF Requests
<1>1. CASE SendFailed(t)
  <2>1. requestQueue' \in Seq(Requests) /\ timerSet' \in BOOLEAN
    BY <1>0, <1>1, RequestedType DEF SendFailed, Flags
  <2> QED  BY <1>1, <2>1 DEF SendFailed, Flags
<1>2. CASE Releasing(t)
  BY <1>2 DEF Releasing, around, Flags
<1>3. CASE NothingToRelease(t)
  <2>1. requestQueue' \in Seq(Requests)
    BY <1>0, <1>3, RequestedType DEF NothingToRelease, Flags
  <2> QED  BY <1>3, <2>1 DEF NothingToRelease, Flags
<1>4. CASE Destroyed(t)
  BY <1>4 DEF Destroyed, around, Flags
<1>5. CASE UNCHANGED <<ice, around>>
  BY <1>5 DEF ice, around, Flags
<1> QED
  BY <1>1, <1>2, <1>3, <1>4, <1>5
  DEF Closing, CloseSocket, DestroyNext, ReleaseOtherSockets, OthersReleased

LEMMA FlagsStep ==
    ASSUME IInv, [Next]_vars
    PROVE  Flags'
<1>0. TypeOK /\ Flags  BY DEF IInv, TypeOK, Flags
<1>60. \A q \in Seq(Requests) : q # <<>> => Tail(q) \in Seq(Requests)
  OBVIOUS
<1>61. \A q \in Seq(Requests), r \in {"process", "periodic", "ice_closing", "ice_closed", "close"} :
          Requested(q, r) \in Seq(Requests)
  BY RequestedType DEF Requests
<1>62. at \in [Tasks -> 0 .. SlotMax]  BY <1>0 DEF TypeOK
<1>63. \A t \in Tasks : Destroy(t) =>
          iceState' \in {"NEW", "PROCESS", "READY", "CLOSING", "CLOSED"}
  BY <1>0 DEF Destroy, Flags
<1>1. CASE HandleProcess
  <2>1. requestQueue' \in Seq(Requests)  BY <1>0, <1>60, <1>1 DEF HandleProcess, Received, Flags
  <2> QED  BY <1>0, <2>1, <1>1 DEF HandleProcess, Flags
<1>2. CASE \E timeout \in BOOLEAN : LocalsProcessed(timeout)
  <2>1. requestQueue' \in Seq(Requests)  BY <1>0, <1>61, <1>2 DEF LocalsProcessed, Flags
  <2> QED  BY <1>0, <2>1, <1>2 DEF LocalsProcessed, Flags
<1>3. CASE HandlePeriodic
  <2>1. requestQueue' \in Seq(Requests)  BY <1>0, <1>60, <1>3 DEF HandlePeriodic, Received, Flags
  <2> QED  BY <1>0, <2>1, <1>3 DEF HandlePeriodic, ice, Flags
<1>4. CASE HandshakeCompleteInSession
  BY <1>0, <1>4 DEF HandshakeCompleteInSession, HandshakeComplete, ice, Flags
<1>5. CASE HandleIceClosing
  <2>1. requestQueue' \in Seq(Requests)
    <3>1. Tail(requestQueue) \in Seq(Requests)
      BY <1>0, <1>60, <1>5 DEF HandleIceClosing, Flags
    <3> QED  BY <1>61, <3>1, <1>5 DEF HandleIceClosing
  <2> QED  BY <1>0, <2>1, <1>5 DEF HandleIceClosing, Flags
<1>6. CASE HandleClose
  <2>1. requestQueue' \in Seq(Requests)  BY <1>0, <1>60, <1>6 DEF HandleClose, Received, Flags
  <2>2. iceState' \in {"NEW", "PROCESS", "READY", "CLOSING", "CLOSED"}
    BY <1>6, <1>63 DEF HandleClose, Tasks
  <2> QED  BY <1>0, <2>1, <2>2, <1>6 DEF HandleClose, Flags
<1>7. CASE HandleIceClosed
  <2>1. requestQueue' \in Seq(Requests)  BY <1>0, <1>60, <1>7 DEF HandleIceClosed, Received, Flags
  <2> QED  BY <1>0, <2>1, <1>7 DEF HandleIceClosed, ice, Flags
<1>8. CASE Nominate
  <2>1. pNominatedSocketContext' \in 0 .. SlotMax
    BY <1>62, <1>8 DEF Nominate, Rx, Tasks
  <2> QED  BY <1>0, <2>1, <1>8 DEF Nominate, around, Flags
<1>9. CASE ConnectionFound
  BY <1>0, <1>9 DEF ConnectionFound, Flags
<1>10. CASE DtlsPacket
  <2>1. iceState' \in {"NEW", "PROCESS", "READY", "CLOSING", "CLOSED"}
    BY <1>0, <1>10, <1>63 DEF DtlsPacket, Tasks, Flags
  <2>2. handshaking' \in BOOLEAN
    BY <1>0, <1>10 DEF DtlsPacket, HandshakeComplete, Flags
  <2> QED  BY <1>0, <2>1, <2>2, <1>10 DEF DtlsPacket, Flags
<1>11. CASE Start
  <2>1. sessions' \in 0 .. Len(Wanted)
    <3>1. Len(Wanted) \in Nat  BY SocketAssumption
    <3>2. sessions \in 0 .. Len(Wanted) /\ sessions < Len(Wanted) /\ sessions' = sessions + 1
      BY <1>0, <1>11 DEF Start, Flags
    <3> QED  BY <3>1, <3>2
  <2> QED  BY <1>0, <2>1, <1>11 DEF Start, ice, Flags
<1>12. CASE Started
  <2>1. requestQueue' \in Seq(Requests)
    BY <1>12 DEF Started, Requests
  <2>2. /\ iceState' = "PROCESS" /\ pNominatedSocketContext' = 0 /\ addLocalCandidates' = TRUE
        /\ executeSocketListener' = TRUE /\ handshaking' = FALSE /\ timerSet' = timerSet
        /\ sessions' = sessions
    BY <1>12 DEF Started
  <2>3. 0 \in 0 .. SlotMax  BY SocketAssumption
  <2> QED  BY <1>0, <2>1, <2>2, <2>3 DEF Flags
<1>13. CASE Stop
  <2>1. iceState' \in {"NEW", "PROCESS", "READY", "CLOSING", "CLOSED"}
    BY <1>13, <1>63 DEF Stop, Tasks
  <2> QED  BY <1>0, <2>1, <1>13 DEF Stop, around, Flags
<1>14. CASE TimerExpires
  <2>1. requestQueue' \in Seq(Requests)
    <3>1. iceState \in DOMAIN TimerEvent =>
              TimerEvent[iceState] \in {"process", "periodic", "ice_closing", "ice_closed"}
      BY DEF TimerEvent
    <3>2. requestQueue \in Seq(Requests)  BY <1>0 DEF Flags
    <3> QED  BY <1>61, <3>1, <3>2, <1>14 DEF TimerExpires
  <2> QED  BY <1>0, <2>1, <1>14 DEF TimerExpires, Flags
<1>15. CASE UNCHANGED <<ice, around>>
  BY <1>0, <1>15 DEF ice, around, Flags
<1>16. ASSUME NEW t \in Tasks, Closing(t) PROVE Flags'
  BY <1>0, <1>16, ClosingFlags
<1>17. CASE Listener
  BY <1>17, <1>8, <1>9, <1>10, <1>15, <1>16
  DEF Listener, PollingSockets, HandleReadable, ShakenInListener, BindRelay, ReceiveNothing,
      ReceivePacket, ReceiveFails, NoCandidate, OtherPacket, AddressKnown,
      TurnSessionTerminated, Tasks
<1>18. CASE SessionTask
  BY <1>18, <1>1, <1>2, <1>3, <1>4, <1>5, <1>6, <1>7, <1>15, <1>16
  DEF SessionTask, AddLocalCandidates, CreateFails, CreateSocketContext, AddLocalCandidate,
      AddLocalCandidateFails, CandidateNotSent, CandidateCreated, ConnectionInProgress,
      ProcessCandidatePairs, ProcessLocalCandidates, ShakenInSession, Tasks
<1>19. CASE WebRTCTask
  BY <1>19, <1>11, <1>12, <1>13, <1>15, <1>16
  DEF WebRTCTask, ForceClose, Stopped, Tasks
<1>20. CASE Media
  <2>1. CASE CloseSocket("media") \/ SendFailed("media")
    <3>1. Closing("media") /\ "media" \in Tasks  BY <2>1 DEF Closing, Tasks
    <3> QED  BY <1>16, <3>1
  <2>2. CASE SendToRemotePeer  BY <1>15, <2>2 DEF SendToRemotePeer
  <2> QED  BY <1>20, <2>1, <2>2 DEF Media
<1> QED  BY <1>14, <1>15, <1>17, <1>18, <1>19, <1>20 DEF Next, vars

-----------------------------------------------------------------------------
\* Labels, contexts in hand, loops, calls, and the sockets still to be opened.
TaskTypes == pc \in [Tasks -> Labels] /\ at \in [Tasks -> 0 .. SlotMax]
LoopTypes == index \in [Tasks -> 0 .. SlotMax + 1]
CallTypes == {freeing, failed} \subseteq [Tasks -> 0 .. SlotMax]
Servers == {"host", "srflx", "turn", "turns"}

LEMMA SetsOfLabels ==
    /\ Tasks = {"session", "listener", "webrtc", "media"}
    /\ {"wait", "live", "asleep", "handle", "gather", "add", "update", "connecting", "pairs",
        "locals", "poll", "receive", "shaken", "bind", "packet", "found", "destroy",
        "releasing", "closed", "others", "force"} \subseteq Labels
BY DEF Tasks, Labels

LEMMA RestShrinks ==
    ASSUME NEW q \in Seq(Servers), q # <<>>
    PROVE  /\ Tail(q) \in Seq(Servers)
           /\ \A n \in 1 .. Len(q) : SubSeq(q, n + 1, Len(q)) \in Seq(Servers)
OBVIOUS

LEMMA TaskMoves ==
    ASSUME TaskTypes, SlotMax \in Nat
    PROVE  /\ \A t \in Tasks, l \in Labels : Goto(t, l) /\ UNCHANGED at => TaskTypes'
           /\ \A t \in Tasks, l \in Labels, s \in 0 .. SlotMax : Begin(t, l, s) => TaskTypes'
           /\ \A t \in Tasks : t # "media" /\ Return(t) => TaskTypes'
<1>1. \A t \in Tasks, l \in Labels : Goto(t, l) => pc' \in [Tasks -> Labels]
  BY DEF Goto, TaskTypes
<1>2. ASSUME NEW t \in Tasks, t # "media", Return(t) PROVE TaskTypes'
  <2>1. at' \in [Tasks -> 0 .. SlotMax]  BY <1>2 DEF Return, TaskTypes
  <2>2. \E l \in Labels : pc' = [pc EXCEPT ![t] = l]
    BY <1>2 DEF Return, Tasks, Labels
  <2> QED  BY <2>1, <2>2 DEF TaskTypes
<1> QED  BY <1>1, <1>2 DEF Begin, TaskTypes

LEMMA DestroyMoves ==
    ASSUME TaskTypes, SlotMax \in Nat, pNominatedSocketContext \in 0 .. SlotMax,
           NEW t \in Tasks \ {"media"}, Destroy(t) \/ HandshakeComplete(t)
    PROVE  TaskTypes'
BY TaskMoves, SetsOfLabels DEF HandshakeComplete, Destroy

LEMMA ClosingMoves ==
    ASSUME TaskTypes, rest \in Seq(Servers), SlotMax \in Nat,
           NEW t \in Tasks \ {"media"}, Closing(t)
    PROVE  TaskTypes' /\ rest' \in Seq(Servers)
<1>1. CASE Releasing(t) \/ Destroyed(t) \/ OthersReleased(t)
  BY <1>1, TaskMoves DEF Releasing, Destroyed, OthersReleased
<1>2. CASE DestroyNext(t)
  <2>1. (UNCHANGED pc \/ Goto(t, "releasing")) /\ UNCHANGED <<at, rest>>
    BY <1>2 DEF DestroyNext
  <2> QED  BY <2>1, TaskMoves, SetsOfLabels DEF TaskTypes
<1>3. CASE NothingToRelease(t)
  BY <1>3, TaskMoves, SetsOfLabels DEF NothingToRelease
<1>4. CASE UNCHANGED <<pc, at, rest>>
  BY <1>4 DEF TaskTypes
<1> QED
  BY <1>1, <1>2, <1>3, <1>4
  DEF Closing, CloseSocket, SendFailed, ReleaseOtherSockets, tasks

LEMMA TasksStep ==
    ASSUME IInv, [Next]_vars
    PROVE  TaskTypes' /\ rest' \in Seq(Servers)
<1>0. /\ TypeOK /\ TaskTypes /\ rest \in Seq(Servers) /\ SlotMax \in Nat
      /\ pNominatedSocketContext \in 0 .. SlotMax /\ socketsContextsCount \in 0 .. SlotMax
      /\ GathersForViewer
  BY SocketAssumption DEF IInv, TypeOK, TaskTypes, Servers
<1>60. /\ \A t \in Tasks, l \in Labels : Goto(t, l) /\ UNCHANGED at => TaskTypes'
       /\ \A t \in Tasks, l \in Labels, s \in 0 .. SlotMax : Begin(t, l, s) => TaskTypes'
       /\ \A t \in Tasks : t # "media" /\ Return(t) => TaskTypes'
  BY <1>0, TaskMoves
<1>61. Slots \subseteq 0 .. SlotMax /\ 0 \in 0 .. SlotMax  BY SocketAssumption DEF Slots
<1>62. ASSUME GatherNext, rest # <<>>, UNCHANGED at \/ at' = [at EXCEPT !["session"] = 0]
       PROVE  TaskTypes' /\ rest' \in Seq(Servers)
  <2>1. rest' \in Seq(Servers)  BY <1>0, <1>62, RestShrinks DEF GatherNext
  <2>2. PICK l \in Labels : pc' = [pc EXCEPT !["session"] = l]
    BY <1>62, SetsOfLabels DEF GatherNext, Goto
  <2>3. TaskTypes'  BY <1>0, <1>61, <1>62, <2>2 DEF TaskTypes
  <2> QED  BY <2>1, <2>3
<1>63. ASSUME NEW t \in Tasks, NEW l \in Labels, NEW s \in 0 .. SlotMax,
              ExecuteTlsHandshake(t, s, l)
       PROVE  TaskTypes'
  BY <1>60, <1>63, SetsOfLabels DEF ExecuteTlsHandshake
<1>1. CASE CreateFails
  BY <1>1, <1>62 DEF CreateFails, Gathering
<1>2. CASE \E connecting \in BOOLEAN : CreateSocketContext(connecting)
  <2>1. TaskTypes'  BY <1>2, <1>60, SetsOfLabels DEF CreateSocketContext
  <2> QED  BY <1>2, <1>0, <2>1 DEF CreateSocketContext
<1>3. CASE AddLocalCandidate
  <2>1. PICK s \in 0 .. SlotMax : Begin("session", "update", s)
    <3>1. \A kind : AddCandidate(kind) => numLocalCandidates' \in 0 .. SlotMax
      BY <1>0 DEF AddCandidate, TableFull, TypeOK
    <3> QED  BY <1>3, <1>61, <3>1 DEF AddLocalCandidate
  <2>2. TaskTypes'  BY <1>60, <2>1, SetsOfLabels
  <2> QED  BY <1>3, <1>0, <2>2 DEF AddLocalCandidate
<1>4. CASE AddLocalCandidateFails
  <2>1. rest' \in Seq(Servers)
    BY <1>4, <1>0, RestShrinks DEF AddLocalCandidateFails, Gathering
  <2>2. PICK l \in Labels : Goto("session", l) /\ UNCHANGED at
    BY <1>4, SetsOfLabels DEF AddLocalCandidateFails
  <2> QED  BY <1>60, <2>1, <2>2, SetsOfLabels
<1>5. CASE CandidateNotSent \/ CandidateCreated
  BY <1>5, <1>62 DEF CandidateNotSent, CandidateCreated, Gathering
<1>6. CASE ConnectionInProgress
  BY <1>6, <1>62 DEF ConnectionInProgress, Gathering
<1>7. CASE HandleProcess
  <2>1. PICK l \in Labels : Goto("session", l) /\ UNCHANGED at
    BY <1>7, SetsOfLabels DEF HandleProcess
  <2>2. rest' \in Seq(Servers)
    <3>1. CASE addLocalCandidates
      <4>1. sessions \in 1 .. Len(Wanted)
        BY <1>0, <3>1, SocketAssumption DEF GathersForViewer, TypeOK
      <4>2. Wanted[sessions] \in Seq(Servers)  BY <4>1, SocketAssumption DEF Servers
      <4> QED  BY <1>0, <1>7, <3>1, <4>2 DEF HandleProcess
    <3>2. CASE ~addLocalCandidates  BY <1>7, <1>0, <3>2 DEF HandleProcess
    <3> QED  BY <3>1, <3>2
  <2> QED  BY <1>60, <2>1, <2>2, SetsOfLabels
<1>8. CASE ProcessCandidatePairs
  <2>1. UNCHANGED pc \/ Goto("session", "locals")  BY <1>8 DEF ProcessCandidatePairs
  <2>2. UNCHANGED <<at, rest>>  BY <1>8 DEF ProcessCandidatePairs
  <2> QED  BY <1>0, <1>60, <2>1, <2>2, SetsOfLabels DEF TaskTypes
<1>9. CASE ProcessLocalCandidates
  <2>1. UNCHANGED rest /\ (UNCHANGED <<pc, at>>
                           \/ \E s \in Used : ExecuteTlsHandshake("session", s, "locals"))
    BY <1>9 DEF ProcessLocalCandidates
  <2> QED  BY <1>0, <1>63, <2>1, UsedSlots, SetsOfLabels DEF TaskTypes
<1>10. CASE ShakenInSession
  <2>1. TaskTypes'  BY <1>10, <1>60, <1>61, SetsOfLabels DEF ShakenInSession
  <2> QED  BY <1>10, <1>0, <2>1 DEF ShakenInSession
<1>11. CASE \E timeout \in BOOLEAN : LocalsProcessed(timeout)
  <2>1. TaskTypes'  BY <1>11, <1>60, SetsOfLabels DEF LocalsProcessed
  <2> QED  BY <1>11, <1>0, <2>1 DEF LocalsProcessed
<1>12. CASE HandlePeriodic
  <2>1. UNCHANGED pc \/ Goto("session", "locals")  BY <1>12 DEF HandlePeriodic
  <2>2. UNCHANGED <<at, rest>>  BY <1>12 DEF HandlePeriodic
  <2> QED  BY <1>0, <1>60, <2>1, <2>2, SetsOfLabels DEF TaskTypes
<1>13. CASE HandshakeCompleteInSession
  <2>1. TaskTypes'  BY <1>13, <1>0, DestroyMoves, SetsOfLabels DEF HandshakeCompleteInSession
  <2> QED  BY <1>13, <1>0, <2>1 DEF HandshakeCompleteInSession
<1>14. CASE HandleIceClosing
  <2>1. UNCHANGED pc \/ Goto("session", "locals")  BY <1>14 DEF HandleIceClosing
  <2>2. UNCHANGED <<at, rest>>  BY <1>14 DEF HandleIceClosing
  <2> QED  BY <1>0, <1>60, <2>1, <2>2, SetsOfLabels DEF TaskTypes
<1>15. CASE HandleClose
  <2>1. TaskTypes'  BY <1>15, <1>0, DestroyMoves, SetsOfLabels DEF HandleClose
  <2> QED  BY <1>15, <1>0, <2>1 DEF HandleClose
<1>16. CASE HandleIceClosed
  <2>1. TaskTypes'  BY <1>16, <1>60, SetsOfLabels DEF HandleIceClosed
  <2> QED  BY <1>16, <1>0, <2>1 DEF HandleIceClosed
<1>17. CASE HandleReadable
  <2>1. PICK s \in Slots : \/ ExecuteTlsHandshake("listener", s, "poll")
                           \/ Begin("listener", "receive", s)
    BY <1>17, <1>0 DEF HandleReadable, TypeOK
  <2>2. TaskTypes'  BY <1>60, <1>61, <1>63, <2>1, SetsOfLabels
  <2> QED  BY <1>17, <1>0, <2>2 DEF HandleReadable
<1>18. CASE ShakenInListener
  <2>1. \/ Goto("listener", "bind") /\ UNCHANGED at
        \/ Begin("listener", "poll", 0)
    BY <1>18 DEF ShakenInListener
  <2>2. TaskTypes'  BY <1>60, <1>61, <2>1, SetsOfLabels
  <2> QED  BY <1>18, <1>0, <2>2 DEF ShakenInListener
<1>19. CASE BindRelay \/ ReceiveNothing \/ ReceiveFails \/ TurnSessionTerminated
  <2>1. Begin("listener", "poll", 0) /\ UNCHANGED rest
    BY <1>19 DEF BindRelay, ReceiveNothing, ReceiveFails, TurnSessionTerminated
  <2> QED  BY <1>0, <1>60, <1>61, <2>1, SetsOfLabels
<1>20. CASE ReceivePacket
  <2>1. TaskTypes'  BY <1>20, <1>60, SetsOfLabels DEF ReceivePacket
  <2> QED  BY <1>20, <1>0, <2>1 DEF ReceivePacket
<1>21. CASE OtherPacket \/ AddressKnown \/ ConnectionFound
  <2>1. Return("listener") /\ UNCHANGED rest
    BY <1>21 DEF OtherPacket, AddressKnown, ConnectionFound
  <2> QED  BY <1>0, <1>60, <2>1, SetsOfLabels
<1>22. CASE Nominate
  <2>1. UNCHANGED rest  BY <1>22 DEF Nominate
  <2>2. CASE pNominatedSocketContext = 0
    <3>1. Goto("listener", "found") /\ UNCHANGED at  BY <1>22, <2>2 DEF Nominate
    <3> QED  BY <1>0, <1>60, <2>1, <3>1, SetsOfLabels
  <2>3. CASE pNominatedSocketContext # 0
    <3>1. Return("listener")  BY <1>22, <2>3 DEF Nominate
    <3> QED  BY <1>0, <1>60, <2>1, <3>1, SetsOfLabels
  <2> QED  BY <2>2, <2>3
<1>23. CASE DtlsPacket
  <2>1. HandshakeComplete("listener") \/ Destroy("listener")  BY <1>23 DEF DtlsPacket
  <2>2. TaskTypes'  BY <1>0, <2>1, DestroyMoves, SetsOfLabels
  <2> QED  BY <1>23, <1>0, <2>2 DEF DtlsPacket
<1>24. CASE Start
  <2>1. TaskTypes'  BY <1>24, <1>60, SetsOfLabels DEF Start
  <2> QED  BY <1>24, <1>0, <2>1 DEF Start
<1>25. CASE Started
  <2>1. /\ pc' = [pc EXCEPT !["webrtc"] = "live", !["session"] = "handle"]
        /\ UNCHANGED <<at, rest>>
    BY <1>25 DEF Started
  <2>2. TaskTypes'  BY <1>0, <2>1, SetsOfLabels DEF TaskTypes
  <2> QED  BY <1>0, <2>1, <2>2
<1>26. CASE Stop
  <2>1. TaskTypes'  BY <1>26, <1>0, DestroyMoves, SetsOfLabels DEF Stop
  <2> QED  BY <1>26, <1>0, <2>1 DEF Stop
<1>27. CASE Stopped
  <2>1. TaskTypes'  BY <1>27, <1>60, SetsOfLabels DEF Stopped
  <2> QED  BY <1>27, <1>0, <2>1 DEF Stopped
<1>28. CASE UNCHANGED <<pc, at, rest>>
  BY <1>28, <1>0 DEF TaskTypes
<1>29. ASSUME NEW t \in Tasks \ {"media"}, Closing(t) PROVE TaskTypes' /\ rest' \in Seq(Servers)
  BY <1>0, <1>29, ClosingMoves
<1>30. CASE Listener
  BY <1>30, <1>17, <1>18, <1>19, <1>20, <1>21, <1>22, <1>23, <1>28, <1>29, SetsOfLabels
  DEF Listener, PollingSockets, NoCandidate, tasks
<1>31. CASE SessionTask
  BY <1>31, <1>1, <1>2, <1>3, <1>4, <1>5, <1>6, <1>7, <1>8, <1>9, <1>10, <1>11, <1>12, <1>13,
     <1>14, <1>15, <1>16, <1>29, SetsOfLabels
  DEF SessionTask, AddLocalCandidates
<1>32. CASE WebRTCTask
  BY <1>32, <1>24, <1>25, <1>26, <1>27, <1>28, <1>29, SetsOfLabels
  DEF WebRTCTask, ForceClose
<1>33. CASE Media \/ TimerExpires \/ UNCHANGED vars
  BY <1>33, <1>28
  DEF Media, CloseSocket, SendFailed, SendToRemotePeer, TimerExpires, vars, tasks
<1> QED  BY <1>30, <1>31, <1>32, <1>33 DEF Next

-----------------------------------------------------------------------------
\* A loop ends one beyond the contexts.
LEMMA LoopsStep ==
    ASSUME IInv, [Next]_vars
    PROVE  LoopTypes'
<1>0. /\ LoopTypes /\ SlotMax \in Nat /\ socketsContextsCount \in 0 .. SlotMax
  BY SocketAssumption DEF IInv, TypeOK, LoopTypes
<1>1. \A t \in Tasks : Loop(t) \/ LoopEnd(t) => LoopTypes'
  BY <1>0 DEF Loop, LoopEnd, LoopTypes
<1>2. ASSUME NEW t \in Tasks, LoopNext(t), index[t] <= SlotMax PROVE LoopTypes'
  <2>1. index[t] + 1 \in 0 .. SlotMax + 1  BY <1>0, <1>2 DEF LoopTypes
  <2> QED  BY <1>0, <1>2, <2>1 DEF LoopNext, LoopTypes
<1>3. CASE UNCHANGED index  BY <1>0, <1>3 DEF LoopTypes
<1>4. \A t \in Tasks : Destroy(t) \/ HandshakeComplete(t) => LoopTypes'
  BY <1>1, <1>3 DEF Destroy, HandshakeComplete
<1>5. ASSUME NEW t \in Tasks, DestroyNext(t) \/ ReleaseOtherSockets(t) PROVE LoopTypes'
  <2>1. LoopNext(t) /\ index[t] <= socketsContextsCount
    BY <1>5 DEF DestroyNext, ReleaseOtherSockets
  <2>2. index[t] <= SlotMax  BY <1>0, <2>1 DEF LoopTypes
  <2> QED  BY <1>2, <2>1, <2>2
<1>6. ASSUME NEW t \in Tasks, Closing(t) PROVE LoopTypes'
  BY <1>1, <1>3, <1>5, <1>6
  DEF Closing, CloseSocket, SendFailed, Releasing, NothingToRelease, Destroyed,
      OthersReleased, tasks
<1>7. CASE ForceClose
  <2>1. LoopNext("webrtc") /\ index["webrtc"] <= SlotMax
    BY <1>0, <1>7 DEF ForceClose, Slots
  <2> QED  BY <1>2, <2>1, SetsOfLabels
<1>8. CASE Listener
  BY <1>3, <1>4, <1>6, <1>8, SetsOfLabels
  DEF Listener, PollingSockets, HandleReadable, ShakenInListener, BindRelay, ReceiveNothing,
      ReceivePacket, ReceiveFails, NoCandidate, OtherPacket, AddressKnown,
      TurnSessionTerminated, Nominate, ConnectionFound, DtlsPacket, tasks
<1>9. CASE SessionTask
  BY <1>3, <1>4, <1>6, <1>9, SetsOfLabels
  DEF SessionTask, AddLocalCandidates, CreateFails, CreateSocketContext, AddLocalCandidate,
      AddLocalCandidateFails, CandidateNotSent, CandidateCreated, ConnectionInProgress,
      HandleProcess, ProcessCandidatePairs, ProcessLocalCandidates, ShakenInSession,
      LocalsProcessed, HandlePeriodic, HandshakeCompleteInSession, HandleIceClosing,
      HandleClose, HandleIceClosed
<1>10. CASE WebRTCTask
  BY <1>1, <1>3, <1>4, <1>6, <1>7, <1>10, SetsOfLabels
  DEF WebRTCTask, Start, Started, Stop, Stopped
<1>11. CASE Media \/ TimerExpires \/ UNCHANGED vars
  BY <1>3, <1>11
  DEF Media, CloseSocket, SendFailed, SendToRemotePeer, TimerExpires, vars, tasks
<1> QED  BY <1>8, <1>9, <1>10, <1>11 DEF Next

\* The calls a task is in are about a context, or about none.
LEMMA CallsStep ==
    ASSUME IInv, [Next]_vars
    PROVE  CallTypes'
<1>0. /\ TypeOK /\ CallTypes /\ 0 \in 0 .. SlotMax /\ at \in [Tasks -> 0 .. SlotMax]
      /\ pNominatedSocketContext \in 0 .. SlotMax /\ socketsContextsCount \in 0 .. SlotMax
      /\ Slots \subseteq 0 .. SlotMax /\ Used \subseteq 0 .. SlotMax /\ readable \subseteq Slots
  <2>1. TypeOK  BY DEF IInv
  <2>2. 0 \in 0 .. SlotMax  BY SocketAssumption
  <2>3. Used \subseteq Slots /\ Slots \subseteq 0 .. SlotMax  BY <2>1, UsedSlots
  <2> QED  BY <2>1, <2>2, <2>3 DEF TypeOK, CallTypes
<1>1. ASSUME NEW t \in Tasks, NEW s \in 0 .. SlotMax, FreeSocketContext(t, s)
      PROVE  freeing' \in [Tasks -> 0 .. SlotMax]
  <2>1. (IF IsOpen(s) THEN s ELSE 0) \in 0 .. SlotMax  BY <1>0
  <2> QED  BY <1>0, <1>1, <2>1 DEF FreeSocketContext, CallTypes
<1>2. \A t \in Tasks, s \in 0 .. SlotMax :
          FreeSocketContext(t, s) /\ UNCHANGED failed => CallTypes'
  BY <1>0, <1>1 DEF CallTypes
<1>3. CASE UNCHANGED <<freeing, failed>>  BY <1>0, <1>3 DEF CallTypes
<1>4. ASSUME NEW t \in Tasks, NEW s \in 0 .. SlotMax, SendPacket(t, s) PROVE CallTypes'
  <2>1. CASE UNCHANGED <<freeing, failed>>  BY <1>3, <2>1
  <2>2. CASE FreeSocketContext(t, s) /\ failed' = [failed EXCEPT ![t] = s]
    BY <1>0, <1>1, <2>2 DEF CallTypes
  <2> QED  BY <1>4, <2>1, <2>2 DEF SendPacket
<1>5. \A t \in Tasks, s \in 0 .. SlotMax, l \in Labels :
          ExecuteTlsHandshake(t, s, l) /\ UNCHANGED failed => CallTypes'
  BY <1>2, <1>3 DEF ExecuteTlsHandshake
<1>6. ASSUME NEW t \in Tasks, CloseSocket(t) \/ SendFailed(t) PROVE CallTypes'
  <2>1. CASE CloseSocket(t)
    <3>1. freeing' = [freeing EXCEPT ![t] = 0] /\ UNCHANGED failed  BY <2>1 DEF CloseSocket
    <3> QED  BY <1>0, <3>1 DEF CallTypes
  <2>2. CASE SendFailed(t)
    <3>1. failed' = [failed EXCEPT ![t] = 0] /\ UNCHANGED freeing  BY <2>2 DEF SendFailed
    <3> QED  BY <1>0, <3>1 DEF CallTypes
  <2> QED  BY <1>6, <2>1, <2>2
<1>7. ASSUME NEW t \in Tasks, DestroyNext(t) \/ ReleaseOtherSockets(t) PROVE CallTypes'
  <2>1. index[t] \in 0 .. SlotMax
    <3>1. index[t] \in 0 .. SlotMax + 1 /\ index[t] <= socketsContextsCount
      BY <1>0, <1>7 DEF DestroyNext, ReleaseOtherSockets, TypeOK
    <3> QED  BY <1>0, <3>1, SocketAssumption
  <2>2. UNCHANGED failed /\ (UNCHANGED freeing \/ FreeSocketContext(t, index[t]))
    BY <1>7 DEF DestroyNext, ReleaseOtherSockets
  <2> QED  BY <1>2, <1>3, <2>1, <2>2
<1>8. ASSUME NEW t \in Tasks, Closing(t) PROVE CallTypes'
  BY <1>3, <1>6, <1>7, <1>8
  DEF Closing, Releasing, NothingToRelease, Destroyed, OthersReleased, calls
<1>9. CASE ProcessCandidatePairs
  <2>1. UNCHANGED <<freeing, failed>> \/ \E s \in Used : SendPacket("session", s)
    BY <1>9 DEF ProcessCandidatePairs, FindSocketContextByLocalCandidate
  <2> QED  BY <1>0, <1>3, <1>4, <2>1, SetsOfLabels
<1>10. CASE ProcessLocalCandidates
  <2>1. PICK s \in Used : \/ SendPacket("session", s)
                          \/ ExecuteTlsHandshake("session", s, "locals") /\ UNCHANGED failed
    BY <1>10 DEF ProcessLocalCandidates
  <2> QED  BY <1>0, <1>4, <1>5, <2>1, SetsOfLabels
<1>11. CASE HandleReadable
  <2>1. UNCHANGED failed /\ (UNCHANGED freeing
             \/ \E s \in Slots : ExecuteTlsHandshake("listener", s, "poll"))
    BY <1>0, <1>11 DEF HandleReadable
  <2> QED  BY <1>0, <1>3, <1>5, <2>1, SetsOfLabels
<1>12. CASE ForceClose \/ AddLocalCandidateFails \/ CandidateNotSent \/ ShakenInSession
            \/ ShakenInListener \/ ReceiveFails \/ TurnSessionTerminated
  <2>1. UNCHANGED failed
        /\ (UNCHANGED freeing \/ \E t \in Tasks, s \in 0 .. SlotMax : FreeSocketContext(t, s))
    BY <1>0, <1>12, SetsOfLabels
    DEF ForceClose, AddLocalCandidateFails, CandidateNotSent, ShakenInSession, Slot, Rx,
        ShakenInListener, ReceiveFails, TurnSessionTerminated
  <2> QED  BY <1>2, <1>3, <2>1
<1>13. CASE SendToRemotePeer
  BY <1>0, <1>4, <1>13, SetsOfLabels DEF SendToRemotePeer
<1>14. CASE Listener
  BY <1>3, <1>8, <1>11, <1>12, <1>14, SetsOfLabels
  DEF Listener, PollingSockets, BindRelay, ReceiveNothing, ReceivePacket, NoCandidate,
      OtherPacket, AddressKnown, Nominate, ConnectionFound, DtlsPacket, calls
<1>15. CASE SessionTask
  BY <1>3, <1>8, <1>9, <1>10, <1>12, <1>15, SetsOfLabels
  DEF SessionTask, AddLocalCandidates, CreateFails, CreateSocketContext, AddLocalCandidate,
      CandidateCreated, ConnectionInProgress, HandleProcess, LocalsProcessed,
      HandlePeriodic, HandshakeCompleteInSession, HandleIceClosing, HandleClose,
      HandleIceClosed, calls
<1>16. CASE WebRTCTask
  BY <1>3, <1>8, <1>12, <1>16, SetsOfLabels
  DEF WebRTCTask, Start, Started, Stop, Stopped, calls
<1>17. CASE Media \/ TimerExpires \/ UNCHANGED vars
  BY <1>3, <1>6, <1>13, <1>17, SetsOfLabels DEF Media, TimerExpires, vars, calls
<1> QED  BY <1>14, <1>15, <1>16, <1>17 DEF Next

\* What select gave are contexts; the fault is recorded or not.
LEMMA RestStep ==
    ASSUME IInv, [Next]_vars
    PROVE  readable' \subseteq Slots /\ fault' \in BOOLEAN
<1>0. TypeOK /\ readable \subseteq Slots /\ fault \in BOOLEAN /\ Used \subseteq Slots
  BY UsedSlots DEF IInv, TypeOK
<1>1. readable' \subseteq Slots
  <2>1. CASE PollingSockets
    BY <1>0, <2>1 DEF PollingSockets
  <2>2. CASE HandleReadable
    BY <1>0, <2>2 DEF HandleReadable
  <2>3. CASE UNCHANGED readable  BY <1>0, <2>3
  <2>4. ASSUME NEW t \in Tasks, Closing(t) PROVE UNCHANGED readable
    BY <2>4
    DEF Closing, CloseSocket, SendFailed, DestroyNext, Releasing, NothingToRelease,
        Destroyed, ReleaseOtherSockets, OthersReleased, tasks
  <2>5. CASE Listener
    BY <2>1, <2>2, <2>3, <2>4, <2>5, SetsOfLabels
    DEF Listener, ShakenInListener, BindRelay, ReceiveNothing, ReceivePacket, ReceiveFails,
        NoCandidate, OtherPacket, AddressKnown, TurnSessionTerminated, Nominate,
        ConnectionFound, DtlsPacket, tasks
  <2>6. CASE SessionTask
    BY <2>3, <2>4, <2>6, SetsOfLabels
    DEF SessionTask, AddLocalCandidates, CreateFails, CreateSocketContext,
        AddLocalCandidate, AddLocalCandidateFails, CandidateNotSent, CandidateCreated,
        ConnectionInProgress, HandleProcess, ProcessCandidatePairs, ProcessLocalCandidates,
        ShakenInSession, LocalsProcessed, HandlePeriodic, HandshakeCompleteInSession,
        HandleIceClosing, HandleClose, HandleIceClosed
  <2>7. CASE WebRTCTask
    BY <2>3, <2>4, <2>7, SetsOfLabels
    DEF WebRTCTask, Start, ForceClose, Started, Stop, Stopped
  <2>8. CASE Media \/ TimerExpires \/ UNCHANGED vars
    BY <2>3, <2>8
    DEF Media, CloseSocket, SendFailed, SendToRemotePeer, TimerExpires, vars, tasks
  <2> QED  BY <2>5, <2>6, <2>7, <2>8 DEF Next
<1>2. fault' \in BOOLEAN
  <2>1. ASSUME NEW t \in Tasks, CloseSocket(t) PROVE fault' \in BOOLEAN
    <3> DEFINE tls == socketsContexts[freeing[t]].tls
               receiving == At("listener", "receive") /\ at["listener"] = freeing[t]
    <3>1. fault' \in CASE ~tls -> {FALSE}
                       [] tls /\ ~IsOpen(freeing[t]) -> {TRUE}
                       [] tls /\ IsOpen(freeing[t])  -> {FALSE, receiving}
      BY <2>1 DEF CloseSocket
    <3>2. receiving \in BOOLEAN  BY DEF At
    <3> HIDE DEF receiving, tls
    <3>3. CASE tls /\ IsOpen(freeing[t])
      <4>1. fault' \in {FALSE, receiving}  BY <3>1, <3>3
      <4> QED  BY <3>2, <4>1
    <3>4. CASE tls /\ ~IsOpen(freeing[t])
      <4>1. fault' \in {TRUE}  BY <3>1, <3>4
      <4> QED  BY <4>1
    <3>5. CASE ~tls
      <4>1. fault' \in {FALSE}  BY <3>1, <3>5
      <4> QED  BY <4>1
    <3> QED  BY <3>3, <3>4, <3>5
  <2>2. CASE NoCandidate  BY <2>2 DEF NoCandidate
  <2>3. CASE UNCHANGED fault  BY <1>0, <2>3
  <2>4. ASSUME NEW t \in Tasks, Closing(t) PROVE fault' \in BOOLEAN
    BY <2>1, <2>3, <2>4
    DEF Closing, SendFailed, DestroyNext, Releasing, NothingToRelease,
        Destroyed, ReleaseOtherSockets, OthersReleased, calls
  <2>5. CASE Listener
    BY <2>2, <2>3, <2>4, <2>5, SetsOfLabels
    DEF Listener, PollingSockets, HandleReadable, ShakenInListener, BindRelay,
        ReceiveNothing, ReceivePacket, ReceiveFails, OtherPacket, AddressKnown,
        TurnSessionTerminated, Nominate, ConnectionFound, DtlsPacket, calls
  <2>6. CASE SessionTask
    BY <2>3, <2>4, <2>6, SetsOfLabels
    DEF SessionTask, AddLocalCandidates, CreateFails, CreateSocketContext,
        AddLocalCandidate, AddLocalCandidateFails, CandidateNotSent, CandidateCreated,
        ConnectionInProgress, HandleProcess, ProcessCandidatePairs, ProcessLocalCandidates,
        ShakenInSession, LocalsProcessed, HandlePeriodic, HandshakeCompleteInSession,
        HandleIceClosing, HandleClose, HandleIceClosed, calls
  <2>7. CASE WebRTCTask
    BY <2>3, <2>4, <2>7, SetsOfLabels
    DEF WebRTCTask, Start, ForceClose, Started, Stop, Stopped, calls
  <2>8. CASE Media \/ TimerExpires \/ UNCHANGED vars
    BY <2>1, <2>3, <2>8, SetsOfLabels
    DEF Media, SendFailed, SendToRemotePeer, TimerExpires, vars, calls
  <2> QED  BY <2>5, <2>6, <2>7, <2>8 DEF Next
<1> QED  BY <1>1, <1>2

-----------------------------------------------------------------------------
\* What a task does leaves the others where they are.
Stays(u) == pc'[u] = pc[u] /\ index'[u] = index[u] /\ freeing'[u] = freeing[u]

LEMMA OthersStay ==
    ASSUME TaskTypes, LoopTypes, CallTypes, NEW t \in Tasks, NEW u \in Tasks, t # u
    PROVE  /\ \A l : Goto(t, l) => pc'[u] = pc[u]
           /\ \A l, s : Begin(t, l, s) => pc'[u] = pc[u]
           /\ Return(t) => pc'[u] = pc[u]
           /\ Loop(t) \/ LoopNext(t) \/ LoopEnd(t) => index'[u] = index[u]
           /\ \A s : FreeSocketContext(t, s) => freeing'[u] = freeing[u]
<1>1. \A l : Goto(t, l) => pc'[u] = pc[u]  BY DEF Goto, TaskTypes
<1>2. Return(t) => pc'[u] = pc[u]  BY DEF Return, TaskTypes
<1>3. Loop(t) \/ LoopNext(t) \/ LoopEnd(t) => index'[u] = index[u]
  BY DEF Loop, LoopNext, LoopEnd, LoopTypes
<1>4. \A s : FreeSocketContext(t, s) => freeing'[u] = freeing[u]
  BY DEF FreeSocketContext, CallTypes
<1> QED  BY <1>1, <1>2, <1>3, <1>4 DEF Begin

LEMMA ClosingStays ==
    ASSUME TaskTypes, LoopTypes, CallTypes, NEW t \in Tasks, NEW u \in Tasks, t # u, Closing(t)
    PROVE  Stays(u)
<1>1. CASE CloseSocket(t)
  <2>1. freeing' = [freeing EXCEPT ![t] = 0] /\ UNCHANGED <<pc, index>>
    BY <1>1 DEF CloseSocket, tasks
  <2> QED  BY <2>1 DEF Stays, CallTypes
<1>2. CASE DestroyNext(t) \/ ReleaseOtherSockets(t)
  <2>1. /\ UNCHANGED pc \/ Goto(t, "releasing")
        /\ LoopNext(t)
        /\ UNCHANGED freeing \/ \E s : FreeSocketContext(t, s)
    BY <1>2 DEF DestroyNext, ReleaseOtherSockets
  <2> QED  BY <2>1, OthersStay DEF Stays
<1>3. CASE Releasing(t) \/ NothingToRelease(t) \/ OthersReleased(t)
  <2>1. LoopEnd(t) /\ (Return(t) \/ Goto(t, "closed")) /\ UNCHANGED freeing
    BY <1>3 DEF Releasing, NothingToRelease, OthersReleased, calls
  <2> QED  BY <2>1, OthersStay DEF Stays
<1>4. CASE Destroyed(t)
  <2>1. Return(t) /\ UNCHANGED <<index, freeing>>  BY <1>4 DEF Destroyed, calls
  <2> QED  BY <2>1, OthersStay DEF Stays
<1>5. CASE SendFailed(t)
  BY <1>5 DEF SendFailed, Stays, tasks
<1> QED  BY <1>1, <1>2, <1>3, <1>4, <1>5 DEF Closing

LEMMA ListenerStays ==
    ASSUME TaskTypes, LoopTypes, CallTypes, NEW u \in Tasks, u # "listener", Listener
    PROVE  Stays(u)
<1>0. /\ "listener" \in Tasks
      /\ \A l : Goto("listener", l) => pc'[u] = pc[u]
      /\ \A l, s : Begin("listener", l, s) => pc'[u] = pc[u]
      /\ Return("listener") => pc'[u] = pc[u]
      /\ Loop("listener") => index'[u] = index[u]
      /\ \A s : FreeSocketContext("listener", s) => freeing'[u] = freeing[u]
  BY SetsOfLabels, OthersStay
<1>1. CASE Closing("listener")  BY <1>0, <1>1, ClosingStays
<1>2. CASE PollingSockets \/ NoCandidate
  BY <1>2 DEF PollingSockets, NoCandidate, Stays, calls, tasks
<1>3. CASE HandleReadable
  BY <1>0, <1>3 DEF HandleReadable, ExecuteTlsHandshake, Stays
<1>4. CASE ShakenInListener
  BY <1>0, <1>4 DEF ShakenInListener, Stays
<1>5. CASE BindRelay \/ ReceiveNothing \/ ReceivePacket
  BY <1>0, <1>5 DEF BindRelay, ReceiveNothing, ReceivePacket, Stays, calls
<1>6. CASE ReceiveFails \/ TurnSessionTerminated
  BY <1>0, <1>6 DEF ReceiveFails, TurnSessionTerminated, Stays
<1>7. CASE OtherPacket \/ AddressKnown \/ ConnectionFound
  BY <1>0, <1>7 DEF OtherPacket, AddressKnown, ConnectionFound, Stays, calls
<1>8. CASE Nominate
  <2>1. Goto("listener", "found") \/ Return("listener")  BY <1>8 DEF Nominate
  <2> QED  BY <1>0, <1>8, <2>1 DEF Nominate, Stays, calls
<1>9. CASE DtlsPacket
  <2>1. HandshakeComplete("listener") \/ Destroy("listener")  BY <1>9 DEF DtlsPacket
  <2>2. pc'[u] = pc[u] /\ index'[u] = index[u]
    BY <1>0, <2>1 DEF HandshakeComplete, Destroy
  <2> QED  BY <1>9, <2>2 DEF DtlsPacket, Stays, calls
<1> QED
  BY <1>1, <1>2, <1>3, <1>4, <1>5, <1>6, <1>7, <1>8, <1>9 DEF Listener

\* What the session task does, it does awake.
LEMMA SessionAwake ==
    ASSUME TaskTypes, LoopTypes, CallTypes, SessionTask
    PROVE  /\ pc'["webrtc"] = pc["webrtc"]
           /\ pc["session"] # "asleep" \/ CloseSocket("session") \/ SendFailed("session")
<1>0. /\ "session" \in Tasks /\ "webrtc" \in Tasks
      /\ \A l : Goto("session", l) => pc'["webrtc"] = pc["webrtc"]
      /\ \A l, s : Begin("session", l, s) => pc'["webrtc"] = pc["webrtc"]
      /\ Return("session") => pc'["webrtc"] = pc["webrtc"]
      /\ GatherNext => pc'["webrtc"] = pc["webrtc"]
  BY SetsOfLabels, OthersStay DEF GatherNext
<1>1. CASE AddLocalCandidates
  BY <1>0, <1>1
  DEF AddLocalCandidates, CreateFails, CreateSocketContext, AddLocalCandidate,
      AddLocalCandidateFails, CandidateNotSent, CandidateCreated, ConnectionInProgress,
      Gathering, At
<1>2. CASE HandleProcess \/ HandlePeriodic \/ HandleIceClosing \/ HandleIceClosed
  BY <1>0, <1>2
  DEF HandleProcess, HandlePeriodic, HandleIceClosing, HandleIceClosed, Received, At
<1>3. CASE HandleClose \/ HandshakeCompleteInSession
  <2>1. Destroy("session") \/ HandshakeComplete("session")
    BY <1>3 DEF HandleClose, HandshakeCompleteInSession
  <2>2. pc'["webrtc"] = pc["webrtc"]  BY <1>0, <2>1 DEF Destroy, HandshakeComplete
  <2> QED  BY <1>3, <2>2 DEF HandleClose, HandshakeCompleteInSession, Received, At
<1>4. CASE ProcessCandidatePairs
  BY <1>0, <1>4 DEF ProcessCandidatePairs, At
<1>5. CASE ProcessLocalCandidates
  BY <1>0, <1>5 DEF ProcessLocalCandidates, ExecuteTlsHandshake, At
<1>6. CASE ShakenInSession \/ \E timeout \in BOOLEAN : LocalsProcessed(timeout)
  BY <1>0, <1>6 DEF ShakenInSession, LocalsProcessed, At
<1>7. CASE Closing("session")
  <2>1. pc'["webrtc"] = pc["webrtc"]  BY <1>0, <1>7, ClosingStays DEF Stays
  <2>2. \/ CloseSocket("session") \/ SendFailed("session")
        \/ pc["session"] \in {"destroy", "releasing", "closed", "others"}
    BY <1>7
    DEF Closing, DestroyNext, Releasing, NothingToRelease, Destroyed, ReleaseOtherSockets,
        OthersReleased, At
  <2> QED  BY <2>1, <2>2
<1> QED  BY <1>1, <1>2, <1>3, <1>4, <1>5, <1>6, <1>7 DEF SessionTask

\* A viewer is counted when its controller starts, and its gathering is asked
\* for at the end of that.
LEMMA ViewerStep ==
    ASSUME Next
    PROVE  /\ sessions' = sessions \/ Start
           /\ addLocalCandidates' = addLocalCandidates \/ HandleProcess \/ Started
<1>1. ASSUME NEW t \in Tasks, Closing(t)
      PROVE  UNCHANGED <<sessions, addLocalCandidates>>
  BY <1>1
  DEF Closing, CloseSocket, SendFailed, DestroyNext, Releasing, NothingToRelease,
      Destroyed, ReleaseOtherSockets, OthersReleased, ice, around
<1>2. CASE Listener
  BY <1>1, <1>2, SetsOfLabels
  DEF Listener, PollingSockets, HandleReadable, ShakenInListener, BindRelay, ReceiveNothing,
      ReceivePacket, ReceiveFails, NoCandidate, OtherPacket, AddressKnown,
      TurnSessionTerminated, Nominate, ConnectionFound, DtlsPacket, ice, around
<1>3. CASE SessionTask
  BY <1>1, <1>3, SetsOfLabels
  DEF SessionTask, AddLocalCandidates, CreateFails, CreateSocketContext, AddLocalCandidate,
      AddLocalCandidateFails, CandidateNotSent, CandidateCreated, ConnectionInProgress,
      HandleProcess, ProcessCandidatePairs, ProcessLocalCandidates, ShakenInSession,
      LocalsProcessed, HandlePeriodic, HandshakeCompleteInSession, HandleIceClosing,
      HandleClose, HandleIceClosed, ice, around
<1>4. CASE WebRTCTask
  BY <1>1, <1>4, SetsOfLabels
  DEF WebRTCTask, ForceClose, Start, Started, Stop, Stopped, ice, around
<1>5. CASE Media \/ TimerExpires
  BY <1>5
  DEF Media, CloseSocket, SendFailed, SendToRemotePeer, TimerExpires, ice, around
<1> QED  BY <1>2, <1>3, <1>4, <1>5 DEF Next

\* While IceController_Start closes the contexts one by one, nobody opens one.
LEMMA ForcedStep ==
    ASSUME IInv, [Next]_vars
    PROVE  ForcedClosed'
<1>0. /\ TypeOK /\ TaskTypes /\ LoopTypes /\ CallTypes /\ ForcedClosed /\ SlotMax \in Nat
      /\ "webrtc" \in Tasks /\ "session" \in Tasks /\ index["webrtc"] \in 0 .. SlotMax + 1
      /\ socketsContexts \in Contexts
  BY SocketAssumption, SetsOfLabels DEF IInv, TypeOK, TaskTypes, LoopTypes, CallTypes
<1>10. \A s \in Slots : s # 0 /\ s \in Nat  BY <1>0 DEF Slots
<1>11. sessions # 0 => sessions' # 0
  <2>1. CASE Start
    BY <1>0, <2>1, SocketAssumption DEF Start, TypeOK
  <2> QED  BY <2>1, ViewerStep DEF vars, around
<1> SUFFICES ASSUME pc'["webrtc"] = "force"
             PROVE  /\ pc'["session"] = "asleep"
                    /\ sessions' # 0
                    /\ index'["webrtc"] # 0
                    /\ \A s \in Slots : s < index'["webrtc"]
                                        => ~IsOpen(s)' \/ freeing'["webrtc"] = s
  BY DEF ForcedClosed
<1>1. CASE Start
  <2>1. index'["webrtc"] = 1  BY <1>0, <1>1 DEF Start, Loop, LoopTypes
  <2>2. pc'["session"] = "asleep"
    BY <1>0, <1>1 DEF Start, At, Goto, TaskTypes
  <2>3. sessions' # 0  BY <1>0, <1>1, SocketAssumption DEF Start, TypeOK
  <2> QED  BY <1>10, <2>1, <2>2, <2>3
<1>2. CASE ForceClose
  <2>1. /\ pc["webrtc"] = "force" /\ freeing["webrtc"] = 0 /\ index["webrtc"] \in Slots
        /\ UNCHANGED <<pc, socketsContexts>>
    BY <1>2 DEF ForceClose, At, slots
  <2>2. index'["webrtc"] = index["webrtc"] + 1
    BY <1>0, <1>2 DEF ForceClose, LoopNext, LoopTypes
  <2>3. IsOpen(index["webrtc"]) => freeing'["webrtc"] = index["webrtc"]
    BY <1>0, <1>2 DEF ForceClose, FreeSocketContext, CallTypes
  <2>4. ASSUME NEW s \in Slots, s < index'["webrtc"]
        PROVE  ~IsOpen(s) \/ freeing'["webrtc"] = s
    <3>1. s < index["webrtc"] \/ s = index["webrtc"]  BY <1>0, <1>10, <2>2, <2>4
    <3>2. CASE s < index["webrtc"]
      BY <1>0, <1>10, <2>1, <3>2 DEF ForcedClosed
    <3> QED  BY <2>3, <3>1, <3>2
  <2>5. \A s \in Slots : IsOpen(s)' <=> IsOpen(s)  BY <2>1 DEF IsOpen
  <2>6. pc'["session"] = "asleep" /\ sessions' # 0 /\ index'["webrtc"] # 0
    BY <1>0, <1>11, <2>1, <2>2 DEF ForcedClosed
  <2> QED  BY <2>4, <2>5, <2>6
<1>3. CASE \E t \in Tasks : CloseSocket(t)
  <2>1. PICK t \in Tasks : CloseSocket(t)  BY <1>3
  <2>2. UNCHANGED <<pc, index>> /\ freeing' = [freeing EXCEPT ![t] = 0]
    BY <2>1 DEF CloseSocket, tasks
  <2>3. \A s \in Slots : IsOpen(s)' => IsOpen(s) /\ s # freeing[t]
    BY <1>0, <2>1 DEF CloseSocket, IsOpen, Contexts
  <2>4. \A s \in Slots : freeing["webrtc"] = s => freeing'["webrtc"] = s \/ s = freeing[t]
    BY <1>0, <2>2 DEF CallTypes
  <2>5. pc["webrtc"] = "force" /\ pc["session"] = "asleep" /\ sessions' # 0
        /\ index["webrtc"] # 0
    BY <1>0, <1>11, <2>2 DEF ForcedClosed
  <2>6. \A s \in Slots : s < index["webrtc"] => ~IsOpen(s) \/ freeing["webrtc"] = s
    BY <1>0, <2>5 DEF ForcedClosed
  <2> QED  BY <2>2, <2>3, <2>4, <2>5, <2>6
<1>4. CASE Kept /\ Stays("session") /\ Stays("webrtc")
  <2>1. \A s \in Slots : IsOpen(s)' <=> IsOpen(s)  BY <1>4 DEF Kept, IsOpen
  <2> QED  BY <1>0, <1>4, <1>11, <2>1 DEF Stays, ForcedClosed
<1>5. CASE SessionTask /\ ~\E t \in Tasks : CloseSocket(t)
  <2>1. pc["webrtc"] = "force" /\ pc["session"] = "asleep"
    BY <1>0, <1>5, SessionAwake DEF ForcedClosed
  <2>2. SendFailed("session")  BY <1>0, <1>5, <2>1, SessionAwake
  <2>3. UNCHANGED <<slots, pc, index, freeing>>  BY <2>2 DEF SendFailed, tasks
  <2>4. Kept  BY <1>0, <2>3, SameKeeps DEF slots
  <2> QED  BY <1>4, <2>3, <2>4 DEF Stays
<1>6. CASE Listener /\ ~\E t \in Tasks : CloseSocket(t)
  <2>1. Stays("session") /\ Stays("webrtc")  BY <1>0, <1>6, ListenerStays, SetsOfLabels
  <2>2. Kept
    <3>1. ~Started
      <4>1. Started => pc'["webrtc"] = "live"  BY <1>0 DEF Started, TaskTypes
      <4> QED  BY <4>1
    <3>2. \A connecting \in BOOLEAN : ~CreateSocketContext(connecting)
      <4>1. \A connecting \in BOOLEAN : CreateSocketContext(connecting)
               => pc["session"] # "asleep"
        BY DEF CreateSocketContext, Gathering, At
      <4>2. pc["session"] = "asleep"  BY <1>0, <2>1 DEF Stays, ForcedClosed
      <4> QED  BY <4>1, <4>2
    <3>3. Grown
      <4>1. ~fault \/ fault  OBVIOUS
      <4>2. Next \/ UNCHANGED vars  OBVIOUS
      <4>3. UNCHANGED vars => Grown
        <5>1. UNCHANGED vars => Kept /\ UNCHANGED socketsContextsCount
          BY <1>0, SameKeeps DEF vars, slots
        <5> QED  BY <1>0, <5>1, CountStays
      <4> QED  BY <1>0, <1>6, <3>1, <3>2, <4>2, <4>3, GrowStep
    <3> QED  BY <3>3 DEF Grown
  <2> QED  BY <1>4, <2>1, <2>2
<1>7. CASE (Stop \/ Stopped \/ Started \/ Closing("webrtc")) /\ ~\E t \in Tasks : CloseSocket(t)
  <2>1. \A l : Goto("webrtc", l) => pc'["webrtc"] = l  BY <1>0 DEF Goto, TaskTypes
  <2>2. Return("webrtc") => pc'["webrtc"] = "wait"  BY <1>0 DEF Return, TaskTypes
  <2>3. ~Stop /\ ~Stopped
    BY <2>1, <2>2 DEF Stop, Stopped, Destroy
  <2>4. ~Started  BY <1>0 DEF Started, TaskTypes
  <2>5. CASE SendFailed("webrtc")
    <3>1. UNCHANGED <<slots, pc, index, freeing>>  BY <2>5 DEF SendFailed, tasks
    <3>2. Kept  BY <1>0, <3>1, SameKeeps DEF slots
    <3> QED  BY <1>4, <3>1, <3>2 DEF Stays
  <2>6. ~DestroyNext("webrtc")
    BY <2>1 DEF DestroyNext, At
  <2>7. ~Releasing("webrtc") /\ ~NothingToRelease("webrtc") /\ ~Destroyed("webrtc")
        /\ ~OthersReleased("webrtc")
    BY <2>1, <2>2 DEF Releasing, NothingToRelease, Destroyed, OthersReleased
  <2>8. ~ReleaseOtherSockets("webrtc")
    BY DEF ReleaseOtherSockets, At
  <2> QED  BY <1>0, <1>7, <2>3, <2>4, <2>5, <2>6, <2>7, <2>8 DEF Closing
<1>8. CASE SendFailed("media") \/ SendToRemotePeer \/ TimerExpires
  <2>1. UNCHANGED <<slots, pc, index>>
    BY <1>8 DEF SendFailed, SendToRemotePeer, TimerExpires, tasks
  <2>2. freeing'["webrtc"] = freeing["webrtc"] /\ freeing'["session"] = freeing["session"]
    <3>1. CASE UNCHANGED freeing  BY <3>1
    <3>2. CASE \E s : FreeSocketContext("media", s)
      BY <1>0, <3>2, OthersStay, SetsOfLabels
    <3> QED
      BY <1>8, <3>1, <3>2 DEF SendFailed, SendToRemotePeer, SendPacket, TimerExpires, calls
  <2>3. Kept  BY <1>0, <2>1, SameKeeps DEF slots
  <2> QED  BY <1>4, <2>1, <2>2, <2>3 DEF Stays
<1>9. CASE UNCHANGED vars
  <2>1. UNCHANGED <<slots, pc, index, freeing>>  BY <1>9 DEF vars, tasks, calls
  <2>2. Kept  BY <1>0, <2>1, SameKeeps DEF slots
  <2> QED  BY <1>4, <2>1, <2>2 DEF Stays
<1> QED
  BY <1>1, <1>2, <1>3, <1>5, <1>6, <1>7, <1>8, <1>9, SetsOfLabels
  DEF Next, WebRTCTask, Media

LEMMA GathersStep ==
    ASSUME IInv, [Next]_vars
    PROVE  GathersForViewer'
<1>0. TypeOK /\ GathersForViewer  BY DEF IInv
<1>1. CASE HandleProcess  BY <1>1 DEF HandleProcess, GathersForViewer
<1>2. CASE Start
  <2>1. sessions \in Nat /\ sessions' = sessions + 1
    BY <1>0, <1>2, SocketAssumption DEF Start, TypeOK
  <2> QED  BY <2>1 DEF GathersForViewer
<1>3. CASE Started
  <2>1. sessions' = sessions /\ pc["webrtc"] = "force"  BY <1>3 DEF Started, At
  <2>2. sessions # 0  BY <2>1 DEF IInv, ForcedClosed
  <2> QED  BY <2>1, <2>2 DEF GathersForViewer
<1>4. CASE UNCHANGED <<addLocalCandidates, sessions>>  BY <1>0, <1>4 DEF GathersForViewer
<1>5. CASE UNCHANGED vars  BY <1>4, <1>5 DEF vars, ice, around
<1> QED  BY <1>1, <1>2, <1>3, <1>4, <1>5, ViewerStep

LEMMA Inductive == Spec => []IInv
<1>1. Init => IInv
  <2> SUFFICES ASSUME Init PROVE IInv
    OBVIOUS
  <2>1. 0 \in 0 .. SlotMax /\ 0 \in 0 .. SlotMax + 1 /\ 0 \in 0 .. Len(Wanted)
    BY SocketAssumption
  <2>2. socketsContexts \in Contexts
    BY <2>1 DEF Init, Contexts, States
  <2>3. Table  BY <2>1 DEF Init, Table, Kinds
  <2>4. Flags
    <3>1. <<>> \in Seq(Requests)  OBVIOUS
    <3>2. {addLocalCandidates, executeSocketListener, timerSet, handshaking} \subseteq BOOLEAN
      BY DEF Init
    <3> QED  BY <2>1, <3>1, <3>2 DEF Init, Flags
  <2>5. TaskTypes /\ rest \in Seq(Servers)
    BY <2>1 DEF Init, TaskTypes, Tasks, Labels, Nothing
  <2>6. LoopTypes /\ CallTypes
    BY <2>1 DEF Init, LoopTypes, CallTypes, Nothing
  <2>7. TypeOK
    <3>1. {addLocalCandidates, executeSocketListener, timerSet, handshaking, fault}
             \subseteq BOOLEAN
      BY DEF Init
    <3>2. socketsContextsCount \in 0 .. SlotMax /\ readable \subseteq Slots
          /\ descriptors \subseteq Descriptors
      BY <2>1 DEF Init
    <3>3. {at, freeing, failed} \subseteq [Tasks -> 0 .. SlotMax]
      BY <2>5, <2>6 DEF TaskTypes, CallTypes
    <3> QED
      BY <2>2, <2>3, <2>4, <2>5, <2>6, <3>1, <3>2, <3>3
      DEF TypeOK, Table, Flags, TaskTypes, LoopTypes, Servers
  <2>8. \A s \in Slots : socketsContexts[s].socketFd = NoSocket  BY DEF Init
  <2>9. NoSocketLost
    <3>1. {socketsContexts[s].socketFd : s \in Slots} \ {NoSocket} = {}  BY <2>8
    <3> QED  BY <2>8, <3>1 DEF Init, NoSocketLost, IsOpen
  <2>10. ClosedBeyond /\ ForcedClosed /\ GathersForViewer
    BY <2>8 DEF Init, ClosedBeyond, ForcedClosed, GathersForViewer, IsOpen
  <2> QED  BY <2>7, <2>9, <2>10 DEF IInv
<1>2. IInv /\ [Next]_vars => IInv'
  <2> SUFFICES ASSUME IInv, [Next]_vars PROVE IInv'
    OBVIOUS
  <2>1. TypeOK'
    <3>1. {addLocalCandidates', executeSocketListener', timerSet', handshaking', fault'}
             \subseteq BOOLEAN
      BY FlagsStep, RestStep DEF Flags
    <3>2. {at', freeing', failed'} \subseteq [Tasks -> 0 .. SlotMax]
      BY TasksStep, CallsStep DEF TaskTypes, CallTypes
    <3> QED
      BY <3>1, <3>2, SocketsStep, TableStep, FlagsStep, TasksStep, LoopsStep, RestStep
      DEF TypeOK, Table, Flags, TaskTypes, LoopTypes, Servers
  <2> QED  BY <2>1, SocketsStep, ForcedStep, GathersStep DEF IInv
<1> QED  BY <1>1, <1>2, PTL DEF Spec

\* Every variable keeps its type, whatever the four tasks do to the contexts
\* under each other, a context closed twice or closed under its user
\* included: no index leaves its table.
THEOREM TypeCorrect == Spec => []TypeOK
<1>1. IInv => TypeOK  BY DEF IInv
<1> QED  BY <1>1, Inductive, PTL

\* Every open socket of the network stack is the descriptor of one context, for
\* any number of viewers: two tasks that free the same context, a context
\* opened again between the test and the close, and a close that overtook the
\* gathering leave none behind that IceController_Start does not close.
THEOREM NoSocketLostSafe == Spec => []NoSocketLost
<1>1. IInv => NoSocketLost  BY DEF IInv
<1> QED  BY <1>1, Inductive, PTL
=============================================================================
