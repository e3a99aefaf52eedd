----------------------------- MODULE IceSockets -----------------------------
(***************************************************************************)
(* The socket contexts of the ICE controller: how they are created for the *)
(* local candidates, nominated, given up and closed.                       *)
(* webrtc/algorithm/ice_controller.c, ice_controller_net.c and             *)
(* ice_controller_socket_listener.c.                                       *)
(*                                                                         *)
(* PeerSession knows of these sockets only whether there are any; here     *)
(* each has its context, and the tasks that work on it:                    *)
(*   session   gathers, checks the pairs, looks after a closing controller *)
(*   listener  receives, nominates, goes on with TLS handshakes            *)
(*   webrtc    starts the controller for a viewer and closes it            *)
(*   media     sends through the nominated socket                          *)
(* socketMutex and iceMutex guard single accesses, never a whole           *)
(* operation: a context is tested before the mutex is there and closed     *)
(* after, and a loop over the contexts takes them one by one.              *)
(*                                                                         *)
(* The ICE library is not part of the repository.  Its table of local      *)
(* candidates is modelled as far as the sockets point into it; which pair  *)
(* a packet belongs to and what the library makes of it is chosen freely.  *)
(***************************************************************************)
EXTENDS Integers, Sequences, FiniteSets

CONSTANTS
    SlotMax,     \* ICE_CONTROLLER_MAX_LOCAL_CANDIDATE_COUNT
    Wanted,      \* for each viewer the sockets to open, in order: "host", "srflx",
                 \* "turn", "turns", as its ICE servers are; bound: the viewers
    QueueMax,    \* PEER_CONNECTION_MAX_QUEUE_MSG_NUM
    Descriptors, \* the numbers the network stack has for sockets
    NoSocket     \* -1

ASSUME SocketAssumption ==
    /\ SlotMax \in Nat \ {0}
    /\ Wanted \in Seq(Seq({"host", "srflx", "turn", "turns"}))
    /\ QueueMax \in Nat \ {0}
    /\ NoSocket \notin Descriptors

VARIABLES
    \* IceControllerContext_t
    iceState,
    socketsContexts,
    socketsContextsCount,
    pNominatedSocketContext,   \* its number, 0 for NULL
    addLocalCandidates,
    executeSocketListener,
    timerSet,
    \* its IceContext_t
    localCandidates,
    numLocalCandidates,
    \* the session around it
    requestQueue,
    handshaking,               \* the DTLS handshake has begun and is not complete
    sessions,
    \* the tasks
    pc,
    at,                        \* the context, or the candidate, a task works on
    index,                     \* the context a loop has come to, 0 outside of one
    rest,                      \* the sockets still to be opened
    readable,                  \* what select gave the listener and it has not handled
    \* the calls a task is in
    freeing,                   \* past the test of FreeSocketContext; 0 for no context
    failed,                    \* the context a packet could not be sent through, or 0
    \* the network stack
    descriptors,               \* the sockets that are open
    fault                      \* a TLS session was used after or while it was freed

ice == <<iceState, pNominatedSocketContext, addLocalCandidates, executeSocketListener,
         timerSet>>
slots == <<socketsContexts, socketsContextsCount, descriptors>>
library == <<localCandidates, numLocalCandidates>>
around == <<requestQueue, handshaking, sessions>>
calls == <<freeing, failed, fault>>
tasks == <<pc, at, index, rest, readable>>
vars == <<ice, slots, library, around, tasks, calls>>

Slots == 1 .. SlotMax
Tasks == {"session", "listener", "webrtc", "media"}
States == {"NONE", "CONNECTION_IN_PROGRESS", "CREATE", "READY", "SELECTED"}
Kinds == {"host", "srflx", "relay"}
Requests == {"process", "periodic", "ice_closing", "ice_closed", "close"}
Labels == {"wait", "live", "asleep", "handle", "gather", "add", "update", "connecting",
           "pairs", "locals", "poll", "receive", "shaken", "bind", "packet", "found",
           "destroy", "releasing", "closed", "others", "force"}
Contexts == [Slots -> [socketFd : Descriptors \cup {NoSocket}, tls : BOOLEAN,
                       state : States, pLocalCandidate : 0 .. SlotMax]]

TypeOK ==
    /\ iceState \in {"NEW", "PROCESS", "READY", "CLOSING", "CLOSED"}
    /\ socketsContexts \in Contexts
    /\ socketsContextsCount \in 0 .. SlotMax
    /\ pNominatedSocketContext \in 0 .. SlotMax
    /\ {addLocalCandidates, executeSocketListener, timerSet, handshaking, fault}
          \subseteq BOOLEAN
    /\ localCandidates \in [Slots -> [kind : Kinds, ending : BOOLEAN]]
    /\ numLocalCandidates \in 0 .. SlotMax
    /\ requestQueue \in Seq(Requests)
    /\ sessions \in 0 .. Len(Wanted)
    /\ pc \in [Tasks -> Labels]
    /\ {at, freeing, failed} \subseteq [Tasks -> 0 .. SlotMax]
    /\ index \in [Tasks -> 0 .. SlotMax + 1]
    /\ rest \in Seq({"host", "srflx", "turn", "turns"})
    /\ readable \subseteq Slots
    /\ descriptors \subseteq Descriptors

Nothing == [t \in Tasks |-> 0]

\* IceController_Init.
Init ==
    /\ iceState = "NEW"
    /\ socketsContexts = [s \in Slots |-> [socketFd |-> NoSocket, tls |-> FALSE,
                                           state |-> "NONE", pLocalCandidate |-> 0]]
    /\ socketsContextsCount = 0
    /\ pNominatedSocketContext = 0
    /\ addLocalCandidates = FALSE
    /\ executeSocketListener = FALSE
    /\ timerSet = FALSE
    /\ localCandidates = [c \in Slots |-> [kind |-> "host", ending |-> FALSE]]
    /\ numLocalCandidates = 0
    /\ requestQueue = <<>>
    /\ handshaking = FALSE
    /\ sessions = 0
    /\ pc = [session |-> "asleep", listener |-> "poll", webrtc |-> "wait", media |-> "wait"]
    /\ at = Nothing
    /\ index = Nothing
    /\ rest = <<>>
    /\ readable = {}
    /\ freeing = Nothing
    /\ failed = Nothing
    /\ descriptors = {}
    /\ fault = FALSE

-----------------------------------------------------------------------------
\* A task is at a label only when no call it made is open.
At(t, label) == pc[t] = label /\ freeing[t] = 0 /\ failed[t] = 0
Goto(t, label) == pc' = [pc EXCEPT ![t] = label]

\* A task begins an operation on a context.
Begin(t, label, s) == Goto(t, label) /\ at' = [at EXCEPT ![t] = s]

\* It has done it, and looks for other work; the listener goes on receiving
\* from its socket.
Return(t) ==
    /\ pc' = [pc EXCEPT ![t] = CASE t = "session" -> "handle"
                                 [] t = "listener" -> "receive"
                                 [] t = "webrtc" -> "wait"]
    /\ at' = [at EXCEPT ![t] = IF t = "listener" THEN @ ELSE 0]

\* A loop over the contexts begins, goes on, ends.
Loop(t) == index' = [index EXCEPT ![t] = 1]
LoopNext(t) == index' = [index EXCEPT ![t] = @ + 1]
LoopEnd(t) == index' = [index EXCEPT ![t] = 0]

\* SendPeerConnectionEvent: a request the queue has no place for is dropped.
Requested(queue, request) ==
    IF Len(queue) < QueueMax THEN Append(queue, request) ELSE queue

KindOf == [host |-> "host", srflx |-> "srflx", turn |-> "relay", turns |-> "relay"]

Used == 1 .. socketsContextsCount
IsOpen(s) == socketsContexts[s].socketFd # NoSocket
HasCandidate(s) == socketsContexts[s].pLocalCandidate # 0
IsRelay(s) ==
    HasCandidate(s) /\ localCandidates[socketsContexts[s].pLocalCandidate].kind = "relay"

\* The last one, if several contexts have the candidate; none if no context has.
FindSocketContextByLocalCandidate(c) ==
    LET having == {s \in Used : socketsContexts[s].pLocalCandidate = c}
    IN  {s \in having : \A r \in having : r <= s}

\* IceControllerNet_FreeSocketContext begins: the descriptor is tested, and
\* only then socketMutex taken.
FreeSocketContext(t, s) ==
    freeing' = [freeing EXCEPT ![t] = IF IsOpen(s) THEN s ELSE 0]

\* Its part under socketMutex.  The descriptor is not tested again: of two
\* tasks that come here for the same context the second closes -1, or what
\* the context was opened for since.  A TLS socket is closed by
\* TLS_FreeRTOS_Disconnect and once more by its number; the second
\* disconnect of a session, and one that meets the listener reading it, is
\* undefined.
CloseSocket(t) ==
    /\ freeing[t] # 0
    /\ LET s == freeing[t]
           context == socketsContexts[s]
           receiving == At("listener", "receive") /\ at["listener"] = s
       IN  /\ descriptors' = descriptors \ {context.socketFd}
           /\ socketsContexts' = [socketsContexts EXCEPT ![s].socketFd = NoSocket,
                                                         ![s].state = "NONE"]
           /\ fault' \in CASE ~context.tls             -> {FALSE}
                           [] context.tls /\ ~IsOpen(s) -> {TRUE}
                           [] context.tls /\ IsOpen(s)  -> {FALSE, receiving}
    /\ freeing' = [freeing EXCEPT ![t] = 0]
    /\ UNCHANGED <<ice, socketsContextsCount, library, around, tasks, failed>>

UpdateSocketContext(s, state, candidate) ==
    socketsContexts' = [socketsContexts EXCEPT ![s].state = state,
                                               ![s].pLocalCandidate = candidate]

\* Ice_CloseCandidate: the TURN allocation is to be given back.
CloseCandidate(s) ==
    localCandidates' = [c \in Slots |-> IF c = socketsContexts[s].pLocalCandidate
                                        THEN [localCandidates[c] EXCEPT !.ending = TRUE]
                                        ELSE localCandidates[c]]

-----------------------------------------------------------------------------
(***************************************************************************)
(* IceControllerNet_SendPacket.  If the packet cannot be sent the socket   *)
(* is closed, and if it is the nominated one the session is asked to       *)
(* close.                                                                  *)
(***************************************************************************)
SendPacket(t, s) ==
    \/ /\ socketsContexts[s].state # "NONE" => IsOpen(s)
       /\ UNCHANGED <<library, freeing, failed>>
    \/ /\ socketsContexts[s].state # "NONE"
       /\ CloseCandidate(s)
       /\ FreeSocketContext(t, s)
       /\ failed' = [failed EXCEPT ![t] = s]
       /\ UNCHANGED numLocalCandidates

SendFailed(t) ==
    /\ failed[t] # 0
    /\ freeing[t] = 0
    /\ IF failed[t] = pNominatedSocketContext
       THEN requestQueue' = Requested(requestQueue, "close") /\ timerSet' = TRUE
       ELSE UNCHANGED <<requestQueue, timerSet>>
    /\ failed' = [failed EXCEPT ![t] = 0]
    /\ UNCHANGED <<iceState, pNominatedSocketContext, addLocalCandidates,
                   executeSocketListener, slots, library, handshaking, sessions, tasks,
                   freeing, fault>>

\* The library's table of local candidates may be full.
TableFull == numLocalCandidates = SlotMax
AddCandidate(kind) ==
    /\ ~TableFull
    /\ numLocalCandidates' = numLocalCandidates + 1
    /\ localCandidates' = [localCandidates EXCEPT ![numLocalCandidates + 1] =
                                                    [kind |-> kind, ending |-> FALSE]]

\* IceControllerNet_ExecuteTlsHandshake up to the end of its socketMutex: the
\* handshake is under way, has failed, or is done, perhaps for the second
\* time.
ExecuteTlsHandshake(t, s, on) ==
    \/ Goto(t, on) /\ UNCHANGED <<at, freeing>>
    \/ Goto(t, on) /\ FreeSocketContext(t, s) /\ UNCHANGED at
    \/ IsOpen(s) /\ Begin(t, "shaken", s) /\ UNCHANGED freeing

-----------------------------------------------------------------------------
(***************************************************************************)
(* IceController_Destroy by any task: relay sockets wait for the end of    *)
(* their allocation, the others are closed.                                *)
(***************************************************************************)
Destroy(t) ==
    IF iceState = "CLOSED"
    THEN Return(t) /\ UNCHANGED <<iceState, index>>
    ELSE /\ iceState' = "CLOSING"
         /\ Loop(t)
         /\ Goto(t, "destroy")
         /\ UNCHANGED at

\* Who gathers may still add to the contexts.
DestroyNext(t) ==
    /\ At(t, "destroy") \/ At(t, "releasing")
    /\ index[t] <= socketsContextsCount
    /\ LET s == index[t]
           alive == socketsContexts[s].state # "NONE"
       IN  \/ /\ ~alive
              /\ UNCHANGED <<pc, localCandidates, freeing>>
           \/ /\ alive
              /\ IsRelay(s)
              /\ CloseCandidate(s)
              /\ Goto(t, "releasing")
              /\ UNCHANGED freeing
           \/ /\ alive
              /\ ~IsRelay(s)
              /\ FreeSocketContext(t, s)
              /\ UNCHANGED <<pc, localCandidates>>
    /\ LoopNext(t)
    /\ UNCHANGED <<ice, slots, numLocalCandidates, around, at, rest, readable, failed, fault>>

\* IceController_UpdateTimerInterval: there is something to be released.
Releasing(t) ==
    /\ At(t, "releasing")
    /\ index[t] > socketsContextsCount
    /\ timerSet' = TRUE
    /\ LoopEnd(t)
    /\ Return(t)
    /\ UNCHANGED <<iceState, pNominatedSocketContext, addLocalCandidates,
                   executeSocketListener, slots, library, around, rest, readable, calls>>

\* Nothing is, and the session is told before the state is set.
NothingToRelease(t) ==
    /\ At(t, "destroy")
    /\ index[t] > socketsContextsCount
    /\ executeSocketListener' = FALSE
    /\ requestQueue' = Requested(requestQueue, "ice_closed")
    /\ LoopEnd(t)
    /\ Goto(t, "closed")
    /\ UNCHANGED <<iceState, pNominatedSocketContext, addLocalCandidates, timerSet, slots,
                   library, handshaking, sessions, at, rest, readable, calls>>

Destroyed(t) ==
    /\ At(t, "closed")
    /\ iceState' = "CLOSED"
    /\ Return(t)
    /\ UNCHANGED <<pNominatedSocketContext, addLocalCandidates, executeSocketListener,
                   timerSet, slots, library, around, index, rest, readable, calls>>

\* The DTLS handshake is complete, in the session or in the listener task.
\* Without a nominated context nothing is released.
HandshakeComplete(t) ==
    /\ handshaking
    /\ handshaking' = FALSE
    /\ IF pNominatedSocketContext # 0
       THEN Begin(t, "others", pNominatedSocketContext) /\ Loop(t)
       ELSE Return(t) /\ UNCHANGED index

\* ReleaseOtherSockets: those with another descriptor than the context that
\* was nominated at the beginning has now.
ReleaseOtherSockets(t) ==
    /\ At(t, "others")
    /\ index[t] <= socketsContextsCount
    /\ LET s == index[t]
           other == socketsContexts[s].socketFd # socketsContexts[at[t]].socketFd
       IN  \/ ~other /\ UNCHANGED <<localCandidates, freeing>>
           \/ other /\ IsRelay(s) /\ CloseCandidate(s) /\ UNCHANGED freeing
           \/ other /\ ~IsRelay(s) /\ FreeSocketContext(t, s) /\ UNCHANGED localCandidates
    /\ LoopNext(t)
    /\ UNCHANGED <<ice, slots, numLocalCandidates, around, pc, at, rest, readable, failed,
                   fault>>

OthersReleased(t) ==
    /\ At(t, "others")
    /\ index[t] > socketsContextsCount
    /\ LoopEnd(t)
    /\ Return(t)
    /\ UNCHANGED <<ice, slots, library, around, rest, readable, calls>>

Closing(t) ==
    \/ CloseSocket(t)
    \/ SendFailed(t)
    \/ DestroyNext(t)
    \/ Releasing(t)
    \/ NothingToRelease(t)
    \/ Destroyed(t)
    \/ ReleaseOtherSockets(t)
    \/ OthersReleased(t)

-----------------------------------------------------------------------------
(***************************************************************************)
(* The session task gathers: IceControllerNet_AddLocalCandidates.          *)
(***************************************************************************)
Gathering(label) == At("session", label) /\ rest # <<>>

\* The context that was taken last.
Slot == socketsContextsCount

GatherNext ==
    /\ rest' = Tail(rest)
    /\ Goto("session", IF rest' = <<>> THEN "pairs" ELSE "gather")

\* Mutant: a context whose socket could not be bound is given back twice.
CreateFailsTwice ==
    /\ Gathering("gather")
    /\ GatherNext
    /\ socketsContextsCount' \in {socketsContextsCount - 1, socketsContextsCount} \cup
                                 ({socketsContextsCount + 1} \cap Slots)
    /\ UNCHANGED <<ice, socketsContexts, descriptors, library, around, at, index, readable,
                   calls>>

\* No context is free, or there is no server, or the socket cannot be bound
\* or connected; then the context is given back, unless socket() failed.
CreateFails ==
    /\ Gathering("gather")
    /\ GatherNext
    /\ socketsContextsCount' \in {socketsContextsCount} \cup
                                 ({socketsContextsCount + 1} \cap Slots)
    /\ UNCHANGED <<ice, socketsContexts, descriptors, library, around, at, index, readable,
                   calls>>

\* CreateSocketContext.  What else is in the context is of the viewer before.
CreateSocketContext(connecting) ==
    /\ Gathering("gather")
    /\ connecting => Head(rest) = "turns"
    /\ socketsContextsCount < SlotMax
    /\ socketsContextsCount' = socketsContextsCount + 1
    /\ \E fd \in Descriptors \ descriptors :
          /\ descriptors' = descriptors \cup {fd}
          /\ socketsContexts' = [socketsContexts EXCEPT
                                    ![socketsContextsCount + 1].socketFd = fd,
                                    ![socketsContextsCount + 1].tls = (Head(rest) = "turns")]
    /\ Goto("session", IF connecting THEN "connecting" ELSE "add")
    /\ UNCHANGED <<ice, library, around, at, index, rest, readable, calls>>

AddLocalCandidate ==
    /\ Gathering("add")
    /\ AddCandidate(KindOf[Head(rest)])
    /\ Begin("session", "update", IF Head(rest) = "host" THEN numLocalCandidates' ELSE 0)
    /\ UNCHANGED <<ice, slots, around, index, rest, readable, calls>>

\* The library has no place: the socket is closed, and, unless it was for a
\* host candidate, the loop over the servers of its kind ends.
AddLocalCandidateFails ==
    /\ Gathering("add")
    /\ FreeSocketContext("session", Slot)
    /\ \E n \in 1 .. Len(rest) :
          /\ \A i \in 1 .. n : KindOf[rest[i]] = KindOf[Head(rest)]
          /\ IF Head(rest) = "host" THEN n = 1
             ELSE n < Len(rest) => KindOf[rest[n + 1]] # KindOf[Head(rest)]
          /\ rest' = SubSeq(rest, n + 1, Len(rest))
    /\ Goto("session", IF rest' = <<>> THEN "pairs" ELSE "gather")
    /\ UNCHANGED <<ice, slots, library, around, at, index, readable, failed, fault>>

\* A host candidate is announced to the viewer.  If that fails its socket is
\* closed; the library keeps the candidate.
CandidateNotSent ==
    /\ Gathering("update")
    /\ Head(rest) = "host"
    /\ FreeSocketContext("session", Slot)
    /\ GatherNext
    /\ at' = [at EXCEPT !["session"] = 0]
    /\ UNCHANGED <<ice, slots, library, around, index, readable, failed, fault>>

\* A server's candidate is looked up again, without iceMutex, as the last
\* of the table.
CandidateCreated ==
    /\ Gathering("update")
    /\ IF Head(rest) = "host"
       THEN UpdateSocketContext(Slot, "READY", at["session"])
       ELSE UpdateSocketContext(Slot, "CREATE", numLocalCandidates)
    /\ GatherNext
    /\ at' = [at EXCEPT !["session"] = 0]
    /\ UNCHANGED <<ice, socketsContextsCount, descriptors, library, around, index, readable,
                   calls>>

ConnectionInProgress ==
    /\ Gathering("connecting")
    /\ UpdateSocketContext(Slot, "CONNECTION_IN_PROGRESS", 0)
    /\ GatherNext
    /\ UNCHANGED <<ice, socketsContextsCount, descriptors, library, around, at, index,
                   readable, calls>>

AddLocalCandidates ==
    \/ CreateFails
    \/ \E connecting \in BOOLEAN : CreateSocketContext(connecting)
    \/ AddLocalCandidate
    \/ AddLocalCandidateFails
    \/ CandidateNotSent
    \/ CandidateCreated
    \/ ConnectionInProgress

-----------------------------------------------------------------------------
(***************************************************************************)
(* The rest of the session task.                                           *)
(***************************************************************************)
Received(request) ==
    /\ At("session", "handle")
    /\ requestQueue # <<>>
    /\ Head(requestQueue) = request
    /\ requestQueue' = Tail(requestQueue)

HandleProcess ==
    /\ Received("process")
    /\ addLocalCandidates' = FALSE
    /\ IF addLocalCandidates /\ Wanted[sessions] # <<>>
       THEN Goto("session", "gather") /\ rest' = Wanted[sessions]
       ELSE Goto("session", "pairs") /\ UNCHANGED rest
    /\ UNCHANGED <<iceState, pNominatedSocketContext, executeSocketListener, timerSet, slots,
                   library, handshaking, sessions, at, index, readable, calls>>

\* ProcessCandidatePairs: a request for a pair, or the round is over.
ProcessCandidatePairs ==
    /\ At("session", "pairs")
    /\ \/ \E c \in 1 .. numLocalCandidates :
             \E s \in FindSocketContextByLocalCandidate(c) :
                SendPacket("session", s) /\ UNCHANGED pc
       \/ Goto("session", "locals") /\ UNCHANGED <<library, freeing, failed>>
    /\ UNCHANGED <<ice, slots, around, at, index, rest, readable, fault>>

\* ProcessLocalCandidates: a handshake goes on, or a request is sent.
ProcessLocalCandidates ==
    /\ At("session", "locals")
    /\ \E s \in Used :
         \/ /\ socketsContexts[s].state = "CONNECTION_IN_PROGRESS"
            /\ ExecuteTlsHandshake("session", s, "locals")
            /\ UNCHANGED <<library, failed>>
         \/ /\ socketsContexts[s].state # "CONNECTION_IN_PROGRESS"
            /\ HasCandidate(s)
            /\ SendPacket("session", s)
            /\ UNCHANGED <<pc, at>>
    /\ UNCHANGED <<ice, slots, around, index, rest, readable, fault>>

\* The handshake is done.  The session task has iceMutex all the time, so
\* the candidate it adds is the one it gives to the context.
ShakenInSession ==
    /\ At("session", "shaken")
    /\ \/ /\ AddCandidate("relay")
          /\ UpdateSocketContext(at["session"], "CREATE", numLocalCandidates')
          /\ UNCHANGED freeing
       \/ /\ TableFull
          /\ FreeSocketContext("session", at["session"])
          /\ UNCHANGED <<library, socketsContexts>>
    /\ Begin("session", "locals", 0)
    /\ UNCHANGED <<ice, socketsContextsCount, descriptors, around, index, rest, readable,
                   failed, fault>>

\* The handler ends: the timer, or after the connectivity timeout a request.
LocalsProcessed(timeout) ==
    /\ At("session", "locals")
    /\ timeout => iceState = "PROCESS"
    /\ requestQueue' = IF timeout THEN Requested(requestQueue, "close") ELSE requestQueue
    /\ timerSet' = TRUE
    /\ Return("session")
    /\ UNCHANGED <<iceState, pNominatedSocketContext, addLocalCandidates,
                   executeSocketListener, slots, library, handshaking, sessions, index, rest,
                   readable, calls>>

\* IceController_PeriodConnectionCheck; without a nominated context it ends
\* there, and the timer is not set again.  Its request for the nominated
\* pair counts with those of ProcessLocalCandidates.
HandlePeriodic ==
    /\ Received("periodic")
    /\ IF pNominatedSocketContext # 0 THEN Goto("session", "locals") ELSE UNCHANGED pc
    /\ UNCHANGED <<ice, slots, library, handshaking, sessions, at, index, rest, readable,
                   calls>>

\* The handshake is also driven by the session task, and may end there.
HandshakeCompleteInSession ==
    /\ At("session", "handle")
    /\ HandshakeComplete("session")
    /\ UNCHANGED <<ice, slots, library, requestQueue, sessions, rest, readable, calls>>

\* IceController_AddressClosing.
HandleIceClosing ==
    /\ At("session", "handle")
    /\ requestQueue # <<>>
    /\ Head(requestQueue) = "ice_closing"
    /\ IF \E s \in Used : socketsContexts[s].state # "NONE"
       THEN /\ requestQueue' = Tail(requestQueue)
            /\ Goto("session", "locals")
            /\ UNCHANGED <<executeSocketListener, iceState>>
       ELSE /\ executeSocketListener' = FALSE
            /\ requestQueue' = Requested(Tail(requestQueue), "ice_closed")
            /\ iceState' = "CLOSED"
            /\ UNCHANGED pc
    /\ UNCHANGED <<pNominatedSocketContext, addLocalCandidates, timerSet, slots, library,
                   handshaking, sessions, at, index, rest, readable, calls>>

HandleClose ==
    /\ Received("close")
    /\ Destroy("session")
    /\ UNCHANGED <<pNominatedSocketContext, addLocalCandidates, executeSocketListener,
                   timerSet, slots, library, handshaking, sessions, rest, readable, calls>>

HandleIceClosed ==
    /\ Received("ice_closed")
    /\ Goto("session", "asleep")
    /\ UNCHANGED <<ice, slots, library, handshaking, sessions, at, index, rest, readable,
                   calls>>

SessionTask ==
    \/ AddLocalCandidates
    \/ HandleProcess
    \/ ProcessCandidatePairs
    \/ ProcessLocalCandidates
    \/ ShakenInSession
    \/ \E timeout \in BOOLEAN : LocalsProcessed(timeout)
    \/ HandlePeriodic
    \/ HandshakeCompleteInSession
    \/ HandleIceClosing
    \/ HandleClose
    \/ HandleIceClosed
    \/ Closing("session")

-----------------------------------------------------------------------------
(***************************************************************************)
(* The listener task: pollingSockets, HandleRxPacket, ProcessOneFrame.     *)
(***************************************************************************)
Rx == at["listener"]

\* The descriptors are copied and waited for; when select returns the
\* contexts may have been closed, and opened for somebody else.
PollingSockets ==
    /\ At("listener", "poll")
    /\ executeSocketListener
    /\ readable = {}
    /\ readable' \in SUBSET {s \in Used : IsOpen(s)} \ {{}}
    /\ UNCHANGED <<ice, slots, library, around, pc, at, index, rest, calls>>

\* The next of the readable ones: its handshake goes on, or it is received
\* from.
HandleReadable ==
    /\ At("listener", "poll")
    /\ \E s \in readable :
          /\ \A r \in readable : s <= r
          /\ readable' = readable \ {s}
          /\ \/ /\ socketsContexts[s].state = "CONNECTION_IN_PROGRESS"
                /\ ExecuteTlsHandshake("listener", s, "poll")
             \/ /\ socketsContexts[s].state # "CONNECTION_IN_PROGRESS"
                /\ Begin("listener", "receive", s)
                /\ UNCHANGED freeing
    /\ UNCHANGED <<ice, slots, library, around, index, rest, failed, fault>>

\* Ice_AddRelayCandidate under iceMutex, and the context after it.
ShakenInListener ==
    /\ At("listener", "shaken")
    /\ \/ AddCandidate("relay") /\ Goto("listener", "bind") /\ UNCHANGED <<at, freeing>>
       \/ /\ TableFull
          /\ FreeSocketContext("listener", Rx)
          /\ Begin("listener", "poll", 0)
          /\ UNCHANGED library
    /\ UNCHANGED <<ice, slots, around, index, rest, readable, failed, fault>>

\* The candidate is the one the table ends with now.
BindRelay ==
    /\ At("listener", "bind")
    /\ UpdateSocketContext(Rx, "CREATE", numLocalCandidates)
    /\ Begin("listener", "poll", 0)
    /\ UNCHANGED <<ice, socketsContextsCount, descriptors, library, around, index, rest,
                   readable, calls>>

\* HandleRxPacket receives until there is nothing more ...
ReceiveNothing ==
    /\ At("listener", "receive")
    /\ IsOpen(Rx)
    /\ Begin("listener", "poll", 0)
    /\ UNCHANGED <<ice, slots, library, around, index, rest, readable, calls>>

ReceivePacket ==
    /\ At("listener", "receive")
    /\ IsOpen(Rx)
    /\ Goto("listener", "packet")
    /\ UNCHANGED <<ice, slots, library, around, at, index, rest, readable, calls>>

\* ... or the socket fails, as one that was closed since does: it is given
\* up, and nobody is told.
ReceiveFails ==
    /\ At("listener", "receive")
    /\ CloseCandidate(Rx)
    /\ FreeSocketContext("listener", Rx)
    /\ Begin("listener", "poll", 0)
    /\ UNCHANGED <<ice, slots, numLocalCandidates, around, index, rest, readable, failed,
                   fault>>

HasPacket == At("listener", "packet") /\ HasCandidate(Rx)

\* A packet for a context without a candidate: the pointer is NULL.
NoCandidate ==
    /\ At("listener", "packet")
    /\ ~HasCandidate(Rx)
    /\ fault' = TRUE
    /\ UNCHANGED <<ice, slots, library, around, tasks, freeing, failed>>

\* A packet that changes nothing here.
OtherPacket ==
    /\ HasPacket
    /\ Return("listener")
    /\ UNCHANGED <<ice, slots, library, around, index, rest, readable, calls>>

\* The server told the address of a reflexive or a relay candidate.
AddressKnown ==
    /\ HasPacket
    /\ socketsContexts[Rx].state = "CREATE"
    /\ UpdateSocketContext(Rx, "READY", socketsContexts[Rx].pLocalCandidate)
    /\ Return("listener")
    /\ UNCHANGED <<ice, socketsContextsCount, descriptors, library, around, index, rest,
                   readable, calls>>

\* The TURN server confirmed the end of the allocation.
TurnSessionTerminated ==
    /\ HasPacket
    /\ IsRelay(Rx)
    /\ localCandidates[socketsContexts[Rx].pLocalCandidate].ending
    /\ FreeSocketContext("listener", Rx)
    /\ Begin("listener", "poll", 0)
    /\ UNCHANGED <<ice, slots, library, around, index, rest, readable, failed, fault>>

\* UpdateNominatedSocketContext, for the first pair found by a check, or for
\* DTLS and media packets from another pair than the nominated one.
Nominate ==
    /\ HasPacket
    /\ pNominatedSocketContext # Rx
    /\ pNominatedSocketContext' = Rx
    /\ socketsContexts' = [socketsContexts EXCEPT ![Rx].state = "SELECTED"]
    /\ IF pNominatedSocketContext = 0
       THEN Goto("listener", "found") /\ UNCHANGED at
       ELSE Return("listener")
    /\ UNCHANGED <<iceState, addLocalCandidates, executeSocketListener, timerSet,
                   socketsContextsCount, descriptors, library, around, index, rest, readable,
                   calls>>

\* The controller is ready whatever its state was; the handshake begins.
ConnectionFound ==
    /\ At("listener", "found")
    /\ iceState' = "READY"
    /\ timerSet' = TRUE
    /\ handshaking' = TRUE
    /\ Return("listener")
    /\ UNCHANGED <<pNominatedSocketContext, addLocalCandidates, executeSocketListener, slots,
                   library, requestQueue, sessions, index, rest, readable, calls>>

\* A DTLS packet of the nominated pair completes the handshake or ends DTLS.
DtlsPacket ==
    /\ HasPacket
    /\ pNominatedSocketContext = Rx
    /\ \/ HandshakeComplete("listener") /\ UNCHANGED iceState
       \/ Destroy("listener") /\ UNCHANGED handshaking
    /\ UNCHANGED <<pNominatedSocketContext, addLocalCandidates, executeSocketListener,
                   timerSet, slots, library, requestQueue, sessions, rest, readable, calls>>

Listener ==
    \/ PollingSockets
    \/ HandleReadable
    \/ ShakenInListener
    \/ BindRelay
    \/ ReceiveNothing
    \/ ReceivePacket
    \/ ReceiveFails
    \/ NoCandidate
    \/ OtherPacket
    \/ AddressKnown
    \/ TurnSessionTerminated
    \/ Nominate
    \/ ConnectionFound
    \/ DtlsPacket
    \/ Closing("listener")

-----------------------------------------------------------------------------
(***************************************************************************)
(* The WebRTC task, the media and the timer.                               *)
(***************************************************************************)
\* IceController_Start for the next viewer: only while the session task
\* sleeps (PeerSession!PreparedWhileAsleep).
Start ==
    /\ At("webrtc", "wait")
    /\ At("session", "asleep")
    /\ sessions < Len(Wanted)
    /\ sessions' = sessions + 1
    /\ numLocalCandidates' = 0
    /\ Loop("webrtc")
    /\ Goto("webrtc", "force")
    /\ UNCHANGED <<ice, slots, localCandidates, requestQueue, handshaking, at, rest, readable,
                   calls>>

\* Mutant: a controller that was closed has closed its sockets.
ForceCloseUnlessClosed ==
    /\ At("webrtc", "force")
    /\ index["webrtc"] \in Slots
    /\ IF iceState = "CLOSED" THEN UNCHANGED freeing
       ELSE FreeSocketContext("webrtc", index["webrtc"])
    /\ LoopNext("webrtc")
    /\ UNCHANGED <<ice, slots, library, around, pc, at, rest, readable, failed, fault>>

\* "Force close socket before next round": every context, used or not.
ForceClose ==
    /\ At("webrtc", "force")
    /\ index["webrtc"] \in Slots
    /\ FreeSocketContext("webrtc", index["webrtc"])
    /\ LoopNext("webrtc")
    /\ UNCHANGED <<ice, slots, library, around, pc, at, rest, readable, failed, fault>>

\* The rest of IceController_Start; the session's first event is queued.
Started ==
    /\ At("webrtc", "force")
    /\ index["webrtc"] \notin Slots
    /\ LoopEnd("webrtc")
    /\ socketsContextsCount' = 0
    /\ pNominatedSocketContext' = 0
    /\ iceState' = "PROCESS"
    /\ addLocalCandidates' = TRUE
    /\ executeSocketListener' = TRUE
    /\ requestQueue' = <<"process">>
    /\ handshaking' = FALSE
    /\ pc' = [pc EXCEPT !["webrtc"] = "live", !["session"] = "handle"]
    /\ UNCHANGED <<timerSet, socketsContexts, descriptors, library, sessions, at, rest,
                   readable, calls>>

\* The viewer is to go.
Stop ==
    /\ At("webrtc", "live")
    /\ Destroy("webrtc")
    /\ UNCHANGED <<pNominatedSocketContext, addLocalCandidates, executeSocketListener,
                   timerSet, slots, library, around, rest, readable, calls>>

\* The session closed by itself.
Stopped ==
    /\ At("webrtc", "live")
    /\ At("session", "asleep")
    /\ Return("webrtc")
    /\ UNCHANGED <<ice, slots, library, around, index, rest, readable, calls>>

WebRTCTask ==
    \/ Start
    \/ ForceClose
    \/ Started
    \/ Stop
    \/ Stopped
    \/ Closing("webrtc")

\* IceController_SendToRemotePeer.
SendToRemotePeer ==
    /\ At("media", "wait")
    /\ pNominatedSocketContext # 0
    /\ socketsContexts[pNominatedSocketContext].state = "SELECTED"
    /\ ~handshaking
    /\ SendPacket("media", pNominatedSocketContext)
    /\ UNCHANGED <<ice, slots, around, tasks, fault>>

Media ==
    \/ SendToRemotePeer
    \/ CloseSocket("media")
    \/ SendFailed("media")

TimerEvent == [PROCESS |-> "process", READY |-> "periodic", CLOSING |-> "ice_closing",
               CLOSED |-> "ice_closed"]

\* OnTimerExpire: if the request is dropped the timer is set again.
TimerExpires ==
    /\ timerSet
    /\ IF iceState \in DOMAIN TimerEvent
       THEN requestQueue' = Requested(requestQueue, TimerEvent[iceState])
       ELSE UNCHANGED requestQueue
    /\ timerSet' = (iceState \in DOMAIN TimerEvent /\ Len(requestQueue) = QueueMax)
    /\ UNCHANGED <<iceState, pNominatedSocketContext, addLocalCandidates,
                   executeSocketListener, slots, library, handshaking, sessions, tasks, calls>>

\* After a fault there is nothing to say.
Next ==
    /\ ~fault
    /\ \/ SessionTask
       \/ Listener
       \/ WebRTCTask
       \/ Media
       \/ TimerExpires

Spec == Init /\ [][Next]_vars

-----------------------------------------------------------------------------
\* Every open socket is the descriptor of exactly one context: whichever tasks
\* close the same context, or close one that was opened again after they had
\* looked, none is forgotten when the contexts are used for the next viewer,
\* although a close can overtake the gathering and leave a socket open behind
\* it (ice_controller_net.c:521-558, ice_controller.c:1588-1599).
NoSocketLost ==
    /\ descriptors = {socketsContexts[s].socketFd : s \in Slots} \ {NoSocket}
    /\ \A r, s \in Slots :
          r # s /\ IsOpen(r) => socketsContexts[r].socketFd # socketsContexts[s].socketFd

=============================================================================
