# TLA+ models of the PSoC Edge AI vision firmware

The firmware runs on the two cores of a PSoC Edge. The **CM55** takes camera
frames, runs an object detector, shows the picture on an LCD and encodes it to
H.264. The **CM33** connects to IoTConnect (MQTT telemetry) and serves the video
to a browser over WebRTC: KVS signaling, ICE, DTLS and SRTP. This directory holds
TLA+ models of the parts where several tasks or both cores meet, the TLC
configurations that check them, and TLAPS proofs of what matters most.

* [Parts of the system](#parts-of-the-system)
* [The modules](#the-modules)
* [The runs](#the-runs)
* [Where the code and its comments disagree](#where-the-code-and-its-comments-disagree)
* [What is proved](#what-is-proved)
* [What is not modelled](#what-is-not-modelled)
* [Plan](#plan)

## Parts of the system

Paths are relative to `src/`; `webrtc/` stands for `proj_cm33_ns/webrtc/`.

### Cross-core video ring

`shared/source/COMPONENT_CM55/video_ring.c`,
`shared/source/COMPONENT_CM33/video_ring_consumer.c`, `webrtc/app_shmem_video.c`.

* State: in shared memory `enabled`, and per slot (there are two) an ownership
  flag, a sequence number, a length and the NAL bytes. The producer's next index
  and the `enabled` it saw last; the consumer's next index, "a peek is
  outstanding", and the last sequence number; the running flag of the shmem task.
* Operations: `video_ring_try_publish` (encoder task, CM55); `try_peek`,
  `WriteFrame`, `release` (shmem task, CM33); `app_shmem_video_start` and `_stop`
  (WebRTC task, CM33).
* Interactions: plain shared memory; no lock and no message goes between the cores.
* Hard: the producer is on another core and sees a restart only through `enabled`;
  restarts interrupt both a copy into a slot and a `WriteFrame` out of one.
* Correct when: a slot that is being sent is not written; a session sends its own
  frames only, in order; slots are freed again; the ring is a queue.

### KVS signaling channel

`webrtc/algorithm/signaling.c`, called by `webrtc/app_webrtc.c`.

* State: `connected`, the parked offer, `peer_client_id`, the attached peer
  connection, the early-candidate buffer, the outbox queue.
* Operations: connect, disconnect, `wait_for_offer`, `tick`, `send_answer`,
  `send_ice_candidate`, `set_peer_connection`, `flush_early_candidates`, and
  `dispatch_text_frame` for each frame received.
* Interactions: the WebRTC task owns the socket; the peer connection's task calls
  `send_ice_candidate` without the lock; a remote candidate goes into the peer
  connection's queue.
* Hard: offers and candidates of several browsers in any order, at any point of a
  session; a callback on another task across a disconnect; a dead transport at
  every call.
* Correct when: an answer goes to its offerer; candidates reach the session they
  are for, once; nothing crosses into a later session or connection; the outbox
  empties.

### Viewer session of the WebRTC task

`webrtc/app_webrtc.c`. One session object is prepared, driven and closed for one
viewer after another: take the offer, add the two transceivers, start, set the
remote description, flush candidates, answer, pump until the peer is gone, clean
up, and wait at most 1 s for the session to be back in INITED. Its own state is the
program counter, `ever_ready` and the signaling bridge. Hard: every step may fail
into the cleanup; the session may close itself meanwhile; the last wait is bounded.

### Peer connection session and ICE controller

`webrtc/algorithm/peer_connection.c`, `ice_controller.c`,
`ice_controller_net.c`, `ice_controller_socket_listener.c`,
`timer_controller.c`, `../util/message_queue.c`.

* State: the session state (INITED, START, FIND_CONNECTION, P2P_CONNECTION_FOUND,
  CONNECTION_READY, CLOSING), the number of transceivers, the start-up barrier of
  the session task, the bounded request queue, the DTLS session; the state of the ICE
  controller, its timer, its sockets, the nominated one, whether the listener polls.
* Operations: the public calls of the WebRTC task, one handler per request on the
  session task, packet handlers on the listener task, the timer callback.
* Interactions: requests in the queue; a timer whose callback posts one; direct
  calls between ICE controller and session; `PeerConnection_CloseSession` from three
  tasks.
* Hard: all of it, without a session lock, and with a close that is finished by
  requests and timers while other tasks go on.
* Correct when: a viewer is prepared only on a session nobody works on; a close ends;
  what one viewer leaves does no harm to the next.

### ICE sockets

`webrtc/algorithm/ice_controller.c`, `ice_controller_net.c`,
`ice_controller_socket_listener.c`.

* State: a table of socket contexts, each with a state (NONE, CREATE,
  CONNECTION_IN_PROGRESS, READY, SELECTED), a socket and a pointer to the local candidate
  it is for; how many are in use; the nominated one.
* Operations: gathering opens a socket for every interface and ICE server; TLS handshakes to
  TURN servers; every received packet may teach an address, nominate a pair or end an
  allocation; a send or a read that fails gives a socket up; after the nomination the other
  sockets are closed; a close closes those that hold no TURN allocation, and waits for the
  rest.
* Interactions: session task, listener task, WebRTC task and media task, with two mutexes
  that guard single accesses.
* Correct when: the sockets the network stack holds are those in the table, over all viewers.

### Media out: packets, rolling buffer, NACKs

`webrtc/algorithm/peer_connection_h264_helper.c`, `peer_connection_rolling_buffer.c`,
`peer_connection_srtp.c`, `peer_connection_srtcp.c`.

* State: the two SRTP sessions, the next sequence number, the queue of packets kept for
  retransmission, `senderMutex` and `srtpSessionMutex`.
* Operations: `PeerConnection_WriteFrame` packet by packet on the media task, the answer to
  a NACK on the listener task, `PeerConnectionSrtp_Init` and `_DeInit`.
* Hard: a frame, a retransmission and a close meet anywhere; each packet of a frame may
  fail; the oldest packet is freed for the newest.
* Correct when: no packet is used after it was freed, or never freed; a NACK is answered
  with the packet it names; nothing leaves unprotected; the close ends.

### Media in: the jitter buffer

`webrtc/algorithm/peer_connection_jitter_buffer.c` with the H.264 helper's `FillFrame`.

* State: a table of entries found by sequence number modulo its size, the newest and oldest
  sequence number, two timestamps.
* Operations: take a payload buffer, push, walk for whole frames and outdated ones, free.
* Hard: loss and reordering at the edge of the window; 16- and 32-bit wrap; the closing
  task frees it beside the listener.
* Correct when: only whole frames come out, in order, once, and every payload is freed.

### Detections and pictures

`proj_cm55/source/inference_task.c`, `lcd_task.c`, `encoder_task.c`, the IPC files in
`shared/`, `proj_cm33_ns/app_task.c`.

* State: the camera frame and its flag; the predictions; `encoder_frame`; the message in
  shared memory, the copy of it and of the last detection on the CM33.
* Operations: draw, predict, display and send, hand a frame to the encoder, convert; the
  interrupt that copies a message; the telemetry loop.
* Interactions: semaphores that hold one or two tokens, one message slot between the cores,
  nothing that could queue.
* Hard: each hand-over may lose one, and what is handed over is rewritten in place.
* Correct when: telemetry does not go back, and the encoder ends with the newest frame it
  was given.

### Session descriptions

`webrtc/algorithm/peer_connection_sdp.c`, `sdp_controller.c`.

* State: the transceivers, their order by the lines they were taken for, `rtpConfig`.
* Operations: choose a codec and its payload types for each line of the offer, build the
  answer.
* Hard: sequential, but the result is put together by position, from tables that grow from
  line to line and live from viewer to viewer.
* Correct when: media goes out with the payload types this viewer named for it, and the
  answer's lines are those of the offer.

### The remaining parts

| Part | State and operations | Hard behaviour | What would make it correct |
|---|---|---|---|
| USB camera (`usb_camera_task.c` and its part of `lcd_task.c`) | image buffers with ready flags | callbacks, unplugging, recovery resets | nobody shows a buffer being filled |
| DTLS and TLS transports, cryptography, text of SDP | contexts, byte buffers | little concurrency of their own | outside the models |
| Wi-Fi, EEPROM record, start-up | retries, one stored record | power loss between two writes | a valid record survives |

## The modules

| Module | Models | Extends or uses |
|---|---|---|
| `FrameFifo` | abstract: what the ring promises | – |
| `VideoRing` | the ring, its two ends, start and stop | instantiates `FrameFifo` |
| `VideoRingProofs` | proofs about `VideoRing` | `VideoRing`, TLAPS |
| `Signaling` | the channel and the viewer session over it | – |
| `SignalingProofs` | proofs about `Signaling` | `Signaling`, TLAPS |
| `PeerSession` | the peer connection session, ICE controller and the three tasks on them | – |
| `PeerSessionProofs` | proofs about `PeerSession` | `PeerSession`, TLAPS |
| `IceSockets` | the socket contexts and the four tasks on them | – |
| `IceSocketsProofs` | proofs about `IceSockets` | `IceSockets`, TLAPS |
| `RetransmitStore` | abstract: what the rolling buffer promises | – |
| `MediaSend` | frames out, rolling buffer, NACKs, start and end of SRTP | instantiates `RetransmitStore` |
| `MediaSendProofs` | proofs about `MediaSend` | `MediaSend`, TLAPS |
| `JitterBuffer` | packets in, reordered and lost, to frames | – |
| `JitterBufferProofs` | proofs about `JitterBuffer` | `JitterBuffer`, TLAPS |
| `Detection` | camera frame to telemetry and to the encoder | – |
| `DetectionProofs` | proofs about `Detection` | `Detection`, TLAPS |
| `SdpNegotiation` | offer to payload types to answer, viewer after viewer | – |
| `SdpNegotiationProofs` | proofs about `SdpNegotiation` | `SdpNegotiation`, TLAPS |
| `MCVideoRing`, `MCSignaling`, ... | what TLC runs | the module of the name |

In every module the variables carry the names of the C variables where there is
one, and a *history* group holds what only the properties look at. `\* mutant`
marks a definition nothing uses: a wrong form of the definition next to it, with
which a property is known to fail.

**VideoRing.** A step is one access to memory that another actor uses, and the
private work up to the next one. `BeginPublish`, `DropBusy`, `BeginCopy` and
`EndPublish` are `video_ring_try_publish`: read `enabled`; see the slot taken; start
the memcpy; raise the flag. `CheckRunning` to `EndRelease` are the loop of
`shmem_video_task`. `BeginStart` to `EndStart` are `app_shmem_video_start` and the
consumer's `session_start`, whose two flag stores and the final store of `enabled`
the other core may see one by one. `WriteFrame` is the time between `FillView` and
its return: in `spc = "write"` the slot is being read. The shmem task (priority
idle + 1, `app_shmem_video.c:25`) takes no step inside start or stop, which run on
the WebRTC task (idle + 2, `app_webrtc.c:57`) of the same core without blocking;
the encoder, on the other core, does. A frame is its sequence number and, as
history, the session whose `enabled` the producer had seen.

**Signaling.** `wpc` is the WebRTC task's place in `run_signaling_session`,
`run_viewer_session` and the two calls that receive (`wait_recv`, `pump_recv`),
during which frames are dispatched. `cpc` is the candidate callback on the other
task, in two steps: its checks with the copy of `peer_client_id`, and the enqueue.
Frames are an offer or a candidate of any viewer. Each call on the transport may
find it dead. A viewer session may fail at each of its steps. A candidate may be refused by
the session (its request queue is full, or the text is no candidate) or find no room or memory
in the buffer; the code logs that and frees it, and the model keeps such candidates in the
history set `lost`.

**PeerSession.** `pc` gives the place of each of the three tasks (`webrtc`,
`session`, `listener`). `PeerConnection_CloseSession` is written once, for the task
that runs it, in five steps that the other two interleave with. The request queue
holds the kinds of request. Packets are what they do: nominate a pair, finish the
handshake, break DTLS, end a socket, confirm a release, or nothing. The three tasks
have one priority (idle + 2, `peer_connection.c:1603` and `1629`) and are
time-sliced, so any interleaving of them is possible; the timer task has priority 3
(`proj_cm33_ns/FreeRTOSConfig.h:123`) and its callback is one step.

**IceSockets** is the inside of what `PeerSession` calls "there are sockets". It takes from
there that a viewer starts only while the session task sleeps. A context has `state`, the
descriptor `socketFd`, whether it is a TLS socket, and the number of the local candidate it
points to; `descriptors` are the sockets that the network stack has open, and a number that
was closed may be given out again. `IceControllerNet_FreeSocketContext` is two steps:
`FreeSocketContext` tests the descriptor, `CloseSocket` is what follows under `socketMutex`,
where it is not tested again. So two tasks may close one context, and the second may find -1
or a socket opened since. `TLS_FreeRTOS_Disconnect` closes the descriptor already
(`tcp_sockets_wrapper.c:208-210`), and the `close` after it (`ice_controller_net.c:547`)
closes the same number again: one step here, although `socket()` is called without the mutex
and the number could be given out between the two closes. A second disconnect of a TLS session whose memory was
freed, one while the listener reads from it, and a packet for a context without a candidate
are undefined: `fault`, after which the model stops and nothing is claimed.
`IceController_Destroy`, `ReleaseOtherSockets` and `IceController_Start` take one context per
step (`DestroyNext`, `ReleaseOtherSockets`, `ForceClose`); `GatherNext` to
`ConnectionInProgress` are the loop of `IceControllerNet_AddLocalCandidates`, a step per
access to the table. `PollingSockets` keeps in `readable` what select returned, and the
listener works on those contexts one after the other whatever became of them. The ICE library
is not in the repository; which pair a packet belongs to is chosen freely.

**MediaSend.** `writer`, `listener` and `closer` are records or labels for the place of the
three tasks. A step ends where a lock is taken or released or another task could look.
Packets live in numbered heap blocks, so that a block freed and used again is the same
block; `original` remembers, for the properties, which packet last had a number. Sends may
fail, and a packet built after the SRTP sessions are gone is marked as not protected.

**JitterBuffer.** No lock guards the buffer. What the listener does with a packet is
`Decrypt`, the test of `isInit` (`BeginAllocate`), `AllocateBuffer`, `CopyPayload`, the second
test (`BeginPush`) and `Push`; a close is `DeInit`, `BeginFree` (`isInit` is cleared),
`WalkClosing` and `Free`. The steps of the two interleave, so a payload may be stored after
the closing task has gone over the entries. When both are *inside* steps on the entries at
the same time, a payload may be freed twice or used after it was freed: `Collide` records such
undefined behaviour as `fault`, after which nothing is claimed. `Push` has the
whole walk after it: the loop over the sequence numbers from oldest to newest is a recursive
function of the number of turns done (`Turns`), each turn a `ParseStep`. The sender sends one
of `Streams` packet by packet; the network loses and reorders within `BurstMax` and
`LateMax`. Real timestamps advance by thousands per frame; here the unit is one frame, and the
three limits are in that unit.

**Detection.** A picture, a prediction and a field of a message are known by the number of
the camera frame they are of, which makes "older" a comparison. The message is written
field by field (`WriteLabelId`, `WriteLabel`) and copied field by field by the interrupt,
so a copy may be half of each. `PublishTelemetry` gives up the kept detection and then sends;
nobody looks at the result, and a send that fails loses the report (`app_task.c:165-177`).

**SdpNegotiation.** A line of an offer is its kind, its mid, its direction, its list of
formats and the attributes the scan looks at: `rtpmap` and `fmtp`, in their order. The two
loops are recursive functions of the number of turns done: `Scans` over the attributes of a
line, with `CollectAttribute` for a turn, and `Given` over the lines of an offer, with
`SetPayloadType`. The transceivers are those of `app_webrtc.c:173-221`: one of a
kind, each with the one codec `CodecOf` names (`ApplicationAssumption`). What the property compares with (`Offering`, `Retransmission`) is said without a
scan: the best attribute of the line, and the last retransmission bound to it. A line of
the answer has the payload types `rtpConfig` holds for its kind, the codec and the
parameters it is described with (`PopulateCodecAttributes`) and its direction.

## The runs

Every `MaxX` constant bounds a counter that the program does not bound (frames,
sessions, rounds, candidates), as a guard of the action that counts. When all bounds
are used up the model has nothing left to do; that is why the configurations switch
the deadlock check off.

| Run | Bounds | Distinct states | Shows |
|---|---|---|---|
| `VideoRing_any` | 6 frames, 3 sessions | 2.5 M | whatever restarts do, a slot stays owned and unchanged while the session it was peeked in is current; a slot being filled is not flagged |
| `VideoRing_quiet` | 6 frames, 3 sessions | 188 k | after quiet restarts: no stale frame, order, slot 0 first, refinement of `FrameFifo`, slots are freed |
| `Signaling_any` | 2 viewers, outbox 2, 2 early candidates, 4 frames, 3 rounds, 2 local candidates | 1.1 M | answers go to their offerer and not into a later connection, no early candidate is left behind or stays for the next round, what is queued is sent or thrown away |
| `PeerSession_any` | queue of 2, 2 viewers, 1 candidate | 3.5 M | a viewer is prepared only while the session task sleeps |
| `PeerSession_live` | queue of 3, 1 viewer | 498 k | a close of a session whose task is awake ends |
| `IceSockets_any` | 2 contexts, 2 descriptors, queue of 1, 2 viewers (a TLS TURN server, then a host address) | 4.2 M | no open socket is forgotten |
| `MediaSend_any` | 4 heap blocks, 2 packets kept, numbers modulo 3, 5 packets, 1 NACK of up to 2 numbers, 2 sessions | 345 k | no packet is used after it was freed or lost, the window is the newest packets, a NACK gets what it names, nothing unprotected goes to a host candidate, refinement of `RetransmitStore`, the close ends |
| `JitterBuffer_any` | numbers modulo 64 from 58 on, 10 entries, 12 packets of 3 kinds of stream, a packet overtaken by at most 2, single losses, 2 sessions | 3.0 M | only whole frames, in order, once; no payload is left |
| `Detection_any` | 3 frames, 1 box | 564 k | telemetry goes forward, the newest frame is encoded |
| `SdpNegotiation_any` | 242 offers of one to three lines, 3 viewers | 8 k | payload types are the best the offer names, the answer mirrors the offer |

Why the bounds are enough. Two slots, and with six frames the ring is filled, one
frame is dropped, and both indexes wrap. Three sessions contain a stop and start seen
by both sides, missed by the producer, and one after either. Two viewers are one
served and one that interferes, and three rounds are a session, one over the same
connection and one after a reconnect. An outbox and a buffer of two are full after two
entries, as the real ones are after 16 and 32. Two offers let whatever the first viewer
leaves meet the second.

A rolling buffer of two, five packets and numbers modulo three evict, free and reuse a block
and wrap the numbers; with four blocks (two kept, one in the writer's hand, one to spare)
the allocator may or may not hand out the block just freed. In the jitter buffer ten entries
are fewer than the twelve packets, so the table is used again, and tolerance and
late packets are small against it, as 2 s are against 1000 entries. The sequence numbers
start at 58 of 64 and so wrap in every session of the run; the timestamps do not, and other starts, longer
reordering or losses in a row do violate the properties ("Smaller disagreements"): the run
says what holds near the middle of the code's limits, not however packets are lost and
reordered. Three frames are one on its
way through each of two hand-overs while a third arrives. The first viewer of `IceSockets`
has a TLS TURN server's socket and the second, who finds what the first left, a host's: these are
the two ways a context is closed, and each meets a close by every other task. Two sockets open at
the same time make more states than a run here can take: that `ReleaseOtherSockets`, and a loop
over more than one context, lose no socket is what the theorem shows, for every `Wanted`. Two descriptors suffice for a number to be
given out again while another is held, and a queue of one is both empty and full. The offers have an H.264 of every score twice, with and without
retransmission, in both orders, next to audio lines before or after them, lines that are not
served, and data lines; three viewers let an offer meet what two others left.

**A quiet restart** (`Quiet` in `VideoRing`): when a session begins, the encoder is
between two frames and has seen the stop, and the shmem task holds no slot. Sessions
usually follow each other so, since the encoder gets a frame every 250 ms and a
viewer needs longer to come back; but nothing in the code waits for it (see
"Smaller disagreements"). Only its start is restricted, never what
happens in a session.

**Fairness.** Each is weak fairness of a task that the scheduler runs when it can
run, or of a call that has begun and returns. No fairness is given to what the outside
decides: camera frames, viewers, packets, the end of a session, a dead transport. In
`MediaSend` the three tasks are fair, but frames, NACKs and closes need not come; in
`Detection` the display task and the encoder task are, the camera is not. The telemetry loop
is not either: it ends after ten connections, or the first that fails (`app_task.c:333-362`).
The encoder task has the lowest priority of the three on its core; the two above it block at
times (the inference task on the camera, the display task on `model_semaphore`). The
exception is the TURN server of `PeerSession`: `SF_vars(RelayEnds)` says that a server
asked again and again to release an allocation confirms it in the end. Without that,
`CLOSING` does not end: the code has no timeout for it.

**The queue of PeerSession_live** holds three requests where the real one holds
thirty. A full queue drops requests, `ICE_CLOSED` among them
(`peer_connection.c:202-209`), and with two places and a candidate on its way the
close does not end. The property is therefore checked where the queue does not fill up
behind a stuck task, and the loss is listed as a hazard.

## Where the code and its comments disagree

Each of these runs checks one sentence of the repository, and TLC finds a behaviour of
the model that breaks it.

| Run | The comment | What the code does |
|---|---|---|
| `Signaling_routing` | `signaling.c:2112-2114`, `peer_client_id` is written once per session | an offer dispatched in the pump writes it, and the session's candidates go to the newcomer |
| `PeerSession_wedge` | `app_webrtc.c:329-330`, the close resets to INITED | not if the session task was never woken: an offer that is rejected leaves CLOSING and both transceivers for ever |

Smaller disagreements, seen while modelling and without a run of their own. In the ring and
the session:

* `media_source_ring.h:11-14` says a slot stays reserved until `WriteFrame` returns.
  `session_start` frees it under a `WriteFrame` that began before the restart, and the
  encoder writes into it. `HeldSlotIntactInSession` is stated of the frame's own session only.
* `video_ring.h:108-109` says the next `session_start` wipes what an in-flight encode lands.
  The flag is raised after the wipe when the copy spans the stop and the start
  (`NoStaleFrame` needs a quiet restart).
* `peer_connection.c:1729` clears the queue because a new session comes; the timer of the
  controller that closed may post `ICE_CLOSED` afterwards (`ice_controller.c:117`).
* `app_webrtc.c:535-538` says a second close risks a double free; nothing keeps two of the
  three tasks that may close from being in it together.
* `app_webrtc.c:496-499` says the state goes from CLOSING to INITED; a handshake that times
  out closes, and its caller then stores P2P_CONNECTION_FOUND (`peer_connection.c:755`).
* `video_ring.c:71` says the producer re-arms to slot 0 on any 0→1 transition of
  `enabled`; a stop and a start between two publishes are not seen.
  `FirstFrameInSlot0` therefore holds after quiet restarts only.
* `video_ring_consumer.c:83-87` says a gap in the sequence numbers means that the slot
  was held too long; a frame larger than a slot leaves one too.
* `signaling.c:1828-1830` says that no envelope leaks into the next session; the drain of
  `signaling_disconnect` holds for answers (`AnswerIsOfThisConnection`), but a candidate
  callback past its checks enqueues after it.
* Candidates that follow an offer parked during the pump go to the session that is still
  attached; the viewer's own session never gets them (`signaling.c:1433-1460`).
  `EarlyIceIsReplayed` is stated for the candidates of the round.

Among the ICE sockets:

* Between the creation of a relay socket and the update of its context
  (`ice_controller_net.c:840`) the listener may receive on it, fail and close it. The
  update then stores CREATE over NONE, and the closing controller takes the closed socket
  for a TURN session: `ice_controller.c:1112` ("All sockets have been closed, notify peer
  connection.") is not reached for it until the next start.
* `ice_controller.c:1112` and `1205`: "All sockets have been closed". A close of the WebRTC task
  that overtakes the gathering of the session task leaves the sockets opened behind its loop,
  reports CLOSED, and they stay open until the next start. `NoSocketLost` says that they are in
  the table.
* A context keeps the candidate pointer of a viewer before, and a new socket in it is taken for
  that candidate's (a relay's, for one, which is not closed but waited for). A packet on a
  context without a candidate goes through a null pointer (`NoCandidate`).
* The test of `socketFd` in `IceControllerNet_FreeSocketContext` is outside the mutex
  (`ice_controller_net.c:526-528`): two tasks may disconnect one TLS session, the second time
  through freed memory. The descriptor of a TLS socket is closed twice on every disconnect.
* `socket()` failing does not give back the context it was for; a read error closes even the
  nominated socket, and no close of the session follows from it.
* `pLocalCandidates[numLocalCandidates - 1]` is read after `iceMutex` is released, and both
  the session task and the listener may complete one TLS handshake.

In the media code:

* The jitter buffer compares sequence numbers with two rules. The test for "oldest"
  (`peer_connection_jitter_buffer.c:357`, comment at `329-332`) stores into the newest
  number. A table entry is trusted to be the packet its place says; when the numbers wrap
  with packets of the lap before still in the wrong place, or more than one packet in a row is
  lost at the wrong spot, a frame of mixed packets is handed over, or one out of order. Where
  the run has `FirstSeq = 58`, with 62 TLC shows `FramesInOrder` violated; with
  `BurstMax = 2`, or `FirstTs = 58` (the timestamps wrap), `FrameIsIntact`; with `LateMax = 4`,
  `FramesInOrder`.
* `FillFrame` compares `i != rtpSeqEnd + 1` as `int`: a frame that ends at 65535 is never
  delivered.
* Nothing keeps the closing task and the listener from the same entry of the jitter buffer:
  both may discard one payload, or the copy into an entry goes through a null pointer (`fault`
  in the model, after which nothing happens).
* `peer_connection_rolling_buffer.c:146` uses the result of `malloc` before the test for
  NULL is made.
* The loop over a NACK's numbers ends at the first that is no longer kept, and the rest is
  not sent again.
* `PeerConnectionSrtp_ConstructSrtpPacket` returns OK when the transmit session is gone. Over
  a host candidate such a packet finds its socket closed (`SentOverHostIsProtected`); over a
  relay, whose socket stays open for the release of the allocation, it may go out without
  protection.

Among the detections:

* `cm33_ipc_communication.c:203` says of the last payload "it will not have a detection"; when
  nothing came since a detection was reported, the last payload is that detection, and the next
  telemetry repeats it.
* `encoder_task.c:368-369` says the predictions are copied so that they are of the frame
  encoded; the inference task may have written the next frame's by then.

In session descriptions:

* `sdp_controller.c:1852-1879`: a transceiver is described by its own first codec, whichever
  was negotiated. With one codec for each transceiver it is the negotiated one.
* `sdp_controller.c:1327`: a retransmission payload type bound to Opus is not described in
  the answer, though its media line lists it.
* A line offered without a direction, which means both directions, is answered inactive.
* `peer_connection_sdp.c:518`: A-law's default payload type is stored in mu-law's place.
* Table and codec set are not cleared between the lines of an offer, so a line may be served
  with the payload of another one; `rtpConfig` keeps the payload of an earlier viewer
  for a kind that is not served. With the two codecs of this program `NegotiatedIsBest`
  holds for the lines that are served.
* Only the last line decides whether an offer is accepted: a data line at the end rejects
  it, one before does not. A rejected offer leads to `PeerSession_wedge`.
* A line that is not served (unknown kind or no common codec) gets no line in the
  answer, all later lines answer for the wrong one, and the BUNDLE group, copied from the
  offer, names lines that are not there. `app_webrtc.c:202-205` explains the silent audio
  transceiver by this.
* An H.264's `fmtp` is found by a prefix of the digits, and the last one counts
  (`FindH264FmtpAttribute`); `FindFmtpBasedOnCodec`, which copies it into the answer, takes the
  first. A retransmission is known only if its `fmtp` follows the `rtpmap`.

## What is proved

The proofs hold for every value of the constants, under the assumptions that the modules
name: `BoundsAssumption`, `SignalingAssumption`, `SessionAssumption`, `SocketAssumption`,
`MediaSendAssumption`, `ConstantsAssumption`, `DetectionAssumption`, `SdpAssumption` and
`ApplicationAssumption`. They give the constants their type; besides, that of `MediaSend`
says that fewer packets are kept than there are sequence numbers (as with 16 bits), and
`ApplicationAssumption` that the program adds one video and one audio transceiver with
one codec each. In every module `TypeCorrect` is `Spec => []TypeOK`. Each of the other
theorems rests on an invariant that is inductive; TLC checked each of them on the run of
the module before it was proved.

**VideoRing.**

* `HeldSlotSafe` and `FlagSafe`: `HeldSlotIntactInSession` and `NoFlagOnSlotBeingWritten`
  under any restarts. They follow from the inductive `InSessionInv`. By itself "the slot
  being sent is owned and unchanged" is not inductive: one needs to know that the flag
  seen by `BeginPeek` is still up at each later step while the session is the same, and
  that a slot which the encoder fills was seen empty by the encoder's check and cannot
  be flagged by anyone but the encoder.
* `NoStaleFrameSafe`, `SentInOrderSafe`, `FirstFrameInSlot0Safe`:
  the three safety properties of `VideoRing_quiet`, under quiet restarts. `QuietInv` adds to the
  above what each phase of a restart leaves, that the numbers in the ring ascend from the
  consumer's index and lie between the last one sent and the next one encoded, and that
  the two indexes are in step: they differ exactly when one slot is full.
* `RingImplementsFifo`: `QuietSpec => RingIsFifo`. Each step is matched with a step of
  `FrameFifo` or a stutter: `EndPublish` is `Put`, the return of `WriteFrame` is `Take`,
  the stores of `session_start` are `Renew`, `Wipe` and `Open`, and `Stop` is `Close`.

**Signaling.** `AnswerGoesToOffererSafe`, `AnswerIsOfThisConnectionSafe`,
`EarlyIceIsOfThisRoundSafe`, `EarlyIceIsReplayedSafe`. `peer_client_id` is one variable
that any offer overwrites, and the answer reads it without the lock. What saves the answer
is that no frame is dispatched between the hand-out of an offer and the answer to it: a
parked offer's viewer is the latched one (`Latch`), so from the hand-out to the answer the
latched one is the viewer being served (`Serving`). Every way out of a connection drains
answers and early candidates (`Closed`). Until they are replayed, all candidates
received in a round are in the buffer or lost (`Buffered`), that is, they found no room or no
memory. What the session refuses at the replay is lost as well: `EarlyIceIsReplayedSafe` says
that a candidate is with the session or in `lost`, never left behind in the buffer, nor handed
over for the viewer after.

**PeerSession.** `PreparedSafe`: `PreparedWhileAsleep`. The wait for INITED is
bounded, so it is not what keeps the WebRTC task out: it is that
`PeerConnection_AddTransceiver` finds no free place until `OnClosePeerConnection`,
run by the session task, has set the count to 0 and the task goes back to its
barrier. The invariant ties the count, the barrier and the place of the WebRTC
task together (`Occupied`): both transceivers taken means the task is awake, or is the one
being prepared, or was prepared in vain.

**IceSockets.** `NoSocketLostSafe`: the open sockets are the descriptors in the table, each of
one context. A close takes the context's number out of both whatever the number is by then, so
a second closer of a context does no more than close what was opened there since; what
has to be shown is that no open context is overwritten. Contexts are taken from the front of
the table and those behind the count are closed (`ClosedBeyond`), except for the part that the
loop of `IceController_Start` has not come to; what it has passed is closed
(`ForcedClosed`), although other tasks may be in a close at that time, since only the session
task opens sockets, and it gathers only for a viewer who has started (`GathersForViewer`).
`TypeCorrect` says above all that no loop over the contexts and no count leaves the table.

**MediaSend.**

* `NoUseAfterFreeSafe`, `NothingLeaksSafe` and `ProtectedSafe`. The invariant says who holds
  `senderMutex` at which place of each task (`Locked`); that the allocated blocks are
  exactly those in the rolling buffer and in the writer's hand, each once, and that what
  the listener has in hand is in the buffer (`Owned`), which the mutex keeps true while a
  block is evicted; that outside a session the buffer is gone and that past
  `DestroyIceController` no host candidate is left (`Ended`); and that a packet built while
  there is a host candidate is protected (`Protected`).
* `WindowSafe`: the rolling buffer holds consecutive numbers up to the newest.
* `AskedPacketIsSentSafe`: a NACK is answered with the packet that last had the number it
  names. The listed packets have the numbers just before the next one, counted back modulo
  the number range (`Numbered`), so that with less capacity than numbers no two have the
  same; a listed packet is the one last stored under its number (`Kept`); and the packet
  in the listener's hand is listed under the number asked for (`Asked`).
* `BufferImplementsStore`: `Spec => BufferIsStore`. `RetransmitStore` is a window of
  consecutive packets in which nothing is stored, evicted or thrown away while one of them is being
  retransmitted, so it says what `senderMutex` is for. `StorePacket` is `Store`, `SearchPacket`
  that finds a packet is `Answer` of the place where it is (`Numbered` gives the number),
  `ResendPacket` and a failed `ConstructAgain` are `Answered`, `Start` is `Open` and
  `FreeRollingBuffer` is `Close`; all else is a stutter, the building of a packet too, since the
  block it writes to is not listed (`Owned`). The packet stored is the one built last (`Fresh`).

**JitterBuffer.** `NoPayloadLeakSafe`: the payloads on the heap are those the entries point
to, and there are none after the buffer is freed and the listener is done with its packet. Two
entries never point to the same payload, since a payload is only in the entry of its own
sequence number modulo the table size (`Placed`); so an entry that is discarded frees one
that no other entry still points to. The walk over a push is a recursive function, and the
invariant holds after each of its turns. That a close between two steps of a push leaks nothing rests
on three facts: the packet in the listener's hand is one of this session (`InHand`); once `isInit` is cleared it stays so until the next session
(`Closed`); and after the closing task's last step the one payload there can be is the one in
hand (`LastPacket`), which the second test of `isInit` sends to `Removed`. The theorem is about
behaviours up to a fault. `TypeCorrect` says above all that every packet of a frame
that is handed over has a payload.

**Detection.** `TelemetryForward`: no report is of an older prediction than the last. From
the camera to the telemetry each place holds nothing newer than the place before it
(`Pipeline`, `Mailbox`). That is not enough for the message, which is rewritten label by
label while the inference task may write the next predictions, and fewer of them: the box
about to be written is no older than the label it replaces (`BoxInHand`). `TypeCorrect`
says that the display task never reads beyond the last box.

**SdpNegotiation.**

* `NegotiatedIsBestSafe` assumes `CodecsInTheirLines`: a line names codecs of its own kind
  only. What a scan has found after any number of attributes is the best attribute so far
  and the last retransmission bound to it (`Scanned`), whatever the tables held before. A
  codec is known, and its transceiver taken, from the first line that offers it, so at
  most one line of a kind is served and none overwrites what another was given
  (`Negotiated`, `BestGiven`). Without the hypothesis an audio line that offers H.264 would
  enter the codec into the set that the video line is then served from.
* `AnswerMirrorsOfferSafe` assumes in addition `OneFmtpEach` (a payload type has one
  `fmtp` attribute; with two the search of the offer takes the last and the answer copies the
  first) and `BundleNamesLines` (the BUNDLE group, if there is one, names all lines of the
  offer in order). Browsers write their offers so; `MCSdpNegotiation` states as an assumption, which TLC evaluates, that
  the 242 offers of the run satisfy all three. The list of the answer's lines is in the order
  of the offer (`InOrder`), and the answer is made of what was stored for this viewer
  (`Stored`, `Answered`).

**Recursive functions.** The library's induction theorems take an operator as a parameter,
which the provers cannot instantiate. The proofs about the loops of `JitterBuffer`
and `SdpNegotiation` use a form of induction over a set (`UpTo`): the least number up to `n`
outside a set that contains 0 and the successors of its members would have a predecessor.
It follows from the well-foundedness of `<` on the naturals. The same form gives that
the recursively defined function exists. No module declares a RECURSIVE operator.

**Model-checked only.**

* The liveness properties (`SlotsAreFreed`, `OutboxIsDrained`, `AwakeCloseEnds`, `CloseEnds`,
  `HandedFrameIsEncoded`): the prover does not reason about
  fairness.
* `FrameIsIntact` and `FramesInOrder` of `JitterBuffer`. They do not hold for all values of
  the constants ("Smaller disagreements" names some that break them): the code looks for a
  packet by its place, and a place is used again after `Entries` packets and after the wrap.
* The two runs that expect a violation.

## What is not modelled

* **Cache coherence.** The CM55 has a data cache; `video_ring.c:102-108` cleans it once for the
  whole slot after the flag is stored, with a barrier before and after the flag. The ring
  module takes memory to be coherent, so what it shows presupposes that this one clean is right.
* **RTCP timers and sender reports** (`peer_connection.c:232-278`, `896-940`): they only
  take places in the queue, and the queue is already as full as it likes in the runs.
* **The close-session timer** (`peer_connection.c:280-303`): armed when a candidate comes
  in state START (`506-519`). In this program `PeerConnection_Start` and the end of
  `SetRemoteDescription` run on one task with no frame dispatched in between, so it is
  never armed.
* **The text of session descriptions**: parsing, serialising, SSRCs, feedback and
  extension attributes.
* **The content of packets and pairs**: STUN and TURN messages, checks and priorities of
  pairs (the ICE library's), RTP headers, cryptography, splitting of NAL units (the codec
  library's). H.265, Opus and G.711 packets go the same way as H.264's.
* **The USB camera build**: its image buffers, its recovery, and the display task's wait for
  an unsupported camera to go (`lcd_task.c:328`, `952`). The DVP build is modelled.
* **The encoder itself**: rate control, reference frames, the overlay. Which frames a viewer
  can decode after a drop is therefore not stated.
* **RTCP reports, FIR, PLI, SLI, REMB**: they reach callbacks that this program does not set, or only
  send.
* **A socket number given out between the two closes of a TLS socket**
  (`tcp_sockets_wrapper.c:208-210`, `ice_controller_net.c:547`), to the session task or to
  another component: the second close would then close that socket. `IceSockets` takes the
  two as one step.
* **The command queue of the timer task**: timer commands are taken to succeed.
* **Exhaustion of the heap** and the race of the start of SRTP with its end (the latter is in
  `PeerSession`).
* **Wi-Fi, configuration record, start-up, IoTConnect's client**: sequential, with the
  hardware or an external library doing the work.
* **Generated and vendored code**: the neural network (`model.c`, half of all lines of the
  repository), minih264, fonts, drawing. They hold no state that the tasks share.

## Plan

Done: `FrameFifo`, `VideoRing`, `VideoRingProofs`; `Signaling`, `SignalingProofs`;
`PeerSession`, `PeerSessionProofs`; `Detection`, `DetectionProofs`; `JitterBuffer`,
`JitterBufferProofs`; `RetransmitStore`, `MediaSend`, `MediaSendProofs`; `IceSockets`,
`IceSocketsProofs`; `SdpNegotiation`, `SdpNegotiationProofs`.

Next, in this order:

1. `IceSockets`: that after a nomination only the nominated socket and relays stay open, on an
   instance with both kinds of socket at once. Proofs: a bound on losses and on the age of frames under which
   `FrameIsIntact` holds of `JitterBuffer` in sessions of any length and over the wrap.
2. `CachedRing`: the ring with CM55's cache, its cleans and barriers, shown to implement
   `VideoRing`.
3. `TimerQueue`: the timer command queue, its bound, and what a lost command does to the
   close of `PeerSession`; the RTCP timers against the transceivers.
4. `CameraBuffers` for the USB build; `ConfigRecord`.
