----------------------------- MODULE Detection -----------------------------
(***************************************************************************)
(* The path of a camera frame and of what is detected in it: the inference *)
(* and display tasks of the CM55 (inference_task.c, lcd_task.c), the frame *)
(* handed on to the encoder (encoder_task.c), the one-message IPC mailbox  *)
(* between the cores (cm55_ and cm33_ipc_communication.c) and the          *)
(* telemetry loop of the CM33 (app_task.c).                                *)
(*                                                                         *)
(* A picture, a prediction and a field of a message are known by the       *)
(* number of the camera frame they are of.  The inference task has the     *)
(* highest priority and gives up the processor only between draw() and the *)
(* predictions and while it waits for a frame, so each of these is one     *)
(* step; the display task above the encoder task, and the two cores, may   *)
(* be interrupted wherever they read or write what they share.             *)
(***************************************************************************)
EXTENDS Naturals

CONSTANTS
    MaxFrames,   \* bound: camera frames
    MaxBoxes     \* MAX_PREDICTIONS

ASSUME DetectionAssumption == {MaxFrames, MaxBoxes} \subseteq Nat

ModelTokens == 2  \* NUM_IMAGE_BUFFERS, the limit of model_semaphore

VARIABLES
    camera,             \* number of the frame in dvp_bgr565_frames[active_frame]
    frame_ready,
    bgr565,             \* the frame draw() copied
    inference,          \* label of the inference task
    prediction,
    model_semaphore,
    display,            \* the display task: label, i and has_prediction
    encoder_frame,
    encoder_prediction,
    encoder_semaphore,
    encoder,            \* the encoder task: label, and the frames of the two halves
    encoded,            \* number of the newest frame converted
    cm55_msg_data,      \* the message in shared memory
    busy,               \* the IPC channel is locked
    isr,                \* label of cm33_msg_callback
    ipc_recv_msg,
    ipc_last_detection_payload,
    ipc_has_saved_detection,
    telemetry           \* the message published last

model == <<bgr565, inference, prediction, model_semaphore>>
encoding == <<encoder_frame, encoder_prediction, encoder_semaphore, encoder, encoded>>
mailbox == <<cm55_msg_data, busy>>
received == <<isr, ipc_recv_msg, ipc_last_detection_payload, ipc_has_saved_detection>>
vars == <<camera, frame_ready, model, display, encoding, mailbox, received, telemetry>>

Frames == 0 .. MaxFrames
Boxes == 0 .. MaxBoxes - 1
\* A label or label_id: the frame it is of, and whether it names a class.
Fields == [frame : Frames, detected : BOOLEAN]
Payloads == [label_id : Fields, label : Fields]
Nothing == [frame |-> 0, detected |-> FALSE]
EmptyPayload == [label_id |-> Nothing, label |-> Nothing]

TypeOK ==
    /\ {camera, bgr565, encoder_frame, encoder_prediction, encoded} \subseteq Frames
    /\ {frame_ready, encoder_semaphore, busy, ipc_has_saved_detection} \subseteq BOOLEAN
    /\ inference \in {"wait", "drawn"}
    /\ prediction \in [frame : Frames, count : 0 .. MaxBoxes, boxes : [Boxes -> Frames]]
    /\ model_semaphore \in 0 .. ModelTokens
    /\ display \in [pc : {"wait", "box", "label", "send", "switch", "snapshot"},
                    i : 0 .. MaxBoxes, has_prediction : BOOLEAN]
    /\ encoder \in [pc : {"wait", "top", "bottom"}, top : Frames]
    /\ isr \in {"idle", "copying"}
    /\ {cm55_msg_data, ipc_recv_msg, ipc_last_detection_payload, telemetry} \subseteq Payloads

Init ==
    /\ camera = 0 /\ frame_ready = FALSE
    /\ bgr565 = 0 /\ inference = "wait"
    /\ prediction = [frame |-> 0, count |-> 0, boxes |-> [b \in Boxes |-> 0]]
    /\ model_semaphore = 0
    /\ display = [pc |-> "wait", i |-> 0, has_prediction |-> FALSE]
    /\ encoder_frame = 0 /\ encoder_prediction = 0 /\ encoder_semaphore = FALSE
    /\ encoder = [pc |-> "wait", top |-> 0] /\ encoded = 0
    /\ cm55_msg_data = EmptyPayload /\ busy = FALSE
    /\ isr = "idle" /\ ipc_recv_msg = EmptyPayload
    /\ ipc_last_detection_payload = EmptyPayload /\ ipc_has_saved_detection = FALSE
    /\ telemetry = EmptyPayload

\* The camera driver has filled a buffer and makes it the active one.
CameraFrame ==
    /\ camera < MaxFrames
    /\ camera' = camera + 1
    /\ frame_ready' = TRUE
    /\ UNCHANGED <<model, display, encoding, mailbox, received, telemetry>>

(***************************************************************************)
(* cm55_inference_task.                                                    *)
(***************************************************************************)
Draw ==
    /\ inference = "wait" /\ frame_ready
    /\ frame_ready' = FALSE
    /\ bgr565' = camera
    /\ inference' = "drawn"
    /\ UNCHANGED <<camera, prediction, model_semaphore, display, encoding, mailbox, received,
                   telemetry>>

PredictUncounted ==  \* mutant: the semaphore has no limit
    /\ inference = "drawn"
    /\ prediction' = [prediction EXCEPT !.frame = bgr565]
    /\ model_semaphore' = model_semaphore + 1
    /\ inference' = "wait"
    /\ UNCHANGED <<camera, frame_ready, bgr565, display, encoding, mailbox, received, telemetry>>

\* The predictions are written over the last ones; boxes beyond their count stay
\* as they were.  A full semaphore stays full.
Predict ==
    /\ inference = "drawn"
    /\ \E n \in 0 .. MaxBoxes :
           prediction' = [frame |-> bgr565, count |-> n,
                          boxes |-> [b \in Boxes |-> IF b < n THEN bgr565
                                                      ELSE prediction.boxes[b]]]
    /\ model_semaphore' = IF model_semaphore < ModelTokens THEN model_semaphore + 1
                          ELSE model_semaphore
    /\ inference' = "wait"
    /\ UNCHANGED <<camera, frame_ready, bgr565, display, encoding, mailbox, received, telemetry>>

(***************************************************************************)
(* cm55_ns_gfx_task: update_box_data, then the hook of the encoder.        *)
(***************************************************************************)
TakeModelToken ==
    /\ display.pc = "wait" /\ model_semaphore > 0
    /\ model_semaphore' = model_semaphore - 1
    /\ display' = [pc |-> "box", i |-> 0, has_prediction |-> FALSE]
    /\ UNCHANGED <<camera, frame_ready, bgr565, inference, prediction, encoding, mailbox,
                   received, telemetry>>

\* The next box, or "unlabelled" when there was none: label_id is written ...
WriteLabelId ==
    /\ display.pc = "box"
    /\ LET more == display.i < prediction.count
       IN  IF more \/ ~display.has_prediction
           THEN /\ cm55_msg_data' = [cm55_msg_data EXCEPT !.label_id =
                                        [frame |-> prediction.frame, detected |-> more]]
                /\ display' = [display EXCEPT !.pc = "label", !.has_prediction = more]
           ELSE /\ display' = [display EXCEPT !.pc = "switch"]
                /\ UNCHANGED cm55_msg_data
    /\ UNCHANGED <<camera, frame_ready, model, encoding, busy, received, telemetry>>

\* ... and then label, from the predictions as they are by now.
WriteLabel ==
    /\ display.pc = "label"
    /\ cm55_msg_data' = [cm55_msg_data EXCEPT !.label =
                            [frame |-> IF display.has_prediction THEN prediction.boxes[display.i]
                                       ELSE prediction.frame,
                             detected |-> display.has_prediction]]
    /\ display' = [display EXCEPT !.pc = "send"]
    /\ UNCHANGED <<camera, frame_ready, model, encoding, busy, received, telemetry>>

\* cm55_ipc_send_to_cm33: a message that finds the channel locked is dropped,
\* although it has been written over the one in the channel.
SendToCM33 ==
    /\ display.pc = "send"
    /\ busy' = TRUE
    /\ display' = IF display.has_prediction THEN [display EXCEPT !.pc = "box", !.i = @ + 1]
                  ELSE [display EXCEPT !.pc = "switch"]
    /\ UNCHANGED <<camera, frame_ready, model, encoding, cm55_msg_data, received, telemetry>>

\* encoder_on_display_frame_done: within 250 ms of the last frame, or when the
\* copy fails, there is nothing for the encoder.
SkipFrame ==
    /\ display.pc = "switch"
    /\ display' = [display EXCEPT !.pc = "wait"]
    /\ UNCHANGED <<camera, frame_ready, model, encoding, mailbox, received, telemetry>>

CopyFrame ==
    /\ display.pc = "switch"
    /\ encoder_frame' = bgr565
    /\ display' = [display EXCEPT !.pc = "snapshot"]
    /\ UNCHANGED <<camera, frame_ready, model, encoder_prediction, encoder_semaphore, encoder,
                   encoded, mailbox, received, telemetry>>

\* The overlay is drawn from this snapshot, and the encoder is woken.
SnapshotPredictions ==
    /\ display.pc = "snapshot"
    /\ encoder_prediction' = prediction.frame
    /\ encoder_semaphore' = TRUE
    /\ display' = [display EXCEPT !.pc = "wait"]
    /\ UNCHANGED <<camera, frame_ready, model, encoder_frame, encoder, encoded, mailbox, received,
                   telemetry>>

(***************************************************************************)
(* cm55_encoder_task: the conversion reads the frame from top to bottom.   *)
(***************************************************************************)
TakeEncoderToken ==
    /\ encoder.pc = "wait" /\ encoder_semaphore
    /\ encoder_semaphore' = FALSE
    /\ encoder' = [encoder EXCEPT !.pc = "top"]
    /\ UNCHANGED <<camera, frame_ready, model, display, encoder_frame, encoder_prediction,
                   encoded, mailbox, received, telemetry>>

ConvertTop ==
    /\ encoder.pc = "top"
    /\ encoder' = [pc |-> "bottom", top |-> encoder_frame]
    /\ UNCHANGED <<camera, frame_ready, model, display, encoder_frame, encoder_prediction,
                   encoder_semaphore, encoded, mailbox, received, telemetry>>

ConvertBottomClearing ==  \* mutant: the token is given back after the conversion
    /\ encoder.pc = "bottom"
    /\ encoded' = encoder.top
    /\ encoder' = [encoder EXCEPT !.pc = "wait"]
    /\ encoder_semaphore' = FALSE
    /\ UNCHANGED <<camera, frame_ready, model, display, encoder_frame, encoder_prediction,
                   mailbox, received, telemetry>>

\* What follows, encoding and publishing, is in VideoRing.
ConvertBottom ==
    /\ encoder.pc = "bottom"
    /\ encoded' = encoder.top
    /\ encoder' = [encoder EXCEPT !.pc = "wait"]
    /\ UNCHANGED <<camera, frame_ready, model, display, encoder_frame, encoder_prediction,
                   encoder_semaphore, mailbox, received, telemetry>>

(***************************************************************************)
(* The CM33.                                                               *)
(***************************************************************************)
\* cm33_msg_callback copies the message while the CM55 may write it again ...
ReceiveLabelId ==
    /\ busy /\ isr = "idle"
    /\ ipc_recv_msg' = [ipc_recv_msg EXCEPT !.label_id = cm55_msg_data.label_id]
    /\ isr' = "copying"
    /\ UNCHANGED <<camera, frame_ready, model, display, encoding, mailbox,
                   ipc_last_detection_payload, ipc_has_saved_detection, telemetry>>

\* ... keeps it if it is a detection, and the pipe releases the channel.
ReceiveLabel ==
    /\ isr = "copying"
    /\ ipc_recv_msg' = [ipc_recv_msg EXCEPT !.label = cm55_msg_data.label]
    /\ IF ipc_recv_msg.label_id.detected
       THEN /\ ipc_last_detection_payload' = ipc_recv_msg'
            /\ ipc_has_saved_detection' = TRUE
       ELSE UNCHANGED <<ipc_last_detection_payload, ipc_has_saved_detection>>
    /\ busy' = FALSE
    /\ isr' = "idle"
    /\ UNCHANGED <<camera, frame_ready, model, display, encoding, cm55_msg_data, telemetry>>

PublishTelemetryLatest(sent) ==  \* mutant: the detection kept is published after the last message
    /\ isr = "idle"
    /\ telemetry' = IF telemetry = ipc_recv_msg /\ ipc_has_saved_detection
                    THEN ipc_last_detection_payload ELSE ipc_recv_msg
    /\ ipc_has_saved_detection' = (ipc_has_saved_detection /\ telemetry # ipc_recv_msg)
    /\ UNCHANGED <<camera, frame_ready, model, display, encoding, mailbox, isr, ipc_recv_msg,
                   ipc_last_detection_payload>>

\* publish_telemetry with cm33_ipc_safe_get_and_clear_cached_detection: no
\* interrupt comes between.  The detection kept is given up before the send,
\* whose result nobody looks at: a send that fails loses it.  The loop that
\* calls it goes round while the cloud is connected, and ends.
PublishTelemetry(sent) ==
    /\ isr = "idle"
    /\ telemetry' = CASE ~sent -> telemetry
                      [] sent /\ ipc_has_saved_detection -> ipc_last_detection_payload
                      [] OTHER -> ipc_recv_msg
    /\ ipc_has_saved_detection' = FALSE
    /\ UNCHANGED <<camera, frame_ready, model, display, encoding, mailbox, isr, ipc_recv_msg,
                   ipc_last_detection_payload>>

Display ==
    \/ TakeModelToken \/ WriteLabelId \/ WriteLabel \/ SendToCM33
    \/ SkipFrame \/ CopyFrame \/ SnapshotPredictions

Encoder == TakeEncoderToken \/ ConvertTop \/ ConvertBottom

Interrupt == ReceiveLabelId \/ ReceiveLabel

Next ==
    \/ CameraFrame \/ Draw \/ Predict
    \/ Display \/ Encoder
    \/ Interrupt \/ \E sent \in BOOLEAN : PublishTelemetry(sent)

\* The display task and the encoder task run when they can: the inference task
\* above them waits for the camera at times, and the display task for the
\* model.  Nothing is said of the camera, of the other core and of the cloud.
Fairness == WF_vars(Display) /\ WF_vars(Encoder)

Spec == Init /\ [][Next]_vars /\ Fairness

-----------------------------------------------------------------------------
(***************************************************************************)
(* Properties.                                                             *)
(***************************************************************************)
NotOlder(a, b) == a.label_id.frame <= b.label_id.frame /\ a.label.frame <= b.label.frame

\* The telemetry never goes back in time: what is reported after a detection
\* that was kept was received with it or later, however messages are dropped,
\* written over in the channel and copied half old and half new, and whichever
\* reports are lost.
TelemetryGoesForward == [][NotOlder(telemetry, telemetry')]_vars

\* The display task hands frames to the encoder by a semaphore that holds one
\* token and loses the rest; still the encoder reads the newest frame handed to it.
HandedFrameIsEncoded == (encoder_frame > encoded) ~> (encoded = encoder_frame)

=============================================================================
