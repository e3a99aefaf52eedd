-------------------------- MODULE DetectionProofs --------------------------
(***************************************************************************)
(* Proofs about Detection, for any number of frames and boxes: types, and  *)
(* that the telemetry never goes back in time.                             *)
(*                                                                         *)
(* The argument: along the path from the camera to the telemetry each      *)
(* place holds nothing newer than the place before it (Pipeline, Mailbox), *)
(* and the places are written from their predecessors only.  The one place *)
(* where that is not enough is the box about to be written while the       *)
(* predictions change under it (BoxInHand).                                *)
(***************************************************************************)
EXTENDS Detection, TLAPS

Pipeline ==
    /\ bgr565 <= camera
    /\ prediction.frame <= bgr565
    /\ \A b \in Boxes : prediction.boxes[b] <= prediction.frame
    /\ \A b \in Boxes : b < prediction.count => prediction.boxes[b] = prediction.frame

\* The box that update_box_data has begun to write is no older than the label in
\* the message, also when the predictions have become fewer meanwhile.
BoxInHand ==
    display.pc \in {"label", "send"} /\ display.has_prediction =>
        /\ display.i \in Boxes
        /\ display.pc = "label" => cm55_msg_data.label.frame <= prediction.boxes[display.i]

Mailbox ==
    /\ cm55_msg_data.label_id.frame <= prediction.frame
    /\ cm55_msg_data.label.frame <= prediction.frame
    /\ NotOlder(ipc_recv_msg, cm55_msg_data)
    /\ NotOlder(ipc_last_detection_payload, ipc_recv_msg)
    /\ NotOlder(telemetry, ipc_recv_msg)
    /\ ipc_has_saved_detection => NotOlder(telemetry, ipc_last_detection_payload)

IInv == TypeOK /\ Pipeline /\ BoxInHand /\ Mailbox

-----------------------------------------------------------------------------
\* What the steps below need of the types, one fact at a time.
LEMMA Types ==
    ASSUME TypeOK
    PROVE  /\ camera \in Nat /\ bgr565 \in Nat /\ display.i \in Nat
           /\ prediction.frame \in Nat /\ prediction.count \in Nat
           /\ \A b \in Boxes : prediction.boxes[b] \in Nat
           /\ \A m \in {cm55_msg_data, ipc_recv_msg, ipc_last_detection_payload, telemetry} :
                  m.label_id.frame \in Nat /\ m.label.frame \in Nat
<1> USE DEF TypeOK
<1>1. camera \in Nat /\ bgr565 \in Nat  BY DEF Frames
<1>2. display.i \in Nat  BY DetectionAssumption
<1>3. prediction.frame \in Nat /\ prediction.count \in Nat
  BY DetectionAssumption DEF Frames
<1>4. \A b \in Boxes : prediction.boxes[b] \in Nat  BY DEF Frames
<1>5. \A m \in Payloads : m.label_id.frame \in Nat /\ m.label.frame \in Nat
  BY DEF Payloads, Fields, Frames
<1> QED  BY <1>1, <1>2, <1>3, <1>4, <1>5

LEMMA TypeStep == TypeOK /\ BoxInHand /\ [Next]_vars => TypeOK'
<1> SUFFICES ASSUME TypeOK, BoxInHand, [Next]_vars PROVE TypeOK'
  OBVIOUS
<1> USE DetectionAssumption DEF TypeOK
<1>1. CASE CameraFrame
  <2>1. camera' \in Frames  BY <1>1 DEF CameraFrame, Frames
  <2> QED  BY <1>1, <2>1 DEF CameraFrame, model, encoding, mailbox, received
<1>2. CASE Draw
  BY <1>2 DEF Draw, model, encoding, mailbox, received
<1>3. CASE Predict
  <2>1. prediction' \in [frame : Frames, count : 0 .. MaxBoxes, boxes : [Boxes -> Frames]]
    <3>1. PICK n \in 0 .. MaxBoxes :
              prediction' = [frame |-> bgr565, count |-> n,
                             boxes |-> [b \in Boxes |-> IF b < n THEN bgr565
                                                         ELSE prediction.boxes[b]]]
      BY <1>3 DEF Predict
    <3>2. [b \in Boxes |-> IF b < n THEN bgr565 ELSE prediction.boxes[b]] \in [Boxes -> Frames]
      <4>1. prediction.boxes \in [Boxes -> Frames] /\ bgr565 \in Frames  OBVIOUS
      <4> QED  BY <4>1
    <3> QED  BY <3>1, <3>2
  <2>2. model_semaphore' \in 0 .. ModelTokens  BY <1>3 DEF Predict, ModelTokens
  <2> QED  BY <1>3, <2>1, <2>2 DEF Predict, model, encoding, mailbox, received
<1>4. CASE TakeModelToken
  <2>1. model_semaphore' \in 0 .. ModelTokens  BY <1>4 DEF TakeModelToken, ModelTokens
  <2>2. display' \in [pc : {"wait", "box", "label", "send", "switch", "snapshot"},
                      i : 0 .. MaxBoxes, has_prediction : BOOLEAN]
    BY <1>4 DEF TakeModelToken
  <2> QED  BY <1>4, <2>1, <2>2 DEF TakeModelToken, model, encoding, mailbox, received
<1>5. CASE WriteLabelId
  <2>1. cm55_msg_data' \in Payloads
    <3>1. [frame |-> prediction.frame, detected |-> display.i < prediction.count] \in Fields
      BY DEF Fields
    <3>2. cm55_msg_data \in Payloads  OBVIOUS
    <3> QED  BY <1>5, <3>1, <3>2 DEF WriteLabelId, Payloads
  <2>2. display' \in [pc : {"wait", "box", "label", "send", "switch", "snapshot"},
                      i : 0 .. MaxBoxes, has_prediction : BOOLEAN]
    <3>1. /\ display \in [pc : {"wait", "box", "label", "send", "switch", "snapshot"},
                         i : 0 .. MaxBoxes, has_prediction : BOOLEAN]
          /\ (display.i < prediction.count) \in BOOLEAN
      OBVIOUS
    <3>2. \/ display' = [display EXCEPT !.pc = "label",
                                      !.has_prediction = display.i < prediction.count]
          \/ display' = [display EXCEPT !.pc = "switch"]
      BY <1>5 DEF WriteLabelId
    <3> QED  BY <3>1, <3>2
  <2> QED  BY <1>5, <2>1, <2>2 DEF WriteLabelId, model, encoding, mailbox, received
<1>6. CASE WriteLabel
  <2>1. cm55_msg_data' \in Payloads
    <3>1. [frame |-> IF display.has_prediction THEN prediction.boxes[display.i]
                     ELSE prediction.frame,
           detected |-> display.has_prediction] \in Fields
      <4>1. display.has_prediction => prediction.boxes[display.i] \in Frames
        BY <1>6 DEF WriteLabel, BoxInHand
      <4> QED  BY <4>1 DEF Fields
    <3>2. cm55_msg_data \in Payloads  OBVIOUS
    <3> QED  BY <1>6, <3>1, <3>2 DEF WriteLabel, Payloads
  <2>2. display' \in [pc : {"wait", "box", "label", "send", "switch", "snapshot"},
                      i : 0 .. MaxBoxes, has_prediction : BOOLEAN]
    BY <1>6 DEF WriteLabel
  <2> QED  BY <1>6, <2>1, <2>2 DEF WriteLabel, model, encoding, mailbox, received
<1>7. CASE SendToCM33
  <2>1. display' \in [pc : {"wait", "box", "label", "send", "switch", "snapshot"},
                      i : 0 .. MaxBoxes, has_prediction : BOOLEAN]
    <3>1. CASE display.has_prediction
      <4>1. display.i + 1 \in 0 .. MaxBoxes
        BY <1>7, <3>1 DEF SendToCM33, BoxInHand, Boxes
      <4>2. display' = [display EXCEPT !.pc = "box", !.i = display.i + 1]
        BY <1>7, <3>1 DEF SendToCM33
      <4>3. display \in [pc : {"wait", "box", "label", "send", "switch", "snapshot"},
                         i : 0 .. MaxBoxes, has_prediction : BOOLEAN]
        OBVIOUS
      <4> QED  BY <4>1, <4>2, <4>3
    <3>2. CASE ~display.has_prediction
      BY <1>7, <3>2 DEF SendToCM33
    <3> QED  BY <3>1, <3>2
  <2> QED  BY <1>7, <2>1 DEF SendToCM33, model, encoding, mailbox, received
<1>8. CASE SkipFrame
  BY <1>8 DEF SkipFrame, model, encoding, mailbox, received
<1>9. CASE CopyFrame
  BY <1>9 DEF CopyFrame, model, encoding, mailbox, received
<1>10. CASE SnapshotPredictions
  BY <1>10 DEF SnapshotPredictions, model, encoding, mailbox, received
<1>11. CASE TakeEncoderToken
  BY <1>11 DEF TakeEncoderToken, model, encoding, mailbox, received
<1>12. CASE ConvertTop
  BY <1>12 DEF ConvertTop, model, encoding, mailbox, received
<1>13. CASE ConvertBottom
  BY <1>13 DEF ConvertBottom, model, encoding, mailbox, received
<1>14. CASE ReceiveLabelId
  <2>1. ipc_recv_msg' \in Payloads
    <3>1. cm55_msg_data \in Payloads /\ ipc_recv_msg \in Payloads  OBVIOUS
    <3> QED  BY <1>14, <3>1 DEF ReceiveLabelId, Payloads
  <2> QED  BY <1>14, <2>1 DEF ReceiveLabelId, model, encoding, mailbox, received
<1>15. CASE ReceiveLabel
  <2>1. ipc_recv_msg' \in Payloads
    <3>1. cm55_msg_data \in Payloads /\ ipc_recv_msg \in Payloads  OBVIOUS
    <3> QED  BY <1>15, <3>1 DEF ReceiveLabel, Payloads
  <2> QED  BY <1>15, <2>1 DEF ReceiveLabel, model, encoding, mailbox, received
<1>16. ASSUME NEW sent \in BOOLEAN, PublishTelemetry(sent) PROVE TypeOK'
  BY <1>16 DEF PublishTelemetry, model, encoding, mailbox, received
<1>17. CASE UNCHANGED vars
  BY <1>17 DEF vars, model, encoding, mailbox, received
<1> QED
  BY <1>1, <1>2, <1>3, <1>4, <1>5, <1>6, <1>7, <1>8, <1>9, <1>10, <1>11, <1>12, <1>13,
     <1>14, <1>15, <1>16, <1>17
  DEF Next, Display, Encoder, Interrupt

LEMMA PipelineStep == TypeOK /\ Pipeline /\ [Next]_vars => Pipeline'
<1> SUFFICES ASSUME TypeOK, Pipeline, [Next]_vars PROVE Pipeline'
  OBVIOUS
<1> USE Types DEF Pipeline
<1>1. CASE CameraFrame
  BY <1>1 DEF CameraFrame, model, encoding, mailbox, received
<1>2. CASE Draw
  BY <1>2 DEF Draw, model, encoding, mailbox, received
<1>3. CASE Predict
  <2>1. /\ prediction'.frame = bgr565 /\ prediction'.count \in 0 .. MaxBoxes
        /\ \A b \in Boxes : prediction'.boxes[b] = IF b < prediction'.count THEN bgr565
                                                 ELSE prediction.boxes[b]
    BY <1>3 DEF Predict
  <2>2. camera' = camera /\ bgr565' = bgr565  BY <1>3 DEF Predict
  <2>3. \A b \in Boxes : prediction.boxes[b] <= bgr565
    <3> TAKE b \in Boxes
    <3>1. prediction.boxes[b] \in Nat /\ prediction.boxes[b] <= prediction.frame  OBVIOUS
    <3>2. prediction.frame \in Nat /\ bgr565 \in Nat /\ prediction.frame <= bgr565  OBVIOUS
    <3> QED  BY <3>1, <3>2
  <2> QED  BY <2>1, <2>2, <2>3
<1>4. CASE TakeModelToken
  BY <1>4 DEF TakeModelToken, model, encoding, mailbox, received
<1>5. CASE WriteLabelId
  BY <1>5 DEF WriteLabelId, model, encoding, mailbox, received
<1>6. CASE WriteLabel
  BY <1>6 DEF WriteLabel, model, encoding, mailbox, received
<1>7. CASE SendToCM33
  BY <1>7 DEF SendToCM33, model, encoding, mailbox, received
<1>8. CASE SkipFrame
  BY <1>8 DEF SkipFrame, model, encoding, mailbox, received
<1>9. CASE CopyFrame
  BY <1>9 DEF CopyFrame, model, encoding, mailbox, received
<1>10. CASE SnapshotPredictions
  BY <1>10 DEF SnapshotPredictions, model, encoding, mailbox, received
<1>11. CASE TakeEncoderToken
  BY <1>11 DEF TakeEncoderToken, model, encoding, mailbox, received
<1>12. CASE ConvertTop
  BY <1>12 DEF ConvertTop, model, encoding, mailbox, received
<1>13. CASE ConvertBottom
  BY <1>13 DEF ConvertBottom, model, encoding, mailbox, received
<1>14. CASE ReceiveLabelId
  BY <1>14 DEF ReceiveLabelId, model, encoding, mailbox, received
<1>15. CASE ReceiveLabel
  BY <1>15 DEF ReceiveLabel, model, encoding, mailbox, received
<1>16. ASSUME NEW sent \in BOOLEAN, PublishTelemetry(sent) PROVE Pipeline'
  BY <1>16 DEF PublishTelemetry, model, encoding, mailbox, received
<1>17. CASE UNCHANGED vars
  BY <1>17 DEF vars, model, encoding, mailbox, received
<1> QED
  BY <1>1, <1>2, <1>3, <1>4, <1>5, <1>6, <1>7, <1>8, <1>9, <1>10, <1>11, <1>12, <1>13,
     <1>14, <1>15, <1>16, <1>17
  DEF Next, Display, Encoder, Interrupt

LEMMA BoxInHandStep == IInv /\ [Next]_vars => BoxInHand'
<1> SUFFICES ASSUME TypeOK, Pipeline, BoxInHand, Mailbox, [Next]_vars PROVE BoxInHand'
  BY DEF IInv
<1> USE Types DEF BoxInHand
<1>1. CASE CameraFrame
  BY <1>1 DEF CameraFrame, model, encoding, mailbox, received
<1>2. CASE Draw
  BY <1>2 DEF Draw, model, encoding, mailbox, received
<1>3. CASE Predict
  <2>1. /\ prediction'.frame = bgr565 /\ prediction'.count \in 0 .. MaxBoxes
        /\ \A b \in Boxes : prediction'.boxes[b] = IF b < prediction'.count THEN bgr565
                                                 ELSE prediction.boxes[b]
    BY <1>3 DEF Predict
  <2>2. UNCHANGED <<display, cm55_msg_data>>  BY <1>3 DEF Predict, mailbox
  <2>3. SUFFICES ASSUME display.pc = "label", display.i \in Boxes,
                        cm55_msg_data.label.frame <= prediction.boxes[display.i]
                 PROVE  cm55_msg_data.label.frame <= prediction'.boxes[display.i]
    BY <2>2
  <2>4. prediction'.boxes[display.i] \in {bgr565, prediction.boxes[display.i]}
    BY <2>1, <2>3
  <2>5. cm55_msg_data.label.frame <= prediction.frame /\ prediction.frame <= bgr565
    BY DEF Mailbox, Pipeline
  <2>6. /\ cm55_msg_data.label.frame \in Nat /\ prediction.frame \in Nat /\ bgr565 \in Nat
        /\ prediction.boxes[display.i] \in Nat
    BY <2>3
  <2> QED  BY <2>3, <2>4, <2>5, <2>6
<1>4. CASE TakeModelToken
  BY <1>4 DEF TakeModelToken, model, encoding, mailbox, received
<1>5. CASE WriteLabelId
  <2>1. SUFFICES ASSUME display.i < prediction.count
                 PROVE  /\ display.i \in Boxes
                        /\ cm55_msg_data.label.frame <= prediction.boxes[display.i]
    <3>1. prediction' = prediction /\ cm55_msg_data'.label = cm55_msg_data.label
      BY <1>5 DEF WriteLabelId, model, TypeOK, Payloads
    <3>2. display'.pc = "label" =>
              display'.has_prediction = (display.i < prediction.count) /\ display'.i = display.i
      BY <1>5 DEF WriteLabelId, TypeOK
    <3>3. display'.pc # "send"  BY <1>5 DEF WriteLabelId, TypeOK
    <3> QED  BY <2>1, <3>1, <3>2, <3>3
  <2>2. display.i \in Boxes
    BY <2>1, DetectionAssumption DEF Boxes, TypeOK
  <2>3. prediction.boxes[display.i] = prediction.frame  BY <2>1, <2>2 DEF Pipeline
  <2> QED  BY <2>2, <2>3 DEF Mailbox
<1>6. CASE WriteLabel
  BY <1>6 DEF WriteLabel, model, encoding, mailbox, received
<1>7. CASE SendToCM33
  BY <1>7 DEF SendToCM33, model, encoding, mailbox, received
<1>8. CASE SkipFrame
  BY <1>8 DEF SkipFrame, model, encoding, mailbox, received
<1>9. CASE CopyFrame
  BY <1>9 DEF CopyFrame, model, encoding, mailbox, received
<1>10. CASE SnapshotPredictions
  BY <1>10 DEF SnapshotPredictions, model, encoding, mailbox, received
<1>11. CASE TakeEncoderToken
  BY <1>11 DEF TakeEncoderToken, model, encoding, mailbox, received
<1>12. CASE ConvertTop
  BY <1>12 DEF ConvertTop, model, encoding, mailbox, received
<1>13. CASE ConvertBottom
  BY <1>13 DEF ConvertBottom, model, encoding, mailbox, received
<1>14. CASE ReceiveLabelId
  BY <1>14 DEF ReceiveLabelId, model, encoding, mailbox, received
<1>15. CASE ReceiveLabel
  BY <1>15 DEF ReceiveLabel, model, encoding, mailbox, received
<1>16. ASSUME NEW sent \in BOOLEAN, PublishTelemetry(sent) PROVE BoxInHand'
  BY <1>16 DEF PublishTelemetry, model, encoding, mailbox, received
<1>17. CASE UNCHANGED vars
  BY <1>17 DEF vars, model, encoding, mailbox, received
<1> QED
  BY <1>1, <1>2, <1>3, <1>4, <1>5, <1>6, <1>7, <1>8, <1>9, <1>10, <1>11, <1>12, <1>13,
     <1>14, <1>15, <1>16, <1>17
  DEF Next, Display, Encoder, Interrupt

LEMMA MailboxStep == IInv /\ [Next]_vars => Mailbox'
<1> SUFFICES ASSUME TypeOK, Pipeline, BoxInHand, Mailbox, [Next]_vars PROVE Mailbox'
  BY DEF IInv
<1> USE Types DEF Mailbox, NotOlder
<1>1. CASE CameraFrame
  BY <1>1 DEF CameraFrame, model, encoding, mailbox, received
<1>2. CASE Draw
  BY <1>2 DEF Draw, model, encoding, mailbox, received
<1>3. CASE Predict
  <2>1. prediction'.frame = bgr565  BY <1>3 DEF Predict
  <2>2. prediction.frame <= bgr565  BY DEF Pipeline
  <2>3. UNCHANGED <<mailbox, received, telemetry>>  BY <1>3 DEF Predict
  <2> QED  BY <2>1, <2>2, <2>3 DEF mailbox, received
<1>4. CASE TakeModelToken
  BY <1>4 DEF TakeModelToken, model, encoding, mailbox, received
<1>5. CASE WriteLabelId
  <2>1. /\ cm55_msg_data'.label_id.frame \in {prediction.frame, cm55_msg_data.label_id.frame}
        /\ cm55_msg_data'.label = cm55_msg_data.label
    BY <1>5 DEF WriteLabelId, TypeOK, Payloads
  <2>2. ipc_recv_msg.label_id.frame <= prediction.frame
    <3>1. /\ ipc_recv_msg.label_id.frame <= cm55_msg_data.label_id.frame
          /\ cm55_msg_data.label_id.frame <= prediction.frame
      OBVIOUS
    <3> QED  BY <3>1
  <2>3. UNCHANGED <<prediction, received, telemetry>>  BY <1>5 DEF WriteLabelId, model
  <2> QED  BY <2>1, <2>2, <2>3 DEF received
<1>6. CASE WriteLabel
  <2>1. /\ cm55_msg_data'.label.frame = IF display.has_prediction THEN prediction.boxes[display.i]
                                        ELSE prediction.frame
        /\ cm55_msg_data'.label_id = cm55_msg_data.label_id
    BY <1>6 DEF WriteLabel, TypeOK, Payloads
  <2>2. /\ cm55_msg_data.label.frame <= cm55_msg_data'.label.frame
        /\ cm55_msg_data'.label.frame <= prediction.frame
    <3>1. display.has_prediction =>
              /\ prediction.boxes[display.i] \in Nat
              /\ prediction.boxes[display.i] <= prediction.frame
              /\ cm55_msg_data.label.frame <= prediction.boxes[display.i]
      BY <1>6 DEF WriteLabel, BoxInHand, Pipeline
    <3> QED  BY <2>1, <3>1
  <2>3. cm55_msg_data'.label.frame \in Nat
    BY <1>6, <2>1 DEF WriteLabel, BoxInHand
  <2>4. ipc_recv_msg.label.frame <= cm55_msg_data'.label.frame
    <3>1. ipc_recv_msg.label.frame <= cm55_msg_data.label.frame  OBVIOUS
    <3> QED  BY <2>2, <2>3, <3>1
  <2>5. UNCHANGED <<prediction, received, telemetry>>  BY <1>6 DEF WriteLabel, model
  <2> QED  BY <2>1, <2>2, <2>4, <2>5 DEF received
<1>7. CASE SendToCM33
  BY <1>7 DEF SendToCM33, model, encoding, mailbox, received
<1>8. CASE SkipFrame
  BY <1>8 DEF SkipFrame, model, encoding, mailbox, received
<1>9. CASE CopyFrame
  BY <1>9 DEF CopyFrame, model, encoding, mailbox, received
<1>10. CASE SnapshotPredictions
  BY <1>10 DEF SnapshotPredictions, model, encoding, mailbox, received
<1>11. CASE TakeEncoderToken
  BY <1>11 DEF TakeEncoderToken, model, encoding, mailbox, received
<1>12. CASE ConvertTop
  BY <1>12 DEF ConvertTop, model, encoding, mailbox, received
<1>13. CASE ConvertBottom
  BY <1>13 DEF ConvertBottom, model, encoding, mailbox, received
<1>14. CASE ReceiveLabelId
  BY <1>14 DEF ReceiveLabelId, model, encoding, mailbox, received
<1>15. CASE ReceiveLabel
  <2>1. /\ ipc_recv_msg'.label = cm55_msg_data.label
        /\ ipc_recv_msg'.label_id = ipc_recv_msg.label_id
    BY <1>15 DEF ReceiveLabel, TypeOK, Payloads
  <2>2. UNCHANGED <<prediction, cm55_msg_data, telemetry>>  BY <1>15 DEF ReceiveLabel, model
  <2>3. NotOlder(ipc_recv_msg, ipc_recv_msg')
    BY <2>1
  <2>4. NotOlder(ipc_recv_msg', cm55_msg_data')  BY <2>1, <2>2
  <2>5. NotOlder(telemetry', ipc_recv_msg')
    <3>1. NotOlder(telemetry, ipc_recv_msg)  OBVIOUS
    <3> QED  BY <2>1, <2>2, <2>3, <3>1
  <2>6. \/ /\ ipc_last_detection_payload' = ipc_recv_msg'
        \/ UNCHANGED <<ipc_last_detection_payload, ipc_has_saved_detection>>
    BY <1>15 DEF ReceiveLabel
  <2>7. NotOlder(ipc_last_detection_payload', ipc_recv_msg')
    <3>1. NotOlder(ipc_last_detection_payload, ipc_recv_msg)  OBVIOUS
    <3> QED  BY <2>1, <2>3, <2>6, <3>1
  <2>8. ipc_has_saved_detection' => NotOlder(telemetry', ipc_last_detection_payload')
    BY <2>2, <2>5, <2>6
  <2> QED  BY <2>2, <2>4, <2>5, <2>7, <2>8
<1>16. ASSUME NEW sent \in BOOLEAN, PublishTelemetry(sent) PROVE Mailbox'
  BY <1>16 DEF PublishTelemetry, model, encoding, mailbox, received
<1>17. CASE UNCHANGED vars
  BY <1>17 DEF vars, model, encoding, mailbox, received
<1> QED
  BY <1>1, <1>2, <1>3, <1>4, <1>5, <1>6, <1>7, <1>8, <1>9, <1>10, <1>11, <1>12, <1>13,
     <1>14, <1>15, <1>16, <1>17
  DEF Next, Display, Encoder, Interrupt

LEMMA ForwardStep == IInv /\ [Next]_vars => NotOlder(telemetry, telemetry')
<1> SUFFICES ASSUME TypeOK, Mailbox, [Next]_vars PROVE NotOlder(telemetry, telemetry')
  BY DEF IInv
<1> USE Types DEF Mailbox, NotOlder
<1>1. CASE CameraFrame
  BY <1>1 DEF CameraFrame, model, encoding, mailbox, received
<1>2. CASE Draw
  BY <1>2 DEF Draw, model, encoding, mailbox, received
<1>3. CASE Predict
  BY <1>3 DEF Predict, model, encoding, mailbox, received
<1>4. CASE TakeModelToken
  BY <1>4 DEF TakeModelToken, model, encoding, mailbox, received
<1>5. CASE WriteLabelId
  BY <1>5 DEF WriteLabelId, model, encoding, mailbox, received
<1>6. CASE WriteLabel
  BY <1>6 DEF WriteLabel, model, encoding, mailbox, received
<1>7. CASE SendToCM33
  BY <1>7 DEF SendToCM33, model, encoding, mailbox, received
<1>8. CASE SkipFrame
  BY <1>8 DEF SkipFrame, model, encoding, mailbox, received
<1>9. CASE CopyFrame
  BY <1>9 DEF CopyFrame, model, encoding, mailbox, received
<1>10. CASE SnapshotPredictions
  BY <1>10 DEF SnapshotPredictions, model, encoding, mailbox, received
<1>11. CASE TakeEncoderToken
  BY <1>11 DEF TakeEncoderToken, model, encoding, mailbox, received
<1>12. CASE ConvertTop
  BY <1>12 DEF ConvertTop, model, encoding, mailbox, received
<1>13. CASE ConvertBottom
  BY <1>13 DEF ConvertBottom, model, encoding, mailbox, received
<1>14. CASE ReceiveLabelId
  BY <1>14 DEF ReceiveLabelId, model, encoding, mailbox, received
<1>15. CASE ReceiveLabel
  BY <1>15 DEF ReceiveLabel, model, encoding, mailbox, received
<1>16. ASSUME NEW sent \in BOOLEAN, PublishTelemetry(sent) PROVE NotOlder(telemetry, telemetry')
  BY <1>16 DEF PublishTelemetry, model, encoding, mailbox, received
<1>17. CASE UNCHANGED vars
  BY <1>17 DEF vars, model, encoding, mailbox, received
<1> QED
  BY <1>1, <1>2, <1>3, <1>4, <1>5, <1>6, <1>7, <1>8, <1>9, <1>10, <1>11, <1>12, <1>13,
     <1>14, <1>15, <1>16, <1>17
  DEF Next, Display, Encoder, Interrupt

LEMMA Inductive == Spec => []IInv
<1>1. Init => IInv
  <2> SUFFICES ASSUME Init PROVE IInv
    OBVIOUS
  <2>1. 0 \in Frames /\ 0 \in 0 .. MaxBoxes /\ MaxBoxes \in Nat
    BY DetectionAssumption DEF Frames
  <2>2. EmptyPayload \in Payloads
    BY <2>1 DEF EmptyPayload, Nothing, Payloads, Fields
  <2>3. [b \in Boxes |-> 0] \in [Boxes -> Frames]  BY <2>1
  <2>4. TypeOK
    <3>1. prediction \in [frame : Frames, count : 0 .. MaxBoxes, boxes : [Boxes -> Frames]]
      BY <2>1, <2>3 DEF Init
    <3>2. display \in [pc : {"wait", "box", "label", "send", "switch", "snapshot"},
                      i : 0 .. MaxBoxes, has_prediction : BOOLEAN]
      BY <2>1 DEF Init
    <3>3. encoder \in [pc : {"wait", "top", "bottom"}, top : Frames]
      BY <2>1 DEF Init
    <3>4. /\ {camera, bgr565, encoder_frame, encoder_prediction, encoded} \subseteq Frames
          /\ {frame_ready, encoder_semaphore, busy, ipc_has_saved_detection} \subseteq BOOLEAN
      BY <2>1 DEF Init
    <3>5. /\ {cm55_msg_data, ipc_recv_msg, ipc_last_detection_payload, telemetry} \subseteq Payloads
          /\ isr \in {"idle", "copying"} /\ inference \in {"wait", "drawn"}
      BY <2>2 DEF Init
    <3>6. model_semaphore \in 0 .. ModelTokens  BY DEF Init, ModelTokens
    <3> QED  BY <3>1, <3>2, <3>3, <3>4, <3>5, <3>6 DEF TypeOK
  <2>5. Pipeline /\ BoxInHand
    BY DEF Init, Pipeline, BoxInHand, Boxes
  <2>6. Mailbox
    BY DEF Init, Mailbox, NotOlder, EmptyPayload, Nothing
  <2> QED  BY <2>4, <2>5, <2>6 DEF IInv
<1>2. IInv /\ [Next]_vars => IInv'
  BY TypeStep, PipelineStep, BoxInHandStep, MailboxStep DEF IInv
<1> QED  BY <1>1, <1>2, PTL DEF Spec

\* Every variable keeps its type; above all the display task, which sends the
\* boxes of predictions that change under it, never reaches beyond the last box
\* (update_box_data).
THEOREM TypeCorrect == Spec => []TypeOK
<1>1. IInv => TypeOK  BY DEF IInv
<1> QED  BY <1>1, Inductive, PTL

\* What publish_telemetry reports is never older than what it reported before,
\* whatever the mailbox dropped, overwrote or tore.
THEOREM TelemetryForward == Spec => TelemetryGoesForward
<1>1. IInv /\ [Next]_vars => [NotOlder(telemetry, telemetry')]_vars
  BY ForwardStep
<1> QED  BY <1>1, Inductive, PTL DEF Spec, TelemetryGoesForward

=============================================================================
