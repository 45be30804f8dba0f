------------------------- MODULE FramePipelineProofs ------------------------
(***************************************************************************)
(* What FramePipeline guarantees for any number of buffers, encoder        *)
(* objects and messages, and for every setting of the quality controller.  *)
(***************************************************************************)
EXTENDS FramePipeline, QualityControlProofs

(* A render step either counts a frame, or corrects the quality, or leaves *)
(* the controller alone.                                                   *)
LEMMA RenderQuality == RenderStep => [QualityNext]_qualityVars
BY DEF RenderStep, GX2CopyColorBufferToScanBuffer, IsInstanceConnected,
       AllocateColorBuffer, ColorBufferNotAllocated, AllocateImage,
       ImageNotAllocated, CopySurface, ResolveAndCopySurface, TempNotAllocated,
       FreeTempSurface, CopyBufferFailed, GX2DrawDone, SendFrame, DropFrame,
       CorrectQuality, QualityNext

(* Only the render thread uses the controller.                             *)
LEMMA NextQuality == [Next]_vars => [QualityNext]_qualityVars
<1> SUFFICES ASSUME [Next]_vars PROVE [QualityNext]_qualityVars
  OBVIOUS
<1>1. CASE RenderNext
  BY <1>1, RenderQuality DEF RenderNext, Render, GpuFinishes
<1>2. CASE \E h \in Helpers : EncoderNext(h)
  BY <1>2 DEF EncoderNext
<1>3. CASE LoaderNext
  BY <1>3 DEF LoaderNext, LoaderStep, GetHeartBeatServer, GetMJPEGServer, Attach,
              BeginJoin, DestroyHeartBeat, OutsideEncoder
<1>4. CASE Callbacks
  BY <1>4 DEF Callbacks, OnApplicationStart, ResolutionChanged, ScreenChanged,
              OnAppClosed, OnAppStatusChanged, Callback
<1>5. CASE Client
  BY <1>5 DEF Client, ConnectionChanges, TcpStep, OutsideEncoder
<1>6. CASE UNCHANGED vars
  BY <1>6 DEF vars
<1> QED
  BY <1>1, <1>2, <1>3, <1>4, <1>5, <1>6 DEF Next

(* The controller keeps its guarantees inside the pipeline.                *)
LEMMA PipelineQuality == Spec => []QualityInv
<1>1. Init => QualityInv
  BY QualityInvInit DEF Init
<1>2. QualityInv /\ [Next]_vars => QualityInv'
  BY NextQuality, QualityInvStep
<1> QED
  BY <1>1, <1>2, PTL DEF Spec

-----------------------------------------------------------------------------
(* The queue as a set of buffers                                           *)

(* A send adds the buffer to the queue, at the end.                        *)
LEMMA QueuedAppend ==
    ASSUME encodeQueue \in Seq(Buffers), NEW b \in Buffers \ Queued,
           OSSendMessage(b),
           \A i, j \in 1 .. Len(encodeQueue) :
             encodeQueue[i] = encodeQueue[j] => i = j
    PROVE  /\ encodeQueue' \in Seq(Buffers)
           /\ Queued' = Queued \cup {b}
           /\ \A i, j \in 1 .. Len(encodeQueue') :
                encodeQueue'[i] = encodeQueue'[j] => i = j
<1> DEFINE n == Len(encodeQueue)
<1>1. /\ encodeQueue' \in Seq(Buffers)
      /\ Len(encodeQueue') = n + 1
      /\ \A i \in 1 .. n : encodeQueue'[i] = encodeQueue[i]
      /\ encodeQueue'[n + 1] = b
  BY DEF OSSendMessage
<1>2. 1 .. n + 1 = 1 .. n \cup {n + 1} /\ n \in Nat
  OBVIOUS
<1>3. Queued' = Queued \cup {b}
  BY <1>1, <1>2 DEF Queued
<1>4. ASSUME NEW i \in 1 .. n + 1, NEW j \in 1 .. n + 1,
             encodeQueue'[i] = encodeQueue'[j]
      PROVE  i = j
  BY <1>1, <1>2, <1>4 DEF Queued
<1> QED
  BY <1>1, <1>3, <1>4

(* A receive takes the first buffer out of it.                             *)
LEMMA QueuedTail ==
    ASSUME encodeQueue \in Seq(Buffers), encodeQueue # <<>>, OSReceiveMessage,
           \A i, j \in 1 .. Len(encodeQueue) :
             encodeQueue[i] = encodeQueue[j] => i = j
    PROVE  /\ encodeQueue' \in Seq(Buffers)
           /\ Head(encodeQueue) \in Buffers \cap Queued
           /\ Queued' = Queued \ {Head(encodeQueue)}
           /\ \A i, j \in 1 .. Len(encodeQueue') :
                encodeQueue'[i] = encodeQueue'[j] => i = j
<1> DEFINE n == Len(encodeQueue)
<1>1. /\ n \in Nat \ {0}
      /\ Head(encodeQueue) = encodeQueue[1]
      /\ encodeQueue' \in Seq(Buffers)
      /\ Len(encodeQueue') = n - 1
      /\ \A i \in 1 .. n - 1 : encodeQueue'[i] = encodeQueue[i + 1]
  BY DEF OSReceiveMessage
<1>2. Head(encodeQueue) \in Buffers \cap Queued
  BY <1>1 DEF Queued
<1>3. Queued' \subseteq Queued \ {Head(encodeQueue)}
  BY <1>1 DEF Queued
<1>4. ASSUME NEW b \in Queued \ {Head(encodeQueue)}
      PROVE  b \in Queued'
  <2>1. PICK i \in 1 .. n : b = encodeQueue[i]
    BY DEF Queued
  <2>2. i - 1 \in 1 .. n - 1 /\ encodeQueue'[i - 1] = b
    BY <1>1, <2>1
  <2> QED
    BY <1>1, <2>2 DEF Queued
<1>5. \A i, j \in 1 .. Len(encodeQueue') :
         encodeQueue'[i] = encodeQueue'[j] => i = j
  BY <1>1
<1> QED
  BY <1>1, <1>2, <1>3, <1>4, <1>5

(* An empty queue has no members.                                          *)
LEMMA QueuedEmpty == encodeQueue = <<>> => Queued = {}
BY DEF Queued

-----------------------------------------------------------------------------
(* Who holds a frame when.  OneOwner alone is not inductive: whether a     *)
(* thread has a frame in hand, and how much of it is allocated, depends on *)
(* where the thread is; that the GPU is idle depends on it, too; and a     *)
(* thread that is started has nothing in hand because its object is new.   *)

Filled == {"copy", "resolved", "drawDone", "send"}

RenderHolds ==
    /\ colorBuffer # NULL <=> rpc \in {"image", "copyFailed"} \cup Filled
    /\ rpc \in {"image", "copyFailed"} => heap[colorBuffer] = "header"
    /\ rpc \in Filled => heap[colorBuffer] = "image"

EncoderHolds == \A h \in Helpers : frame[h] # NULL <=> epc[h] \in Working

GpuHolds ==
    /\ gpu \subseteq {colorBuffer, TempSurface}
    /\ gpu # {} => rpc \in {"resolved", "drawDone"}
    /\ TempSurface \in gpu => rpc = "resolved"
    /\ tempAllocated <=> rpc = "resolved"

Fresh(h) == h \in Helpers /\ epc[h] = "none" /\ hstate[h] # "unborn"

FreshThread ==
    /\ \A h \in Helpers : hstate[h] = "unborn" => epc[h] = "none"
    /\ instance # NULL => hstate[instance] # "unborn"
    /\ mpc = "get" /\ instance # NULL => epc[instance] = "none"
    /\ mpc \in {"publish", "start"} => Fresh(ref[Loader])
    /\ tpc = "publish" =>
         /\ Fresh(ref[Tcp])
         /\ ref[Tcp] # instance
         /\ mpc \in {"publish", "start"} => ref[Tcp] # ref[Loader]

Ownership == RenderHolds /\ EncoderHolds /\ GpuHolds /\ FreshThread /\ OneOwner

PipelineInv == TypeOK /\ QualityInv /\ Ownership

(* The invariant holds before any thread has run.                          *)
LEMMA PipelineInvInit == Init => PipelineInv
<1> SUFFICES ASSUME Init PROVE PipelineInv
  OBVIOUS
<1> USE DEF Init, FrameInit, RenderInit, EncoderInit
<1>1. QualityInv
  BY QualityInvInit
<1>2. Queued = {}
  BY QueuedEmpty
<1>3. RenderTypeOK
  <2>1. NoSize \in FrameSizes
    BY DEF FrameSizes
  <2>2. QualityTypeOK
    BY <1>1 DEF QualityInv
  <2>3. encodeQueue \in Seq(Buffers)
    OBVIOUS
  <2>4. heap \in [Buffers -> BlockState]
    BY DEF BlockState
  <2>5. /\ gAppStatus \in AppStatus /\ gScreen \in Screens /\ gResolution \in Resolutions
        /\ connected \in BOOLEAN
    BY DEF AppStatus, Screens, Resolutions
  <2> QED
    BY <2>1, <2>2, <2>3, <2>4, <2>5 DEF RenderTypeOK
<1>4. EncoderTypeOK
  BY DEF EncoderTypeOK, NoQuality
<1>5. TypeOK
  BY <1>3, <1>4 DEF TypeOK
<1>6. RenderHolds /\ EncoderHolds /\ GpuHolds /\ FreshThread
  BY DEF RenderHolds, EncoderHolds, GpuHolds, FreshThread, Filled, Working, Fresh
<1>7. OneOwner
  BY <1>2 DEF OneOwner, Captured, Encoding
<1> QED
  BY <1>1, <1>5, <1>6, <1>7 DEF PipelineInv, Ownership

(* Who owns what depends on these variables only.                          *)
LEMMA OneOwnerUnchanged ==
    OneOwner /\ UNCHANGED <<frameVars, colorBuffer, frame>> => OneOwner'
BY DEF OneOwner, frameVars, Captured, Encoding, Queued, Allocated

(* A step of the render thread or the GPU keeps the types.                 *)
LEMMA RenderKeepsTypes == PipelineInv /\ RenderNext => TypeOK'
<1> SUFFICES ASSUME PipelineInv, RenderNext PROVE TypeOK'
  OBVIOUS
<1>1. UNCHANGED <<objectVars, encoderLocals, callerVars, heartBeat, settingsVars,
                  connected>>
  BY DEF RenderNext, Render, GpuFinishes
<1>2. EncoderTypeOK' /\ UNCHANGED <<mpc, mop, tpc, heartBeat>>
  BY <1>1 DEF PipelineInv, TypeOK, EncoderTypeOK, objectVars, encoderLocals, callerVars
<1>3. QualityTypeOK'
  BY NextQuality, QualityInvStep DEF Next, PipelineInv, QualityInv
<1>4. FrameSize(gResolution) \in FrameSizes /\ NoSize \in FrameSizes
  BY DEF FrameSizes, PipelineInv, TypeOK, RenderTypeOK
<1>5. rpc \in {"image", "copyFailed"} \cup Filled => colorBuffer \in Buffers
  BY DEF PipelineInv, Ownership, RenderHolds, TypeOK, RenderTypeOK
<1>6. RenderTypeOK'
  <2> USE <1>1, <1>3, <1>4, <1>5
      DEF PipelineInv, TypeOK, RenderTypeOK, renderLocals, frameVars, settingsVars,
          SetBlock, FreeFrame, BlockState, LeaveStreamVideo, Filled
  <2>1. ASSUME NEW t \in ScanTargets, GX2CopyColorBufferToScanBuffer(t)
        PROVE  RenderTypeOK'
    BY <2>1 DEF GX2CopyColorBufferToScanBuffer
  <2>2. CASE IsInstanceConnected
    BY <2>2 DEF IsInstanceConnected
  <2>3. CASE AllocateColorBuffer
    BY <2>3 DEF AllocateColorBuffer
  <2>4. CASE ColorBufferNotAllocated
    BY <2>4 DEF ColorBufferNotAllocated
  <2>5. CASE AllocateImage
    BY <2>5 DEF AllocateImage
  <2>6. CASE ImageNotAllocated
    BY <2>6 DEF ImageNotAllocated
  <2>7. CASE CopySurface
    BY <2>7 DEF CopySurface
  <2>8. CASE ResolveAndCopySurface
    BY <2>8 DEF ResolveAndCopySurface
  <2>9. CASE TempNotAllocated
    BY <2>9 DEF TempNotAllocated
  <2>10. CASE FreeTempSurface
    BY <2>10 DEF FreeTempSurface
  <2>11. CASE CopyBufferFailed
    BY <2>11 DEF CopyBufferFailed
  <2>12. CASE GX2DrawDone
    BY <2>12 DEF GX2DrawDone
  <2>13. CASE SendFrame
    BY <2>13 DEF SendFrame, OSSendMessage
  <2>14. CASE DropFrame
    BY <2>14 DEF DropFrame
  <2>15. CASE CorrectQuality
    BY <2>15 DEF CorrectQuality
  <2>16. CASE GpuFinishes
    BY <2>16 DEF GpuFinishes
  <2> QED
    BY <2>1, <2>2, <2>3, <2>4, <2>5, <2>6, <2>7, <2>8, <2>9, <2>10, <2>11, <2>12, <2>13, <2>14, <2>15, <2>16 DEF RenderNext, Render, RenderStep
<1> QED
  BY <1>2, <1>6 DEF PipelineInv, TypeOK
(* It keeps what the render thread and the GPU hold in step with rpc.      *)
LEMMA RenderKeepsHolds == PipelineInv /\ RenderNext => RenderHolds' /\ GpuHolds'
<1> SUFFICES ASSUME PipelineInv, RenderNext PROVE RenderHolds' /\ GpuHolds'
  OBVIOUS
<1>1. /\ rpc \in {"image", "copyFailed"} \cup Filled => colorBuffer \in Buffers
      /\ heap \in [Buffers -> BlockState]
      /\ RenderHolds /\ GpuHolds
  BY DEF PipelineInv, Ownership, RenderHolds, TypeOK, RenderTypeOK
<1> USE <1>1, FrameQueueAssumption, TempSurfaceAssumption
    DEF RenderHolds, GpuHolds, Filled, renderLocals, frameVars
<1>2. ASSUME NEW t \in ScanTargets, GX2CopyColorBufferToScanBuffer(t)
      PROVE  RenderHolds' /\ GpuHolds'
  BY <1>2 DEF GX2CopyColorBufferToScanBuffer
<1>3. CASE IsInstanceConnected
  BY <1>3 DEF IsInstanceConnected
<1>4. CASE AllocateColorBuffer
  BY <1>4 DEF AllocateColorBuffer, SetBlock, Allocated
<1>5. CASE ColorBufferNotAllocated
  BY <1>5 DEF ColorBufferNotAllocated, LeaveStreamVideo
<1>6. CASE AllocateImage
  BY <1>6 DEF AllocateImage, SetBlock
<1>7. CASE ImageNotAllocated
  BY <1>7 DEF ImageNotAllocated
<1>8. CASE CopySurface
  BY <1>8 DEF CopySurface
<1>9. CASE ResolveAndCopySurface
  BY <1>9 DEF ResolveAndCopySurface
<1>10. CASE TempNotAllocated
  BY <1>10 DEF TempNotAllocated, SetBlock
<1>11. CASE FreeTempSurface
  BY <1>11 DEF FreeTempSurface
<1>12. CASE CopyBufferFailed
  BY <1>12 DEF CopyBufferFailed, FreeFrame, SetBlock, LeaveStreamVideo
<1>13. CASE GX2DrawDone
  BY <1>13 DEF GX2DrawDone
<1>14. CASE SendFrame
  BY <1>14 DEF SendFrame, LeaveStreamVideo
<1>15. CASE DropFrame
  BY <1>15 DEF DropFrame, FreeFrame, SetBlock, LeaveStreamVideo
<1>16. CASE CorrectQuality
  BY <1>16 DEF CorrectQuality
<1>17. CASE GpuFinishes
  BY <1>17 DEF GpuFinishes
<1> QED
  BY <1>2, <1>3, <1>4, <1>5, <1>6, <1>7, <1>8, <1>9, <1>10, <1>11, <1>12, <1>13, <1>14, <1>15, <1>16, <1>17 DEF RenderNext, Render, RenderStep

(* It keeps every frame with its one owner.                                *)
LEMMA RenderKeepsOwner == PipelineInv /\ RenderNext => OneOwner'
<1> SUFFICES ASSUME PipelineInv, RenderNext PROVE OneOwner'
  OBVIOUS
<1>1. /\ rpc \in {"image", "copyFailed"} \cup Filled => colorBuffer \in Buffers
      /\ heap \in [Buffers -> BlockState] /\ encodeQueue \in Seq(Buffers)
      /\ RenderHolds /\ OneOwner
  BY DEF PipelineInv, Ownership, RenderHolds, TypeOK, RenderTypeOK
<1>2. UNCHANGED frame
  BY DEF RenderNext, encoderLocals
<1>3. Encoding' = Encoding
  BY <1>2 DEF Encoding
<1>4. encodeQueue' = encodeQueue => Queued' = Queued
  BY DEF Queued
<1> USE <1>1, <1>2, FrameQueueAssumption DEF Filled, renderLocals, frameVars
<1>5. ASSUME NEW t \in ScanTargets, GX2CopyColorBufferToScanBuffer(t)
      PROVE  OneOwner'
  BY <1>5, OneOwnerUnchanged DEF GX2CopyColorBufferToScanBuffer
<1>6. CASE IsInstanceConnected
  BY <1>6, OneOwnerUnchanged DEF IsInstanceConnected
<1>7. CASE AllocateColorBuffer
  BY <1>7, <1>3, <1>4 DEF AllocateColorBuffer, SetBlock, Allocated, RenderHolds, OneOwner, Captured, Allocated
<1>8. CASE ColorBufferNotAllocated
  BY <1>8, <1>3, <1>4 DEF ColorBufferNotAllocated, LeaveStreamVideo, RenderHolds, OneOwner, Captured, Allocated
<1>9. CASE AllocateImage
  BY <1>9, <1>3, <1>4 DEF AllocateImage, SetBlock, RenderHolds, OneOwner, Captured, Allocated
<1>10. CASE ImageNotAllocated
  BY <1>10, OneOwnerUnchanged DEF ImageNotAllocated
<1>11. CASE CopySurface
  BY <1>11, OneOwnerUnchanged DEF CopySurface
<1>12. CASE ResolveAndCopySurface
  BY <1>12, OneOwnerUnchanged DEF ResolveAndCopySurface
<1>13. CASE TempNotAllocated
  BY <1>13, <1>3, <1>4 DEF TempNotAllocated, SetBlock, RenderHolds, OneOwner, Captured, Allocated
<1>14. CASE FreeTempSurface
  BY <1>14, OneOwnerUnchanged DEF FreeTempSurface
<1>15. CASE CopyBufferFailed
  BY <1>15, <1>3, <1>4 DEF CopyBufferFailed, FreeFrame, SetBlock, LeaveStreamVideo, RenderHolds, OneOwner, Captured, Allocated
<1>16. CASE GX2DrawDone
  BY <1>16, OneOwnerUnchanged DEF GX2DrawDone
<1>17. CASE SendFrame
  <2>1. colorBuffer \in Buffers \ Queued /\ heap[colorBuffer] = "image"
    BY <1>17 DEF SendFrame, RenderHolds, OneOwner, Captured
  <2>2. /\ Queued' = Queued \cup {colorBuffer}
        /\ \A i, j \in 1 .. Len(encodeQueue') :
              encodeQueue'[i] = encodeQueue'[j] => i = j
    BY <1>17, <2>1, QueuedAppend DEF SendFrame, OneOwner
  <2> QED
    BY <1>17, <1>3, <2>1, <2>2 DEF SendFrame, LeaveStreamVideo, OneOwner, Captured
<1>18. CASE DropFrame
  BY <1>18, <1>3, <1>4 DEF DropFrame, FreeFrame, SetBlock, LeaveStreamVideo, RenderHolds, OneOwner, Captured, Allocated
<1>19. CASE CorrectQuality
  BY <1>19, OneOwnerUnchanged DEF CorrectQuality
<1>20. CASE GpuFinishes
  BY <1>20, OneOwnerUnchanged DEF GpuFinishes
<1> QED
  BY <1>5, <1>6, <1>7, <1>8, <1>9, <1>10, <1>11, <1>12, <1>13, <1>14, <1>15, <1>16, <1>17, <1>18, <1>19, <1>20 DEF RenderNext, Render, RenderStep

(* Together: what the render thread and the GPU do keeps the invariant.    *)
LEMMA RenderKeepsInv == PipelineInv /\ RenderNext => PipelineInv'
<1> SUFFICES ASSUME PipelineInv, RenderNext PROVE PipelineInv'
  OBVIOUS
<1>1. QualityInv'
  BY NextQuality, QualityInvStep DEF Next, PipelineInv
<1>2. EncoderHolds' /\ FreshThread'
  BY DEF RenderNext, PipelineInv, Ownership, EncoderHolds, FreshThread, Fresh,
         objectVars, encoderLocals, callerVars
<1> QED
  BY <1>1, <1>2, RenderKeepsTypes, RenderKeepsHolds, RenderKeepsOwner
     DEF PipelineInv, Ownership

-----------------------------------------------------------------------------
(* The encoder threads                                                     *)

(* A step of an encoder thread keeps the types.                            *)
LEMMA EncoderKeepsTypes ==
    ASSUME PipelineInv, NEW h \in Helpers, EncoderNext(h)
    PROVE  TypeOK'
<1>1. UNCHANGED <<qualityVars, settingsVars, connected, renderLocals, callerVars,
                  heartBeat>>
  BY DEF EncoderNext
<1>2. RenderTypeOK /\ EncoderTypeOK /\ curQuality \in Int
  BY DEF PipelineInv, TypeOK, RenderTypeOK, QualityTypeOK
<1>3. UNCHANGED <<mpc, mop, tpc, ref, heartBeat>>
  BY <1>1 DEF callerVars
<1>4. /\ EncoderTypeOK'
      /\ heap' \in [Buffers -> BlockState] /\ encodeQueue' \in Seq(Buffers)
  <2> USE <1>2, <1>3 DEF RenderTypeOK, EncoderTypeOK, EncoderAt, Working, objectVars,
          encoderLocals, frameVars, NoQuality
  <2>1. CASE ThreadRuns(h)
    BY <2>1 DEF ThreadRuns
  <2>2. CASE ThreadEntersLoop(h)
    BY <2>2 DEF ThreadEntersLoop
  <2>3. CASE NothingReceived(h)
    BY <2>3 DEF NothingReceived
  <2>4. CASE KeepRunning(h)
    BY <2>4 DEF KeepRunning
  <2>5. CASE LeaveLoop(h)
    BY <2>5 DEF LeaveLoop
  <2>6. CASE ThreadStops(h)
    BY <2>6 DEF ThreadStops
  <2>7. CASE BeginConvert(h, curQuality)
    BY <2>7 DEF BeginConvert
  <2>8. CASE Converted(h)
    BY <2>8 DEF Converted
  <2>9. CASE NoCompressor(h) \/ ConvertFailed(h)
    <3>1. CASE NoCompressor(h)
      BY <3>1 DEF NoCompressor
    <3>2. CASE ConvertFailed(h)
      BY <3>2 DEF ConvertFailed, DestroyHandle
    <3> QED
      BY <2>9, <3>1, <3>2
  <2>10. CASE NobodyToStreamTo(h)
    BY <2>10 DEF NobodyToStreamTo, DestroyHandle
  <2>11. CASE BeginStreamJPEG(h)
    BY <2>11 DEF BeginStreamJPEG
  <2>12. CASE EndStreamJPEG(h)
    BY <2>12 DEF EndStreamJPEG, DestroyHandle
  <2>13. CASE ReceiveFrame(h)
    BY <2>13 DEF ReceiveFrame, OSReceiveMessage
  <2>14. CASE ReleaseFrame(h)
    BY <2>14 DEF ReleaseFrame, FreeFrame, SetBlock, BlockState
  <2> QED
    BY <2>1, <2>2, <2>3, <2>4, <2>5, <2>6, <2>7, <2>8, <2>9, <2>10, <2>11, <2>12, <2>13, <2>14
       DEF EncoderNext, EncoderStep
<1>5. RenderTypeOK'
  BY <1>1, <1>2, <1>4 DEF RenderTypeOK, QualityTypeOK, qualityVars, settingsVars,
                          renderLocals
<1> QED
  BY <1>3, <1>4, <1>5 DEF TypeOK, PipelineInv

(* It has a frame in hand from the receive to the release, and a thread    *)
(* that was not started does not move.                                     *)
LEMMA EncoderKeepsHolds ==
    ASSUME PipelineInv, NEW h \in Helpers, EncoderNext(h)
    PROVE  EncoderHolds' /\ FreshThread'
<1>1. /\ EncoderTypeOK /\ encodeQueue \in Seq(Buffers)
      /\ EncoderHolds /\ FreshThread
  BY DEF PipelineInv, TypeOK, RenderTypeOK, Ownership
<1>2. UNCHANGED <<mpc, tpc, ref>>
  BY DEF EncoderNext, callerVars
<1>3. UNCHANGED <<instance, hstate>> /\ epc[h] # "none" /\ \E there : epc' = [epc EXCEPT ![h] = there]
  <2> USE DEF EncoderAt, objectVars
  <2>1. CASE ThreadRuns(h)
    BY <2>1 DEF ThreadRuns
  <2>2. CASE ThreadEntersLoop(h)
    BY <2>2 DEF ThreadEntersLoop
  <2>3. CASE NothingReceived(h)
    BY <2>3 DEF NothingReceived
  <2>4. CASE KeepRunning(h)
    BY <2>4 DEF KeepRunning
  <2>5. CASE LeaveLoop(h)
    BY <2>5 DEF LeaveLoop
  <2>6. CASE ThreadStops(h)
    BY <2>6 DEF ThreadStops
  <2>7. CASE BeginConvert(h, curQuality)
    BY <2>7 DEF BeginConvert
  <2>8. CASE Converted(h)
    BY <2>8 DEF Converted
  <2>9. CASE NoCompressor(h) \/ ConvertFailed(h)
    BY <2>9 DEF NoCompressor, ConvertFailed
  <2>10. CASE NobodyToStreamTo(h)
    BY <2>10 DEF NobodyToStreamTo
  <2>11. CASE BeginStreamJPEG(h)
    BY <2>11 DEF BeginStreamJPEG
  <2>12. CASE EndStreamJPEG(h)
    BY <2>12 DEF EndStreamJPEG
  <2>13. CASE ReceiveFrame(h)
    BY <2>13 DEF ReceiveFrame
  <2>14. CASE ReleaseFrame(h)
    BY <2>14 DEF ReleaseFrame
  <2> QED
    BY <2>1, <2>2, <2>3, <2>4, <2>5, <2>6, <2>7, <2>8, <2>9, <2>10, <2>11, <2>12, <2>13, <2>14
       DEF EncoderNext, EncoderStep
<1>4. FreshThread'
  BY <1>1, <1>2, <1>3 DEF FreshThread, Fresh, EncoderTypeOK
<1>5. EncoderHolds'
  <2> USE <1>1, FrameQueueAssumption DEF EncoderHolds, EncoderTypeOK, EncoderAt, Working
  <2>1. CASE ThreadRuns(h)
    BY <2>1 DEF ThreadRuns
  <2>2. CASE ThreadEntersLoop(h)
    BY <2>2 DEF ThreadEntersLoop
  <2>3. CASE NothingReceived(h)
    BY <2>3 DEF NothingReceived
  <2>4. CASE KeepRunning(h)
    BY <2>4 DEF KeepRunning
  <2>5. CASE LeaveLoop(h)
    BY <2>5 DEF LeaveLoop
  <2>6. CASE ThreadStops(h)
    BY <2>6 DEF ThreadStops
  <2>7. CASE BeginConvert(h, curQuality)
    BY <2>7 DEF BeginConvert
  <2>8. CASE Converted(h)
    BY <2>8 DEF Converted
  <2>9. CASE NoCompressor(h) \/ ConvertFailed(h)
    BY <2>9 DEF NoCompressor, ConvertFailed
  <2>10. CASE NobodyToStreamTo(h)
    BY <2>10 DEF NobodyToStreamTo
  <2>11. CASE BeginStreamJPEG(h)
    BY <2>11 DEF BeginStreamJPEG
  <2>12. CASE EndStreamJPEG(h)
    BY <2>12 DEF EndStreamJPEG
  <2>13. CASE ReceiveFrame(h)
    BY <2>13 DEF ReceiveFrame
  <2>14. CASE ReleaseFrame(h)
    BY <2>14 DEF ReleaseFrame
  <2> QED
    BY <2>1, <2>2, <2>3, <2>4, <2>5, <2>6, <2>7, <2>8, <2>9, <2>10, <2>11, <2>12, <2>13, <2>14
       DEF EncoderNext, EncoderStep
<1> QED
  BY <1>4, <1>5

(* It keeps every frame with its one owner.                                *)
LEMMA EncoderKeepsOwner ==
    ASSUME PipelineInv, NEW h \in Helpers, EncoderNext(h)
    PROVE  OneOwner'
<1>1. /\ EncoderTypeOK /\ encodeQueue \in Seq(Buffers) /\ heap \in [Buffers -> BlockState]
      /\ EncoderHolds /\ OneOwner
  BY DEF PipelineInv, TypeOK, RenderTypeOK, Ownership
<1>2. UNCHANGED colorBuffer /\ Captured' = Captured
  BY DEF EncoderNext, renderLocals, Captured
<1>3. CASE ThreadRuns(h)
  BY <1>3, <1>1, <1>2, OneOwnerUnchanged DEF ThreadRuns
<1>4. CASE ThreadEntersLoop(h)
  BY <1>4, <1>1, <1>2, OneOwnerUnchanged DEF ThreadEntersLoop
<1>5. CASE NothingReceived(h)
  BY <1>5, <1>1, <1>2, OneOwnerUnchanged DEF NothingReceived
<1>6. CASE KeepRunning(h)
  BY <1>6, <1>1, <1>2, OneOwnerUnchanged DEF KeepRunning
<1>7. CASE LeaveLoop(h)
  BY <1>7, <1>1, <1>2, OneOwnerUnchanged DEF LeaveLoop
<1>8. CASE ThreadStops(h)
  BY <1>8, <1>1, <1>2, OneOwnerUnchanged DEF ThreadStops
<1>9. CASE BeginConvert(h, curQuality)
  BY <1>9, <1>1, <1>2, OneOwnerUnchanged DEF BeginConvert
<1>10. CASE Converted(h)
  BY <1>10, <1>1, <1>2, OneOwnerUnchanged DEF Converted
<1>11. CASE NoCompressor(h) \/ ConvertFailed(h)
  BY <1>11, <1>1, <1>2, OneOwnerUnchanged DEF NoCompressor, ConvertFailed
<1>12. CASE NobodyToStreamTo(h)
  BY <1>12, <1>1, <1>2, OneOwnerUnchanged DEF NobodyToStreamTo
<1>13. CASE BeginStreamJPEG(h)
  BY <1>13, <1>1, <1>2, OneOwnerUnchanged DEF BeginStreamJPEG
<1>14. CASE EndStreamJPEG(h)
  BY <1>14, <1>1, <1>2, OneOwnerUnchanged DEF EndStreamJPEG
<1>15. CASE ReceiveFrame(h)
  <2>1. /\ Head(encodeQueue) \in Buffers \cap Queued
        /\ Queued' = Queued \ {Head(encodeQueue)}
        /\ \A i, j \in 1 .. Len(encodeQueue') :
              encodeQueue'[i] = encodeQueue'[j] => i = j
    BY <1>1, <1>15, QueuedTail DEF ReceiveFrame, OneOwner
  <2>2. /\ frame' = [frame EXCEPT ![h] = Head(encodeQueue)] /\ UNCHANGED heap
        /\ frame[h] = NULL
    BY <1>1, <1>15 DEF ReceiveFrame, EncoderAt, EncoderHolds, Working
  <2>3. Encoding' = Encoding \cup {Head(encodeQueue)}
    BY <1>1, <2>1, <2>2, FrameQueueAssumption DEF Encoding, EncoderTypeOK
  <2> QED
    BY <1>1, <1>2, <2>1, <2>2, <2>3 DEF OneOwner, Allocated, EncoderTypeOK, Encoding
<1>16. CASE ReleaseFrame(h)
  <2>1. /\ frame' = [frame EXCEPT ![h] = NULL] /\ UNCHANGED encodeQueue
        /\ heap' = [heap EXCEPT ![frame[h]] = "free"]
        /\ frame[h] \in Encoding
    BY <1>1, <1>16 DEF ReleaseFrame, EncoderAt, EncoderHolds, Working, FreeFrame, SetBlock, Encoding
  <2>2. Encoding' = Encoding \ {frame[h]} /\ Queued' = Queued
    BY <1>1, <2>1, FrameQueueAssumption DEF Encoding, EncoderTypeOK, OneOwner, Queued
  <2> QED
    BY <1>1, <1>2, <2>1, <2>2 DEF OneOwner, Allocated, EncoderTypeOK
<1> QED
  BY <1>3, <1>4, <1>5, <1>6, <1>7, <1>8, <1>9, <1>10, <1>11, <1>12, <1>13, <1>14, <1>15, <1>16
     DEF EncoderNext, EncoderStep

(* The render thread's frame stays as it is: an encoder thread frees only  *)
(* what it has in hand itself.                                             *)
LEMMA EncoderKeepsRender ==
    ASSUME PipelineInv, NEW h \in Helpers, EncoderNext(h)
    PROVE  RenderHolds' /\ GpuHolds'
<1>1. /\ UNCHANGED renderLocals
      /\ heap \in [Buffers -> BlockState] /\ colorBuffer \in Buffers \cup {NULL}
      /\ RenderHolds /\ GpuHolds
  BY DEF EncoderNext, PipelineInv, TypeOK, RenderTypeOK, Ownership
<1>2. colorBuffer # NULL => heap'[colorBuffer] = heap[colorBuffer]
  <2>1. CASE UNCHANGED heap
    BY <2>1
  <2>2. CASE ReleaseFrame(h)
    <3>1. frame[h] \in Encoding /\ heap' = [heap EXCEPT ![frame[h]] = "free"]
      BY <2>2 DEF ReleaseFrame, FreeFrame, SetBlock, EncoderAt, Working, Encoding,
                  PipelineInv, Ownership, EncoderHolds
    <3>2. colorBuffer # NULL => colorBuffer \notin Encoding
      BY DEF PipelineInv, Ownership, OneOwner, Captured
    <3> QED
      BY <1>1, <3>1, <3>2
  <2> QED
    BY <2>1, <2>2
       DEF EncoderNext, EncoderStep, frameVars, ThreadRuns, ThreadEntersLoop, ReceiveFrame, NothingReceived, KeepRunning,
           LeaveLoop, ThreadStops, BeginConvert, NoCompressor, Converted,
           ConvertFailed, NobodyToStreamTo, BeginStreamJPEG, EndStreamJPEG
<1> QED
  BY <1>1, <1>2 DEF RenderHolds, GpuHolds, Filled, renderLocals

(* Together: what an encoder thread does keeps the invariant.              *)
LEMMA EncoderKeepsInv ==
    ASSUME PipelineInv, NEW h \in Helpers, EncoderNext(h)
    PROVE  PipelineInv'
<1>1. QualityInv'
  BY NextQuality, QualityInvStep DEF Next, PipelineInv
<1> QED
  BY <1>1, EncoderKeepsTypes, EncoderKeepsHolds, EncoderKeepsOwner, EncoderKeepsRender
     DEF PipelineInv, Ownership

-----------------------------------------------------------------------------
(* The loader thread and the TCP thread                                    *)

(* None of their steps touches a frame, but for the construction of an     *)
(* object, which empties the queue.                                        *)
LEMMA OthersKeepOwner ==
    ASSUME PipelineInv, UNCHANGED <<heap, renderLocals, frame>>,
           UNCHANGED encodeQueue \/ OSInitMessageQueue
    PROVE  OneOwner' /\ RenderHolds' /\ GpuHolds'
<1>1. OneOwner /\ RenderHolds /\ GpuHolds
  BY DEF PipelineInv, Ownership
<1>2. RenderHolds' /\ GpuHolds'
  BY <1>1 DEF RenderHolds, GpuHolds, Filled, renderLocals
<1>3. CASE UNCHANGED encodeQueue
  BY <1>1, <1>2, <1>3, OneOwnerUnchanged DEF frameVars, renderLocals
<1>4. CASE OSInitMessageQueue
  <2>1. encodeQueue' = <<>> /\ Queued' = {}
    BY <1>4 DEF OSInitMessageQueue, Queued
  <2>2. Captured' = Captured /\ Encoding' = Encoding /\ Allocated' = Allocated
    BY DEF renderLocals, Captured, Encoding, Allocated
  <2>3. OneOwner'
    BY <1>1, <2>1, <2>2 DEF OneOwner
  <2> QED
    BY <1>2, <2>3
<1> QED
  BY <1>3, <1>4

(* The callbacks change settings and flags only, and so do clients that    *)
(* come and go.                                                            *)
LEMMA CallbacksKeepInv ==
    PipelineInv /\ (Callbacks \/ ConnectionChanges) => PipelineInv'
<1> SUFFICES ASSUME PipelineInv, Callbacks \/ ConnectionChanges PROVE PipelineInv'
  OBVIOUS
<1>1. QualityInv'
  BY NextQuality, QualityInvStep DEF Next, Client, PipelineInv
<1> USE DEF Callbacks, OnApplicationStart, ResolutionChanged, ScreenChanged,
         OnAppClosed, OnAppStatusChanged, Callback, Client, ConnectionChanges
<1>2. UNCHANGED <<frameVars, qualityVars, renderLocals, hstate, encoderLocals, tpc,
                  ref, instance>>
  BY DEF objectVars, callerVars
<1>3. OneOwner' /\ RenderHolds' /\ GpuHolds'
  BY <1>2, OthersKeepOwner DEF frameVars, encoderLocals
<1>4. EncoderHolds'
  BY <1>2 DEF PipelineInv, Ownership, EncoderHolds, encoderLocals
<1>5. FreshThread'
  BY <1>2 DEF PipelineInv, Ownership, FreshThread, Fresh, encoderLocals, callerVars
<1>6. gAppStatus' \in AppStatus /\ gScreen' \in Screens /\ gResolution' \in Resolutions
  BY LoaderAssumption DEF PipelineInv, TypeOK, RenderTypeOK, AppStatus, Screens, settingsVars
<1>7. connected' \in BOOLEAN
  BY DEF PipelineInv, TypeOK, RenderTypeOK
<1>8. RenderTypeOK'
  BY <1>1, <1>2, <1>6, <1>7 DEF PipelineInv, TypeOK, RenderTypeOK, QualityInv, renderLocals, frameVars
<1>9. EncoderTypeOK'
  BY <1>2 DEF PipelineInv, TypeOK, EncoderTypeOK, objectVars, encoderLocals
<1>10. /\ mpc' \in {"idle", "stop", "wait", "delete", "forget", "get", "construct",
                    "publish", "start", "getAgain", "getHeartBeat", "getServer",
                    "attach", "destroyed", "join"}
       /\ mop' \in {"none", "restart", "close"} /\ heartBeat' \in BOOLEAN
       /\ tpc' \in {"idle", "construct", "publish", "set"}
  BY DEF PipelineInv, TypeOK, callerVars
<1> QED
  BY <1>1, <1>3, <1>4, <1>5, <1>8, <1>9, <1>10 DEF PipelineInv, Ownership, TypeOK

(* What the calls of one thread on the encoder leave alone, and the types  *)
(* of what they do not.                                                    *)
LEMMA CallKeepsRender ==
    ASSUME PipelineInv,
           UNCHANGED <<heap, qualityVars, connected, renderLocals, settingsVars, frame>>,
           UNCHANGED encodeQueue \/ OSInitMessageQueue
    PROVE  RenderTypeOK' /\ QualityInv' /\ OneOwner' /\ RenderHolds' /\ GpuHolds'
<1>1. QualityInv'
  BY QualityInvStep DEF PipelineInv
<1>2. OneOwner' /\ RenderHolds' /\ GpuHolds'
  BY OthersKeepOwner
<1>3. encodeQueue' \in Seq(Buffers)
  <2>1. encodeQueue \in Seq(Buffers) /\ <<>> \in Seq(Buffers)
    BY DEF PipelineInv, TypeOK, RenderTypeOK
  <2> QED
    BY <2>1 DEF OSInitMessageQueue
<1>4. RenderTypeOK'
  BY <1>1, <1>3 DEF PipelineInv, TypeOK, RenderTypeOK, QualityInv, renderLocals,
                    settingsVars
<1> QED
  BY <1>1, <1>2, <1>4

(* The loader thread starts only a thread whose object is new.             *)
LEMMA LoaderStepKeepsInv == PipelineInv /\ (LoaderStep \/ Attach) => PipelineInv'
<1> SUFFICES ASSUME PipelineInv, LoaderStep \/ Attach PROVE PipelineInv'
  OBVIOUS
<1>1. /\ UNCHANGED <<heap, qualityVars, connected, renderLocals, settingsVars, frame>>
      /\ UNCHANGED encodeQueue \/ OSInitMessageQueue
  BY DEF LoaderStep, Attach, OutsideEncoder, frameVars, encoderLocals,
         StopAsyncThread, ThreadSeenStopped, DeleteInstance, ForgetInstance,
         ConstructInstance, PublishInstance, StartAsyncThread, InstanceFound,
         SetMJPEGStreamServer
<1>2. RenderTypeOK' /\ QualityInv' /\ OneOwner' /\ RenderHolds' /\ GpuHolds'
  BY <1>1, CallKeepsRender
<1>3. EncoderTypeOK /\ EncoderHolds /\ FreshThread
  BY DEF PipelineInv, TypeOK, Ownership
<1>4. UNCHANGED tpc
  BY DEF LoaderStep, Attach
<1>5. /\ EncoderTypeOK' /\ EncoderHolds' /\ FreshThread'
      /\ mpc' \in {"idle", "stop", "wait", "delete", "forget", "get", "construct",
                   "publish", "start", "getAgain", "getHeartBeat", "getServer",
                    "attach", "destroyed", "join"}
  <2> USE <1>3, <1>4, HelperAssumption, FrameQueueAssumption, LoaderAssumption
      DEF LoaderAt, EncoderTypeOK, EncoderHolds, FreshThread, Fresh, objectVars,
          encoderLocals, AfterDestroy, Working
  <2>1. CASE LoaderAt("stop", "wait") /\ StopAsyncThread
    BY <2>1 DEF StopAsyncThread
  <2>2. CASE /\ LoaderAt("stop", AfterDestroy) /\ InstanceMissing
             /\ UNCHANGED <<objectVars, ref, encoderLocals, encodeQueue>>
    BY <2>2 DEF InstanceMissing
  <2>3. CASE LoaderAt("wait", "delete") /\ ThreadSeenStopped
    BY <2>3 DEF ThreadSeenStopped
  <2>4. CASE LoaderAt("delete", "forget") /\ DeleteInstance
    BY <2>4 DEF DeleteInstance
  <2>5. CASE LoaderAt("forget", AfterDestroy) /\ ForgetInstance
    BY <2>5 DEF ForgetInstance
  <2>6. CASE LoaderAt("get", "start") /\ InstanceFound(Loader)
    BY <2>6 DEF InstanceFound
  <2>7. CASE /\ LoaderAt("get", "construct")
             /\ UNCHANGED <<objectVars, ref, encoderLocals, encodeQueue>>
    BY <2>7
  <2>8. CASE LoaderAt("construct", "publish") /\ ConstructInstance(Loader)
    BY <2>8 DEF ConstructInstance
  <2>9. CASE LoaderAt("publish", "start") /\ PublishInstance(Loader)
    BY <2>9 DEF PublishInstance
  <2>10. CASE LoaderAt("start", "getAgain") /\ StartAsyncThread(Loader)
    BY <2>10 DEF StartAsyncThread
  <2>11. CASE LoaderAt("getAgain", "getHeartBeat") /\ InstanceFound(Loader)
    BY <2>11 DEF InstanceFound
  <2>12. CASE Attach
    <3>1. PICK server \in Servers \cup {NULL} : SetMJPEGStreamServer(Loader, server)
      BY <2>12 DEF Attach
    <3>2. /\ mpc' = "idle"
          /\ UNCHANGED <<instance, hstate, serverRunning, shouldExit, ref, encoderLocals>>
          /\ mjpegServer' \in [Helpers -> Servers \cup {NULL}]
      BY <2>12, <3>1 DEF Attach, SetMJPEGStreamServer
    <3> QED
      BY <3>2
  <2> QED
    BY <2>1, <2>2, <2>3, <2>4, <2>5, <2>6, <2>7, <2>8, <2>9, <2>10, <2>11, <2>12
       DEF LoaderStep
<1>6. mop' \in {"none", "restart", "close"} /\ heartBeat' \in BOOLEAN
  BY DEF LoaderStep, Attach, PipelineInv, TypeOK
<1> QED
  BY <1>2, <1>4, <1>5, <1>6 DEF PipelineInv, TypeOK, Ownership

(* The life of a HeartBeatServer is nothing to the encoder.                *)
HeartBeatStep ==
    GetHeartBeatServer \/ GetMJPEGServer \/ BeginJoin \/ DestroyHeartBeat

LEMMA HeartBeatKeepsInv == PipelineInv /\ HeartBeatStep => PipelineInv'
<1> SUFFICES ASSUME PipelineInv, HeartBeatStep PROVE PipelineInv'
  OBVIOUS
<1>1. /\ UNCHANGED <<frameVars, qualityVars, settingsVars, renderLocals, objectVars,
                     encoderLocals, tpc, ref>>
      /\ mpc \in {"destroyed", "join", "getHeartBeat", "getServer"}
      /\ mpc' \in {"join", "idle", "getServer", "attach"}
      /\ mop' \in {mop, "none"} /\ heartBeat' \in {heartBeat, FALSE, TRUE}
      /\ connected' \in {connected, FALSE}
  BY DEF HeartBeatStep, GetHeartBeatServer, GetMJPEGServer, BeginJoin,
         DestroyHeartBeat, LoaderAt
<1>2. QualityInv'
  BY <1>1, QualityInvStep DEF PipelineInv
<1>3. OneOwner' /\ RenderHolds' /\ GpuHolds'
  BY <1>1, OthersKeepOwner DEF frameVars, encoderLocals
<1>4. EncoderHolds' /\ FreshThread'
  BY <1>1 DEF PipelineInv, Ownership, EncoderHolds, FreshThread, Fresh, objectVars,
              encoderLocals
<1>5. RenderTypeOK' /\ EncoderTypeOK'
  BY <1>1, <1>2 DEF PipelineInv, TypeOK, RenderTypeOK, EncoderTypeOK, QualityInv,
                    frameVars, settingsVars, renderLocals, objectVars, encoderLocals
<1>6. TypeOK'
  BY <1>1, <1>5 DEF PipelineInv, TypeOK
<1> QED
  BY <1>2, <1>3, <1>4, <1>6 DEF PipelineInv, Ownership

(* An object the TCP thread constructs is new, and has no thread.          *)
LEMMA TcpKeepsInv == PipelineInv /\ TcpStep => PipelineInv'
<1> SUFFICES ASSUME PipelineInv, TcpStep PROVE PipelineInv'
  OBVIOUS
<1>1. /\ UNCHANGED <<heap, qualityVars, connected, renderLocals, settingsVars, frame>>
      /\ UNCHANGED encodeQueue \/ OSInitMessageQueue
  BY DEF TcpStep, OutsideEncoder, encoderLocals, InstanceFound, ConstructInstance,
         PublishInstance, SetMJPEGStreamServer
<1>2. RenderTypeOK' /\ QualityInv' /\ OneOwner' /\ RenderHolds' /\ GpuHolds'
  BY <1>1, CallKeepsRender
<1>3. EncoderTypeOK /\ EncoderHolds /\ FreshThread
  BY DEF PipelineInv, TypeOK, Ownership
<1>4. UNCHANGED <<mpc, mop, heartBeat>>
  BY DEF TcpStep
<1>5. /\ EncoderTypeOK' /\ EncoderHolds' /\ FreshThread'
      /\ tpc' \in {"idle", "construct", "publish", "set"}
  <2> USE <1>3, <1>4, HelperAssumption, FrameQueueAssumption, LoaderAssumption
      DEF TcpAt, EncoderTypeOK, EncoderHolds, FreshThread, Fresh, objectVars,
          encoderLocals, Working
  <2>1. CASE TcpAt("idle", "set") /\ InstanceFound(Tcp)
    BY <2>1 DEF InstanceFound
  <2>2. CASE /\ TcpAt("idle", "construct")
             /\ UNCHANGED <<objectVars, ref, encoderLocals, encodeQueue>>
    BY <2>2
  <2>3. CASE TcpAt("construct", "publish") /\ ConstructInstance(Tcp)
    BY <2>3 DEF ConstructInstance
  <2>4. CASE TcpAt("publish", "set") /\ PublishInstance(Tcp)
    BY <2>4 DEF PublishInstance
  <2>5. CASE /\ TcpAt("set", "idle")
             /\ \E s \in Servers \cup {NULL} : SetMJPEGStreamServer(Tcp, s)
    <3>1. PICK s \in Servers \cup {NULL} : SetMJPEGStreamServer(Tcp, s)
      BY <2>5
    <3>2. /\ UNCHANGED <<instance, hstate, serverRunning, shouldExit, ref, encoderLocals>>
          /\ mjpegServer' \in [Helpers -> Servers \cup {NULL}]
      BY <3>1 DEF SetMJPEGStreamServer
    <3> QED
      BY <2>5, <3>2
  <2> QED
    BY <2>1, <2>2, <2>3, <2>4, <2>5 DEF TcpStep
<1> QED
  BY <1>2, <1>4, <1>5 DEF PipelineInv, TypeOK, Ownership

-----------------------------------------------------------------------------

(* The invariant is inductive.                                             *)
LEMMA PipelineInvStep == PipelineInv /\ [Next]_vars => PipelineInv'
<1> SUFFICES ASSUME PipelineInv, [Next]_vars PROVE PipelineInv'
  OBVIOUS
<1>1. CASE UNCHANGED vars
  <2> USE <1>1 DEF vars, frameVars, settingsVars, renderLocals, objectVars,
                   encoderLocals, callerVars
  <2>1. QualityInv'
    BY QualityInvStep DEF PipelineInv
  <2>2. TypeOK'
    BY <2>1 DEF PipelineInv, TypeOK, RenderTypeOK, EncoderTypeOK, QualityInv
  <2>3. RenderHolds' /\ EncoderHolds' /\ GpuHolds' /\ FreshThread'
    BY DEF PipelineInv, Ownership, RenderHolds, EncoderHolds, GpuHolds, FreshThread,
           Fresh, Filled
  <2>4. OneOwner'
    BY OneOwnerUnchanged DEF PipelineInv, Ownership
  <2> QED
    BY <2>1, <2>2, <2>3, <2>4 DEF PipelineInv, Ownership
<1> QED
  BY <1>1, RenderKeepsInv, EncoderKeepsInv, LoaderStepKeepsInv, HeartBeatKeepsInv,
     TcpKeepsInv, CallbacksKeepInv DEF Next, LoaderNext, HeartBeatStep, Client

(* So it holds always.                                                     *)
LEMMA PipelineInvariant == Spec => []PipelineInv
BY PipelineInvInit, PipelineInvStep, PTL DEF Spec

(* Every variable keeps its type.                                          *)
THEOREM TypeCorrect == Spec => []TypeOK
<1>1. PipelineInv => TypeOK
  BY DEF PipelineInv
<1> QED
  BY <1>1, PipelineInvariant, PTL

(* No frame ever has two owners, none is used after it was freed, and a    *)
(* queued frame has its pixels: whatever callbacks come when, however many *)
(* encoder threads a lost stop request leaves behind, and whichever        *)
(* allocations fail.                                                       *)
THEOREM OwnershipCorrect == Spec => []OneOwner
<1>1. PipelineInv => OneOwner
  BY DEF PipelineInv, Ownership
<1> QED
  BY <1>1, PipelineInvariant, PTL

(* The GPU has outstanding work only on the frame being captured and on a  *)
(* temporary surface that is still allocated.                              *)
THEOREM GpuCorrect == Spec => []GpuWorksOnCapturedFrame
<1>1. PipelineInv => GpuWorksOnCapturedFrame
  BY TempSurfaceAssumption
     DEF PipelineInv, Ownership, GpuHolds, RenderHolds, Filled, TypeOK, RenderTypeOK,
         GpuWorksOnCapturedFrame, Captured
<1> QED
  BY <1>1, PipelineInvariant, PTL

(* The plugin's threads together run the controller as it is: what is      *)
(* proved of QualitySpec, in which nothing else happens, holds of them.    *)
THEOREM PipelineImplementsController == Spec => QualitySpec
<1>1. Init => QualityInit
  BY DEF Init
<1> QED
  BY <1>1, NextQuality, PTL DEF Spec, QualitySpec

(* An encoder thread compresses with what it read, whatever corrections    *)
(* have been made since, and what it read was at most one correction away  *)
(* from the range.                                                         *)
THEOREM EncoderQualityBounded == Spec => []EncoderQualityExcursion
<1>1. Init => EncoderQualityExcursion
  BY DEF Init, EncoderInit, EncoderQualityExcursion
<1>2. PipelineInv /\ EncoderQualityExcursion /\ [Next]_vars => EncoderQualityExcursion'
  <2> SUFFICES ASSUME PipelineInv, EncoderQualityExcursion, [Next]_vars
               PROVE  EncoderQualityExcursion'
    OBVIOUS
  <2> USE DEF EncoderQualityExcursion
  <2>1. EncoderTypeOK
    BY DEF PipelineInv, TypeOK
  <2>2. CASE \E h \in Helpers : EncoderNext(h)
    <3>1. PICK h \in Helpers : EncoderStep(h, curQuality)
      BY <2>2 DEF EncoderNext
    <3>2. CASE BeginConvert(h, curQuality)
      <4>1. QualityExcursion
        BY QualityInvExcursion DEF PipelineInv
      <4>2. /\ jpegQual' = [jpegQual EXCEPT ![h] = curQuality]
            /\ epc' = [epc EXCEPT ![h] = "compress"]
        BY <3>2 DEF BeginConvert, EncoderAt
      <4> QED
        BY <2>1, <4>1, <4>2 DEF EncoderTypeOK, QualityExcursion
    <3>3. CASE Converted(h) \/ ConvertFailed(h)
      <4>1. \A g \in Helpers : epc'[g] = "compress" =>
               epc[g] = "compress" /\ jpegQual'[g] = jpegQual[g]
        BY <2>1, <3>3 DEF Converted, ConvertFailed, EncoderAt, EncoderTypeOK
      <4> QED
        BY <4>1
    <3>4. CASE ~BeginConvert(h, curQuality) /\ ~Converted(h) /\ ~ConvertFailed(h)
      <4>1. jpegQual' = jpegQual
        BY <3>1, <3>4
           DEF EncoderStep, ThreadRuns, ThreadEntersLoop, ReceiveFrame, NothingReceived,
               KeepRunning, LeaveLoop, ThreadStops, NoCompressor, NobodyToStreamTo,
               BeginStreamJPEG, EndStreamJPEG, ReleaseFrame
      <4>2. PICK there \in {"starting", "receive", "convert", "poll", "exit", "done",
                            "release", "stream", "streaming"} :
                 epc' = [epc EXCEPT ![h] = there]
        BY <3>1, <3>4
           DEF EncoderStep, ThreadRuns, ThreadEntersLoop, ReceiveFrame, NothingReceived,
               KeepRunning, LeaveLoop, ThreadStops, NoCompressor, NobodyToStreamTo,
               BeginStreamJPEG, EndStreamJPEG, ReleaseFrame, EncoderAt
      <4> QED
        BY <2>1, <4>1, <4>2 DEF EncoderTypeOK
    <3> QED
      BY <3>2, <3>3, <3>4
  <2>3. CASE \/ RenderNext \/ Callbacks \/ ConnectionChanges \/ TcpStep
             \/ GetHeartBeatServer \/ GetMJPEGServer \/ Attach
             \/ BeginJoin \/ DestroyHeartBeat \/ UNCHANGED vars
    <3>1. UNCHANGED <<epc, jpegQual>>
      BY <2>3 DEF RenderNext, encoderLocals, Callbacks, OnApplicationStart,
                  ResolutionChanged, ScreenChanged, OnAppClosed, OnAppStatusChanged,
                  Callback, ConnectionChanges, TcpStep, InstanceFound,
                  ConstructInstance, PublishInstance, SetMJPEGStreamServer,
                  GetHeartBeatServer, GetMJPEGServer, Attach, BeginJoin,
                  DestroyHeartBeat, vars
    <3> QED
      BY <3>1
  <2>4. CASE LoaderStep
    <3>1. /\ jpegQual' = jpegQual
          /\ epc' = epc \/ epc' = [epc EXCEPT ![ref[Loader]] = "resumed"]
      BY <2>4
         DEF LoaderStep, encoderLocals, StopAsyncThread, ThreadSeenStopped, DeleteInstance,
             ForgetInstance, ConstructInstance, PublishInstance, StartAsyncThread,
             InstanceFound
    <3>2. \A h \in Helpers : epc'[h] = "compress" => epc[h] = "compress"
      BY <2>1, <3>1 DEF EncoderTypeOK
    <3> QED
      BY <3>1, <3>2
  <2> QED
    BY <2>2, <2>3, <2>4 DEF Next, LoaderNext, Client
<1> QED
  BY <1>1, <1>2, PipelineInvariant, PTL DEF Spec

=============================================================================
