-------------------------- MODULE FrameStreamProofs -------------------------
(***************************************************************************)
(* FramePipeline implements FrameStream: every step of the threads is a    *)
(* step of a frame on its way, or none.                                    *)
(***************************************************************************)
EXTENDS FramePipelineProofs

(* The stage of every buffer, as Stream sees it.                           *)
StageOf == [b \in Buffers |-> Stage(b)]

(* Who has a frame, in terms of its stage.                                 *)
LEMMA StageMeaning ==
    ASSUME PipelineInv, NEW b \in Buffers
    PROVE  /\ Stage(b) = "free" <=> heap[b] = "free"
           /\ Stage(b) = "captured" <=> b = colorBuffer
           /\ Stage(b) = "queued" <=> b \in Queued
           /\ Stage(b) = "encoding" <=> b \in Encoding
<1>1. OneOwner /\ (colorBuffer = b => b # NULL)
  BY FrameQueueAssumption DEF PipelineInv, Ownership
<1> QED
  BY <1>1 DEF Stage, OneOwner, Captured, Allocated

(* A step that leaves every owner and every allocation alone stutters.     *)
LEMMA SameStages ==
    ASSUME UNCHANGED <<encodeQueue, colorBuffer, frame>>, Allocated' = Allocated
    PROVE  UNCHANGED <<StageOf, encodeQueue>>
BY DEF StageOf, Stage, Captured, Queued, Encoding

(* A frame moves on its way, or nothing happens to any.                    *)
Flow == (\E b \in Buffers : Stream!Advance(b)) \/ UNCHANGED Stream!streamVars

(* What the render thread does to a frame.                                 *)
LEMMA RenderImplements == PipelineInv /\ RenderNext => Flow
<1> SUFFICES ASSUME PipelineInv, RenderNext PROVE Flow
  OBVIOUS
<1>1. /\ UNCHANGED frame /\ Encoding' = Encoding
      /\ encodeQueue' = encodeQueue => Queued' = Queued
  BY DEF RenderNext, encoderLocals, Encoding, Queued
<1>2. /\ heap \in [Buffers -> BlockState] /\ encodeQueue \in Seq(Buffers)
      /\ rpc \in {"image", "copyFailed"} \cup Filled => colorBuffer \in Buffers
      /\ RenderHolds /\ OneOwner
  BY DEF PipelineInv, Ownership, RenderHolds, TypeOK, RenderTypeOK
<1>3. CASE AllocateColorBuffer
  <2>1. PICK b \in Buffers \ Allocated : SetBlock(b, "header") /\ colorBuffer' = b
    BY <1>3 DEF AllocateColorBuffer
  <2>2. colorBuffer = NULL /\ UNCHANGED encodeQueue
    BY <1>2, <1>3 DEF AllocateColorBuffer, RenderHolds, Filled
  <2>3. Captured = {} /\ Captured' = {b} /\ Allocated' = Allocated \cup {b}
    BY <1>2, <2>1, <2>2, FrameQueueAssumption DEF Captured, Allocated, SetBlock
  <2>4. Stream!Capture(b)
    BY <1>1, <1>2, <2>1, <2>2, <2>3
       DEF Stream!Capture, Stream!Move, Stage, OneOwner, Allocated
  <2> QED
    BY <2>1, <2>4 DEF Stream!Advance, Flow
<1>4. CASE CopyBufferFailed \/ DropFrame
  <2>1. /\ colorBuffer \in Buffers /\ heap[colorBuffer] # "free"
        /\ heap' = [heap EXCEPT ![colorBuffer] = "free"]
        /\ colorBuffer' = NULL /\ UNCHANGED encodeQueue
    BY <1>2, <1>4 DEF CopyBufferFailed, DropFrame, FreeFrame, SetBlock,
                      LeaveStreamVideo, RenderHolds, Filled
  <2>2. /\ Captured = {colorBuffer} /\ Captured' = {}
        /\ Allocated' = Allocated \ {colorBuffer}
    BY <1>2, <2>1, FrameQueueAssumption DEF Captured, Allocated
  <2>3. Stream!Drop(colorBuffer)
    BY <1>1, <1>2, <2>1, <2>2 DEF Stream!Drop, Stream!Move, Stage, OneOwner
  <2> QED
    BY <2>1, <2>3 DEF Stream!Advance, Flow
<1>5. CASE SendFrame
  <2>1. /\ colorBuffer \in Buffers /\ colorBuffer' = NULL /\ UNCHANGED heap
        /\ Captured = {colorBuffer} /\ Captured' = {}
    BY <1>2, <1>5, FrameQueueAssumption DEF SendFrame, LeaveStreamVideo, Filled, Captured
  <2>2. Queued' = Queued \cup {colorBuffer}
    BY <1>2, <1>5, <2>1, QueuedAppend DEF SendFrame, OneOwner
  <2>3. Stream!Enqueue(colorBuffer)
    BY <1>1, <1>2, <1>5, <2>1, <2>2
       DEF Stream!Enqueue, Stream!Move, Stage, OneOwner, SendFrame, HasRoom,
           OSSendMessage, Allocated
  <2> QED
    BY <2>1, <2>3 DEF Stream!Advance, Flow
<1>6. CASE AllocateImage \/ TempNotAllocated
  <2>1. /\ heap[colorBuffer] # "free" /\ UNCHANGED <<encodeQueue, colorBuffer>>
        /\ heap' = [heap EXCEPT ![colorBuffer] = "image"]
              \/ heap' = [heap EXCEPT ![colorBuffer] = "header"]
    BY <1>2, <1>6 DEF AllocateImage, TempNotAllocated, SetBlock, RenderHolds, Filled
  <2>2. Allocated' = Allocated
    BY <1>2, <2>1 DEF Allocated
  <2> QED
    BY <1>1, <2>1, <2>2, SameStages DEF StageOf, Stream!streamVars, Flow
<1>7. CASE UNCHANGED <<heap, encodeQueue, colorBuffer>>
  BY <1>1, <1>7, SameStages DEF Allocated, StageOf, Stream!streamVars, Flow
<1>8. CASE ColorBufferNotAllocated
  BY <1>1, <1>2, <1>8, SameStages
     DEF ColorBufferNotAllocated, LeaveStreamVideo, RenderHolds, Filled, frameVars,
         Allocated, StageOf, Stream!streamVars, Flow
<1> QED
  BY <1>3, <1>4, <1>5, <1>6, <1>7, <1>8
     DEF RenderNext, Render, RenderStep, GX2CopyColorBufferToScanBuffer,
         IsInstanceConnected, ImageNotAllocated, CopySurface, ResolveAndCopySurface,
         FreeTempSurface, GX2DrawDone, CorrectQuality, GpuFinishes, frameVars

(* What an encoder thread does to it.                                      *)
LEMMA EncoderImplements ==
    ASSUME PipelineInv, NEW h \in Helpers, EncoderNext(h)
    PROVE  Flow
<1>1. UNCHANGED colorBuffer /\ Captured' = Captured
  BY DEF EncoderNext, renderLocals, Captured
<1>2. /\ heap \in [Buffers -> BlockState] /\ encodeQueue \in Seq(Buffers)
      /\ frame \in [Helpers -> Buffers \cup {NULL}]
      /\ frame[h] # NULL <=> epc[h] \in Working
      /\ OneOwner
  BY DEF PipelineInv, Ownership, EncoderHolds, TypeOK, RenderTypeOK, EncoderTypeOK
<1>3. CASE ReceiveFrame(h)
  <2> DEFINE b == Head(encodeQueue)
  <2>1. /\ b \in Buffers \cap Queued
        /\ Queued' = Queued \ {b}
    BY <1>2, <1>3, QueuedTail DEF ReceiveFrame, OneOwner
  <2>2. /\ frame' = [frame EXCEPT ![h] = b] /\ UNCHANGED heap
        /\ frame[h] = NULL /\ encodeQueue # <<>>
        /\ encodeQueue' = Tail(encodeQueue)
    BY <1>2, <1>3 DEF ReceiveFrame, EncoderAt, Working, OSReceiveMessage
  <2>3. Encoding' = Encoding \cup {b} /\ Allocated' = Allocated
    BY <1>2, <2>1, <2>2, FrameQueueAssumption DEF Encoding, Allocated
  <2>4. Stream!Encode(b)
    BY <1>1, <1>2, <2>1, <2>2, <2>3 DEF Stream!Encode, Stream!Move, Stage, OneOwner
  <2> QED
    BY <2>1, <2>4 DEF Stream!Advance, Flow
<1>4. CASE ReleaseFrame(h)
  <2> DEFINE b == frame[h]
  <2>1. /\ frame' = [frame EXCEPT ![h] = NULL] /\ UNCHANGED encodeQueue
        /\ heap' = [heap EXCEPT ![b] = "free"]
        /\ b \in Buffers \cap Encoding
    BY <1>2, <1>4 DEF ReleaseFrame, EncoderAt, Working, FreeFrame, SetBlock, Encoding
  <2>2. /\ Encoding' = Encoding \ {b} /\ Queued' = Queued
        /\ Allocated' = Allocated \ {b}
    BY <1>2, <2>1, FrameQueueAssumption DEF Encoding, OneOwner, Queued, Allocated
  <2>3. Stream!Release(b)
    BY <1>1, <1>2, <2>1, <2>2 DEF Stream!Release, Stream!Move, Stage, OneOwner
  <2> QED
    BY <2>1, <2>3 DEF Stream!Advance, Flow
<1>5. CASE UNCHANGED <<heap, encodeQueue, frame>>
  BY <1>1, <1>5, SameStages DEF Allocated, StageOf, Stream!streamVars, Flow
<1> QED
  BY <1>3, <1>4, <1>5
     DEF EncoderNext, EncoderStep, frameVars, ThreadRuns, ThreadEntersLoop,
         NothingReceived, KeepRunning, LeaveLoop, ThreadStops, BeginConvert,
         NoCompressor, Converted, ConvertFailed, NobodyToStreamTo, BeginStreamJPEG, EndStreamJPEG

(* Whoever constructs an object loses the queue; nothing else the loader   *)
(* thread, the callbacks and the client do concerns a frame.               *)
LEMMA OthersImplement ==
    ASSUME PipelineInv, LoaderNext \/ Callbacks \/ Client \/ UNCHANGED vars
    PROVE  \/ UNCHANGED Stream!streamVars
           \/ \E t \in Threads : ConstructInstance(t) /\ Stream!Lose
<1>1. /\ UNCHANGED <<heap, colorBuffer, frame>>
      /\ \/ UNCHANGED encodeQueue
         \/ \E t \in Threads : ConstructInstance(t) /\ OSInitMessageQueue
  BY LoaderAssumption
     DEF LoaderNext, LoaderStep, GetHeartBeatServer, GetMJPEGServer, Attach,
          BeginJoin, DestroyHeartBeat, OutsideEncoder,
         frameVars, encoderLocals, renderLocals, StopAsyncThread, ThreadSeenStopped,
         DeleteInstance, ForgetInstance, ConstructInstance, PublishInstance,
         StartAsyncThread, InstanceFound, SetMJPEGStreamServer, Callbacks,
         OnApplicationStart, ResolutionChanged, ScreenChanged, OnAppClosed,
         OnAppStatusChanged, Callback, Client, ConnectionChanges, TcpStep, vars
<1>2. CASE UNCHANGED encodeQueue
  BY <1>1, <1>2, SameStages DEF Allocated, StageOf, Stream!streamVars
<1>3. ASSUME NEW t \in Threads, ConstructInstance(t), OSInitMessageQueue
      PROVE  ConstructInstance(t) /\ Stream!Lose
  <2>1. encodeQueue' = <<>> /\ Queued' = {}
    BY <1>3 DEF OSInitMessageQueue, Queued
  <2>2. Captured' = Captured /\ Encoding' = Encoding /\ Allocated' = Allocated
    BY <1>1 DEF Captured, Encoding, Allocated
  <2>3. OneOwner
    BY DEF PipelineInv, Ownership
  <2>4. Stream!Lose
    BY <2>1, <2>2, <2>3 DEF Stream!Lose, Stage, OneOwner, Allocated
  <2> QED
    BY <1>3, <2>4
<1> QED
  BY <1>1, <1>2, <1>3

(* The threads of the plugin together implement the way of a frame that    *)
(* FrameStream describes.                                                  *)
THEOREM PipelineImplementsStream == Spec => StreamSpec
<1>1. Init => Stream!Init
  BY DEF Init, FrameInit, RenderInit, EncoderInit, Stream!Init, Stage, Captured,
         Queued, Encoding, Allocated
<1>2. PipelineInv /\ [Next]_vars => [Stream!Next]_(Stream!streamVars)
  BY RenderImplements, EncoderImplements, OthersImplement
     DEF Next, Stream!Next, Flow
<1> QED
  BY <1>1, <1>2, PipelineInvariant, PTL DEF Spec, StreamSpec, Stream!Spec

=============================================================================
