--------------------------- MODULE FrameLossProofs --------------------------
(***************************************************************************)
(* How much FramePipeline can lose: compressors none, frames at most one queue   *)
(* per new encoder object.                                                 *)
(***************************************************************************)
EXTENDS FrameStreamProofs, FiniteSetTheorems

Holders == {h \in Helpers : epc[h] \in {"compress", "stream", "streaming"}}

(* Finitely many threads hold a compressor handle.                         *)
LEMMA HoldersFinite == IsFiniteSet(Holders)
BY FS_Subset, HelperAssumption DEF Holders

(* A step of an encoder thread counts the handle it makes or destroys.     *)
LEMMA EncoderCountsHandles ==
    ASSUME PipelineInv, HandlesAccountedFor, NEW h \in Helpers, EncoderNext(h)
    PROVE  HandlesAccountedFor'
<1>1. EncoderTypeOK /\ handles = Cardinality(Holders)
  BY DEF PipelineInv, TypeOK, HandlesAccountedFor, Holders
<1> USE <1>1 DEF EncoderTypeOK, EncoderAt
<1>2. CASE BeginConvert(h, curQuality)
  <2>1. Holders' = Holders \cup {h} /\ h \notin Holders /\ handles' = handles + 1
    BY <1>2 DEF BeginConvert, Holders
  <2>2. Cardinality(Holders') = Cardinality(Holders) + 1
    BY <2>1, HoldersFinite, FS_AddElement
  <2> QED
    BY <2>1, <2>2 DEF HandlesAccountedFor, Holders
<1>3. CASE ConvertFailed(h) \/ NobodyToStreamTo(h) \/ EndStreamJPEG(h)
  <2>1. Holders' = Holders \ {h} /\ h \in Holders /\ handles' = handles - 1
    BY <1>3 DEF ConvertFailed, NobodyToStreamTo, EndStreamJPEG, DestroyHandle, Holders
  <2>2. Cardinality(Holders') = Cardinality(Holders) - 1
    BY <2>1, HoldersFinite, FS_RemoveElement
  <2> QED
    BY <2>1, <2>2 DEF HandlesAccountedFor, Holders
<1>4. CASE Converted(h) \/ BeginStreamJPEG(h)
  <2>1. Holders' = Holders /\ handles' = handles
    BY <1>4 DEF Converted, BeginStreamJPEG, Holders
  <2> QED
    BY <2>1 DEF HandlesAccountedFor, Holders
<1>5. CASE \/ ThreadRuns(h) \/ ThreadEntersLoop(h) \/ ReceiveFrame(h)
           \/ NothingReceived(h) \/ KeepRunning(h) \/ LeaveLoop(h) \/ ThreadStops(h)
           \/ NoCompressor(h) \/ ReleaseFrame(h)
  <2>1. Holders' = Holders /\ handles' = handles
    BY <1>5
       DEF Holders, ThreadRuns, ThreadEntersLoop, ReceiveFrame, NothingReceived,
           KeepRunning, LeaveLoop, ThreadStops, NoCompressor, ReleaseFrame
  <2> QED
    BY <2>1 DEF HandlesAccountedFor, Holders
<1> QED
  BY <1>2, <1>3, <1>4, <1>5 DEF EncoderNext, EncoderStep

(* Every compressor handle is destroyed exactly once, and with it the      *)
(* JpegInformation that owns it: by the thread that failed to compress,    *)
(* streamed the JPEG or found nobody to stream it to.                      *)
THEOREM HandlesCorrect == Spec => []HandlesAccountedFor
<1>1. Init => HandlesAccountedFor
  <2> SUFFICES ASSUME Init PROVE HandlesAccountedFor
    OBVIOUS
  <2>1. Holders = {} /\ handles = 0
    BY DEF Init, EncoderInit, Holders
  <2> QED
    BY <2>1, FS_EmptySet DEF HandlesAccountedFor, Holders
<1>2. PipelineInv /\ HandlesAccountedFor /\ [Next]_vars => HandlesAccountedFor'
  <2> SUFFICES ASSUME PipelineInv, HandlesAccountedFor, [Next]_vars
               PROVE  HandlesAccountedFor'
    OBVIOUS
  <2>1. CASE \E h \in Helpers : EncoderNext(h)
    BY <2>1, EncoderCountsHandles
  <2>2. CASE \/ RenderNext \/ Callbacks \/ ConnectionChanges \/ TcpStep
             \/ GetHeartBeatServer \/ GetMJPEGServer \/ Attach
             \/ BeginJoin \/ DestroyHeartBeat \/ UNCHANGED vars
    <3>1. UNCHANGED <<epc, handles>>
      BY <2>2 DEF RenderNext, encoderLocals, Callbacks, OnApplicationStart,
                  ResolutionChanged, ScreenChanged, OnAppClosed, OnAppStatusChanged,
                  Callback, ConnectionChanges, TcpStep, InstanceFound,
                  ConstructInstance, PublishInstance, SetMJPEGStreamServer,
                  GetHeartBeatServer, GetMJPEGServer, Attach, BeginJoin, DestroyHeartBeat, vars
    <3> QED
      BY <3>1 DEF HandlesAccountedFor
  <2>3. CASE LoaderStep
    <3>1. FreshThread /\ EncoderTypeOK
      BY DEF PipelineInv, Ownership, TypeOK
    <3>2. handles' = handles /\ Holders' = Holders
      BY <2>3, <3>1
         DEF LoaderStep, LoaderAt, FreshThread, Fresh, EncoderTypeOK, Holders, encoderLocals,
             StopAsyncThread, ThreadSeenStopped, DeleteInstance, ForgetInstance,
             ConstructInstance, PublishInstance, StartAsyncThread, InstanceFound
    <3> QED
      BY <3>2 DEF HandlesAccountedFor, Holders
  <2> QED
    BY <2>1, <2>2, <2>3 DEF Next, LoaderNext, Client
<1> QED
  BY <1>1, <1>2, PipelineInvariant, PTL DEF Spec

-----------------------------------------------------------------------------
(* Before the first encoder object there is no client to capture frames    *)
(* for, so a first object finds an empty queue.                            *)

NothingYet ==
    Created = {} =>
        /\ ~heartBeat /\ ~connected
        /\ rpc \in {"game", "stream"}
        /\ encodeQueue = <<>> /\ Lost = {}
        /\ mpc \notin {"publish", "start", "getAgain", "getHeartBeat", "getServer",
                      "attach"}
        /\ tpc = "idle"

BoundedQueue == Len(encodeQueue) <= ENCODE_QUEUE_MESSAGE_COUNT

LossInv == PipelineInv /\ LossBound /\ NothingYet /\ BoundedQueue

(* What is lost, and what is queued, in terms of stages.                   *)
LEMMA LostMeaning ==
    /\ Lost = {b \in Buffers : Stage(b) = "lost"}
    /\ Lost' = {b \in Buffers : Stage(b)' = "lost"}
BY DEF Lost, Stage, Allocated

(* A frame that moves is not lost, and none comes back.                    *)
LEMMA FlowLosesNothing ==
    ASSUME PipelineInv, BoundedQueue, Flow
    PROVE  Lost' = Lost /\ BoundedQueue'
<1>0. encodeQueue \in Seq(Buffers) /\ ENCODE_QUEUE_MESSAGE_COUNT \in Nat
  BY FrameQueueAssumption DEF PipelineInv, TypeOK, RenderTypeOK
<1>1. CASE UNCHANGED Stream!streamVars
  BY <1>1, LostMeaning DEF Stream!streamVars, BoundedQueue
<1>2. ASSUME NEW b \in Buffers, Stream!Advance(b)
      PROVE  Lost' = Lost /\ BoundedQueue'
  <2>1. PICK from \in Stream!Stages \ {"lost"}, to \in Stream!Stages \ {"lost"} :
           Stream!Move(b, from, to)
    BY <1>2 DEF Stream!Advance, Stream!Capture, Stream!Drop, Stream!Enqueue,
                Stream!Encode, Stream!Release, Stream!Stages
  <2>2. Lost' = Lost
    BY <2>1, LostMeaning DEF Stream!Move
  <2>3. BoundedQueue'
    BY <1>0, <1>2
       DEF Stream!Advance, Stream!Capture, Stream!Drop, Stream!Enqueue,
           Stream!Encode, Stream!Release, BoundedQueue
  <2> QED
    BY <2>2, <2>3
<1> QED
  BY <1>1, <1>2 DEF Flow

(* A queue has no more members than messages.                              *)
LEMMA QueuedCardinality ==
    ASSUME encodeQueue \in Seq(Buffers)
    PROVE  IsFiniteSet(Queued) /\ Cardinality(Queued) <= Len(encodeQueue)
<1> DEFINE n == Len(encodeQueue)
           f == [i \in 1 .. n |-> encodeQueue[i]]
<1>1. IsFiniteSet(1 .. n) /\ Cardinality(1 .. n) = n
  <2>1. n \in Nat
    OBVIOUS
  <2> QED
    BY <2>1, FS_Interval
<1>2. f \in Surjection(1 .. n, Queued)
  BY DEF Queued, Surjection
<1> QED
  BY <1>1, <1>2, FS_Surjection

(* The bound only grows with the number of objects.                        *)
LEMMA CreatedFinite == IsFiniteSet(Created) /\ IsFiniteSet(Created')
<1>1. Created \in SUBSET Helpers /\ Created' \in SUBSET Helpers
  BY DEF Created
<1> QED
  BY <1>1, FS_Subset, HelperAssumption

(* Before the first step nothing is created, queued or lost.               *)
LEMMA LossInvInit == Init => LossInv
<1> SUFFICES ASSUME Init PROVE LossInv
  OBVIOUS
<1> USE DEF Init, FrameInit, RenderInit, EncoderInit
<1>1. Lost = {}
  BY DEF Lost, Allocated
<1>2. BoundedQueue
  BY FrameQueueAssumption DEF BoundedQueue
<1> QED
  BY <1>1, <1>2, PipelineInvInit DEF LossInv, LossBound, NothingYet

(* Once there is an object there always is: the number of objects grows.   *)
LEMMA CreatedGrows == LossInv /\ [Next]_vars => Created \subseteq Created'
<1> SUFFICES ASSUME LossInv, [Next]_vars PROVE Created \subseteq Created'
  OBVIOUS
<1>1. CASE UNCHANGED hstate
  BY <1>1 DEF Created
<1>2. CASE (\E t \in Threads : ConstructInstance(t)) \/ DeleteInstance
  <2>1. hstate \in [Helpers -> {"unborn", "live", "deleted"}]
    BY DEF LossInv, PipelineInv, TypeOK, EncoderTypeOK
  <2>2. CASE \E t \in Threads : ConstructInstance(t)
    BY <2>1, <2>2 DEF Created, ConstructInstance
  <2>3. CASE DeleteInstance
    BY <2>1, <2>3 DEF Created, DeleteInstance
  <2> QED
    BY <1>2, <2>2, <2>3
<1>3. CASE RenderNext \/ (\E h \in Helpers : EncoderNext(h)) \/ UNCHANGED vars
  <2>1. UNCHANGED hstate
    BY <1>3 DEF RenderNext, EncoderNext, EncoderStep, objectVars, ThreadRuns,
       ThreadEntersLoop, ReceiveFrame, NothingReceived, KeepRunning, LeaveLoop,
       ThreadStops, BeginConvert, NoCompressor, Converted, ConvertFailed, NobodyToStreamTo,
       BeginStreamJPEG, EndStreamJPEG, ReleaseFrame, vars
  <2> QED
    BY <2>1 DEF Created
<1>4. CASE LoaderNext \/ Callbacks \/ Client
  BY <1>1, <1>2, <1>4, LoaderAssumption
     DEF LoaderNext, LoaderStep, StopAsyncThread, ThreadSeenStopped, ForgetInstance,
         PublishInstance, StartAsyncThread, InstanceFound, GetHeartBeatServer,
         GetMJPEGServer, Attach,
         SetMJPEGStreamServer, BeginJoin, DestroyHeartBeat, objectVars, Callbacks,
         OnApplicationStart, ResolutionChanged, ScreenChanged, OnAppClosed,
         OnAppStatusChanged, Callback, Client, ConnectionChanges, TcpStep
<1> QED
  BY <1>3, <1>4 DEF Next

(* As long as nothing is lost that was not lost before, the bound stays.   *)
LEMMA SameLossKeepsBound ==
    ASSUME LossInv, Created \subseteq Created', Lost' = Lost
    PROVE  LossBound'
<1>1. Cardinality(Created) <= Cardinality(Created')
  BY CreatedFinite, FS_Subset
<1>2. Cardinality(Created) \in Nat /\ Cardinality(Created') \in Nat
  BY CreatedFinite, FS_CardinalityType
<1>3. CASE Lost = {}
  BY <1>3 DEF LossBound
<1>4. CASE Lost # {}
  <2> DEFINE n == ENCODE_QUEUE_MESSAGE_COUNT
             c == Cardinality(Created)
             d == Cardinality(Created')
  <2>1. Cardinality(Lost) <= n * (c - 1)
    BY <1>4 DEF LossInv, LossBound
  <2>2. n \in Nat
    BY FrameQueueAssumption
  <2>3. IsFiniteSet(Lost)
    BY FS_Subset, FrameQueueAssumption DEF Lost, Allocated
  <2>4. Cardinality(Lost) \in Nat
    BY <2>3, FS_CardinalityType
  <2>5. n * (c - 1) <= n * (d - 1)
    BY <1>1, <1>2, <2>2
  <2>6. Cardinality(Lost') <= n * (d - 1)
    BY <1>2, <2>1, <2>2, <2>4, <2>5
  <2> QED
    BY <2>6 DEF LossBound
<1> QED
  BY <1>3, <1>4

(* A new object loses what is queued, and pays for it.                     *)
LEMMA LoseKeepsBound ==
    ASSUME LossInv, NEW t \in Threads, ConstructInstance(t), Stream!Lose
    PROVE  LossBound' /\ BoundedQueue' /\ Created' # {}
<1> DEFINE n == ENCODE_QUEUE_MESSAGE_COUNT
           c == Cardinality(Created)
<1>1. PICK h \in Helpers : hstate[h] = "unborn" /\ hstate' = [hstate EXCEPT ![h] = "live"]
  BY DEF ConstructInstance
<1>2. Created' = Created \cup {h} /\ h \notin Created
  BY <1>1 DEF Created, LossInv, PipelineInv, TypeOK, EncoderTypeOK
<1>3. Cardinality(Created') = c + 1 /\ c \in Nat
  BY <1>2, CreatedFinite, FS_AddElement, FS_CardinalityType
<1>4. encodeQueue' = <<>> /\ BoundedQueue'
  BY FrameQueueAssumption DEF Stream!Lose, BoundedQueue
<1>5. Lost' = Lost \cup Queued
  <2>1. \A b \in Buffers : Stage(b)' = IF Stage(b) = "queued" THEN "lost" ELSE Stage(b)
    BY DEF Stream!Lose
  <2>2. \A b \in Buffers : Stage(b) = "queued" <=> b \in Queued
    BY StageMeaning DEF LossInv
  <2>3. Queued \subseteq Buffers
    BY DEF LossInv, PipelineInv, TypeOK, RenderTypeOK, Queued
  <2> QED
    BY <2>1, <2>2, <2>3, LostMeaning
<1>6. /\ IsFiniteSet(Lost) /\ IsFiniteSet(Queued)
      /\ Cardinality(Queued) <= n /\ n \in Nat
  <2>1. encodeQueue \in Seq(Buffers)
    BY DEF LossInv, PipelineInv, TypeOK, RenderTypeOK
  <2>2. IsFiniteSet(Queued) /\ Cardinality(Queued) <= Len(encodeQueue)
    BY <2>1, QueuedCardinality
  <2>3. Cardinality(Queued) \in Nat /\ Len(encodeQueue) \in Nat /\ n \in Nat
    BY <2>1, <2>2, FS_CardinalityType, FrameQueueAssumption
  <2>4. IsFiniteSet(Lost)
    BY FS_Subset, FrameQueueAssumption DEF Lost, Allocated
  <2> QED
    BY <2>2, <2>3, <2>4 DEF LossInv, BoundedQueue
<1>7. /\ Cardinality(Lost \cup Queued) <= Cardinality(Lost) + Cardinality(Queued)
      /\ Cardinality(Lost) \in Nat /\ Cardinality(Queued) \in Nat
      /\ Cardinality(Lost \cup Queued) \in Nat
  <2>1. IsFiniteSet(Lost \cup Queued) /\ IsFiniteSet(Lost \cap Queued)
    BY <1>6, FS_Union, FS_Subset
  <2>2. /\ Cardinality(Lost) \in Nat /\ Cardinality(Queued) \in Nat
        /\ Cardinality(Lost \cup Queued) \in Nat /\ Cardinality(Lost \cap Queued) \in Nat
    BY <1>6, <2>1, FS_CardinalityType
  <2>3. Cardinality(Lost \cup Queued)
          = Cardinality(Lost) + Cardinality(Queued) - Cardinality(Lost \cap Queued)
    BY <1>6, FS_Union
  <2> QED
    BY <2>2, <2>3
<1>8. CASE Created = {}
  <2>1. Lost' = {}
    BY <1>5, <1>8, QueuedEmpty DEF LossInv, NothingYet
  <2> QED
    BY <1>2, <1>4, <2>1 DEF LossBound
<1>9. CASE Created # {}
  <2>1. c > 0
    BY <1>3, <1>9, CreatedFinite, FS_EmptySet
  <2>2. Cardinality(Lost) <= n * (c - 1)
    <3>1. CASE Lost = {}
      <4>1. Cardinality(Lost) = 0
        BY <3>1, FS_EmptySet
      <4> QED
        BY <1>3, <1>6, <2>1, <4>1
    <3>2. CASE Lost # {}
      BY <3>2 DEF LossInv, LossBound
    <3> QED
      BY <3>1, <3>2
  <2>3. n * (c - 1) + n = n * c
    BY <1>3, <1>6
  <2>4. n * (c - 1) \in Int /\ n * c \in Int
    BY <1>3, <1>6
  <2>5. Cardinality(Lost') <= n * (Cardinality(Created') - 1)
    <3>1. Cardinality(Lost') <= n * c
      BY <1>5, <1>6, <1>7, <2>2, <2>3, <2>4
    <3>2. Cardinality(Created') - 1 = c
      BY <1>3
    <3> QED
      BY <3>1, <3>2
  <2> QED
    BY <1>2, <1>4, <2>5 DEF LossBound
<1> QED
  BY <1>2, <1>4, <1>8, <1>9

(* Without an encoder object nothing starts that needs one.                *)
LEMMA KeepsNothingYet == LossInv /\ [Next]_vars /\ Created' = {} => NothingYet'
<1> SUFFICES ASSUME LossInv, [Next]_vars, Created' = {} PROVE NothingYet'
  OBVIOUS
<1>1. Created = {} /\ \A h \in Helpers : hstate'[h] = "unborn"
  BY CreatedGrows DEF Created
<1>2. /\ ~heartBeat /\ ~connected /\ rpc \in {"game", "stream"}
      /\ encodeQueue = <<>> /\ Lost = {}
      /\ mpc \notin {"publish", "start", "getAgain", "getHeartBeat", "getServer",
                      "attach"}
      /\ tpc = "idle"
  BY <1>1 DEF LossInv, NothingYet
<1>3. instance = NULL /\ \A h \in Helpers : epc[h] = "none"
  BY <1>1 DEF LossInv, PipelineInv, TypeOK, EncoderTypeOK, Ownership, FreshThread, Created
<1>4. \A t \in Threads : ~ConstructInstance(t)
  BY <1>1 DEF ConstructInstance, LossInv, PipelineInv, TypeOK, EncoderTypeOK
<1>5. Lost' = {}
  <2>1. Flow => Lost' = {}
    BY <1>2, FlowLosesNothing DEF LossInv
  <2>2. LoaderNext \/ Callbacks \/ Client \/ UNCHANGED vars => UNCHANGED Stream!streamVars
    BY <1>4, OthersImplement DEF LossInv
  <2> QED
    BY <2>1, <2>2, RenderImplements, EncoderImplements DEF Next, Flow, LossInv
<1>6. /\ ~heartBeat' /\ ~connected' /\ rpc' \in {"game", "stream"}
      /\ encodeQueue' = <<>>
      /\ mpc' \notin {"publish", "start", "getAgain", "getHeartBeat", "getServer",
                      "attach"}
      /\ tpc' = "idle"
  <2> USE <1>2
  <2>1. CASE RenderNext
    <3>1. UNCHANGED <<heartBeat, connected, mpc, tpc>>
      BY <2>1 DEF RenderNext, Render, GpuFinishes, callerVars
    <3>2. rpc' \in {"game", "stream"} /\ UNCHANGED encodeQueue
      <4>1. CASE \/ \E t \in ScanTargets : GX2CopyColorBufferToScanBuffer(t)
                 \/ IsInstanceConnected \/ CorrectQuality \/ GpuFinishes
        BY <4>1 DEF GX2CopyColorBufferToScanBuffer, IsInstanceConnected,
                    CorrectQuality, GpuFinishes, frameVars
      <4>2. CASE \/ AllocateColorBuffer \/ ColorBufferNotAllocated
                 \/ AllocateImage \/ ImageNotAllocated
                 \/ CopySurface \/ ResolveAndCopySurface \/ TempNotAllocated
                 \/ FreeTempSurface \/ CopyBufferFailed \/ GX2DrawDone
                 \/ SendFrame \/ DropFrame
        BY <4>2 DEF AllocateColorBuffer, ColorBufferNotAllocated, AllocateImage,
                    ImageNotAllocated, CopySurface, ResolveAndCopySurface,
                    TempNotAllocated, FreeTempSurface, CopyBufferFailed, GX2DrawDone,
                    SendFrame, DropFrame
      <4> QED
        BY <2>1, <4>1, <4>2 DEF RenderNext, Render, RenderStep
    <3> QED
      BY <3>1, <3>2
  <2>2. CASE \E h \in Helpers : EncoderNext(h)
    BY <1>3, <2>2
       DEF EncoderNext, EncoderStep, EncoderAt, ThreadRuns, ThreadEntersLoop,
           ReceiveFrame, NothingReceived, KeepRunning, LeaveLoop, ThreadStops,
           BeginConvert, NoCompressor, Converted, ConvertFailed, NobodyToStreamTo,
           BeginStreamJPEG, EndStreamJPEG, ReleaseFrame
  <2>3. CASE LoaderNext
    BY <1>1, <1>3, <1>4, <2>3, LoaderAssumption
       DEF LoaderNext, LoaderStep, LoaderAt, AfterDestroy, StopAsyncThread,
           ThreadSeenStopped, DeleteInstance, ForgetInstance, InstanceFound, GetHeartBeatServer,
         GetMJPEGServer, Attach,
           BeginJoin, DestroyHeartBeat, OutsideEncoder, frameVars, renderLocals
  <2>4. CASE Callbacks
    BY <2>4 DEF Callbacks, OnApplicationStart, ResolutionChanged, ScreenChanged,
                OnAppClosed, OnAppStatusChanged, Callback, frameVars, renderLocals,
                callerVars
  <2>5. CASE Client
    BY <2>5 DEF Client, ConnectionChanges, TcpStep, TcpAt, BeginTcpCall
  <2>6. CASE UNCHANGED vars
    BY <2>6 DEF vars, frameVars, renderLocals, callerVars
  <2> QED
    BY <2>1, <2>2, <2>3, <2>4, <2>5, <2>6 DEF Next
<1> QED
  BY <1>5, <1>6 DEF NothingYet

(* Every step moves a frame on its way or constructs an object.            *)
LEMMA LossInvStep == LossInv /\ [Next]_vars => LossInv'
<1> SUFFICES ASSUME LossInv, [Next]_vars PROVE LossInv'
  OBVIOUS
<1>1. PipelineInv' /\ Created \subseteq Created'
  BY PipelineInvStep, CreatedGrows DEF LossInv
<1>2. CASE Flow
  BY <1>1, <1>2, FlowLosesNothing, SameLossKeepsBound, KeepsNothingYet
     DEF LossInv, NothingYet
<1>3. CASE \E t \in Threads : ConstructInstance(t) /\ Stream!Lose
  BY <1>1, <1>3, LoseKeepsBound DEF LossInv, NothingYet
<1> QED
  BY <1>2, <1>3, RenderImplements, EncoderImplements, OthersImplement
     DEF LossInv, Next, Flow

(* So the invariant holds always.                                          *)
LEMMA LossInvariant == Spec => []LossInv
BY LossInvInit, LossInvStep, PTL DEF Spec

(* Every frame that is lost was in the queue when a new encoder object     *)
(* initialised it, so a run loses at most one queue of frames per object   *)
(* after the first, for every length of the queue.                         *)
THEOREM LossBounded == Spec => []LossBound
<1>1. LossInv => LossBound
  BY DEF LossInv
<1> QED
  BY <1>1, LossInvariant, PTL

=============================================================================
