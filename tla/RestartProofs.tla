---------------------------- MODULE RestartProofs ---------------------------
(***************************************************************************)
(* Restarting the encoder under the assumptions of PromptSpec: then        *)
(* destroyInstance really waits for the thread, and neither a second       *)
(* encoder nor a thread of a deleted object can be.                        *)
(***************************************************************************)
EXTENDS FramePipelineProofs

InLoop == {"starting", "receive", "poll", "exit"} \cup Working

Alive(h) == epc[h] \notin {"none", "done"}

(* serverRunning says what it is read for. *)
RunningIsTrue == \A h \in Helpers : serverRunning[h] <=> epc[h] \in InLoop

(* A thread belongs to the current object, which exists. *)
OnlyCurrentAlive ==
    \A h \in Helpers : Alive(h) => instance = h /\ hstate[h] = "live"

(* How far destroyInstance and getInstance have come. *)
LoaderProgress ==
    /\ mpc = "wait" => /\ instance # NULL /\ shouldExit[instance]
                       /\ epc[instance] \notin {"resumed", "starting"}
    /\ mpc \in {"delete", "forget"} => instance # NULL /\ ~Alive(instance)
    /\ mpc \in {"get", "construct", "publish"} => instance = NULL
    /\ mpc \in {"publish", "start"} => hstate[ref[Loader]] = "live"
    /\ mpc = "start" => instance = ref[Loader]

(* The TCP thread constructs an object only while there is none, and the   *)
(* loader thread does not replace one meanwhile.                           *)
TcpProgress ==
    /\ tpc # "idle" => ~Replacing
    /\ tpc \in {"construct", "publish"} => instance = NULL

RestartInv == RunningIsTrue /\ OnlyCurrentAlive /\ LoaderProgress /\ TcpProgress

(* There is no object and no thread at first.                              *)
LEMMA RestartInvInit == Init => RestartInv
BY DEF Init, EncoderInit, RestartInv, RunningIsTrue, OnlyCurrentAlive, LoaderProgress,
       TcpProgress, InLoop, Working, Alive

(* A thread moves on, and says when it enters and leaves its loop.         *)
LEMMA EncoderKeepsRestart ==
    ASSUME PipelineInv, RestartInv, NEW h \in Helpers, EncoderNext(h)
    PROVE  RestartInv'
<1>1. /\ EncoderTypeOK /\ RunningIsTrue /\ OnlyCurrentAlive /\ LoaderProgress
      /\ TcpProgress /\ UNCHANGED <<mpc, tpc, ref>>
  BY DEF PipelineInv, TypeOK, RestartInv, EncoderNext, callerVars
<1>2. /\ UNCHANGED <<instance, hstate>>
      /\ Alive(h)
      /\ \A g \in Helpers : shouldExit'[g] = shouldExit[g] \/ epc[g] = "starting"
      /\ \E there \in InLoop \cup {"done"} :
           /\ epc' = [epc EXCEPT ![h] = there]
           /\ there = "starting" => epc[h] = "resumed"
           /\ serverRunning'[h] <=> there \in InLoop
           /\ \A g \in Helpers \ {h} : serverRunning'[g] = serverRunning[g]
  <2> USE <1>1 DEF EncoderTypeOK, RunningIsTrue, EncoderAt, objectVars, InLoop, Working,
                   Alive
  <2>1. CASE ThreadRuns(h)
    BY <2>1 DEF ThreadRuns
  <2>2. CASE ThreadEntersLoop(h)
    BY <2>2 DEF ThreadEntersLoop
  <2>3. CASE ReceiveFrame(h)
    BY <2>3 DEF ReceiveFrame
  <2>4. CASE NothingReceived(h)
    BY <2>4 DEF NothingReceived
  <2>5. CASE KeepRunning(h)
    BY <2>5 DEF KeepRunning
  <2>6. CASE LeaveLoop(h)
    BY <2>6 DEF LeaveLoop
  <2>7. CASE ThreadStops(h)
    BY <2>7 DEF ThreadStops
  <2>8. CASE BeginConvert(h, curQuality)
    BY <2>8 DEF BeginConvert
  <2>9. CASE Converted(h)
    BY <2>9 DEF Converted
  <2>10. CASE NoCompressor(h) \/ ConvertFailed(h)
    BY <2>10 DEF NoCompressor, ConvertFailed
  <2>11. CASE NobodyToStreamTo(h)
    BY <2>11 DEF NobodyToStreamTo
  <2>12. CASE BeginStreamJPEG(h)
    BY <2>12 DEF BeginStreamJPEG
  <2>13. CASE EndStreamJPEG(h)
    BY <2>13 DEF EndStreamJPEG
  <2>14. CASE ReleaseFrame(h)
    BY <2>14 DEF ReleaseFrame
  <2> QED
    BY <2>1, <2>2, <2>3, <2>4, <2>5, <2>6, <2>7, <2>8, <2>9, <2>10, <2>11, <2>12, <2>13, <2>14
       DEF EncoderNext, EncoderStep
<1>3. PICK there \in InLoop \cup {"done"} :
           /\ epc' = [epc EXCEPT ![h] = there]
           /\ there = "starting" => epc[h] = "resumed"
           /\ serverRunning'[h] <=> there \in InLoop
           /\ \A g \in Helpers \ {h} : serverRunning'[g] = serverRunning[g]
  BY <1>2
<1>4. RunningIsTrue'
  BY <1>1, <1>3 DEF RunningIsTrue, EncoderTypeOK, InLoop, Working
<1>5. OnlyCurrentAlive'
  BY <1>1, <1>2, <1>3 DEF OnlyCurrentAlive, EncoderTypeOK, Alive
<1>6. LoaderProgress'
  BY <1>1, <1>2, <1>3 DEF LoaderProgress, EncoderTypeOK, Alive, InLoop, Working
<1>7. TcpProgress'
  BY <1>1, <1>2 DEF TcpProgress, Replacing
<1> QED
  BY <1>4, <1>5, <1>6, <1>7 DEF RestartInv

(* The loader deletes an object only when its thread has ended, and starts *)
(* a thread only when there is no other.                                   *)
LEMMA LoaderKeepsRestart ==
    ASSUME PipelineInv, RestartInv, LoaderStep, ~StopsUnstarted,
           ~(Replacing' /\ tpc' # "idle")
    PROVE  RestartInv'
<1>1. /\ EncoderTypeOK /\ FreshThread /\ UNCHANGED tpc
      /\ RunningIsTrue /\ OnlyCurrentAlive /\ LoaderProgress /\ TcpProgress
  BY DEF PipelineInv, TypeOK, Ownership, RestartInv, LoaderStep
<1> USE <1>1, HelperAssumption, LoaderAssumption
    DEF LoaderAt, AfterDestroy, objectVars, encoderLocals, EncoderTypeOK, FreshThread,
        Fresh, RestartInv, RunningIsTrue, OnlyCurrentAlive, LoaderProgress, TcpProgress,
        Replacing, StopsUnstarted, Alive, InLoop, Working
<1>2. CASE LoaderAt("stop", "wait") /\ StopAsyncThread
  BY <1>2 DEF StopAsyncThread
<1>3. CASE /\ LoaderAt("stop", AfterDestroy) /\ InstanceMissing
           /\ UNCHANGED <<objectVars, ref, encoderLocals, encodeQueue>>
  BY <1>3 DEF InstanceMissing
<1>4. CASE LoaderAt("wait", "delete") /\ ThreadSeenStopped
  BY <1>4 DEF ThreadSeenStopped
<1>5. CASE LoaderAt("delete", "forget") /\ DeleteInstance
  BY <1>5 DEF DeleteInstance
<1>6. CASE LoaderAt("forget", AfterDestroy) /\ ForgetInstance
  BY <1>6 DEF ForgetInstance
<1>7. CASE LoaderAt("get", "start") /\ InstanceFound(Loader)
  BY <1>7 DEF InstanceFound
<1>8. CASE /\ LoaderAt("get", "construct")
           /\ UNCHANGED <<objectVars, ref, encoderLocals, encodeQueue>>
  BY <1>8
<1>9. CASE LoaderAt("construct", "publish") /\ ConstructInstance(Loader)
  BY <1>9 DEF ConstructInstance
<1>10. CASE LoaderAt("publish", "start") /\ PublishInstance(Loader)
  BY <1>10 DEF PublishInstance
<1>11. CASE LoaderAt("start", "getAgain") /\ StartAsyncThread(Loader)
  BY <1>11 DEF StartAsyncThread
<1>12. CASE LoaderAt("getAgain", "getHeartBeat") /\ InstanceFound(Loader)
  BY <1>12 DEF InstanceFound
<1> QED
  BY <1>2, <1>3, <1>4, <1>5, <1>6, <1>7, <1>8, <1>9, <1>10, <1>11, <1>12 DEF LoaderStep

(* The TCP thread replaces no object, and never constructs a second one.   *)
LEMMA TcpKeepsRestart ==
    ASSUME PipelineInv, RestartInv, TcpStep, ~(Replacing' /\ tpc' # "idle")
    PROVE  RestartInv'
<1>1. /\ EncoderTypeOK /\ FreshThread /\ UNCHANGED mpc
      /\ RunningIsTrue /\ OnlyCurrentAlive /\ LoaderProgress /\ TcpProgress
  BY DEF PipelineInv, TypeOK, Ownership, RestartInv, TcpStep
<1> USE <1>1, HelperAssumption, LoaderAssumption
    DEF TcpAt, objectVars, encoderLocals, EncoderTypeOK, FreshThread, Fresh, RestartInv,
        RunningIsTrue, OnlyCurrentAlive, LoaderProgress, TcpProgress, Replacing, Alive,
        InLoop, Working
<1>2. CASE TcpAt("idle", "set") /\ InstanceFound(Tcp)
  BY <1>2 DEF InstanceFound
<1>3. CASE /\ TcpAt("idle", "construct") /\ InstanceMissing
           /\ UNCHANGED <<objectVars, ref, encoderLocals, encodeQueue>>
  BY <1>3 DEF InstanceMissing
<1>4. CASE TcpAt("construct", "publish") /\ ConstructInstance(Tcp)
  BY <1>4 DEF ConstructInstance
<1>5. CASE TcpAt("publish", "set") /\ PublishInstance(Tcp)
  BY <1>5 DEF PublishInstance
<1>6. CASE TcpAt("set", "idle") /\ UNCHANGED <<instance, hstate, serverRunning, shouldExit, ref, epc>>
  BY <1>6
<1> QED
  BY <1>2, <1>3, <1>4, <1>5, <1>6 DEF TcpStep, SetMJPEGStreamServer

(* The invariant is inductive, relative to PipelineInv.                    *)
LEMMA RestartInvStep == PipelineInv /\ RestartInv /\ [PromptNext]_vars => RestartInv'
<1> SUFFICES ASSUME PipelineInv, RestartInv, [PromptNext]_vars PROVE RestartInv'
  OBVIOUS
<1>1. CASE \E h \in Helpers : EncoderNext(h)
  BY <1>1, EncoderKeepsRestart
<1>2. CASE LoaderStep /\ PromptNext
  BY <1>2, LoaderKeepsRestart DEF PromptNext, ApartNext, CallsApart
<1>3. CASE TcpStep /\ PromptNext
  BY <1>3, TcpKeepsRestart DEF PromptNext, ApartNext, CallsApart
<1>4. CASE \/ RenderNext \/ Callbacks \/ ConnectionChanges \/ HeartBeatStep \/ Attach
           \/ UNCHANGED vars
  <2>1. UNCHANGED <<instance, hstate, serverRunning, shouldExit, epc, ref, tpc>>
    BY <1>4 DEF RenderNext, objectVars, encoderLocals, callerVars, Callbacks,
                OnApplicationStart, ResolutionChanged, ScreenChanged, OnAppClosed,
                OnAppStatusChanged, Callback, ConnectionChanges, Attach,
                SetMJPEGStreamServer, HeartBeatStep, GetHeartBeatServer,
                GetMJPEGServer, BeginJoin, DestroyHeartBeat, vars
  <2>2. mpc' \in {mpc, "idle", "stop", "join", "getServer", "attach"}
    BY <1>4 DEF RenderNext, callerVars, LoaderAt, Callbacks, OnApplicationStart,
                ResolutionChanged, ScreenChanged, OnAppClosed, OnAppStatusChanged,
                Callback, ConnectionChanges, Attach, HeartBeatStep,
                GetHeartBeatServer, GetMJPEGServer, BeginJoin, DestroyHeartBeat, vars
  <2> QED
    BY <2>1, <2>2 DEF RestartInv, RunningIsTrue, OnlyCurrentAlive, LoaderProgress,
                      TcpProgress, Replacing, Alive
<1> QED
  BY <1>1, <1>2, <1>3, <1>4 DEF PromptNext, ApartNext, Next, LoaderNext, HeartBeatStep, Client

(* So both hold always.                                                    *)
LEMMA RestartInvariant == PromptSpec => [](PipelineInv /\ RestartInv)
<1>1. PipelineInv /\ [PromptNext]_vars => PipelineInv'
  BY PipelineInvStep DEF PromptNext, ApartNext
<1> QED
  BY PipelineInvInit, RestartInvInit, RestartInvStep, <1>1, PTL DEF PromptSpec

(* No thread touches the fields of a deleted EncodingHelper.               *)
THEOREM ThreadsWithinObjects == PromptSpec => []ThreadWithinObject
<1>1. RestartInv => ThreadWithinObject
  BY DEF RestartInv, OnlyCurrentAlive, Alive, ThreadWithinObject
<1> QED
  BY <1>1, RestartInvariant, PTL

(* However often the encoder is restarted, at most one thread encodes.     *)
THEOREM OneEncoder == PromptSpec => []AtMostOneEncoder
<1>1. RestartInv => AtMostOneEncoder
  BY DEF RestartInv, OnlyCurrentAlive, Alive, AtMostOneEncoder
<1> QED
  BY <1>1, RestartInvariant, PTL

-----------------------------------------------------------------------------
(* The wait in destroyInstance                                             *)

(* What destroyInstance asks for is not forgotten, and what it looks at is *)
(* true.                                                                   *)
THEOREM StopHeard == PromptSpec => []StopRequestHeard
<1>1. ASSUME PipelineInv, RestartInv PROVE StopRequestHeard
  <2>1. mpc = "wait" => /\ instance \in Helpers /\ shouldExit[instance]
                        /\ epc[instance] \notin {"resumed", "starting"}
    BY <1>1 DEF PipelineInv, TypeOK, EncoderTypeOK, RestartInv, LoaderProgress
  <2>2. \A h \in Helpers : epc[h] \in {"none", "resumed", "starting", "receive", "poll",
                                      "exit", "done"} \cup Working
    BY <1>1 DEF PipelineInv, TypeOK, EncoderTypeOK
  <2> QED
    BY <1>1, <2>1, <2>2 DEF RestartInv, RunningIsTrue, InLoop, Working, StopRequestHeard
<1> QED
  BY <1>1, RestartInvariant, PTL

Places == {"none", "resumed", "starting", "receive", "poll", "exit", "done"} \cup Working

LEMMA StepsNatural == ASSUME NEW here \in Places PROVE StepsToEnd(here) \in Nat
BY DEF Places, Working, StepsToEnd

(* A step of the thread that was told to stop: it receives what is left,   *)
(* and does not begin again after it found the queue empty.                *)
LEMMA ThreadShortens ==
    ASSUME PipelineInv, RestartInv, mpc = "wait", NEW h \in Helpers, EncoderNext(h)
    PROVE  h = instance /\ instance' = instance /\ StepsToWait' < StepsToWait
<1>1. /\ EncoderTypeOK /\ LoaderProgress /\ OnlyCurrentAlive /\ encodeQueue \in Seq(Buffers)
  BY DEF PipelineInv, TypeOK, RenderTypeOK, RestartInv
<1>2. h = instance /\ instance \in Helpers /\ instance' = instance /\ Alive(h)
  BY <1>1 DEF EncoderNext, EncoderStep, EncoderAt, Alive, OnlyCurrentAlive, LoaderProgress,
      EncoderTypeOK, objectVars, ThreadRuns, ThreadEntersLoop, ReceiveFrame,
      NothingReceived, KeepRunning, LeaveLoop, ThreadStops, BeginConvert, NoCompressor,
      Converted, ConvertFailed, NobodyToStreamTo, BeginStreamJPEG, EndStreamJPEG,
      ReleaseFrame
<1>3. shouldExit[h] /\ epc[h] \notin {"resumed", "starting"} /\ Len(encodeQueue) \in Nat
  BY <1>1, <1>2 DEF LoaderProgress
<1>4. CASE ReceiveFrame(h)
  <2>1. /\ epc[h] = "receive" /\ epc'[h] = "convert"
        /\ Len(encodeQueue') = Len(encodeQueue) - 1
    BY <1>1, <1>4 DEF ReceiveFrame, EncoderAt, OSReceiveMessage, EncoderTypeOK
  <2> QED
    BY <1>2, <1>3, <2>1 DEF StepsToWait, StepsToEnd
<1>5. CASE ~ReceiveFrame(h)
  <2>1. /\ encodeQueue' = encodeQueue
        /\ StepsToEnd(epc'[h]) \in Nat /\ StepsToEnd(epc[h]) \in Nat
        /\ StepsToEnd(epc'[h]) < StepsToEnd(epc[h])
    BY <1>1, <1>3, <1>5
       DEF EncoderNext, EncoderStep, EncoderAt, EncoderTypeOK, StepsToEnd, frameVars,
           ThreadRuns, ThreadEntersLoop, NothingReceived, KeepRunning, LeaveLoop,
           ThreadStops, BeginConvert, NoCompressor, Converted, ConvertFailed,
           NobodyToStreamTo, BeginStreamJPEG, EndStreamJPEG, ReleaseFrame
  <2> QED
    BY <1>2, <1>3, <2>1 DEF StepsToWait
<1> QED
  BY <1>2, <1>4, <1>5

(* While the loader thread waits, nobody else touches the thread, and only *)
(* the game's thread the queue.                                            *)
LEMMA OthersLeaveThread ==
    ASSUME PipelineInv, RestartInv, mpc = "wait", mpc' = "wait", [PromptNext]_vars,
           ~(\E h \in Helpers : EncoderNext(h))
    PROVE  /\ UNCHANGED <<instance, epc>>
           /\ UNCHANGED encodeQueue \/ RenderNext
<1>1. instance # NULL /\ (tpc \in {"construct", "publish"} => instance = NULL)
  BY DEF RestartInv, LoaderProgress, TcpProgress
<1>2. CASE RenderNext
  BY <1>2 DEF RenderNext, objectVars, encoderLocals
<1>3. CASE LoaderNext \/ Callbacks
  BY <1>3 DEF LoaderNext, LoaderStep, LoaderAt, GetHeartBeatServer, GetMJPEGServer, Attach,
              BeginJoin, DestroyHeartBeat, Callbacks, Callback, OnApplicationStart,
              ResolutionChanged, ScreenChanged, OnAppClosed, OnAppStatusChanged
<1>4. CASE Client
  BY <1>1, <1>4 DEF Client, ConnectionChanges, TcpStep, TcpAt, InstanceFound, InstanceMissing,
              SetMJPEGStreamServer, objectVars, encoderLocals, frameVars
<1>5. CASE UNCHANGED vars
  BY <1>5 DEF vars, objectVars, encoderLocals, frameVars
<1> QED
  BY <1>2, <1>3, <1>4, <1>5 DEF PromptNext, ApartNext, Next

LEMMA WaitNatural ==
    ASSUME PipelineInv, RestartInv, [PromptNext]_vars, mpc = "wait", mpc' = "wait"
    PROVE  /\ Len(encodeQueue) \in Nat /\ Len(encodeQueue') \in Nat
           /\ StepsToEnd(epc[instance]) \in Nat /\ StepsToEnd(epc'[instance]) \in Nat
           /\ StepsToWait \in Nat /\ StepsToWait' \in Nat
<1>1. PipelineInv' /\ RestartInv'
  BY PipelineInvStep, RestartInvStep DEF PromptNext, ApartNext
<1>2. encodeQueue \in Seq(Buffers) /\ encodeQueue' \in Seq(Buffers)
  BY <1>1 DEF PipelineInv, TypeOK, RenderTypeOK
<1>3. /\ epc[instance] \in Places /\ epc'[instance] \in Places
      /\ epc'[instance'] \in Places
  BY <1>1 DEF PipelineInv, TypeOK, EncoderTypeOK, RestartInv, LoaderProgress, Places
<1> QED
  BY <1>2, <1>3, StepsNatural DEF StepsToWait

(* So the wait lasts at most eight steps of the thread, and six for each   *)
(* frame that waits or is sent meanwhile.                                  *)
THEOREM WaitEnds == PromptSpec => WaitShortens
<1>1. ASSUME PipelineInv, RestartInv, [PromptNext]_vars, mpc = "wait", mpc' = "wait"
      PROVE  /\ epc'[instance] # epc[instance] => StepsToWait' < StepsToWait
             /\ Len(encodeQueue') <= Len(encodeQueue) => StepsToWait' <= StepsToWait
  <2>1. /\ Len(encodeQueue) \in Nat /\ Len(encodeQueue') \in Nat
        /\ StepsToEnd(epc[instance]) \in Nat /\ StepsToEnd(epc'[instance]) \in Nat
    BY <1>1, WaitNatural
  <2>2. CASE \E h \in Helpers : EncoderNext(h)
    <3>1. instance' = instance /\ StepsToWait' < StepsToWait
      BY <1>1, <2>2, ThreadShortens
    <3> QED
      BY <2>1, <3>1 DEF StepsToWait
  <2>3. CASE ~(\E h \in Helpers : EncoderNext(h))
    <3>1. UNCHANGED <<instance, epc>>
      BY <1>1, <2>3, OthersLeaveThread
    <3> QED
      BY <2>1, <3>1 DEF StepsToWait
  <2> QED
    BY <2>2, <2>3
<1> QED
  BY <1>1, RestartInvariant, PTL DEF WaitShortens, PromptSpec

-----------------------------------------------------------------------------
(* The wait of a close                                                     *)

(* The hook captures nothing while the application is being closed.        *)
ClosedFirst == mop = "close" => gAppStatus = "CLOSED"

LEMMA ClosedFirstStep == PipelineInv /\ ClosedFirst /\ [Next]_vars => ClosedFirst'
<1> SUFFICES ASSUME PipelineInv, ClosedFirst, [Next]_vars PROVE ClosedFirst'
  OBVIOUS
<1>1. CASE RenderNext \/ Client \/ UNCHANGED vars \/ \E h \in Helpers : EncoderNext(h)
  BY <1>1 DEF RenderNext, Render, GpuFinishes, Client, ConnectionChanges, TcpStep,
              EncoderNext, callerVars, settingsVars, vars, ClosedFirst
<1>2. CASE LoaderNext
  BY <1>2 DEF LoaderNext, LoaderStep, GetHeartBeatServer, GetMJPEGServer, Attach,
              BeginJoin, DestroyHeartBeat, settingsVars, ClosedFirst
<1>3. CASE Callbacks
  BY <1>3 DEF Callbacks, Callback, OnApplicationStart, ResolutionChanged, ScreenChanged,
              OnAppClosed, OnAppStatusChanged, callerVars, ClosedFirst
<1> QED
  BY <1>1, <1>2, <1>3 DEF Next

(* A captured frame takes its place in the queue, or is given up.          *)
LEMMA RenderSendsAtMostOne ==
    ASSUME PipelineInv, RenderNext, gAppStatus = "CLOSED"
    PROVE  \/ UNCHANGED encodeQueue
              /\ (rpc' \notin {"game", "copyFailed"} => rpc \notin {"game", "copyFailed"})
           \/ /\ rpc \notin {"game", "copyFailed"} /\ rpc' = "game"
              /\ Len(encodeQueue') = Len(encodeQueue) + 1
<1>1. encodeQueue \in Seq(Buffers)
  BY DEF PipelineInv, TypeOK, RenderTypeOK
<1>2. CASE SendFrame
  BY <1>1, <1>2 DEF SendFrame, OSSendMessage, LeaveStreamVideo
<1>3. CASE \/ IsInstanceConnected \/ AllocateColorBuffer \/ ColorBufferNotAllocated
           \/ AllocateImage \/ ImageNotAllocated \/ CopySurface \/ ResolveAndCopySurface
           \/ TempNotAllocated \/ FreeTempSurface \/ CopyBufferFailed \/ GX2DrawDone
           \/ DropFrame \/ CorrectQuality \/ GpuFinishes
  BY <1>3 DEF IsInstanceConnected, AllocateColorBuffer, ColorBufferNotAllocated,
              AllocateImage, ImageNotAllocated, CopySurface, ResolveAndCopySurface,
              TempNotAllocated, FreeTempSurface, CopyBufferFailed, GX2DrawDone, DropFrame,
              CorrectQuality, GpuFinishes, LeaveStreamVideo, frameVars
<1>4. ~(\E scan_target \in ScanTargets : GX2CopyColorBufferToScanBuffer(scan_target))
  BY DEF GX2CopyColorBufferToScanBuffer
<1> QED
  BY <1>2, <1>3, <1>4 DEF RenderNext, Render, RenderStep

LEMMA LessWithRest ==
    ASSUME NEW p \in Nat, NEW q \in Nat, NEW r \in Nat, p < q
    PROVE  p + r < q + r /\ p + r <= q + r
OBVIOUS

(* So a close waits for at most as many steps of the thread as the frames  *)
(* there are take.                                                         *)
THEOREM CloseWaitEnds == PromptSpec => CloseShortens
<1>1. Init => ClosedFirst
  BY DEF Init, ClosedFirst
<1>2. PipelineInv /\ ClosedFirst /\ [PromptNext]_vars => ClosedFirst'
  BY ClosedFirstStep DEF PromptNext, ApartNext
<1>3. ASSUME PipelineInv, RestartInv, ClosedFirst, [PromptNext]_vars,
             mop = "close", mpc = "wait", mpc' = "wait"
      PROVE  /\ epc'[instance] # epc[instance] => StepsToClose' < StepsToClose
             /\ StepsToClose' <= StepsToClose
  <2> DEFINE captured == IF rpc \in {"game", "copyFailed"} THEN 0 ELSE 6
  <2>1. StepsToWait \in Nat /\ StepsToWait' \in Nat
    BY <1>3, WaitNatural
  <2>2. captured \in Nat /\ captured' \in Nat
    OBVIOUS
  <2>3. CASE \E h \in Helpers : EncoderNext(h)
    <3>1. StepsToWait' < StepsToWait
      BY <1>3, <2>3, ThreadShortens
    <3>2. captured' = captured
      BY <2>3 DEF EncoderNext, renderLocals
    <3>3. StepsToClose = StepsToWait + captured /\ StepsToClose' = StepsToWait' + captured'
      BY DEF StepsToClose
    <3> HIDE DEF captured
    <3>4. /\ StepsToWait' + captured < StepsToWait + captured
          /\ StepsToWait' + captured <= StepsToWait + captured
      BY <2>1, <2>2, <3>1, LessWithRest
    <3> QED
      BY <3>2, <3>3, <3>4
  <2>4. CASE ~(\E h \in Helpers : EncoderNext(h))
    <3>1. UNCHANGED <<instance, epc>> /\ (UNCHANGED encodeQueue \/ RenderNext)
      BY <1>3, <2>4, OthersLeaveThread
    <3>2. Len(encodeQueue) \in Nat /\ StepsToEnd(epc[instance]) \in Nat
      BY <1>3, WaitNatural
    <3>3. CASE RenderNext
      <4>1. \/ UNCHANGED encodeQueue /\ captured' <= captured
            \/ /\ captured = 6 /\ captured' = 0
               /\ Len(encodeQueue') = Len(encodeQueue) + 1
        BY <1>3, <3>3, RenderSendsAtMostOne DEF ClosedFirst
      <4> QED
        BY <2>1, <2>2, <3>1, <3>2, <4>1 DEF StepsToClose, StepsToWait
    <3>4. CASE ~RenderNext
      <4>1. rpc' = rpc
        BY <1>3, <2>4, <3>4
           DEF PromptNext, ApartNext, Next, LoaderNext, LoaderStep, GetHeartBeatServer,
               GetMJPEGServer, Attach, BeginJoin, DestroyHeartBeat, OutsideEncoder,
               Callbacks, Callback, OnApplicationStart, ResolutionChanged, ScreenChanged,
               OnAppClosed, OnAppStatusChanged, Client, ConnectionChanges, TcpStep,
               renderLocals, vars
      <4> QED
        BY <2>1, <2>2, <3>1, <3>2, <3>4, <4>1 DEF StepsToClose, StepsToWait
    <3> QED
      BY <3>3, <3>4
  <2> QED
    BY <2>3, <2>4
<1>4. PipelineInv /\ RestartInv /\ ClosedFirst /\ [PromptNext]_vars =>
        [mop = "close" /\ mpc = "wait" /\ mpc' = "wait" =>
           /\ epc'[instance] # epc[instance] => StepsToClose' < StepsToClose
           /\ StepsToClose' <= StepsToClose]_vars
  BY <1>3
<1> QED
  BY <1>1, <1>2, <1>4, RestartInvariant, PTL DEF CloseShortens, PromptSpec

=============================================================================
