------------------------- MODULE StreamingPluginProofs ------------------------
(***************************************************************************)
(* The whole plugin implements FramePipeline, so that everything proved of *)
(* FramePipeline holds of it.  Without any assumption on timing the field  *)
(* of HeartBeatServer owns the UDP servers; under those of TimelySpec no   *)
(* send to a dying server begins and no client is lost, unless a handler   *)
(* overtook a restart.                                                     *)
(***************************************************************************)
EXTENDS StreamingPlugin, RestartProofs, FrameLossProofs

-----------------------------------------------------------------------------
(* The plugin and the pipeline                                             *)

(* A step of the plugin is one of the pipeline, or nothing to it.          *)
LEMMA PluginStepIsPipelineStep == [PluginNext]_pluginVars => [Next]_vars
<1> SUFFICES ASSUME [PluginNext]_pluginVars PROVE [Next]_vars
  OBVIOUS
<1>1. CASE PluginRender
  BY <1>1 DEF PluginRender, Next
<1>2. CASE \E h \in Helpers : PluginEncoder(h)
  BY <1>2 DEF PluginEncoder, Next
<1>3. CASE PluginLoader
  <2> USE DEF Next, LoaderNext
  <2>1. CASE LoaderStep
    BY <2>1
  <2>2. CASE CreateHeartBeatServer \/ ReadMJPEGServer \/ AttachMJPEGServer
    BY <2>2 DEF CreateHeartBeatServer, ReadMJPEGServer, AttachMJPEGServer
  <2>3. CASE BeginDestructor
    BY <2>3 DEF BeginDestructor
  <2>4. CASE EndDestructor \/ JoinTcpThread
    BY <2>4 DEF EndDestructor, JoinTcpThread
  <2> QED
    BY <1>3, <2>1, <2>2, <2>3, <2>4 DEF PluginLoader
<1>4. CASE Environment
  BY <1>4 DEF Environment, Next, Client
<1>5. CASE CallEncoder
  BY <1>5 DEF CallEncoder, Next, Client
<1>6. CASE Accept \/ CloseConnection \/ DeleteServer \/ CreateInstance \/ LeaveThread
  BY <1>6 DEF Accept, CloseConnection, DeleteServer, CreateInstance, LeaveThread
<1>7. CASE UNCHANGED pluginVars
  BY <1>7 DEF pluginVars
<1> QED
  BY <1>1, <1>2, <1>3, <1>4, <1>5, <1>6, <1>7 DEF PluginNext, Handle

(* StreamingPlugin implements FramePipeline: the TCP thread as it is does  *)
(* nothing that the arbitrary one of FramePipeline could not do.           *)
THEOREM PluginImplementsPipeline == PluginSpec => Spec
<1>1. PluginInit => Init
  BY DEF PluginInit
<1> QED
  BY <1>1, PluginStepIsPipelineStep, PTL DEF PluginSpec, Spec

(* So the whole plugin, whatever its threads do in whatever order, treats  *)
(* every frame, JPEG and quality as the theorems about FramePipeline say   *)
(* (stream_utils.cpp: 104-213, EncodingHelper.cpp: 90-138).                *)
THEOREM PluginFramesCorrect ==
    PluginSpec => /\ []OneOwner /\ []GpuWorksOnCapturedFrame /\ []LossBound
                  /\ []HandlesAccountedFor /\ []EncoderQualityExcursion
                  /\ StreamSpec
BY PluginImplementsPipeline, OwnershipCorrect, GpuCorrect, LossBounded, HandlesCorrect,
   EncoderQualityBounded, PipelineImplementsStream, PTL

-----------------------------------------------------------------------------
(* The two threads and the field, without any assumption on timing         *)

(* Calls of the encoder are made inside handlers; the thread exists as     *)
(* long as its object does.                                                *)
HandlerProgress ==
    /\ tpc # "idle" => tcp \in {"accepted", "attach", "closed"}
    /\ tcp = "none" <=> ~heartBeat
    /\ tcp = "ended" => mpc = "join"
    /\ mpc \in {"getServer", "attach"} => heartBeat

(* What has become of the server when the TCP thread is where it is.  A    *)
(* server that the field no longer has can live only while a close waits   *)
(* for the TCP thread.                                                     *)
FieldProgress ==
    /\ FieldOwnsServer
    /\ \A s \in Servers : sstate[s] = "live" => heartBeat
    /\ mpc # "join" => \A s \in Servers : sstate[s] = "live" => s = mjpegStreamServer
    /\ heartBeat /\ mjpegStreamServer # NULL => sstate[mjpegStreamServer] = "live"
    /\ tcp \in {"listen", "accepted", "renew", "create"} => mjpegStreamServer = NULL
    /\ tcp \in {"accepted", "renew", "create"} => \A s \in Servers : sstate[s] # "live"
    /\ tcp \in {"attach", "loop", "closed", "drop"} /\ mpc # "join"
         => mjpegStreamServer # NULL
    /\ doomed[Tcp] # NULL =>
         tcp = "drop" /\ (mpc # "join" => doomed[Tcp] = mjpegStreamServer)
    /\ doomed[Loader] # NULL => mpc = "destroyed"

FieldInv == PluginTypeOK /\ HandlerProgress /\ FieldProgress

LEMMA FieldInvInit == PluginInit => FieldInv
<1> SUFFICES ASSUME PluginInit PROVE FieldInv
  OBVIOUS
<1> USE HelperAssumption, LoaderAssumption
    DEF PluginInit, Init, ServerInit, EncoderInit, RenderInit
<1>1. PluginTypeOK
  BY DEF PluginTypeOK, ServerTypeOK
<1>2. HandlerProgress
  BY DEF HandlerProgress
<1>3. FieldProgress
  BY DEF FieldProgress, FieldOwnsServer
<1> QED
  BY <1>1, <1>2, <1>3 DEF FieldInv

-----------------------------------------------------------------------------
(* Steps that leave the UDP servers and the TCP thread alone               *)

QuietStep ==
    \/ PluginRender
    \/ \E h \in Helpers : PluginEncoder(h)
    \/ Environment
    \/ LoaderStep /\ UNCHANGED heartBeatVars

(* Steps of the loader thread, and of the TCP thread, that may not.        *)
LoaderServerStep ==
    \/ CreateHeartBeatServer \/ ReadMJPEGServer \/ AttachMJPEGServer
    \/ BeginDestructor \/ EndDestructor \/ JoinTcpThread

TcpServerStep == Accept \/ CloseConnection \/ Handle \/ LeaveThread

LEMMA PluginSteps ==
    PluginNext => QuietStep \/ LoaderServerStep \/ TcpServerStep
BY DEF PluginNext, PluginLoader, QuietStep, LoaderServerStep, TcpServerStep

LEMMA QuietLeaves ==
    QuietStep => /\ UNCHANGED <<tcp, mjpegStreamServer, sstate, doomed, handed>>
                 /\ UNCHANGED <<overtaken, tpc, heartBeat>>
BY DEF QuietStep, PluginRender, RenderNext, PluginEncoder, EncoderNext, Environment,
       Callbacks, OnApplicationStart, ResolutionChanged, ScreenChanged, OnAppClosed,
       OnAppStatusChanged, Callback, ConnectionChanges, LoaderStep, callerVars,
       heartBeatVars, serverVars

(* How a quiet step moves the loader thread.                               *)
LEMMA QuietMoves ==
    ASSUME QuietStep
    PROVE  \/ mpc' = mpc
           \/ mpc = "idle" /\ mpc' = "stop"
           \/ /\ mpc \in {"stop", "wait", "delete", "forget", "get", "construct",
                          "publish", "start", "getAgain"}
              /\ mpc' \in {"wait", "delete", "forget", "get", "construct", "publish",
                           "start", "getAgain", "getHeartBeat", "destroyed"}
BY DEF QuietStep, PluginRender, RenderNext, PluginEncoder, EncoderNext, Environment,
       Callbacks, OnApplicationStart, ResolutionChanged, ScreenChanged, OnAppClosed,
       OnAppStatusChanged, Callback, ConnectionChanges, LoaderStep, callerVars,
       LoaderAt, AfterDestroy

(* A call of the encoder begins and ends in a handler.                     *)
LEMMA HandlerProgressStep ==
    ASSUME HandlerProgress, [PluginNext]_pluginVars
    PROVE  HandlerProgress'
<1>1. CASE UNCHANGED pluginVars
  BY <1>1 DEF HandlerProgress, pluginVars, heartBeatVars, serverVars, vars, callerVars
<1>2. CASE QuietStep
  BY <1>2, QuietLeaves, QuietMoves DEF HandlerProgress
<1>3. CASE LoaderServerStep
  BY <1>3
     DEF HandlerProgress, LoaderServerStep, CreateHeartBeatServer, ReadMJPEGServer,
         AttachMJPEGServer, BeginDestructor, EndDestructor, JoinTcpThread,
         GetHeartBeatServer, GetMJPEGServer, Attach, BeginJoin, DestroyHeartBeat,
         LoaderAt, vars, callerVars
<1>4. CASE CallEncoder
  BY <1>4 DEF HandlerProgress, CallEncoder, TcpStep, TcpAt, AfterSet
<1>5. CASE Accept \/ CloseConnection \/ DeleteServer \/ CreateInstance \/ LeaveThread
  BY <1>5 DEF HandlerProgress, Accept, CloseConnection, DeleteServer,
              CreateInstance, LeaveThread, ThreadAt, vars, callerVars
<1> QED
  BY <1>1, <1>2, <1>3, <1>4, <1>5, PluginSteps DEF TcpServerStep, Handle

(* A server is created only while there is none; and when both threads     *)
(* delete one, it is the same, or one is created only after the other was  *)
(* deleted.                                                                *)
LEMMA FieldProgressStep ==
    ASSUME FieldInv, [PluginNext]_pluginVars
    PROVE  FieldProgress' /\ PluginTypeOK'
<1>1. FieldProgress /\ HandlerProgress /\ PluginTypeOK
  BY DEF FieldInv
<1> USE HelperAssumption, LoaderAssumption
    DEF FieldProgress, FieldOwnsServer, PluginTypeOK, ServerTypeOK
<1>2. CASE UNCHANGED pluginVars
  BY <1>1, <1>2 DEF pluginVars, heartBeatVars, serverVars, vars, callerVars
<1>3. CASE QuietStep
  BY <1>1, <1>3, QuietLeaves, QuietMoves
<1>4. CASE CreateHeartBeatServer
  BY <1>1, <1>4 DEF HandlerProgress, CreateHeartBeatServer, GetHeartBeatServer, LoaderAt
<1>5. CASE ReadMJPEGServer \/ AttachMJPEGServer
  <2>1. /\ mpc \in {"getServer", "attach"} /\ mpc' \in {"attach", "idle"}
        /\ UNCHANGED <<tcp, heartBeat, mjpegStreamServer, sstate, doomed>>
        /\ handed' \in {NULL, mjpegStreamServer}
    BY <1>5 DEF ReadMJPEGServer, AttachMJPEGServer, GetMJPEGServer, Attach, LoaderAt,
                serverVars
  <2>2. overtaken' \in BOOLEAN
    BY <1>1, <1>5 DEF ReadMJPEGServer, AttachMJPEGServer
  <2> QED
    BY <1>1, <2>1, <2>2
<1>6. CASE JoinTcpThread
  BY <1>1, <1>6 DEF HandlerProgress, JoinTcpThread, DestroyHeartBeat, LoaderAt
<1>7. CASE BeginDestructor
  BY <1>1, <1>7 DEF BeginDestructor, BeginDelete, vars, callerVars
<1>8. CASE EndDestructor
  <2>1. mpc = "destroyed" /\ mpc' = "join" /\ UNCHANGED <<tcp, handed, overtaken, heartBeat>>
    BY <1>8 DEF EndDestructor, BeginJoin, LoaderAt
  <2>2. CASE EndDelete(Loader)
    BY <1>1, <2>1, <2>2 DEF EndDelete
  <2>3. CASE NoServerToDelete(Loader)
    BY <1>1, <2>1, <2>3 DEF NoServerToDelete, serverVars
  <2> QED
    BY <1>8, <2>2, <2>3 DEF EndDestructor
<1>9. CASE CallEncoder
  BY <1>1, <1>9
     DEF HandlerProgress, CallEncoder, TcpStep, TcpAt, AfterSet, serverVars
<1>10. CASE Accept \/ CloseConnection \/ LeaveThread
  BY <1>1, <1>10
     DEF HandlerProgress, Accept, CloseConnection, LeaveThread, ThreadAt,
         CanHandle, vars, callerVars, serverVars
<1>11. CASE DeleteServer
  <2>1. /\ tcp \in {"renew", "drop"} /\ UNCHANGED <<mpc, handed, overtaken, heartBeat>>
    BY <1>11 DEF DeleteServer, vars, callerVars
  <2>2. CASE BeginDelete(Tcp) /\ UNCHANGED tcp
    BY <1>1, <2>1, <2>2 DEF BeginDelete, HandlerProgress
  <2>3. CASE EndDelete(Tcp) /\ tcp' = IF tcp = "renew" THEN "create" ELSE "listen"
    BY <1>1, <2>1, <2>3 DEF EndDelete
  <2>4. CASE NoServerToDelete(Tcp) /\ tcp' = IF tcp = "renew" THEN "create" ELSE "listen"
    BY <1>1, <2>1, <2>4 DEF NoServerToDelete, serverVars
  <2> QED
    BY <1>11, <2>2, <2>3, <2>4 DEF DeleteServer
<1>12. CASE CreateInstance
  <2>1. PICK s \in Servers : /\ sstate[s] = "unborn"
                             /\ sstate' = [sstate EXCEPT ![s] = "live"]
                             /\ mjpegStreamServer' = s
    BY <1>12 DEF CreateInstance, CreateServer
  <2>2. /\ tcp = "create" /\ tcp' = "attach"
        /\ UNCHANGED <<doomed, mpc, handed, overtaken, heartBeat>>
    BY <1>12 DEF CreateInstance, CreateServer, ThreadAt, vars, callerVars
  <2>3. heartBeat
    BY <1>1, <2>2 DEF HandlerProgress
  <2> QED
    BY <1>1, <2>1, <2>2, <2>3
<1> QED
  BY <1>2, <1>3, <1>4, <1>5, <1>6, <1>7, <1>8, <1>9, <1>10, <1>11, <1>12, PluginSteps
     DEF LoaderServerStep, TcpServerStep, Handle

LEMMA FieldInvariant == PluginSpec => []FieldInv
<1>1. FieldInv /\ [PluginNext]_pluginVars => FieldInv'
  BY HandlerProgressStep, FieldProgressStep DEF FieldInv
<1> QED
  BY <1>1, FieldInvInit, PTL DEF PluginSpec

(* All variables of the plugin keep their types (the fields of main.cpp    *)
(* and HeartBeatServer.hpp: 73).                                           *)
THEOREM PluginTypeCorrect == PluginSpec => []PluginTypeOK
<1>1. FieldInv => PluginTypeOK
  BY DEF FieldInv
<1> QED
  BY <1>1, FieldInvariant, PTL

(* However the TCP thread's handlers, the restarts and a close run beside  *)
(* each other, there is one UDP server at most, and but for a close        *)
(* mjpegStreamServer points to it and it is deleted once                   *)
(* (HeartBeatServer.cpp: 39, 76, 93).                                      *)
THEOREM ServersOwned == PluginSpec => []FieldOwnsServer
<1>1. FieldInv => FieldOwnsServer
  BY DEF FieldInv, FieldProgress
<1> QED
  BY <1>1, FieldInvariant, PTL

-----------------------------------------------------------------------------
(* The encoder and its server, under the assumptions of TimelySpec         *)

(* A callback that closes the application found it running, and stops the  *)
(* capture of frames before it deletes anything.                           *)
CloseProgress ==
    /\ mpc = "idle" => mop = "none"
    /\ mpc # "idle" => mop \in {"restart", "close"}
    /\ mpc \in {"destroyed", "join"} => mop = "close"
    /\ mop = "close" => gAppStatus = "CLOSED"
    /\ mpc = "idle" /\ gAppStatus \in {"FOREGROUND", "BACKGROUND"} => instance # NULL
    /\ mpc = "stop" /\ mop = "close" => instance # NULL
    /\ mpc \in {"forget", "destroyed", "join"} /\ mop = "close" => rpc # "stream"
    /\ mpc \in {"start", "getAgain", "getHeartBeat", "getServer", "attach"}
         => instance # NULL

(* The object whose thread runs, or will run.                              *)
Serves(h) == h = instance /\ (epc[h] # "none" \/ mpc = "start")

(* The new encoder is there, and Attach has still to come.                 *)
Starting == mpc \in {"start", "getAgain", "getHeartBeat", "getServer", "attach"}

InUse(server) ==
    server = mjpegStreamServer /\ tcp \in {"attach", "loop", "closed"}

(* Which servers the encoder can come to use.                              *)
EncoderProgress ==
    /\ \A h \in Helpers :
         Serves(h) /\ mjpegServer[h] # NULL =>
           (overtaken /\ ~Starting) \/ InUse(mjpegServer[h])
    /\ \A h \in Helpers : hstate[h] = "unborn" => mjpegServer[h] = NULL
    /\ mpc = "publish" => mjpegServer[ref[Loader]] = NULL
    /\ mpc \in {"getHeartBeat", "getServer", "attach"} => ref[Loader] = instance
    /\ mpc \in {"destroyed", "join"} => instance = NULL \/ epc[instance] = "none"
    /\ tpc = "set" => instance # NULL /\ instance = ref[Tcp]
    /\ mpc = "attach" /\ ~overtaken =>
         IF handed = NULL THEN tcp \notin {"loop", "closed"} ELSE InUse(handed)
    /\ AttachedWhenQuiet

PluginInv == FieldInv /\ CloseProgress /\ EncoderProgress

LEMMA PluginInvInit == PluginInit => PluginInv
<1> SUFFICES ASSUME PluginInit PROVE PluginInv
  OBVIOUS
<1> USE HelperAssumption, LoaderAssumption
    DEF PluginInit, Init, ServerInit, EncoderInit, RenderInit
<1>1. FieldInv
  BY FieldInvInit
<1>2. CloseProgress
  BY DEF CloseProgress
<1>3. EncoderProgress
  BY DEF EncoderProgress, Serves, AttachedWhenQuiet
<1> QED
  BY <1>1, <1>2, <1>3 DEF PluginInv

LEMMA TimelyStepIsPluginStep ==
    [TimelyNext]_pluginVars => [PluginNext]_pluginVars
BY DEF TimelyNext

(* TimelySpec is at least as strict as PromptSpec.                         *)
LEMMA TimelyStepIsPromptStep == [TimelyNext]_pluginVars => [PromptNext]_vars
<1> SUFFICES ASSUME [TimelyNext]_pluginVars PROVE [PromptNext]_vars
  OBVIOUS
<1>1. [Next]_vars
  BY TimelyStepIsPluginStep, PluginStepIsPipelineStep
<1>2. UNCHANGED vars \/ (CallsApart /\ ~StopsUnstarted)
  BY DEF TimelyNext, pluginVars
<1> QED
  BY <1>1, <1>2 DEF PromptNext, ApartNext

-----------------------------------------------------------------------------
(* Starting and closing an application                                     *)

(* What a step of an encoder thread changes of what is seen here: where    *)
(* the thread is, and the server it sends to.                              *)
LEMMA EncoderMoves ==
    ASSUME EncoderTypeOK, NEW h \in Helpers, PluginEncoder(h)
    PROVE  /\ UNCHANGED <<callerVars, heartBeat, settingsVars, rpc, heartBeatVars>>
           /\ UNCHANGED <<instance, hstate, mjpegServer>>
           /\ epc[h] # "none"
           /\ \E there : there # "none" /\ epc' = [epc EXCEPT ![h] = there]
           /\ \/ target' = target
              \/ target' = [target EXCEPT ![h] = NULL]
              \/ /\ Alive(h) /\ mjpegServer[h] # NULL
                 /\ target' = [target EXCEPT ![h] = mjpegServer[h]]
<1> USE DEF EncoderAt, objectVars, Alive
<1>1. /\ UNCHANGED <<callerVars, heartBeat, settingsVars, rpc, heartBeatVars>>
      /\ EncoderStep(h, curQuality)
  BY DEF PluginEncoder, EncoderNext, renderLocals
<1>2. CASE ThreadRuns(h) \/ ThreadEntersLoop(h) \/ KeepRunning(h) \/ LeaveLoop(h)
           \/ ThreadStops(h)
  BY <1>1, <1>2 DEF ThreadRuns, ThreadEntersLoop, KeepRunning, LeaveLoop, ThreadStops
<1>3. CASE ReceiveFrame(h) \/ NothingReceived(h) \/ ReleaseFrame(h)
  BY <1>1, <1>3 DEF ReceiveFrame, NothingReceived, ReleaseFrame
<1>4. CASE BeginConvert(h, curQuality) \/ NoCompressor(h) \/ Converted(h)
           \/ ConvertFailed(h) \/ NobodyToStreamTo(h)
  BY <1>1, <1>4 DEF BeginConvert, NoCompressor, Converted, ConvertFailed, NobodyToStreamTo
<1>5. CASE BeginStreamJPEG(h)
  BY <1>1, <1>5 DEF BeginStreamJPEG
<1>6. CASE EndStreamJPEG(h)
  BY <1>1, <1>6 DEF EndStreamJPEG
<1> QED
  BY <1>1, <1>2, <1>3, <1>4, <1>5, <1>6 DEF EncoderStep

(* The game's thread enters the plugin only while the application runs.    *)
LEMMA RenderMoves ==
    ASSUME PluginRender
    PROVE  /\ UNCHANGED <<callerVars, heartBeat, settingsVars, heartBeatVars>>
           /\ UNCHANGED <<objectVars, encoderLocals>>
           /\ rpc' = "stream" => rpc = "stream" \/ gAppStatus = "FOREGROUND"
<1>1. /\ UNCHANGED <<callerVars, heartBeat, objectVars, encoderLocals, heartBeatVars>>
      /\ Render \/ GpuFinishes
  BY DEF PluginRender, RenderNext
<1>2. CASE Render
  BY <1>1, <1>2
     DEF Render, RenderStep, GX2CopyColorBufferToScanBuffer, IsInstanceConnected,
         AllocateColorBuffer, ColorBufferNotAllocated, AllocateImage, ImageNotAllocated,
         CopySurface, ResolveAndCopySurface, TempNotAllocated, FreeTempSurface,
         CopyBufferFailed, GX2DrawDone, SendFrame, DropFrame, CorrectQuality, Correct,
         LeaveStreamVideo
<1>3. CASE GpuFinishes
  BY <1>1, <1>3 DEF GpuFinishes
<1> QED
  BY <1>1, <1>2, <1>3

(* The environment decides about callbacks and the connection only.        *)
LEMMA EnvironmentMoves ==
    ASSUME Environment
    PROVE  UNCHANGED <<objectVars, encoderLocals, ref, tpc, heartBeat, rpc, heartBeatVars>>
BY DEF Environment, Callbacks, OnApplicationStart, ResolutionChanged, ScreenChanged,
       OnAppClosed, OnAppStatusChanged, Callback, ConnectionChanges, callerVars,
       renderLocals

(* The object a call of the TCP thread found or made is there afterwards.  *)
LEMMA TcpMoves ==
    ASSUME PipelineInv, RestartInv, PluginInv, CallEncoder
    PROVE  /\ UNCHANGED <<mpc, mop, gAppStatus, rpc, mjpegStreamServer, sstate, doomed, handed>>
           /\ UNCHANGED <<epc, target, heartBeat>>
           /\ ref' = [ref EXCEPT ![Tcp] = ref'[Tcp]]
           /\ \A h \in Helpers : hstate[h] # "unborn" => hstate'[h] # "unborn"
           /\ \/ instance' = instance
              \/ /\ instance = NULL /\ tpc = "publish" /\ tcp' = tcp
                 /\ instance' \in Helpers /\ epc[instance'] = "none"
           /\ tpc' = "set" => instance' # NULL /\ instance' = ref'[Tcp]
<1>1. /\ EncoderTypeOK /\ FreshThread /\ TcpProgress /\ EncoderProgress
      /\ TcpStep /\ UNCHANGED <<mpc, mop, heartBeat, gAppStatus, rpc>>
      /\ UNCHANGED <<mjpegStreamServer, sstate, doomed, handed>>
  BY DEF PipelineInv, TypeOK, Ownership, RestartInv, PluginInv, CallEncoder, TcpStep,
         OutsideEncoder, renderLocals, settingsVars, serverVars
<1> USE <1>1, HelperAssumption, LoaderAssumption
    DEF TcpAt, objectVars, encoderLocals, EncoderTypeOK
<1>2. CASE TcpAt("idle", "set") /\ InstanceFound(Tcp)
  BY <1>2 DEF InstanceFound
<1>3. CASE /\ TcpAt("idle", "construct")
           /\ UNCHANGED <<objectVars, ref, encoderLocals, encodeQueue>>
  BY <1>3
<1>4. CASE TcpAt("construct", "publish") /\ ConstructInstance(Tcp)
  BY <1>4 DEF ConstructInstance
<1>5. CASE TcpAt("publish", "set") /\ PublishInstance(Tcp)
  BY <1>5 DEF PublishInstance, TcpProgress, FreshThread, Fresh, CallEncoder
<1>6. CASE TcpAt("set", "idle") /\ UNCHANGED <<instance, hstate, encoderLocals, ref>>
  BY <1>6
<1> QED
  BY <1>2, <1>3, <1>4, <1>5, <1>6 DEF TcpStep, SetMJPEGStreamServer

LEMMA CloseProgressStep ==
    ASSUME PipelineInv, RestartInv, PluginInv, [TimelyNext]_pluginVars
    PROVE  CloseProgress'
<1>1. /\ EncoderTypeOK /\ RenderTypeOK /\ LoaderProgress /\ CloseProgress /\ FreshThread
      /\ mpc \in {"idle", "stop", "wait", "delete", "forget", "get", "construct",
                  "publish", "start", "getAgain", "getHeartBeat", "getServer", "attach",
                  "destroyed", "join"}
  BY DEF PipelineInv, TypeOK, Ownership, RestartInv, PluginInv
<1> USE <1>1, HelperAssumption, LoaderAssumption DEF EncoderTypeOK
<1>2. CASE UNCHANGED <<mpc, mop, gAppStatus, instance, rpc>>
  BY <1>2 DEF CloseProgress
<1>3. CASE PluginRender
  BY <1>3, RenderMoves DEF CloseProgress, callerVars, settingsVars, objectVars
<1>4. CASE \E h \in Helpers : PluginEncoder(h)
  BY <1>4, EncoderMoves, <1>2 DEF callerVars, settingsVars
<1>5. CASE Environment
  <2>1. UNCHANGED <<instance, rpc>>
    BY <1>5, EnvironmentMoves DEF objectVars
  <2>2. CASE Callbacks
    BY <2>1, <2>2 DEF CloseProgress, Callbacks, OnApplicationStart, OnAppClosed,
                      ResolutionChanged, ScreenChanged, OnAppStatusChanged, Callback, callerVars
  <2>3. CASE ConnectionChanges
    BY <1>2, <2>1, <2>3 DEF ConnectionChanges, callerVars, settingsVars
  <2> QED
    BY <1>5, <2>2, <2>3 DEF Environment
<1>6. CASE LoaderStep /\ UNCHANGED heartBeatVars /\ TimelyNext
  <2>1. UNCHANGED <<mop, gAppStatus, rpc>> /\ (LoaderAt("delete", "forget") => rpc # "stream")
    BY <1>6 DEF LoaderStep, OutsideEncoder, settingsVars, renderLocals, TimelyNext,
                RenderLeavesInTime
  <2> USE <2>1 DEF LoaderAt, AfterDestroy, objectVars, CloseProgress
  <2>2. CASE LoaderAt("stop", "wait") /\ StopAsyncThread
    BY <2>2 DEF StopAsyncThread
  <2>3. CASE /\ LoaderAt("stop", AfterDestroy) /\ InstanceMissing
             /\ UNCHANGED <<objectVars, ref, encoderLocals, encodeQueue>>
    BY <2>3 DEF InstanceMissing
  <2>4. CASE LoaderAt("wait", "delete") /\ ThreadSeenStopped
    BY <2>4 DEF ThreadSeenStopped
  <2>5. CASE LoaderAt("delete", "forget") /\ DeleteInstance
    BY <2>5 DEF DeleteInstance
  <2>6. CASE LoaderAt("forget", AfterDestroy) /\ ForgetInstance
    BY <2>6 DEF ForgetInstance
  <2>7. CASE LoaderAt("get", "start") /\ InstanceFound(Loader)
    BY <2>7 DEF InstanceFound
  <2>8. CASE /\ LoaderAt("get", "construct")
             /\ UNCHANGED <<objectVars, ref, encoderLocals, encodeQueue>>
    BY <2>8
  <2>9. CASE LoaderAt("construct", "publish") /\ ConstructInstance(Loader)
    BY <2>9 DEF ConstructInstance
  <2>10. CASE LoaderAt("publish", "start") /\ PublishInstance(Loader)
    BY <2>10 DEF PublishInstance, FreshThread, Fresh
  <2>11. CASE LoaderAt("start", "getAgain") /\ StartAsyncThread(Loader)
    BY <2>11 DEF StartAsyncThread
  <2>12. CASE LoaderAt("getAgain", "getHeartBeat") /\ InstanceFound(Loader)
    BY <2>12 DEF InstanceFound
  <2> QED
    BY <1>6, <2>2, <2>3, <2>4, <2>5, <2>6, <2>7, <2>8, <2>9, <2>10, <2>11, <2>12
       DEF LoaderStep
<1>7. CASE CreateHeartBeatServer \/ ReadMJPEGServer \/ AttachMJPEGServer
  BY <1>7 DEF CloseProgress, CreateHeartBeatServer, ReadMJPEGServer, AttachMJPEGServer,
              GetHeartBeatServer, GetMJPEGServer, Attach, SetMJPEGStreamServer, LoaderAt,
              OutsideEncoder, objectVars, renderLocals, settingsVars
<1>8. CASE EndDestructor \/ JoinTcpThread
  BY <1>8 DEF CloseProgress, EndDestructor, JoinTcpThread, BeginJoin, DestroyHeartBeat,
              LoaderAt, objectVars, renderLocals, settingsVars
<1>9. CASE CallEncoder
  BY <1>9, TcpMoves DEF CloseProgress
<1>10. CASE BeginDestructor \/ Accept \/ CloseConnection \/ DeleteServer \/ CreateInstance
            \/ LeaveThread \/ UNCHANGED pluginVars
  BY <1>2, <1>10 DEF BeginDestructor, Accept, CloseConnection, DeleteServer, CreateInstance,
                     LeaveThread, pluginVars, vars, callerVars, settingsVars, objectVars,
                     renderLocals
<1> QED
  BY <1>3, <1>4, <1>5, <1>6, <1>7, <1>8, <1>9, <1>10 DEF TimelyNext, PluginNext, PluginLoader, Handle

-----------------------------------------------------------------------------
(* The servers and the encoder                                             *)

(* What the proofs below use of the invariants of the pipeline.            *)
LEMMA PluginFacts ==
    ASSUME PipelineInv, RestartInv, PluginInv
    PROVE  /\ EncoderTypeOK /\ PluginTypeOK
           /\ FreshThread /\ OnlyCurrentAlive /\ LoaderProgress /\ TcpProgress
           /\ HandlerProgress /\ FieldProgress /\ CloseProgress /\ EncoderProgress
BY DEF PipelineInv, TypeOK, Ownership, RestartInv, PluginInv, FieldInv

(* An encoder thread does not change which server its object has.          *)
LEMMA EncoderKeepsServers ==
    ASSUME PipelineInv, RestartInv, PluginInv, NEW h \in Helpers, PluginEncoder(h)
    PROVE  EncoderProgress'
<1>1. EncoderTypeOK /\ EncoderProgress
  BY PluginFacts
<1>2. /\ UNCHANGED <<mpc, tpc, ref, tcp, handed, overtaken, mjpegStreamServer>>
      /\ UNCHANGED <<instance, hstate, mjpegServer>>
      /\ epc[h] # "none"
      /\ \E there : there # "none" /\ epc' = [epc EXCEPT ![h] = there]
  BY <1>1, EncoderMoves DEF callerVars, heartBeatVars, serverVars
<1>3. \A g \in Helpers : epc'[g] = "none" <=> epc[g] = "none"
  BY <1>1, <1>2 DEF EncoderTypeOK
<1>4. \A g \in Helpers : Serves(g)' <=> Serves(g)
  BY <1>2, <1>3 DEF Serves
<1> QED
  BY <1>1, <1>2, <1>3, <1>4
     DEF EncoderProgress, AttachedWhenQuiet, EncoderTypeOK, InUse, Starting

(* The object that is published, or deleted, has no server and no thread.  *)
LEMMA LoaderKeepsServers ==
    ASSUME PipelineInv, RestartInv, PluginInv, LoaderStep, UNCHANGED heartBeatVars
    PROVE  EncoderProgress'
<1>1. /\ EncoderTypeOK /\ FreshThread /\ OnlyCurrentAlive /\ LoaderProgress
      /\ TcpProgress /\ CloseProgress /\ EncoderProgress
      /\ UNCHANGED <<mop, tpc, tcp, handed, overtaken, mjpegStreamServer, sstate>>
  BY PluginFacts DEF LoaderStep, heartBeatVars, serverVars
<1>2. tpc = "idle" \/ ~Replacing
  BY <1>1 DEF TcpProgress
<1> USE <1>1, <1>2, HelperAssumption, LoaderAssumption
    DEF LoaderAt, AfterDestroy, Replacing, objectVars, encoderLocals, EncoderTypeOK,
        EncoderProgress, Serves, AttachedWhenQuiet, InUse, Starting
<1>3. CASE LoaderAt("stop", "wait") /\ StopAsyncThread
  BY <1>3 DEF StopAsyncThread
<1>4. CASE /\ LoaderAt("stop", AfterDestroy) /\ InstanceMissing
           /\ UNCHANGED <<objectVars, ref, encoderLocals, encodeQueue>>
  BY <1>4 DEF InstanceMissing
<1>5. CASE LoaderAt("wait", "delete") /\ ThreadSeenStopped
  BY <1>5 DEF ThreadSeenStopped
<1>6. CASE LoaderAt("delete", "forget") /\ DeleteInstance
  BY <1>6 DEF DeleteInstance
<1>7. CASE LoaderAt("forget", AfterDestroy) /\ ForgetInstance
  BY <1>7 DEF ForgetInstance
<1>8. CASE LoaderAt("get", "start") /\ InstanceFound(Loader)
  BY <1>8 DEF InstanceFound, LoaderProgress
<1>9. CASE /\ LoaderAt("get", "construct")
           /\ UNCHANGED <<objectVars, ref, encoderLocals, encodeQueue>>
  BY <1>9
<1>10. CASE LoaderAt("construct", "publish") /\ ConstructInstance(Loader)
  BY <1>10 DEF ConstructInstance
<1>11. CASE LoaderAt("publish", "start") /\ PublishInstance(Loader)
  BY <1>11 DEF PublishInstance
<1>12. CASE LoaderAt("start", "getAgain") /\ StartAsyncThread(Loader)
  BY <1>12 DEF StartAsyncThread, LoaderProgress
<1>13. CASE LoaderAt("getAgain", "getHeartBeat") /\ InstanceFound(Loader)
  BY <1>13 DEF InstanceFound
<1> QED
  BY <1>3, <1>4, <1>5, <1>6, <1>7, <1>8, <1>9, <1>10, <1>11, <1>12, <1>13 DEF LoaderStep

(* A restart hands on the server it read, or was overtaken.                *)
LEMMA LoaderServerKeepsServers ==
    ASSUME PipelineInv, RestartInv, PluginInv, LoaderServerStep
    PROVE  EncoderProgress'
<1>1. /\ EncoderTypeOK /\ PluginTypeOK /\ FreshThread /\ HandlerProgress
      /\ FieldProgress /\ CloseProgress /\ EncoderProgress
  BY PluginFacts
<1> USE <1>1, HelperAssumption, LoaderAssumption
    DEF LoaderAt, objectVars, encoderLocals, EncoderTypeOK, PluginTypeOK, ServerTypeOK,
        EncoderProgress, Serves, AttachedWhenQuiet, InUse, Starting
<1>2. CASE CreateHeartBeatServer
  BY <1>2 DEF CreateHeartBeatServer, GetHeartBeatServer, HandlerProgress
<1>3. CASE ReadMJPEGServer
  <2>1. /\ mpc = "getServer" /\ mpc' = "attach" /\ handed' = mjpegStreamServer
        /\ overtaken' = (tcp = "drop")
        /\ UNCHANGED <<instance, hstate, ref, tpc, epc, mjpegServer, tcp, mjpegStreamServer>>
    BY <1>3 DEF ReadMJPEGServer, GetMJPEGServer, serverVars
  <2>2. tcp # "drop" /\ mjpegStreamServer # NULL => tcp \in {"attach", "loop", "closed"}
    <3>1. tcp \notin {"none", "ended"} \/ mjpegStreamServer = NULL
      BY <1>1, <2>1 DEF HandlerProgress, FieldProgress
    <3> QED
      BY <1>1, <3>1 DEF FieldProgress
  <2>3. tcp \in {"loop", "closed"} => mjpegStreamServer # NULL
    BY <1>1, <2>1 DEF FieldProgress
  <2> QED
    BY <2>1, <2>2, <2>3
<1>4. CASE AttachMJPEGServer
  <2>1. /\ mpc = "attach" /\ mpc' = "idle"
        /\ UNCHANGED <<instance, hstate, ref, tpc, epc, tcp, mjpegStreamServer, overtaken>>
        /\ mjpegServer' = [mjpegServer EXCEPT ![ref[Loader]] = handed]
    BY <1>4 DEF AttachMJPEGServer, Attach, SetMJPEGStreamServer, SetsServer, serverVars
  <2>2. instance # NULL /\ ref[Loader] = instance
    BY <2>1 DEF CloseProgress
  <2>3. tcp = "loop" => mjpegStreamServer # NULL
    BY <2>1 DEF FieldProgress
  <2> QED
    BY <2>1, <2>2, <2>3 DEF FreshThread
<1>5. CASE BeginDestructor \/ JoinTcpThread
  BY <1>5 DEF BeginDestructor, JoinTcpThread, BeginDelete, DestroyHeartBeat, vars,
              callerVars, serverVars, HandlerProgress
<1>6. CASE EndDestructor
  <2>1. /\ mpc = "destroyed" /\ mpc' = "join"
        /\ UNCHANGED <<instance, hstate, ref, tpc, epc, mjpegServer, tcp, handed>>
    BY <1>6 DEF EndDestructor, BeginJoin
  <2> QED
    BY <2>1
<1> QED
  BY <1>2, <1>3, <1>4, <1>5, <1>6 DEF LoaderServerStep

(* A handler takes the server away from the encoder before it deletes it,  *)
(* and gives the encoder the new one; whether a restart then still hands   *)
(* on another one is remembered.                                           *)
LEMMA CallKeepsServers ==
    ASSUME PipelineInv, RestartInv, PluginInv, CallEncoder, CallsApart
    PROVE  EncoderProgress'
<1>1. /\ EncoderTypeOK /\ FreshThread /\ TcpProgress /\ LoaderProgress /\ HandlerProgress
      /\ FieldProgress /\ CloseProgress /\ EncoderProgress /\ PluginTypeOK
  BY PluginFacts
<1>2. /\ UNCHANGED <<mpc, mjpegStreamServer, handed, epc>>
      /\ \A h \in Helpers : hstate[h] # "unborn" => hstate'[h] # "unborn"
      /\ ref'[Loader] = ref[Loader]
      /\ \/ instance' = instance
         \/ /\ instance = NULL /\ tpc = "publish" /\ tcp' = tcp
            /\ instance' \in Helpers /\ epc[instance'] = "none"
      /\ tpc' = "set" => instance' # NULL /\ instance' = ref'[Tcp]
  BY <1>1, TcpMoves, LoaderAssumption DEF EncoderTypeOK
<1>3. tcp \in {"accepted", "attach", "closed"} /\ ~Replacing
  <2>1. tcp \in {"accepted", "attach", "closed"}
    BY <1>1 DEF CallEncoder, HandlerProgress
  <2>2. tpc # "idle" \/ tpc' # "idle"
    BY DEF CallEncoder, TcpStep, TcpAt
  <2> QED
    BY <1>1, <1>2, <2>1, <2>2 DEF TcpProgress, CallsApart, Replacing
<1> USE <1>1, <1>2, <1>3, HelperAssumption, LoaderAssumption
    DEF EncoderTypeOK, EncoderProgress, Serves, AttachedWhenQuiet, Replacing, InUse, Starting
<1>4. CASE tpc # "set" /\ UNCHANGED <<mjpegServer, tcp, overtaken>>
  <2>1. \A h \in Helpers : Serves(h)' => Serves(h)
    BY <1>4 DEF CloseProgress
  <2>2. mpc \in {"getHeartBeat", "getServer", "attach"} => instance' = instance
    BY DEF CloseProgress
  <2>3. mpc \in {"destroyed", "join"} => instance' = NULL \/ epc[instance'] = "none"
    OBVIOUS
  <2>4. \A h \in Helpers : hstate'[h] = "unborn" => mjpegServer'[h] = NULL
    BY <1>4
  <2> QED
    BY <1>4, <2>1, <2>2, <2>3, <2>4
<1>5. CASE /\ tpc = "set" /\ SetsServer(Tcp, ServerToSet) /\ tcp' = AfterSet
           /\ overtaken' = (mpc = "attach" /\ handed # ServerToSet)
  <2>1. /\ instance' = instance /\ instance # NULL /\ instance = ref[Tcp]
        /\ hstate[instance] # "unborn"
    BY <1>5 DEF FreshThread
  <2>2. mjpegServer' = [mjpegServer EXCEPT ![instance] = ServerToSet]
    BY <1>5, <2>1 DEF SetsServer
  <2>3. CASE tcp = "attach"
    <3>1. ServerToSet = mjpegStreamServer /\ tcp' = "loop"
      BY <1>5, <2>3 DEF ServerToSet, AfterSet
    <3>2. mpc # "join" => mjpegStreamServer # NULL
      BY <2>3 DEF FieldProgress
    <3> QED
      BY <1>5, <2>1, <2>2, <3>1, <3>2
  <2>4. CASE tcp # "attach"
    <3>1. ServerToSet = NULL /\ tcp' \in {"renew", "drop"}
      BY <1>5, <2>4 DEF ServerToSet, AfterSet
    <3> QED
      BY <1>5, <2>1, <2>2, <3>1
  <2> QED
    BY <2>3, <2>4
<1>6. tpc \in {"idle", "construct", "publish"} => UNCHANGED <<mjpegServer, tcp, overtaken>>
  BY DEF CallEncoder, TcpStep, TcpAt, InstanceFound, ConstructInstance, PublishInstance,
         objectVars
<1>7. tpc \in {"idle", "construct", "publish", "set"}
  BY DEF CallEncoder, TcpStep, TcpAt
<1> QED
  BY <1>4, <1>5, <1>6, <1>7 DEF CallEncoder

(* A server is deleted only when the encoder does not have it.             *)
LEMMA TcpKeepsServers ==
    ASSUME PipelineInv, RestartInv, PluginInv,
           Accept \/ CloseConnection \/ DeleteServer \/ CreateInstance \/ LeaveThread
    PROVE  EncoderProgress'
<1>1. /\ EncoderTypeOK /\ PluginTypeOK /\ HandlerProgress /\ FieldProgress
      /\ CloseProgress /\ EncoderProgress
  BY PluginFacts
<1>2. UNCHANGED <<mpc, instance, hstate, ref, tpc, epc, mjpegServer, handed, overtaken>>
  BY DEF Accept, CloseConnection, DeleteServer, CreateInstance, LeaveThread, vars,
         callerVars, objectVars, encoderLocals
<1> USE <1>1, <1>2, HelperAssumption, LoaderAssumption
    DEF EncoderTypeOK, PluginTypeOK, ServerTypeOK, EncoderProgress, Serves, AttachedWhenQuiet,
        InUse, Starting
<1>3. CASE Accept \/ CloseConnection
  BY <1>3 DEF Accept, CloseConnection, ThreadAt, serverVars
<1>4. CASE LeaveThread
  <2>1. mpc = "join" /\ tcp' = "ended" /\ UNCHANGED mjpegStreamServer
    BY <1>4 DEF LeaveThread, ThreadAt, serverVars
  <2>2. \A h \in Helpers : ~Serves(h)
    BY <2>1
  <2> QED
    BY <2>1, <2>2
<1>5. CASE DeleteServer
  <2>1. tcp \in {"renew", "drop"} /\ tcp' \in {"renew", "drop", "create", "listen"}
    BY <1>5 DEF DeleteServer
  <2> QED
    BY <2>1
<1>6. CASE CreateInstance
  <2>1. tcp = "create" /\ tcp' = "attach"
    BY <1>6 DEF CreateInstance, ThreadAt
  <2>2. mpc = "attach" /\ ~overtaken => handed = NULL
    BY <2>1
  <2> QED
    BY <2>1, <2>2
<1> QED
  BY <1>3, <1>4, <1>5, <1>6

LEMMA EncoderProgressStep ==
    ASSUME PipelineInv, RestartInv, PluginInv, [TimelyNext]_pluginVars
    PROVE  EncoderProgress'
<1>1. EncoderProgress
  BY PluginFacts
<1> USE DEF EncoderProgress, Serves, AttachedWhenQuiet, InUse, Starting
<1>2. CASE UNCHANGED pluginVars
  BY <1>1, <1>2 DEF pluginVars, vars, callerVars, objectVars, encoderLocals, heartBeatVars,
                    serverVars
<1>3. CASE PluginRender
  BY <1>1, <1>3, RenderMoves DEF callerVars, objectVars, encoderLocals, heartBeatVars,
                                 serverVars
<1>4. CASE Environment
  <2>1. /\ mpc' = mpc \/ (mpc = "idle" /\ mpc' = "stop")
        /\ UNCHANGED <<objectVars, encoderLocals, ref, tpc, heartBeatVars>>
    BY <1>4, EnvironmentMoves
       DEF Environment, Callbacks, OnApplicationStart, ResolutionChanged, ScreenChanged,
           OnAppClosed, OnAppStatusChanged, Callback, ConnectionChanges, callerVars
  <2> QED
    BY <1>1, <2>1 DEF objectVars, encoderLocals, heartBeatVars, serverVars
<1> QED
  BY <1>2, <1>3, <1>4, EncoderKeepsServers, LoaderKeepsServers, LoaderServerKeepsServers,
     CallKeepsServers, TcpKeepsServers
     DEF TimelyNext, PluginNext, PluginLoader, LoaderServerStep, Handle

-----------------------------------------------------------------------------
(* What holds under the timing assumptions                                 *)

LEMMA PluginInvStep ==
    ASSUME PipelineInv, RestartInv, PluginInv, [TimelyNext]_pluginVars
    PROVE  PipelineInv' /\ RestartInv' /\ PluginInv'
<1>1. FieldInv'
  BY TimelyStepIsPluginStep, HandlerProgressStep, FieldProgressStep DEF PluginInv, FieldInv
<1>2. PipelineInv' /\ RestartInv'
  BY TimelyStepIsPromptStep, PipelineInvStep, RestartInvStep DEF PromptNext, ApartNext
<1>3. CloseProgress' /\ EncoderProgress'
  BY CloseProgressStep, EncoderProgressStep
<1> QED
  BY <1>1, <1>2, <1>3 DEF PluginInv

LEMMA TimelyInvariant == TimelySpec => [](PipelineInv /\ RestartInv /\ PluginInv)
<1>1. PluginInit => PipelineInv /\ RestartInv /\ PluginInv
  BY PipelineInvInit, RestartInvInit, PluginInvInit DEF PluginInit
<1> QED
  BY <1>1, PluginInvStep, PTL DEF TimelySpec

(* Under its timing assumptions the plugin implements PromptSpec too, the  *)
(* pipeline in which destroyInstance waits for a thread that has started.  *)
THEOREM TimelyImplementsPrompt == TimelySpec => PromptSpec
<1>1. PluginInit => Init
  BY DEF PluginInit
<1> QED
  BY <1>1, TimelyStepIsPromptStep, PTL DEF TimelySpec, PromptSpec

(* So a restart and a close of the whole plugin wait for a thread that     *)
(* comes nearer to its end with each of its steps (EncodingHelper.h:       *)
(* 48-52).                                                                 *)
THEOREM PluginWaitsEnd == TimelySpec => /\ []StopRequestHeard
                                       /\ WaitShortens /\ CloseShortens
BY TimelyImplementsPrompt, StopHeard, WaitEnds, CloseWaitEnds, PTL

(* A thread has a server in hand only while it is in streamJPEG, so a send *)
(* begins where the code begins it.                                        *)
LEMMA SendBegins ==
    ASSUME PipelineInv, RestartInv, PluginInv, [TimelyNext]_pluginVars,
           NEW h \in Helpers, target[h] = NULL, target'[h] # NULL
    PROVE  Alive(h) /\ target'[h] = mjpegServer[h]
<1>1. EncoderTypeOK
  BY PluginFacts
<1>2. CASE \E g \in Helpers : PluginEncoder(g)
  BY <1>1, <1>2, EncoderMoves DEF EncoderTypeOK
<1>3. CASE ~(\E g \in Helpers : PluginEncoder(g))
  <2>1. CASE PluginRender \/ Environment \/ UNCHANGED pluginVars
    BY <2>1, RenderMoves, EnvironmentMoves DEF encoderLocals, pluginVars, vars
  <2>2. CASE PluginLoader
    BY <2>2
       DEF PluginLoader, LoaderStep, StopAsyncThread, ThreadSeenStopped, DeleteInstance,
           ForgetInstance, InstanceFound, ConstructInstance, PublishInstance,
           StartAsyncThread, CreateHeartBeatServer, ReadMJPEGServer, AttachMJPEGServer,
           GetHeartBeatServer, GetMJPEGServer, Attach, SetMJPEGStreamServer,
           BeginDestructor, EndDestructor, JoinTcpThread, BeginJoin, DestroyHeartBeat,
           vars, encoderLocals
  <2>3. CASE CallEncoder
    BY <2>3, TcpMoves
  <2>4. CASE Accept \/ CloseConnection \/ DeleteServer \/ CreateInstance \/ LeaveThread
    BY <2>4 DEF Accept, CloseConnection, DeleteServer, CreateInstance, LeaveThread, vars,
                encoderLocals
  <2> QED
    BY <1>3, <2>1, <2>2, <2>3, <2>4 DEF TimelyNext, PluginNext, Handle
<1> QED
  BY <1>2, <1>3

(* No send begins to a server that is deleted or about to be, unless a     *)
(* handler overtook the last restart (EncodingHelper.cpp: 120,             *)
(* HeartBeatServer.cpp: 74-76, 91-93).                                     *)
THEOREM SendsBegunWithinLife == TimelySpec => SendsBeginInLife
<1>1. ASSUME PipelineInv, RestartInv, PluginInv, [TimelyNext]_pluginVars,
             NEW h \in Helpers, target[h] = NULL, target'[h] # NULL, ~overtaken
      PROVE  /\ sstate[target'[h]] = "live"
             /\ \A t \in Threads : doomed[t] # target'[h]
  <2>1. Alive(h) /\ target'[h] = mjpegServer[h]
    BY <1>1, SendBegins
  <2>2. h = instance /\ Serves(h) /\ h # NULL
    BY <1>1, <2>1, PluginFacts, HelperAssumption DEF OnlyCurrentAlive, Serves, Alive
  <2>3. InUse(target'[h])
    BY <1>1, <2>1, <2>2, PluginFacts DEF EncoderProgress
  <2>4. mpc # "destroyed"
    BY <1>1, <2>1, <2>2, PluginFacts DEF EncoderProgress, Alive
  <2>5. doomed[Loader] = NULL /\ doomed[Tcp] = NULL
    BY <1>1, <2>3, <2>4, PluginFacts DEF FieldProgress, InUse
  <2>6. sstate[target'[h]] = "live"
    BY <1>1, <2>3, PluginFacts DEF FieldProgress, HandlerProgress, InUse
  <2> QED
    BY <1>1, <2>5, <2>6, LoaderAssumption
<1>2. PipelineInv /\ RestartInv /\ PluginInv /\ [TimelyNext]_pluginVars
        => [\A h \in Helpers :
              target[h] = NULL /\ target'[h] # NULL =>
                \/ overtaken
                \/ /\ sstate[target'[h]] = "live"
                   /\ \A t \in Threads : doomed[t] # target'[h]]_pluginVars
  BY <1>1
<1> QED
  BY <1>2, TimelyInvariant, PTL DEF TimelySpec, SendsBeginInLife

(* A client that is connected has its stream, over restarts of the encoder *)
(* and other clients before it, unless its handler overtook the restart    *)
(* (main.cpp: 30, 40, 79, HeartBeatServer.hpp: 62-64).                     *)
THEOREM ClientKept == TimelySpec => []AttachedWhenQuiet
<1>1. PluginInv => AttachedWhenQuiet
  BY DEF PluginInv, EncoderProgress
<1> QED
  BY <1>1, TimelyInvariant, PTL

(* A close does not delete HeartBeatServer under the game's thread         *)
(* (HeartBeatServer.hpp: 35-40, function_patcher.cpp: 12).                 *)
THEOREM RenderApart == TimelySpec => []RenderWithinHeartBeat
<1>1. PluginInv => RenderWithinHeartBeat
  BY DEF PluginInv, CloseProgress, RenderWithinHeartBeat
<1> QED
  BY <1>1, TimelyInvariant, PTL

=============================================================================
