---------------------------- MODULE FramePipeline ---------------------------
(***************************************************************************)
(* Captured frames on their way from the game to the network: the render   *)
(* thread (StreamVideo), the encoder threads (EncodingHelper), the loader  *)
(* thread, which runs the callbacks of main.cpp one at a time and so       *)
(* creates, restarts and destroys the encoder under the others, and what   *)
(* the TCP thread of HeartBeatServer does to the encoder.                  *)
(*                                                                         *)
(* While a HeartBeatServer exists, its TCP thread hands the encoder a      *)
(* server or takes it away, with getInstance()->setMJPEGStreamServer(...). *)
(* Here it may do so at any time and with any server, and a client may     *)
(* connect or disconnect at any time.                                      *)
(*                                                                         *)
(* mpc is where the loader thread is in a callback, mop what it does after *)
(* destroyInstance: start a new encoder, or leave it at that.  tpc is      *)
(* where the TCP thread is in its call.                                    *)
(***************************************************************************)
EXTENDS StreamVideo, EncodingHelper

CONSTANTS
    Loader, Tcp,       \* the threads that call getInstance
    MenuResolutions,   \* what the user may select in the configuration menu
    MenuScreens

ASSUME LoaderAssumption ==
    /\ Threads = {Loader, Tcp} /\ Loader # Tcp
    /\ MenuResolutions \subseteq Resolutions
    /\ MenuScreens \subseteq Screens

VARIABLES
    mpc,
    mop,
    tpc,
    heartBeat      \* HeartBeatServer::instance is not NULL

callerVars == <<mpc, mop, tpc, ref>>

vars == <<frameVars, qualityVars, settingsVars, connected, renderLocals,
          objectVars, encoderLocals, callerVars, heartBeat>>

Init ==
    /\ FrameInit /\ QualityInit /\ RenderInit /\ EncoderInit
    /\ mpc = "idle" /\ mop = "none" /\ tpc = "idle"
    /\ heartBeat = FALSE

-----------------------------------------------------------------------------
(* The callbacks of main.cpp.  A game must have been started before it can *)
(* change its status, and runs in the foreground while its menu is used.   *)

OutsideEncoder == <<heap, qualityVars, connected, renderLocals>>

(* Bound of the model: whoever may construct an object has one in Helpers. *)
LoaderConstructs ==
    /\ mop = "restart"
    /\ mpc \in {"stop", "wait", "delete", "forget", "get", "construct"}

Constructs(t) ==
    IF t = Loader THEN LoaderConstructs ELSE tpc = "construct"

CanConstruct ==
    Cardinality({h \in Helpers : hstate[h] = "unborn"})
      > Cardinality({t \in Threads : Constructs(t)})

Callback(operation) ==
    /\ mpc = "idle"
    /\ operation = "restart" => CanConstruct
    /\ mpc' = "stop"
    /\ mop' = operation
    /\ UNCHANGED <<frameVars, qualityVars, connected, renderLocals, objectVars,
                   encoderLocals, tpc, ref, heartBeat>>

OnApplicationStart ==
    /\ gAppStatus \in {"UNKNOWN", "CLOSED"}
    /\ gAppStatus' = "FOREGROUND"
    /\ UNCHANGED <<gScreen, gResolution>>
    /\ Callback("restart")

ResolutionChanged(newResolution) ==
    /\ gAppStatus = "FOREGROUND"
    /\ gResolution' = newResolution
    /\ UNCHANGED <<gAppStatus, gScreen>>
    /\ Callback("restart")

ScreenChanged(newScreen) ==
    /\ gAppStatus = "FOREGROUND"
    /\ gScreen' = newScreen
    /\ UNCHANGED <<gAppStatus, gResolution>>
    /\ Callback("restart")

OnAppClosed ==
    /\ gAppStatus \in {"FOREGROUND", "BACKGROUND"}
    /\ gAppStatus' = "CLOSED"
    /\ UNCHANGED <<gScreen, gResolution>>
    /\ Callback("close")

(* Any other status is only remembered.                                    *)
OnAppStatusChanged(status) ==
    /\ mpc = "idle"
    /\ gAppStatus \in {"FOREGROUND", "BACKGROUND"}
    /\ gAppStatus' = status
    /\ UNCHANGED <<gScreen, gResolution, frameVars, qualityVars, connected,
                   renderLocals, objectVars, encoderLocals, callerVars, heartBeat>>

-----------------------------------------------------------------------------
(* destroyInstance, then StartAsyncThread and setMJPEGStreamServer on      *)
(* getInstance()                                                           *)

LoaderAt(here, there) == mpc = here /\ mpc' = there

AfterDestroy == IF mop = "restart" THEN "get" ELSE "destroyed"

LoaderStep ==
    /\ \/ LoaderAt("stop", "wait") /\ StopAsyncThread
       \/ LoaderAt("stop", AfterDestroy)
            /\ InstanceMissing
            /\ UNCHANGED <<objectVars, ref, encoderLocals, encodeQueue>>
       \/ LoaderAt("wait", "delete") /\ ThreadSeenStopped
       \/ LoaderAt("delete", "forget") /\ DeleteInstance
       \/ LoaderAt("forget", AfterDestroy) /\ ForgetInstance
       \/ LoaderAt("get", "start") /\ InstanceFound(Loader)
       \/ LoaderAt("get", "construct")
            /\ InstanceMissing
            /\ UNCHANGED <<objectVars, ref, encoderLocals, encodeQueue>>
       \/ LoaderAt("construct", "publish") /\ ConstructInstance(Loader)
       \/ LoaderAt("publish", "start") /\ PublishInstance(Loader)
       \/ LoaderAt("start", "getAgain") /\ StartAsyncThread(Loader)
       \/ LoaderAt("getAgain", "getHeartBeat") /\ InstanceFound(Loader)
    /\ UNCHANGED <<mop, tpc, heartBeat, OutsideEncoder, settingsVars>>

(* HeartBeatServer::getInstance() creates it if need be, and with it the   *)
(* TCP thread; getMJPEGServer() then reads the server it has at that       *)
(* moment, or none, which is handed to the new encoder.                    *)
GetHeartBeatServer ==
    /\ LoaderAt("getHeartBeat", "getServer")
    /\ heartBeat' = TRUE
    /\ UNCHANGED <<mop, tpc, ref, frameVars, qualityVars, settingsVars, connected,
                   renderLocals, objectVars, encoderLocals>>

GetMJPEGServer ==
    /\ LoaderAt("getServer", "attach")
    /\ UNCHANGED <<mop, tpc, ref, heartBeat, frameVars, qualityVars, settingsVars,
                   connected, renderLocals, objectVars, encoderLocals>>

Attach ==
    /\ LoaderAt("attach", "idle")
    /\ \E server \in Servers \cup {NULL} : SetMJPEGStreamServer(Loader, server)
    /\ mop' = "none"
    /\ UNCHANGED <<tpc, heartBeat, OutsideEncoder, settingsVars>>

(* On a close, HeartBeatServer::destroyInstance() follows: its destructor  *)
(* waits for the TCP thread to end, and a handler under way still makes    *)
(* its calls.                                                              *)
BeginJoin ==
    /\ LoaderAt("destroyed", "join")
    /\ UNCHANGED <<mop, tpc, ref, heartBeat, frameVars, qualityVars, settingsVars,
                   connected, renderLocals, objectVars, encoderLocals>>

DestroyHeartBeat ==
    /\ LoaderAt("join", "idle")
    /\ tpc = "idle"
    /\ heartBeat' = FALSE
    /\ connected' = FALSE
    /\ mop' = "none"
    /\ UNCHANGED <<frameVars, qualityVars, settingsVars, renderLocals, objectVars,
                   encoderLocals, tpc, ref>>

-----------------------------------------------------------------------------
(* The TCP thread, as far as it is seen here                               *)

ConnectionChanges ==
    /\ heartBeat
    /\ connected' = ~connected
    /\ UNCHANGED <<frameVars, qualityVars, settingsVars, renderLocals, objectVars,
                   encoderLocals, callerVars, heartBeat>>

TcpAt(here, there) == tpc = here /\ tpc' = there

(* EncodingHelper::getInstance()->setMJPEGStreamServer(...)                *)
BeginTcpCall == heartBeat

TcpStep ==
    /\ \/ TcpAt("idle", "set") /\ BeginTcpCall /\ InstanceFound(Tcp)
       \/ TcpAt("idle", "construct") /\ BeginTcpCall /\ CanConstruct
            /\ InstanceMissing
            /\ UNCHANGED <<objectVars, ref, encoderLocals, encodeQueue>>
       \/ TcpAt("construct", "publish") /\ ConstructInstance(Tcp)
       \/ TcpAt("publish", "set") /\ PublishInstance(Tcp)
       \/ TcpAt("set", "idle")
            /\ \E s \in Servers \cup {NULL} : SetMJPEGStreamServer(Tcp, s)
    /\ UNCHANGED <<mpc, mop, heartBeat, OutsideEncoder, settingsVars>>

-----------------------------------------------------------------------------

RenderNext == (Render \/ GpuFinishes)
    /\ UNCHANGED <<objectVars, encoderLocals, callerVars, heartBeat>>

EncoderNext(h) == EncoderStep(h, curQuality)
    /\ UNCHANGED <<qualityVars, settingsVars, connected, renderLocals, callerVars,
                   heartBeat>>

LoaderNext ==
    \/ LoaderStep
    \/ GetHeartBeatServer \/ GetMJPEGServer \/ Attach
    \/ BeginJoin \/ DestroyHeartBeat

Callbacks ==
    \/ OnApplicationStart
    \/ \E r \in MenuResolutions : ResolutionChanged(r)
    \/ \E s \in MenuScreens : ScreenChanged(s)
    \/ OnAppClosed
    \/ \E status \in {"FOREGROUND", "BACKGROUND"} : OnAppStatusChanged(status)

Client == ConnectionChanges \/ TcpStep

Next ==
    \/ RenderNext
    \/ \E h \in Helpers : EncoderNext(h)
    \/ LoaderNext
    \/ Callbacks
    \/ Client

Spec == Init /\ [][Next]_vars

(* The threads of the plugin run: the encoder threads, the loader thread   *)
(* inside a callback, the TCP thread inside a call, and the render thread  *)
(* inside streamVideo (the game's next call of the hook is not promised,   *)
(* nor is any client).                                                     *)
Fairness ==
    /\ \A h \in Helpers : WF_vars(EncoderNext(h))
    /\ WF_vars(LoaderNext)
    /\ WF_vars(tpc # "idle" /\ TcpStep)
    /\ WF_vars(rpc # "game" /\ RenderNext)

FairSpec == Spec /\ Fairness

(* What the code leaves to timing.  Nothing keeps the TCP thread's call of *)
(* getInstance and setMJPEGStreamServer from overlapping with the moment   *)
(* the loader thread replaces the object (Apart assumes it), and nothing   *)
(* makes destroyInstance wait for a thread that was resumed but has not    *)
(* reached its loop (Prompt assumes that this does not happen either).     *)
Replacing == mpc \in {"delete", "forget", "get", "construct", "publish"}

CallsApart == ~(Replacing' /\ tpc' # "idle")

ApartNext == Next /\ CallsApart

ApartSpec == Init /\ [][ApartNext]_vars

ApartFairSpec == ApartSpec /\ Fairness

StopsUnstarted ==
    LoaderAt("stop", "wait") /\ epc[instance] \in {"resumed", "starting"}

PromptNext == ApartNext /\ ~StopsUnstarted

PromptSpec == Init /\ [][PromptNext]_vars

PromptFairSpec == PromptSpec /\ Fairness

-----------------------------------------------------------------------------

(* The values of all variables.                                            *)
TypeOK ==
    /\ RenderTypeOK
    /\ EncoderTypeOK
    /\ mpc \in {"idle", "stop", "wait", "delete", "forget", "get", "construct",
                "publish", "start", "getAgain", "getHeartBeat", "getServer", "attach",
                "destroyed", "join"}
    /\ mop \in {"none", "restart", "close"}
    /\ tpc \in {"idle", "construct", "publish", "set"}
    /\ heartBeat \in BOOLEAN

Captured == {colorBuffer} \ {NULL}
Encoding == {frame[h] : h \in Helpers} \ {NULL}
Lost == Allocated \ (Captured \cup Queued \cup Encoding)

(* At every moment a captured frame belongs to exactly one of the render   *)
(* thread, the queue and one encoder thread, is allocated as long as it    *)
(* does, and has its pixels once it left the render thread.  So no frame   *)
(* is freed twice, used after it was freed or encoded twice, whatever the  *)
(* loader thread does in between.                                          *)
OneOwner ==
    /\ Captured \cap (Queued \cup Encoding) = {}
    /\ Queued \cap Encoding = {}
    /\ \A i, j \in 1 .. Len(encodeQueue) :
         encodeQueue[i] = encodeQueue[j] => i = j
    /\ \A g, h \in Helpers : frame[g] = frame[h] /\ frame[g] # NULL => g = h
    /\ Captured \subseteq Allocated
    /\ \A b \in Queued \cup Encoding : heap[b] = "image"

Created == {h \in Helpers : hstate[h] # "unborn"}

(* Frames are lost (allocated for ever, and held by nobody) only when a    *)
(* new EncodingHelper initialises a queue that still had messages, so each *)
(* object after the first loses at most one queue of frames, whoever       *)
(* constructs it (EncodingHelper.h: 86).                                   *)
LossBound ==
    \/ Lost = {}
    \/ Cardinality(Lost)
         <= ENCODE_QUEUE_MESSAGE_COUNT * (Cardinality(Created) - 1)

(* The CPU never frees, sends or encodes pixels the GPU still works on:    *)
(* outstanding commands touch only the frame being captured and the        *)
(* temporary surface while it is allocated (stream_utils.cpp: 80, 155).    *)
GpuWorksOnCapturedFrame ==
    /\ gpu \subseteq Captured \cup {TempSurface}
    /\ TempSurface \in gpu => tempAllocated
    /\ \A b \in gpu \cap Buffers : heap[b] = "image"
    /\ rpc = "game" => ~tempAllocated

-----------------------------------------------------------------------------
(* The way of a frame, as FrameStream promises it                          *)

Stage(b) ==
    IF b \in Captured THEN "captured"
    ELSE IF b \in Queued THEN "queued"
    ELSE IF b \in Encoding THEN "encoding"
    ELSE IF b \in Allocated THEN "lost"
    ELSE "free"

Stream == INSTANCE FrameStream
    WITH stage <- [b \in Buffers |-> Stage(b)],
         waiting <- encodeQueue,
         Capacity <- ENCODE_QUEUE_MESSAGE_COUNT

(* The threads together implement FrameStream: one frame is captured at a  *)
(* time, frames wait in order in a bounded queue, each is encoded once and *)
(* freed, and a frame that is lost stays lost.                             *)
StreamSpec == Stream!Spec

-----------------------------------------------------------------------------
(* What a restart owes its caller                                          *)

(* While destroyInstance waits, the thread has been told to stop and will  *)
(* see it, and the flag that is waited for says whether it still runs      *)
(* (EncodingHelper.h: 48-52, EncodingHelper.cpp: 91-95).                   *)
StopRequestHeard ==
    mpc = "wait" =>
        /\ shouldExit[instance]
        /\ serverRunning[instance] <=> epc[instance] \notin {"none", "done"}

(* How many steps a thread that is to stop is from its end, if no frame    *)
(* is sent any more: six for each frame in the queue, and these.           *)
StepsToEnd(here) ==
    CASE here = "convert" -> 8
      [] here = "compress" -> 7
      [] here = "stream" -> 6
      [] here = "streaming" -> 5
      [] here = "release" -> 4
      [] here = "receive" -> 3
      [] here = "poll" -> 2
      [] here = "exit" -> 1
      [] here \in {"none", "resumed", "starting", "done"} -> 0

StepsToWait == StepsToEnd(epc[instance]) + 6 * Len(encodeQueue)

(* The wait gets shorter: every step of the thread that is waited for      *)
(* brings it nearer to its end, and nothing but a frame that the game      *)
(* sends takes it farther away.  So it is not the code that lets a restart *)
(* wait (EncodingHelper.h: 48-52, EncodingHelper.cpp: 95-130).             *)
WaitShortens ==
    [][mpc = "wait" /\ mpc' = "wait" =>
         /\ epc'[instance] # epc[instance] => StepsToWait' < StepsToWait
         /\ Len(encodeQueue') <= Len(encodeQueue) => StepsToWait' <= StepsToWait]_vars

(* What the frame that is being captured can add, if it is sent.           *)
StepsToClose == StepsToWait + (IF rpc \in {"game", "copyFailed"} THEN 0 ELSE 6)

(* A close waits no longer than for the frames there are when it begins:   *)
(* nothing at all takes the thread farther from its end, since no further  *)
(* image is captured once the application counts as closed (main.cpp:      *)
(* 85-89, function_patcher.cpp: 12).                                       *)
CloseShortens ==
    [][mop = "close" /\ mpc = "wait" /\ mpc' = "wait" =>
         /\ epc'[instance] # epc[instance] => StepsToClose' < StepsToClose
         /\ StepsToClose' <= StepsToClose]_vars

SendsForever == []<><<rpc = "send" /\ HasRoom /\ ~HasRoom'>>_vars

(* A restart comes to its end: the loader thread does not wait for ever in *)
(* destroyInstance.  The encoder thread looks at shouldExit only when the  *)
(* queue is empty, so this is said of a game that does not send frames for *)
(* ever (EncodingHelper.h: 46-56, EncodingHelper.cpp: 97-106).             *)
RestartCompletes ==
    SendsForever \/ (mpc = "stop" /\ mop = "restart" ~> mpc = "idle")

(* When the application closes no new frame is captured, so then the       *)
(* encoder is stopped whatever the game did, and after it the TCP thread,  *)
(* whatever its client does.  The arbitrary thread of this module can call *)
(* for ever, so this is said of StreamingPlugin's (main.cpp: 85-89).       *)
CloseCompletes ==
    mpc = "stop" /\ mop = "close" ~> mpc = "idle"

(* While an encoder thread runs, a frame in the queue is eventually        *)
(* encoded and its memory is given back.                                   *)
EncoderRuns == \E h \in Helpers : serverRunning[h]

QueuedFrameIsReleased ==
    \A b \in Buffers :
        b \in Queued /\ EncoderRuns ~> heap[b] = "free" \/ ~EncoderRuns

(* What the encoder compresses with can be a quality that is only half     *)
(* corrected, but it is never farther outside the configured range than    *)
(* one correction, also while the controller goes on correcting            *)
(* (EncodingHelper.cpp: 117, stream_utils.cpp: 186-200).                   *)
EncoderQualityExcursion ==
    \A h \in Helpers :
        epc[h] = "compress" =>
          jpegQual[h] \in minQuality - (100 - maxFrameDropsQuality)
                           .. maxQuality + stepQuality

-----------------------------------------------------------------------------
(* Statements of the repository the code does not keep                     *)

(* stream_utils.cpp: 192 and 197: "Make sure to set the quality to at      *)
(* least [minQuality]%", "to at most [maxQuality]%".                       *)
EncoderSeesClampedQuality ==
    \A h \in Helpers :
        epc[h] = "compress" => jpegQual[h] \in minQuality .. maxQuality

=============================================================================
