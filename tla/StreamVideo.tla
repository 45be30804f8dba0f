----------------------------- MODULE StreamVideo ----------------------------
(***************************************************************************)
(* The render thread: the hook on GX2CopyColorBufferToScanBuffer           *)
(* (function_patcher.cpp) and streamVideo with copyBuffer                  *)
(* (stream_utils.cpp).                                                     *)
(*                                                                         *)
(* The game calls the hook with every image it shows.  The hook captures   *)
(* the image of the selected screen into a buffer of its own and sends the *)
(* buffer to the encoder queue, or frees it again when an allocation fails *)
(* or the queue is full.                                                   *)
(*                                                                         *)
(* The GPU copies asynchronously.  gpu holds the blocks its outstanding    *)
(* commands touch; GX2DrawDone waits until there is none.                  *)
(*                                                                         *)
(* rpc is where the thread is; while it corrects the quality, at the end   *)
(* of streamVideo, phase of QualityControl says where.                     *)
(***************************************************************************)
EXTENDS FrameQueue, QualityControl

CONSTANT TempSurface       \* the AA resolve target, a block of its own

ASSUME TempSurfaceAssumption == TempSurface \notin Buffers

VARIABLES
    gAppStatus,            \* retain_vars.cpp
    gScreen,
    gResolution,
    connected,             \* what HeartBeatServer::isInstanceConnected returns
    rpc,
    colorBuffer,           \* the local of streamVideo
    frameSize,             \* its width and height
    tempAllocated,         \* tempSurface.image of copyBuffer is allocated
    gpu

settingsVars == <<gAppStatus, gScreen, gResolution>>
renderLocals == <<rpc, colorBuffer, frameSize, tempAllocated, gpu>>

AppStatus == {"UNKNOWN", "FOREGROUND", "BACKGROUND", "CLOSED"}
Screens == {"DRC", "TV"}
Resolutions == {"240P", "360P", "480P"}
ScanTargets == {1, 4}

ScanTarget(screen) == IF screen = "TV" THEN 1 ELSE 4

FrameSize(resolution) ==
    CASE resolution = "480P" -> <<854, 480>>
      [] resolution = "360P" -> <<640, 360>>
      [] OTHER -> <<320, 180>>

NoSize == <<0, 0>>

FrameSizes == {FrameSize(r) : r \in Resolutions} \cup {NoSize}

RenderInit ==
    /\ gAppStatus = "UNKNOWN"
    /\ gScreen = "DRC"
    /\ gResolution = "240P"
    /\ connected = FALSE
    /\ rpc = "game"
    /\ colorBuffer = NULL
    /\ frameSize = NoSize
    /\ tempAllocated = FALSE
    /\ gpu = {}

-----------------------------------------------------------------------------

(* Back to the game, without a buffer.                                     *)
LeaveStreamVideo ==
    /\ rpc' = "game"
    /\ colorBuffer' = NULL
    /\ frameSize' = NoSize

(* Variant: the status of the application is not asked for.                *)
GX2CopyColorBufferAlways(scan_target) ==
    /\ rpc = "game" /\ phase = "frame"
    /\ scan_target = ScanTarget(gScreen)
    /\ rpc' = "stream"
    /\ UNCHANGED <<colorBuffer, frameSize, tempAllocated, gpu, frameVars, qualityVars>>

(* The game shows an image on scan_target.  Any call that fails one of     *)
(* these tests only runs the replaced function and changes nothing here.   *)
GX2CopyColorBufferToScanBuffer(scan_target) ==
    /\ rpc = "game" /\ phase = "frame"
    /\ gAppStatus = "FOREGROUND"
    /\ scan_target = ScanTarget(gScreen)
    /\ rpc' = "stream"
    /\ UNCHANGED <<colorBuffer, frameSize, tempAllocated, gpu, frameVars, qualityVars>>

IsInstanceConnected ==
    /\ rpc = "stream"
    /\ rpc' = IF connected THEN "alloc" ELSE "game"
    /\ UNCHANGED <<colorBuffer, frameSize, tempAllocated, gpu, frameVars, qualityVars>>

(* memalign for the header; the size follows the resolution of this moment. *)
AllocateColorBuffer ==
    /\ rpc = "alloc"
    /\ \E b \in Buffers \ Allocated :
         /\ SetBlock(b, "header")
         /\ colorBuffer' = b
    /\ frameSize' = FrameSize(gResolution)
    /\ rpc' = "image"
    /\ UNCHANGED <<encodeQueue, tempAllocated, gpu, qualityVars>>

ColorBufferNotAllocated ==
    /\ rpc = "alloc"
    /\ LeaveStreamVideo
    /\ UNCHANGED <<tempAllocated, gpu, frameVars, qualityVars>>

AllocateImage ==
    /\ rpc = "image"
    /\ SetBlock(colorBuffer, "image")
    /\ rpc' = "copy"
    /\ UNCHANGED <<encodeQueue, colorBuffer, frameSize, tempAllocated, gpu, qualityVars>>

ImageNotAllocated ==
    /\ rpc = "image"
    /\ rpc' = "copyFailed"
    /\ UNCHANGED <<colorBuffer, frameSize, tempAllocated, gpu, frameVars, qualityVars>>

(* The game's buffer is not antialiased: one copy does it.                 *)
CopySurface ==
    /\ rpc = "copy"
    /\ gpu' = gpu \cup {colorBuffer}
    /\ rpc' = "drawDone"
    /\ UNCHANGED <<colorBuffer, frameSize, tempAllocated, frameVars, qualityVars>>

(* It is antialiased: resolve it into a temporary surface, copy from there. *)
ResolveAndCopySurface ==
    /\ rpc = "copy"
    /\ tempAllocated' = TRUE
    /\ gpu' = gpu \cup {TempSurface, colorBuffer}
    /\ rpc' = "resolved"
    /\ UNCHANGED <<colorBuffer, frameSize, frameVars, qualityVars>>

(* It is antialiased, and there is no memory for the temporary surface.    *)
TempNotAllocated ==
    /\ rpc = "copy"
    /\ SetBlock(colorBuffer, "header")
    /\ rpc' = "copyFailed"
    /\ UNCHANGED <<encodeQueue, colorBuffer, frameSize, tempAllocated, gpu, qualityVars>>

FreeTempSurface ==
    /\ rpc = "resolved"
    /\ gpu = {}
    /\ tempAllocated' = FALSE
    /\ rpc' = "drawDone"
    /\ UNCHANGED <<colorBuffer, frameSize, gpu, frameVars, qualityVars>>

CopyBufferFailed ==
    /\ rpc = "copyFailed"
    /\ FreeFrame(colorBuffer)
    /\ LeaveStreamVideo
    /\ UNCHANGED <<encodeQueue, tempAllocated, gpu, qualityVars>>

(* Variant: does not wait for the GPU.                                     *)
GX2DrawDoneAtOnce ==
    /\ rpc = "drawDone"
    /\ rpc' = "send"
    /\ UNCHANGED <<colorBuffer, frameSize, tempAllocated, gpu, frameVars, qualityVars>>

GX2DrawDone ==
    /\ rpc = "drawDone"
    /\ gpu = {}
    /\ rpc' = "send"
    /\ UNCHANGED <<colorBuffer, frameSize, tempAllocated, gpu, frameVars, qualityVars>>

(* Variant: the buffer is freed although it was sent.                      *)
SendFrameAndFree ==
    /\ rpc = "send"
    /\ HasRoom
    /\ OSSendMessage(colorBuffer)
    /\ FreeFrame(colorBuffer)
    /\ CountFrame(TRUE)
    /\ LeaveStreamVideo
    /\ UNCHANGED <<tempAllocated, gpu>>

(* addFSQueueMSG succeeds, or the queue is full and the frame is dropped.  *)
SendFrame ==
    /\ rpc = "send"
    /\ HasRoom
    /\ OSSendMessage(colorBuffer)
    /\ CountFrame(TRUE)
    /\ LeaveStreamVideo
    /\ UNCHANGED <<heap, tempAllocated, gpu>>

(* Variant: the dropped frame is not freed.                                *)
DropFrameLeaks ==
    /\ rpc = "send"
    /\ ~HasRoom
    /\ CountFrame(FALSE)
    /\ LeaveStreamVideo
    /\ UNCHANGED <<frameVars, tempAllocated, gpu>>

DropFrame ==
    /\ rpc = "send"
    /\ ~HasRoom
    /\ FreeFrame(colorBuffer)
    /\ CountFrame(FALSE)
    /\ LeaveStreamVideo
    /\ UNCHANGED <<encodeQueue, tempAllocated, gpu>>

CorrectQuality ==
    /\ Correct
    /\ UNCHANGED <<rpc, colorBuffer, frameSize, tempAllocated, gpu, frameVars>>

RenderStep ==
    \/ \E scan_target \in ScanTargets : GX2CopyColorBufferToScanBuffer(scan_target)
    \/ IsInstanceConnected
    \/ AllocateColorBuffer \/ ColorBufferNotAllocated
    \/ AllocateImage \/ ImageNotAllocated
    \/ CopySurface \/ ResolveAndCopySurface \/ TempNotAllocated
    \/ FreeTempSurface \/ CopyBufferFailed
    \/ GX2DrawDone
    \/ SendFrame \/ DropFrame
    \/ CorrectQuality

Render == RenderStep /\ UNCHANGED <<settingsVars, connected>>

(* The GPU finishes the commands it was given.                             *)
GpuFinishes ==
    /\ gpu # {}
    /\ gpu' = {}
    /\ UNCHANGED <<rpc, colorBuffer, frameSize, tempAllocated, settingsVars,
                   connected, frameVars, qualityVars>>

-----------------------------------------------------------------------------

RenderTypeOK ==
    /\ QualityTypeOK
    /\ heap \in [Buffers -> BlockState]
    /\ encodeQueue \in Seq(Buffers)
    /\ gAppStatus \in AppStatus
    /\ gScreen \in Screens
    /\ gResolution \in Resolutions
    /\ connected \in BOOLEAN
    /\ rpc \in {"game", "stream", "alloc", "image", "copy", "resolved",
                "copyFailed", "drawDone", "send"}
    /\ colorBuffer \in Buffers \cup {NULL}
    /\ frameSize \in FrameSizes
    /\ tempAllocated \in BOOLEAN
    /\ gpu \subseteq Buffers \cup {TempSurface}

=============================================================================
