---------------------------- MODULE EncodingHelper --------------------------
(***************************************************************************)
(* The singleton EncodingHelper and its encoder thread                     *)
(* (EncodingHelper.h, EncodingHelper.cpp).                                 *)
(*                                                                         *)
(* An object is a member of Helpers; it is never reused, so Helpers also   *)
(* bounds how often a run can create one.  Each object starts at most one  *)
(* thread, which is named after it: epc[h] is where the thread of h is.    *)
(* The fields of a deleted object keep their values: a thread that still   *)
(* uses them is found by ThreadWithinObject.                               *)
(*                                                                         *)
(* getInstance is called by several threads without a lock, so it takes    *)
(* three steps: look at instance, construct an object (which initialises   *)
(* the global encodeQueue), assign it to instance.  ref[t] is the object a *)
(* call by thread t works with: the one it found, or the one it made.      *)
(*                                                                         *)
(* The loop's test for a message 0xDEADBEEF is left out: no code sends it. *)
(***************************************************************************)
EXTENDS FrameQueue, Integers

CONSTANTS
    Helpers,       \* the objects that can be created
    Servers,       \* the MJPEGStreamServerUDP objects that can be created
    Threads        \* the threads that call getInstance

ASSUME HelperAssumption ==
    /\ IsFiniteSet(Helpers)
    /\ NULL \notin Helpers /\ NULL \notin Servers

VARIABLES
    instance,
    hstate,        \* life of each object
    serverRunning,
    shouldExit,
    mjpegServer,
    epc,
    frame,         \* the colour buffer of the message in hand
    jpegQual,      \* the quality argument of the running convertToJpeg
    target,        \* the server whose streamJPEG is running
    handles,       \* how many compressor handles exist
    ref

objectVars == <<instance, hstate, serverRunning, shouldExit, mjpegServer>>
encoderLocals == <<epc, frame, jpegQual, target, handles>>

NoQuality == 0

EncoderInit ==
    /\ instance = NULL
    /\ hstate = [h \in Helpers |-> "unborn"]
    /\ serverRunning = [h \in Helpers |-> FALSE]
    /\ shouldExit = [h \in Helpers |-> FALSE]
    /\ mjpegServer = [h \in Helpers |-> NULL]
    /\ epc = [h \in Helpers |-> "none"]
    /\ frame = [h \in Helpers |-> NULL]
    /\ jpegQual = [h \in Helpers |-> NoQuality]
    /\ target = [h \in Helpers |-> NULL]
    /\ handles = 0
    /\ ref = [t \in Threads |-> NULL]

-----------------------------------------------------------------------------
(* getInstance, called by thread t                                         *)

InstanceFound(t) ==
    /\ instance # NULL
    /\ ref' = [ref EXCEPT ![t] = instance]
    /\ UNCHANGED <<objectVars, encoderLocals, encodeQueue>>

InstanceMissing == instance = NULL

ConstructInstance(t) ==
    /\ \E h \in Helpers :
         /\ hstate[h] = "unborn"
         /\ hstate' = [hstate EXCEPT ![h] = "live"]
         /\ ref' = [ref EXCEPT ![t] = h]
    /\ OSInitMessageQueue
    /\ UNCHANGED <<instance, serverRunning, shouldExit, mjpegServer, encoderLocals>>

PublishInstance(t) ==
    /\ instance' = ref[t]
    /\ UNCHANGED <<hstate, serverRunning, shouldExit, mjpegServer, ref,
                   encoderLocals, encodeQueue>>

(* Calls on the object getInstance returned                                *)

StartAsyncThread(t) ==
    /\ epc' = [epc EXCEPT ![ref[t]] = "resumed"]
    /\ UNCHANGED <<objectVars, frame, jpegQual, target, handles, ref, encodeQueue>>

SetMJPEGStreamServer(t, server) ==
    /\ mjpegServer' = [mjpegServer EXCEPT ![ref[t]] = server]
    /\ UNCHANGED <<instance, hstate, serverRunning, shouldExit, encoderLocals,
                   ref, encodeQueue>>

(* destroyInstance: stop, wait for the thread, delete, forget              *)

(* Variant: the flag is not raised.                                        *)
StopAsyncThreadForgets ==
    /\ instance # NULL
    /\ UNCHANGED <<objectVars, ref, encoderLocals, encodeQueue>>

StopAsyncThread ==
    /\ instance # NULL
    /\ shouldExit' = [shouldExit EXCEPT ![instance] = TRUE]
    /\ UNCHANGED <<instance, hstate, serverRunning, mjpegServer, ref,
                   encoderLocals, encodeQueue>>

(* Variant: does not wait for serverRunning to fall.                       *)
ThreadNotAwaited == UNCHANGED <<objectVars, ref, encoderLocals, encodeQueue>>

ThreadSeenStopped ==
    /\ ~serverRunning[instance]
    /\ UNCHANGED <<objectVars, ref, encoderLocals, encodeQueue>>

DeleteInstance ==
    /\ hstate' = [hstate EXCEPT ![instance] = "deleted"]
    /\ UNCHANGED <<instance, serverRunning, shouldExit, mjpegServer, ref,
                   encoderLocals, encodeQueue>>

ForgetInstance ==
    /\ instance' = NULL
    /\ UNCHANGED <<hstate, serverRunning, shouldExit, mjpegServer, ref,
                   encoderLocals, encodeQueue>>

-----------------------------------------------------------------------------
(* DoAsyncThreadInternal of object h                                       *)

EncoderAt(h, here, there) ==
    /\ epc[h] = here
    /\ epc' = [epc EXCEPT ![h] = there]

ThreadRuns(h) ==
    /\ EncoderAt(h, "resumed", "starting")
    /\ serverRunning' = [serverRunning EXCEPT ![h] = TRUE]
    /\ UNCHANGED <<instance, hstate, shouldExit, mjpegServer, frame, jpegQual,
                   target, handles, frameVars>>

ThreadEntersLoop(h) ==
    /\ EncoderAt(h, "starting", "receive")
    /\ shouldExit' = [shouldExit EXCEPT ![h] = FALSE]
    /\ UNCHANGED <<instance, hstate, serverRunning, mjpegServer, frame, jpegQual,
                   target, handles, frameVars>>

ReceiveFrame(h) ==
    /\ encodeQueue # <<>>
    /\ EncoderAt(h, "receive", "convert")
    /\ frame' = [frame EXCEPT ![h] = Head(encodeQueue)]
    /\ OSReceiveMessage
    /\ UNCHANGED <<objectVars, jpegQual, target, handles, heap>>

NothingReceived(h) ==
    /\ encodeQueue = <<>>
    /\ EncoderAt(h, "receive", "poll")
    /\ UNCHANGED <<objectVars, frame, jpegQual, target, handles, frameVars>>

(* Variant: goes on whatever shouldExit says.                              *)
KeepRunningDeaf(h) ==
    /\ EncoderAt(h, "poll", "receive")
    /\ UNCHANGED <<objectVars, frame, jpegQual, target, handles, frameVars>>

(* Only an empty queue makes the thread look at shouldExit.                *)
KeepRunning(h) ==
    /\ ~shouldExit[h]
    /\ EncoderAt(h, "poll", "receive")
    /\ UNCHANGED <<objectVars, frame, jpegQual, target, handles, frameVars>>

(* Variant: serverRunning is lowered before the thread has ended.          *)
LeaveLoopTooEarly(h) ==
    /\ shouldExit[h]
    /\ EncoderAt(h, "poll", "exit")
    /\ serverRunning' = [serverRunning EXCEPT ![h] = FALSE]
    /\ UNCHANGED <<instance, hstate, shouldExit, mjpegServer, frame, jpegQual,
                   target, handles, frameVars>>

LeaveLoop(h) ==
    /\ shouldExit[h]
    /\ EncoderAt(h, "poll", "exit")
    /\ UNCHANGED <<objectVars, frame, jpegQual, target, handles, frameVars>>

ThreadStops(h) ==
    /\ EncoderAt(h, "exit", "done")
    /\ serverRunning' = [serverRunning EXCEPT ![h] = FALSE]
    /\ UNCHANGED <<instance, hstate, shouldExit, mjpegServer, frame, jpegQual,
                   target, handles, frameVars>>

(* tjDestroy                                                               *)
DestroyHandle == handles' = handles - 1

(* convertToJpeg is called with the quality of this moment.  It gets a     *)
(* compressor handle, or none.                                             *)
BeginConvert(h, quality) ==
    /\ EncoderAt(h, "convert", "compress")
    /\ jpegQual' = [jpegQual EXCEPT ![h] = quality]
    /\ handles' = handles + 1
    /\ UNCHANGED <<objectVars, frame, target, frameVars>>

NoCompressor(h) ==
    /\ EncoderAt(h, "convert", "release")
    /\ UNCHANGED <<objectVars, frame, jpegQual, target, handles, frameVars>>

(* It returns a new JpegInformation, which owns the handle; or it destroys *)
(* the handle and returns NULL.                                            *)
Converted(h) ==
    /\ EncoderAt(h, "compress", "stream")
    /\ jpegQual' = [jpegQual EXCEPT ![h] = NoQuality]
    /\ UNCHANGED <<objectVars, frame, target, handles, frameVars>>

ConvertFailed(h) ==
    /\ EncoderAt(h, "compress", "release")
    /\ jpegQual' = [jpegQual EXCEPT ![h] = NoQuality]
    /\ DestroyHandle
    /\ UNCHANGED <<objectVars, frame, target, frameVars>>

(* No server: the JPEG is deleted.  Otherwise streamJPEG sends and deletes *)
(* it, and returns true.  mjpegServer is not volatile: the build (-Os)     *)
(* loads it once for the test and the call.                                *)
NobodyToStreamTo(h) ==
    /\ mjpegServer[h] = NULL
    /\ EncoderAt(h, "stream", "release")
    /\ DestroyHandle
    /\ UNCHANGED <<objectVars, frame, jpegQual, target, frameVars>>

BeginStreamJPEG(h) ==
    /\ mjpegServer[h] # NULL
    /\ EncoderAt(h, "stream", "streaming")
    /\ target' = [target EXCEPT ![h] = mjpegServer[h]]
    /\ UNCHANGED <<objectVars, frame, jpegQual, handles, frameVars>>

(* Variant: streamJPEG deletes the JPEG and returns false.                 *)
EndStreamJPEGFalse(h) ==
    /\ EncoderAt(h, "streaming", "release")
    /\ target' = [target EXCEPT ![h] = NULL]
    /\ handles' = handles - 2
    /\ UNCHANGED <<objectVars, frame, jpegQual, frameVars>>

EndStreamJPEG(h) ==
    /\ EncoderAt(h, "streaming", "release")
    /\ target' = [target EXCEPT ![h] = NULL]
    /\ DestroyHandle
    /\ UNCHANGED <<objectVars, frame, jpegQual, frameVars>>

(* Variant: the frame is not freed.                                        *)
ReleaseFrameLeaks(h) ==
    /\ EncoderAt(h, "release", "receive")
    /\ frame' = [frame EXCEPT ![h] = NULL]
    /\ UNCHANGED <<objectVars, jpegQual, target, handles, frameVars>>

ReleaseFrame(h) ==
    /\ EncoderAt(h, "release", "receive")
    /\ FreeFrame(frame[h])
    /\ frame' = [frame EXCEPT ![h] = NULL]
    /\ UNCHANGED <<objectVars, jpegQual, target, handles, encodeQueue>>

EncoderStep(h, quality) ==
    \/ ThreadRuns(h) \/ ThreadEntersLoop(h)
    \/ ReceiveFrame(h) \/ NothingReceived(h)
    \/ KeepRunning(h) \/ LeaveLoop(h) \/ ThreadStops(h)
    \/ BeginConvert(h, quality) \/ NoCompressor(h)
    \/ Converted(h) \/ ConvertFailed(h)
    \/ NobodyToStreamTo(h) \/ BeginStreamJPEG(h) \/ EndStreamJPEG(h)
    \/ ReleaseFrame(h)

-----------------------------------------------------------------------------

Working == {"convert", "compress", "stream", "streaming", "release"}

EncoderTypeOK ==
    /\ instance \in Helpers \cup {NULL}
    /\ hstate \in [Helpers -> {"unborn", "live", "deleted"}]
    /\ serverRunning \in [Helpers -> BOOLEAN]
    /\ shouldExit \in [Helpers -> BOOLEAN]
    /\ mjpegServer \in [Helpers -> Servers \cup {NULL}]
    /\ epc \in [Helpers -> {"none", "resumed", "starting", "receive", "poll",
                            "exit", "done"} \cup Working]
    /\ frame \in [Helpers -> Buffers \cup {NULL}]
    /\ jpegQual \in [Helpers -> Int]
    /\ target \in [Helpers -> Servers \cup {NULL}]
    /\ handles \in Int
    /\ ref \in [Threads -> Helpers \cup {NULL}]

(* The life of the thread lies within the life of its object: no thread    *)
(* reads or writes fields of a deleted EncodingHelper.                     *)
ThreadWithinObject ==
    \A h \in Helpers : epc[h] \notin {"none", "done"} => hstate[h] = "live"

(* One restart does not leave two encoder threads competing for the queue. *)
AtMostOneEncoder ==
    \A g, h \in Helpers :
        epc[g] \notin {"none", "done"} /\ epc[h] \notin {"none", "done"} => g = h

(* Every compressor handle is destroyed exactly once, by whoever holds it: *)
(* convertToJpeg when it fails, else the JpegInformation, which is deleted *)
(* by streamJPEG or by its caller and never by both                        *)
(* (EncodingHelper.cpp: 82, 84, 119-123, MJPEGStreamServerUDP.cpp: 128-138,*)
(* JpegInformation.cpp: 10-15).                                            *)
HandlesAccountedFor ==
    handles = Cardinality({h \in Helpers : epc[h] \in {"compress", "stream", "streaming"}})

=============================================================================
