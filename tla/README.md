# Verification of the Wii U streaming plugin

The plugin hooks the function with which a game shows an image, captures the
image, compresses it to a JPEG on a thread of its own, and sends it over UDP to
a client that announced itself over TCP. This directory holds TLA+ models of
that program, TLC configurations that check them, and proofs checked by TLAPS.
File names below are those of `src/src/`.

## 1. The system

| Component | Source | State it keeps | Operations | Talks to |
|---|---|---|---|---|
| Frame capture (render thread of the game) | `function_patcher.cpp`, `stream_utils.cpp`, `retain_vars.*` | `gAppStatus`, `gScreen`, `gResolution`; locals of `streamVideo` and `copyBuffer` | the hook on `GX2CopyColorBufferToScanBuffer`, `streamVideo`, `copyBuffer` | heap, GPU, `encodeQueue` |
| Quality control | `stream_utils.cpp` 96-101, 163-206 | `frame_counter`, `frame_counter_skipped`, `curQuality` | count a frame, correct the quality every 60 frames | the encoder thread reads `curQuality` without a lock |
| Encoder | `EncodingHelper.*` | singleton `instance`; per object `serverRunning`, `shouldExit`, `mjpegServer`; the global `encodeQueue` | `getInstance`, `destroyInstance`, `StartAsyncThread`, `StopAsyncThread`, `setMJPEGStreamServer`, `addFSQueueMSG`, thread loop, `convertToJpeg` | queue, UDP server |
| JPEG object | `JpegInformation.*` | pointer and size of one JPEG | create, read, delete | encoder, UDP server |
| UDP server | `MJPEGStreamServerUDP.*`, `MJPEGStreamServer.hpp` | `sockfd` | `createInstance`, `streamJPEG`, `sendJPEG`, `sendData`, destructor | the network |
| Heart beat server (TCP thread) | `HeartBeatServer.*` | singleton `instance`, `mjpegStreamServer` | `acceptConnection`, `whileLoop`, `onConnectionClosed`, `isInstanceConnected` | encoder, UDP server |
| Plugin callbacks (loader thread) | `main.cpp` | settings (above) | application start, status change, menu changes | restarts or destroys encoder and heart beat server |
| CRC | `crc32.*` | none | `crc32_init` (the table), `crc32_crc` | UDP server |

**Threads.** The game's render thread, one encoder thread per `EncodingHelper`,
the TCP thread, and the thread on which the plugin loader runs the callbacks of
`main.cpp` (one at a time). The GPU works asynchronously besides. There is not
one lock in the program: the operating system's message queue `encodeQueue` is
the only synchronised object, the rest are plain globals and fields.

**What is hard.** A frame's memory is allocated by one thread and freed by
another, while a third replaces the consumer and empties the queue between
them. `destroyInstance` waits for a thread through two plain flags, which the
thread itself also writes. `getInstance` is called by two threads while the
object is being replaced. The controller works in place on a variable that
another thread reads. Any of three allocations of a capture, the compression
and any `send` may fail.

**What makes each component correct.**

* Frame capture: every allocated block is freed exactly once or handed to the
  queue; no pixels are freed or handed on while the GPU writes them.
* Quality control: the counters describe one window; the quality is in its
  range between corrections, and settles at a limit under constant load.
* Encoder: frames are encoded once, in order, and freed; a restart ends and
  leaves one thread, on a live object; queued frames do not stay for ever.
* UDP server: fields arrive on the wire in order, cut so that the receiver can
  count bytes, and completely unless a `send` failed.
* Heart beat server: the field owns the one UDP server there is, and two threads
  delete it once; the encoder begins no send to a server that is being deleted; a
  connected client has its server attached, whatever ran beside its handlers; a
  close ends while a client is silent.
* CRC: the table-driven code computes the bit-serial CRC-32, and a client can
  tell a damaged JPEG by it.

`PROJECT.json` lists every hazard of the code at its line and the properties
that watch it.

## 2. Modules

| Module | Models | EXTENDS / uses |
|---|---|---|
| `QualityControl` | the controller; `QualitySpec` runs it on its own | |
| `FrameQueue` | heap blocks of frames and `encodeQueue`, as operators | |
| `StreamVideo` | the render thread and the GPU | `FrameQueue`, `QualityControl` |
| `EncodingHelper` | the singleton, its thread's loop, the calls on it | `FrameQueue` |
| `FramePipeline` | **the composition**: render thread, encoder threads, callbacks of `main.cpp`, calls of the TCP thread | `StreamVideo`, `EncodingHelper` |
| `FrameStream` | abstract specification: what becomes of a frame | instantiated by `FramePipeline` |
| `MJPEGStreamServerUDP` | one UDP server object, datagram by datagram | |
| `HeartBeatServer` | the TCP thread's handlers, and the lives of UDP servers | `EncodingHelper` |
| `StreamingPlugin` | **the whole plugin**: the pipeline with the TCP thread as it is | `FramePipeline`, `HeartBeatServer` |
| `Crc32` | `crc32.cpp`, beside the division it stands for | |
| `MCFramePipeline`, `MCStreamingPlugin`, `MCCrc32` | instances for TLC | the modules they are named after |
| `QualityControlProofs`, `FramePipelineProofs`, `FrameStreamProofs`, `FrameLossProofs`, `RestartProofs`, `StreamingPluginProofs`, `Crc32Proofs`, `MJPEGStreamServerUDPProofs` | theorems | the modules they are named after |

### State and actions against the code

*StreamVideo.* `rpc` is where the render thread is: `game` outside the hook,
then the tests of the hook, `stream` (the connection test), `alloc` and `image`
(the two `memalign`s), `copy` (in `copyBuffer`), `resolved` (before the
temporary surface is freed), `copyFailed`, `drawDone` and `send`. Each action is
one stretch of code between two points where another thread can make a
difference; every failing allocation is an action of its own. `gpu` is the set
of blocks that outstanding GPU commands touch; `GX2DrawDone` is enabled when it
is empty. `heap[b]` tells a free address, a header without pixels and a
complete frame apart, and an address can be handed out again after it was freed.

*QualityControl.* `CountFrame` is the `frame_counter++` at the end of
`streamVideo` with the drop count; `AdjustQuality`, `AtLeastMinQuality` and
`AtMostMaxQuality` are the three stores to `curQuality`, each visible to the
encoder thread. A compiler may keep the value in a register: those builds show
a subset of these behaviours. The code computes the ratio in floating point and
truncates it; for the counters a window of 60 can end with that is the integer
quotient used here.

*EncodingHelper.* `handles` counts the compressor handles: `convertToJpeg` makes
one and destroys it when it fails, or gives it to a `JpegInformation`, whose
destructor destroys it. `epc[h]` is where the thread of object `h` is. Starting it
passes `resumed`, `starting` (`serverRunning` is set) and the loop: `receive`,
`poll` (empty queue: look at `shouldExit`), or `convert`, `compress`, `stream`,
`streaming`, `release`. `getInstance` is three steps (look, construct, publish)
for each of the two threads that call it, and `ref[t]` is what its caller works
with. `destroyInstance` is four steps (stop, wait, delete, forget). The fields
of a deleted object keep their values, so a thread that still runs on it stays
visible; `ThreadWithinObject` says that there is none. `serverRunning = false`
and the end of the thread are one step: the destroying thread sleeps 500 ms
after it saw the flag fall.

*FramePipeline.* Each callback sets the settings and enters `mpc = "stop"`;
`LoaderStep` and `Attach` then perform destroy, start and attach step by step.
The TCP thread (`tpc`) may call `getInstance()->setMJPEGStreamServer(s)` at any
moment while a heart beat server exists, with any server or none, and a client
may connect or disconnect at any moment. `StreamingPlugin` implements this, so
what holds here holds for it. On a close `BeginJoin` and
`DestroyHeartBeat` stand for the destructor of the (external) `TCPServer`, which
waits for its thread: a call under way is completed, and the arbitrary thread of
this module may begin further ones.

The arguments of `setMJPEGStreamServer` are evaluated step by step, too:
`GetHeartBeatServer` creates the heart beat server if there is none,
`GetMJPEGServer` reads its server, `Attach` hands over what was read.

*HeartBeatServer and StreamingPlugin.* `tcp` is where the TCP thread is: in
`accept` (`listen`), in `whileLoop` (`loop`), or at one of the calls inside
`acceptConnection` (`accepted`, `renew`, `create`, `attach`) and
`onConnectionClosed` (`closed`, `drop`). Each call of the encoder runs through
the steps `tpc` of `FramePipeline`. `sstate[s]` is the life of UDP server `s`;
deleting one takes two steps (`BeginDelete`, `EndDelete`), with the 100 ms its
destructor sleeps between them, and `doomed[t]` is the server thread `t` is
deleting. `handed` is what `getMJPEGServer` returned to the loader thread. A
close runs `~HeartBeatServer` (`BeginDestructor`, `EndDestructor`, or
`NoServerToDelete`), which deletes the server of a client that is still there
while the TCP thread runs on, and then waits for that thread (`JoinTcpThread`).
Meanwhile it begins no further handler and completes the one under way; a server
such a handler creates is `"lost"`, since the object with the only pointer to it
goes. Both threads may delete the same server in a close: in C++ what follows is
undefined, and here nothing else happens.

Handlers run beside restarts: a restart reads the server in one step
(`ReadMJPEGServer`) and attaches it in another (`AttachMJPEGServer`), and a
handler may do anything between the two. `overtaken` is a history variable that
remembers when it did: it is true when what the restart hands on is not what the
handlers last gave the encoder. It guards no action. The next handler or restart
makes it false again, and the properties that mention it say what holds unless a
restart was overtaken; `ClientServed` and `RestartedWithLiveServer` say it
without the exception, and are violated.

Each action of `StreamingPlugin` is an action of
`FramePipeline` with its effect on these variables added, or leaves what
`FramePipeline` sees alone. A heart beat byte and its answer change nothing
here: a client may stay silent for ever, and `CloseConnection` is the failing
`checkbyte`.

*Crc32.* A machine word is the set of its bits that are 1. `value` is the field
of `crc32_t`, `i` the loop's counter; `register` is the same message divided by
the polynomial one bit at a time, `check` what a client computes over what it
received.

*MJPEGStreamServerUDP.* `StreamJPEG` is a call of `streamJPEG`; `SendBlock`,
`SendFails` and `FieldSent` are a turn of the loop of `sendData`, its failing
branch, and its end. `wire` is what left the console.

### Abstractions

Bytes of images, JPEGs and datagrams are left out, and so are logging, thread
priorities and cache flushes; threads see each other's writes at once
(`DCFlush`/`OSMemoryBarrier` and the console's weak memory are not modelled).
`EncodingHelper.cpp` 119-120 names `mjpegServer` twice, for the test and for the
call; the field is not volatile and nothing between the two could change it, so
the optimising build (`-Os`) loads it once, as the model does. The loop's test for a message
`0xDEADBEEF` is omitted, since no code sends one. Before the first
`EncodingHelper` is constructed `encodeQueue` is uninitialised memory, which no
one touches: `streamVideo` sends only if a client is connected, and the heart
beat server is created after the encoder.

If `socket()` fails, the constructor of the UDP server leaves the table of the
CRC uninitialised. The checksum is then computed from arbitrary words, but no
`send` on the missing socket succeeds, so it never leaves the console; the
checksum's value is not part of `MJPEGStreamServerUDP`.

## 3. Runs

| Run | Expected | What it asks |
|---|---|---|
| `quality_control` | pass | The controller with the constants of the code, for every pattern of drops: counters of one window, clamping, the excursion during a correction; every step takes the quality towards the limit it belongs to under constant load, and it converges |
| `frame_safety` | pass | Frames have one owner, at most one queue of frames is lost per new object, the GPU stays within live memory, compressor handles, and with them JPEGs, are destroyed once; a thread compresses with a quality at most one correction outside the range |
| `frame_stream` | pass | The threads implement `FrameStream`, with a queue of two so that order matters |
| `restart` | pass | With the two timing assumptions of section 4: one encoder, no use of deleted objects, a stop request is heard and the wait for the thread only gets shorter, restarts end, queued frames are released |
| `restart_hang` | violation | Without `Prompt`: a stop request is lost and the restart waits for ever |
| `two_encoders` | violation | Without `Prompt`: a thread survives the restart beside its successor |
| `transient_quality` | violation | The encoder compresses with a quality outside the range the comments promise |
| `streaming_plugin` | pass | The TCP thread's handlers beside restarts and closes, overlapping at any point but the replacement of the encoder: the field owns the one UDP server, unless `HeartBeatServer` is being deleted; no send begins to a server that is being deleted, and a connected client has its server attached, unless a restart was overtaken; the game's thread does not use a heart beat server that is being deleted; a close waits only for frames that were there when it began, and ends, even with a silent client |
| `client_lost` | violation | A restart that is overtaken by `acceptConnection` takes the stream away from a client that stays connected |
| `dead_server` | violation | A restart that is overtaken by `onConnectionClosed` leaves the encoder with a deleted server |
| `crc32` | pass | Table-driven against bit-serial, one damaged byte is noticed, and the well-known check value of CRC-32 |
| `udp` | pass | Order, cutting, completeness of datagrams; each step inside `streamJPEG` leaves less to do, and it returns |

### Bounds, and why they are enough

* `Helpers = {h1, h2}` is how many `EncodingHelper` objects a run can construct:
  a first one and its replacement, which is what every restart hazard needs.
  Objects are never reused, so a run in which both are spent stops restarting
  (`CanConstruct`); since it may then have nothing left to do, deadlock is not
  checked in these runs.
* `Buffers` has two or three addresses: one frame in each of two of the places
  captured, queued, encoded, and an address that is handed out again. An
  exhausted set is a failing allocation, which the code handles anyway.
* `ENCODE_QUEUE_MESSAGE_COUNT` is 1, the value of the code, except in
  `frame_stream`, where it is 2 so that order in the queue can go wrong.
* The controller does not influence the way of a frame: the pipeline runs use a
  window of one frame and a range of a single quality value, except
  `transient_quality`, which uses the limits of the code. In `frame_safety` a
  dropped frame takes the quality one below the range until it is clamped, so
  that a thread can read it there. `quality_control` checks the controller with
  all constants of the code.
* `frame_stream` has no UDP server: whether a JPEG is sent or deleted makes no
  difference to the frame. The other runs have one.
* `streaming_plugin` has one buffer, as frames are the subject of the other runs,
  two encoder objects and two UDP servers: a client that leaves and one that
  comes, before, beside and after a restart or a close. Neither is reused. In a
  close, when a handler may have to construct an encoder, there has to be one left
  for it: then a handler begins only while there is one (`CanHandle`), and a close
  begins beside a handler only if there is (`Environment`). A client is accepted
  only while there is a server for it. The same instance without any timing
  assumption (`PluginSpec`, 8.4 million states) was checked for `FieldOwnsServer`;
  it is not a run of its own, as `ServersOwned` proves it.
* `client_lost` and `dead_server` use the same instance; their traces need one
  encoder object and one client, and two and two.
* `crc32`: the nine digits of the check value, the empty message, and messages
  of three bytes with all and no bits set; every byte damaged in each of ten
  ways. `TableCorrect` and `OneByteDetected` prove it for every message.
* `udp`: two JPEGs, sizes one below, at and above one and two datagrams.

Symmetry over `Buffers` and `Helpers` is used only where no liveness is checked
(`StreamSpec` is a safety formula, symmetric in `Buffers`).

## 4. Fairness and timing assumptions

`FairSpec` assumes that threads that can run do run: each encoder thread, the
loader thread inside a callback, the TCP thread inside a call and the render
thread inside `streamVideo` (weak fairness, the scheduler of the console). It
assumes nothing of the game, of the user or of clients: the next image, the
next menu change and the next connection may never come. `RestartCompletes`
excepts games that fill the queue for ever, because the loop looks at
`shouldExit` only when the queue is empty. For the UDP server fairness says
that the encoder thread goes on within `streamJPEG`; a blocking `send` either
returns or fails. For the controller alone it says that the game goes on.

Two assumptions about time are made only where they are named:

* `Apart`: no call `getInstance()->setMJPEGStreamServer` of the TCP thread
  overlaps with the few instructions in which the loader thread replaces the
  object. Nothing in the code ensures it. Without it both threads can find
  `instance` missing and construct an object each; the one that is overwritten
  may have a started thread that nobody stops.
* `Prompt` (includes `Apart`): `destroyInstance` is not called for a thread that
  was resumed but has not reached its loop. A user who changes two settings
  takes longer than a thread start, but nothing waits for it.

`frame_safety` and `frame_stream` need neither. `restart` needs both;
`restart_hang` and `two_encoders` show what happens with `Apart` alone.

`TimelySpec` is the whole plugin under three assumptions. Each is needed: without
it, TLC finds the violation named here (the first with three encoder objects).

| Assumption | What it leaves to timing | Without it |
|---|---|---|
| `CallsApart` | as in `Apart` | of two objects constructed at once, the overwritten one keeps its thread and its server (`SendsBeginInLife`) |
| `~StopsUnstarted` | as in `Prompt` | the forgotten thread keeps the server of its object (`SendsBeginInLife`) |
| `RenderLeavesInTime` | the 500 ms of `destroyInstance` are enough for the game's thread to come back from `isInstanceConnected` | `RenderWithinHeartBeat` |

`FieldOwnsServer` needs none of them. Nothing is assumed of where a handler is
while a restart reads or attaches the server, or while a close deletes it. What
goes wrong there is part of the model:

* A restart can be overtaken, and then a client is lost (`client_lost`) or a
  deleted server attached (`dead_server`).
* In a close both threads can delete the server, or `~HeartBeatServer` can
  overwrite the field with a new server in it. `FieldOwnsServer` therefore says
  nothing of `mpc = "destroyed"` and `"join"` but that there is one server at
  most: these two outcomes are confined to a close.
* A send that was under way when its server's deletion began has 100 ms to return
  (`MJPEGStreamServerUDP.cpp` 70). Nothing in the code ensures it, and nothing here
  assumes it or claims that it does: `EndDelete` does not wait for senders.
  `SendsBeginInLife` says that, unless a restart was overtaken, only such a send
  is exposed to this.

`PluginFairness` makes the same threads run as `Fairness`; of the TCP thread it
says that handlers go on and that the thread leaves its loop once it has to.
It does not say that clients come, close or send anything. Fairness of the encoder
threads is stated of all together: under these assumptions there is at most one.
`CloseCompletes` is checked of `TimelyFairSpec` only: the arbitrary TCP thread of
`FramePipeline` could call for ever while a close waits for it, the handlers cannot.

## 5. Proofs

All theorems hold for every value of the constants that meets the named
assumptions: any finite set of buffers and objects, any queue length, window,
range, step and limits of the quality, any datagram and JPEG sizes.

* **`QualityControlProofs`**: type, `CountersOfOneWindow`, `QualityAtRest`,
  `QualityExcursion`. `QualityAtRest` is not inductive, since it says nothing
  during a correction; `Swing` gives the range of `curQuality` in each phase.
  `KeepingUpClimbs` and `FallingBehindFalls` are the safety halves of the two
  convergence properties: a rank (`StepsToMax`, `StepsToMin`), so many windows as
  points are missing and the steps left in this one, falls with every step until
  the limit is reached, and the limit is not left again. The rank has to count
  the next window from the moment of the correction, not of the reset, since
  that is where the quality changes.
* **`FramePipelineProofs`**: type, `OneOwner`, `GpuWorksOnCapturedFrame`. The
  inductive invariant `PipelineInv` adds what `OneOwner` needs:
  `RenderHolds` (which `rpc` holds a buffer, and how much of it is allocated),
  `EncoderHolds` (the same for each encoder thread), `GpuHolds` (which `rpc` may
  have GPU work pending) and `FreshThread` (an object that is being made has no
  running thread and holds no frame, which `StartAsyncThread` relies on). One
  lemma per group of actions shows that it is preserved. `Spec => QualitySpec`
  carries the theorems about the controller over, and with `QualityExcursion`
  gives `EncoderQualityExcursion`, how wrong a quality an encoder can read.
* **`FrameStreamProofs`**: `Spec => StreamSpec`, the refinement. Every step maps
  to one step of `FrameStream` or to a stutter, from `PipelineInv`.
* **`FrameLossProofs`**: `HandlesAccountedFor` (each step changes the number of
  handles as it changes the set of threads that hold one) and `LossBound`, from
  the refinement's case split: only a construction loses frames, at most a full
  queue of them (`BoundedQueue`), and before the first object there are none
  (`NothingYet`).
* **`RestartProofs`**: with `PromptSpec`, `ThreadWithinObject` and
  `AtMostOneEncoder`. `RestartInv` says that only the current object has a
  thread (`OnlyCurrentAlive`), that `serverRunning` is true exactly for threads
  in their loop (`RunningIsTrue`), and where loader and TCP thread are with
  respect to the object (`LoaderProgress`, `TcpProgress`). The second half of
  the module is about the wait in `destroyInstance`: `StopRequestHeard` (the
  thread was told, will see it, and the flag that is waited for is true), from
  what `LoaderProgress` says of `mpc = "wait"`; `WaitShortens` and
  `CloseShortens`, the safety halves of `RestartCompletes` and `CloseCompletes`:
  the rank `StepsToWait` falls with each step of the thread, and grows only by
  the frames the game sends; in a close not even by these, since the hook sees
  that the application is closed (`ClosedFirst`) and at most the frame that is
  being captured is added (`StepsToClose`). What remains for fairness is that the
  thread takes its steps.
* **`StreamingPluginProofs`**: `PluginSpec => Spec`, a refinement that needs no
  timing assumption and carries the theorems of the first modules over to the
  whole plugin (`PluginFramesCorrect`); `TimelySpec => PromptSpec`, which does so
  for `RestartProofs` (`PluginWaitsEnd`). `FieldInv` is invariant without timing
  assumptions too: where a handler can be under way (`HandlerProgress`) and what
  the field holds at each place of the TCP thread (`FieldProgress`); it gives type
  and `FieldOwnsServer` of `PluginSpec`. `FieldOwnsServer` alone is not inductive:
  that at most one server lives needs that none does while a handler is about to
  create one, also when a close has just deleted the field under it. For
  `TimelySpec`, `PluginInv` adds what a close has achieved at each place of the
  loader thread (`CloseProgress`) and which object can have which server
  (`EncoderProgress`), on top of `PipelineInv` and `RestartInv`; from it follow
  `SendsBeginInLife`, `AttachedWhenQuiet` and `RenderWithinHeartBeat`.
  `EncoderProgress` has to speak of the restart from its first step: the object it
  made has only what handlers gave it (`Starting`), since a handler attaches to it
  before the restart does; and while the restart has not been overtaken, what it
  read is what the handlers left (`InUse`).
* **`Crc32Proofs`**: type, `AgreesWithShiftRegister` (one lookup equals eight
  turns of the register, since eight rounds are linear and take a byte apart from
  the rest of the word) and `DamageDetected` (a round can be undone, so two
  values that differ stay different), for messages of any length; and
  `KnownAnswer`, which is computed in the proof: rounds are linear
  (`EightRoundsSum`), so an entry of the table is the sum of those of its bits
  (`TableBySum`); these eight follow from each other, and with them the value
  after each of the nine digits.
* **`MJPEGStreamServerUDPProofs`**: type, `WireInOrder`, `WellCut`,
  `SentCompletely`. `UDPInv` adds where the loop stands in the field
  (`Position`), that the wire is behind it (`WireBehind`), that the last
  datagram touches what is sent next (`LastTouches`), and that each field done
  so far is complete or failed (`FieldsAccountedFor`). `SendingShortens` is the
  safety half of `StreamJPEGReturns`, with the rank `TurnsLeft`.

Every invariant and every action property of a passing run is the subject of a
theorem, and so are both refinements. Only model-checked: what needs fairness
(`RestartCompletes`, `CloseCompletes`, `QueuedFrameIsReleased`,
`StreamJPEGReturns` and the two convergence properties of the controller), which
is beyond the prover; for all of them but `QueuedFrameIsReleased` the theorems
above give the step that makes progress, and leave that steps are taken. No
module uses RECURSIVE operators.

## 6. What the code does not keep

1. `EncodingHelper.cpp` 91 and 95: the thread sets `shouldExit = false` after
   `serverRunning = true`. A stop request between the two is lost and
   `destroyInstance` waits for ever (`restart_hang`).
2. `EncodingHelper.h` 49: `serverRunning` is also false for a thread that was
   resumed and has not run. It survives its object (`two_encoders`).
3. `stream_utils.cpp` 187: the correction is visible before it is clamped
   (`transient_quality`); `EncoderQualityExcursion` says how far it can go.
4. `main.cpp` 30, 40 and 79: the server is read and attached in two steps. If
   `acceptConnection` attaches a new one in between, it is overwritten with NULL:
   the client is connected and gets nothing (`client_lost`), where `README.md` 26
   and 19 let it start after the plugin and the user change settings at any time.
5. The same lines, when `onConnectionClosed` runs in between: the field still has
   the server during the 100 ms of its destructor, and the restart hands it to the
   new encoder, which keeps it after it is gone (`dead_server`).

Read off the constants, without a run: `README.md` 5 says 428x240, where
`stream_utils.cpp` 123 captures 320x180; `MJPEGStreamServerUDP.cpp` 152 says "max
508 bytes", where `MAX_UDP_SIZE` is 1400. Section 4 says what else timing
decides; no statement of the repository speaks of those cases.

## 7. Not modelled

* **The libraries whose headers are vendored under `libs/include`**
  (`turbojpeg.h`, `jpeglib.h`, `jmorecfg.h`, `jerror.h`, `jconfig.h`). They
  declare a binary library and hold no behaviour of this program: compression is
  its result, a JPEG or none. They are three quarters of the repository's lines
  of C; what is modelled is nearly all code of the plugin itself.
* **`TCPServer`**, the base class of `HeartBeatServer`, comes from another
  project. It is modelled from how it is used: it accepts a client, calls the
  handlers one after the other, and its destructor ends and joins its thread.
* **The threaded variant of the UDP server** (`StartAsyncThread`,
  `DoAsyncThreadInternal`, `streamJPEGThreaded`): both calls of it are commented
  out. `StopAsyncThread` in the destructor therefore has no thread to stop.
* **Thread priorities, cache flushes, logging, socket initialisation** and the
  construction of the menu, which change none of the state above, and the build
  files.

## 8. Plan

Done: the pipeline from the hook to the queue to the encoder with all callbacks,
the controller, the UDP sender, the heart beat server and the whole plugin, the
checksum; their refinements, and proofs of every safety and action property.

Left: a rank for the wait of a close for the TCP thread (`join`) and for a frame
in the queue, as there is one for the encoder thread; that the CRC field of a
datagram is the value of `Crc32` for the data that follows, which needs the bytes
that `MJPEGStreamServerUDP` leaves out.
