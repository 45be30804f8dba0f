---------------------------- MODULE StreamingPlugin ---------------------------
(***************************************************************************)
(* The whole plugin: FramePipeline together with HeartBeatServer.          *)
(*                                                                         *)
(* Each step either is a step of FramePipeline, with what it does to the   *)
(* UDP servers and to the TCP thread added, or leaves everything           *)
(* FramePipeline talks about alone.  So what FramePipeline guarantees for  *)
(* a TCP thread that hands out any server at any time holds here as well.  *)
(***************************************************************************)
EXTENDS FramePipeline, HeartBeatServer

VARIABLES
    handed,     \* what getMJPEGServer returned to the loader thread
    overtaken   \* history variable, not in the code: what the loader thread
                \* hands to the encoder is not the server of the client, as a
                \* handler ran beside it

heartBeatVars == <<tcp, serverVars, handed, overtaken>>

pluginVars == <<vars, heartBeatVars>>

PluginInit == Init /\ ServerInit /\ handed = NULL /\ overtaken = FALSE

-----------------------------------------------------------------------------
(* The loader thread                                                       *)

SetsServer(t, server) == mjpegServer' = [mjpegServer EXCEPT ![ref[t]] = server]

CreateHeartBeatServer ==
    /\ GetHeartBeatServer
    /\ tcp' = IF heartBeat THEN tcp ELSE "listen"
    /\ mjpegStreamServer' = IF heartBeat THEN mjpegStreamServer ELSE NULL
    /\ UNCHANGED <<sstate, doomed, handed, overtaken>>

(* Variant: the new encoder is not told of the client there is.            *)
ReadMJPEGServerForgets ==
    /\ GetMJPEGServer
    /\ overtaken' = (tcp = "drop")
    /\ UNCHANGED <<tcp, serverVars, handed>>

(* In onConnectionClosed the server is already taken from the encoder, but *)
(* the field still has it.                                                 *)
ReadMJPEGServer ==
    /\ GetMJPEGServer
    /\ handed' = mjpegStreamServer
    /\ overtaken' = (tcp = "drop")
    /\ UNCHANGED <<tcp, serverVars>>

AttachMJPEGServer ==
    /\ Attach
    /\ SetsServer(Loader, handed)
    /\ handed' = NULL
    /\ UNCHANGED <<tcp, serverVars, overtaken>>

(* ~HeartBeatServer deletes the server of a client that is still there,    *)
(* while the TCP thread runs.  Then ~TCPServer waits for that thread: it   *)
(* begins no further handler, but goes on with one that is under way.      *)
(* If both threads delete the same server, what happens is undefined; here *)
(* nothing else does.                                                      *)
BeginDestructor ==
    /\ mpc = "destroyed"
    /\ BeginDelete(Loader)
    /\ UNCHANGED <<vars, tcp, handed, overtaken>>

NoServerToDelete(t) ==
    /\ mjpegStreamServer = NULL
    /\ doomed[t] = NULL
    /\ UNCHANGED serverVars

EndDestructor ==
    /\ BeginJoin
    /\ EndDelete(Loader) \/ NoServerToDelete(Loader)
    /\ UNCHANGED <<tcp, handed, overtaken>>

(* With the object goes the only pointer to a server that is still there.  *)
JoinTcpThread ==
    /\ DestroyHeartBeat
    /\ tcp \in {"ended", "none"}
    /\ tcp' = "none"
    /\ sstate' = [s \in Servers |-> IF sstate[s] = "live" THEN "lost" ELSE sstate[s]]
    /\ UNCHANGED <<mjpegStreamServer, doomed, handed, overtaken>>

PluginLoader ==
    \/ LoaderStep /\ UNCHANGED heartBeatVars
    \/ CreateHeartBeatServer \/ ReadMJPEGServer \/ AttachMJPEGServer
    \/ BeginDestructor \/ EndDestructor \/ JoinTcpThread

-----------------------------------------------------------------------------
(* The TCP thread                                                          *)

(* Bound of the model: during a close, when getInstance may have to        *)
(* construct an object, a handler is under way only if there is one left,  *)
(* and a client is accepted only if there is a server left for it.         *)
CanHandle ==
    /\ mpc # "join"
    /\ mop = "close" => CanConstruct

Accept ==
    /\ CanHandle
    /\ \E s \in Servers : sstate[s] = "unborn"
    /\ ThreadAt("listen", "accepted")
    /\ UNCHANGED <<vars, serverVars, handed, overtaken>>

(* checkbyte fails for good: the client has closed the connection, or it   *)
(* broke.                                                                  *)
CloseConnection ==
    /\ CanHandle
    /\ ThreadAt("loop", "closed")
    /\ UNCHANGED <<vars, serverVars, handed, overtaken>>

(* getInstance()->setMJPEGStreamServer(...), the calls of both handlers    *)
CallEncoder ==
    /\ TcpStep
    /\ \/ tpc = "idle" /\ tcp \in {"accepted", "attach", "closed"} /\ UNCHANGED tcp
       \/ tpc \in {"construct", "publish"} /\ UNCHANGED tcp
       \/ tpc = "set" /\ SetsServer(Tcp, ServerToSet) /\ tcp' = AfterSet
    /\ overtaken' = IF tpc = "set" THEN mpc = "attach" /\ handed # ServerToSet
                                  ELSE overtaken
    /\ UNCHANGED <<serverVars, handed>>

DeleteServer ==
    /\ tcp \in {"renew", "drop"}
    /\ \/ BeginDelete(Tcp) /\ UNCHANGED tcp
       \/ /\ EndDelete(Tcp) \/ NoServerToDelete(Tcp)
          /\ tcp' = IF tcp = "renew" THEN "create" ELSE "listen"
    /\ UNCHANGED <<vars, handed, overtaken>>

CreateInstance ==
    /\ ThreadAt("create", "attach")
    /\ CreateServer
    /\ UNCHANGED <<vars, handed, overtaken>>

Handle == CallEncoder \/ DeleteServer \/ CreateInstance

(* Variant: the loop waits for the client to say something.                *)
LeaveThreadDeaf ==
    /\ mpc = "join"
    /\ ThreadAt("listen", "ended")
    /\ UNCHANGED <<vars, serverVars, handed, overtaken>>

(* shouldExit: whileLoop ends within a second, and so does accept.         *)
LeaveThread ==
    /\ mpc = "join"
    /\ ThreadAt("listen", "ended") \/ ThreadAt("loop", "ended")
    /\ UNCHANGED <<vars, serverVars, handed, overtaken>>

-----------------------------------------------------------------------------

PluginRender == RenderNext /\ UNCHANGED heartBeatVars

PluginEncoder(h) == EncoderNext(h) /\ UNCHANGED heartBeatVars

Environment ==
    /\ Callbacks \/ ConnectionChanges
    /\ Handling /\ mop' # mop /\ mop' = "close" => CanConstruct    \* see CanHandle
    /\ UNCHANGED heartBeatVars

PluginNext ==
    \/ PluginRender
    \/ \E h \in Helpers : PluginEncoder(h)
    \/ PluginLoader
    \/ Environment
    \/ Accept \/ CloseConnection \/ Handle \/ LeaveThread

PluginSpec == PluginInit /\ [][PluginNext]_pluginVars

-----------------------------------------------------------------------------
(* What the code leaves to timing, besides Apart and Prompt.               *)

(* The 500 ms of destroyInstance are enough for the game's thread to leave *)
(* isInstanceConnected.                                                    *)
RenderLeavesInTime == LoaderAt("delete", "forget") => rpc # "stream"

TimelyNext ==
    /\ PluginNext
    /\ CallsApart /\ ~StopsUnstarted /\ RenderLeavesInTime

TimelySpec == PluginInit /\ [][TimelyNext]_pluginVars

(* The same threads run as in FramePipeline (of encoder threads there is   *)
(* at most one under these assumptions); the TCP thread inside its         *)
(* handlers, and out of its loop once it has to.                           *)
PluginFairness ==
    /\ WF_pluginVars(\E h \in Helpers : PluginEncoder(h))
    /\ WF_pluginVars(PluginLoader)
    /\ WF_pluginVars(Handle \/ LeaveThread)
    /\ WF_pluginVars(rpc # "game" /\ PluginRender)

TimelyFairSpec == TimelySpec /\ PluginFairness

-----------------------------------------------------------------------------

(* The values of the variables this module adds.                           *)
PluginTypeOK ==
    /\ ServerTypeOK
    /\ handed \in Servers \cup {NULL}
    /\ overtaken \in BOOLEAN

(* There is never more than one UDP server.  Unless HeartBeatServer is     *)
(* being deleted, the field points to it, and whoever deletes a server,    *)
(* deletes this one: so only a close can delete one twice or forget one,   *)
(* and it forgets one at most, whatever the two threads that delete        *)
(* servers do meanwhile (HeartBeatServer.cpp: 39, 76, 93, main.cpp: 89).   *)
FieldOwnsServer ==
    /\ \A r, s \in Servers : sstate[r] = "live" /\ sstate[s] = "live" => r = s
    /\ mpc \notin {"destroyed", "join"} =>
         /\ \A s \in Servers :
              sstate[s] = "live" <=> heartBeat /\ s = mjpegStreamServer
         /\ \A t \in Threads : doomed[t] # NULL => sstate[doomed[t]] = "live"

(* A JPEG is sent to a server only if that lives and nobody is deleting it *)
(* yet, unless a restart was overtaken: so the 100 ms of the destructor    *)
(* have to suffice for a send that was under way before, but for nothing   *)
(* that begins later (EncodingHelper.cpp: 120, HeartBeatServer.cpp: 91-93, *)
(* MJPEGStreamServerUDP.cpp: 70).                                          *)
SendsBeginInLife ==
    [][\A h \in Helpers :
         target[h] = NULL /\ target'[h] # NULL =>
           \/ overtaken
           \/ /\ sstate[target'[h]] = "live"
              /\ \A t \in Threads : doomed[t] # target'[h]]_pluginVars

(* When no callback is under way and a client is connected, the encoder    *)
(* sends to the server of that client, however the handlers and restarts   *)
(* before ran beside each other: only between the Attach of a restart that *)
(* a handler overtook and the next handler or restart it may not (main.cpp:*)
(* 30, 40, 79, HeartBeatServer.cpp: 74, 82, 91).                           *)
AttachedWhenQuiet ==
    mpc = "idle" /\ tcp = "loop"
      => /\ instance # NULL
         /\ mjpegStreamServer # NULL
         /\ overtaken \/ mjpegServer[instance] = mjpegStreamServer

(* The render thread is not about to ask HeartBeatServer::instance whether *)
(* a client is connected while a close deletes that object                 *)
(* (HeartBeatServer.hpp: 35-40, 46-51, function_patcher.cpp: 12).          *)
RenderWithinHeartBeat == mpc \in {"destroyed", "join"} => rpc # "stream"

-----------------------------------------------------------------------------
(* Statements of the repository the code does not keep                     *)

(* README.md: 26 and 19: "Simply load the plugin with the plugin loader,   *)
(* after that start the StreamingPluginClient"; "While the plugin is       *)
(* running, is possible to configure certain parameters": a client that is *)
(* connected has its stream, whenever it came and whatever was configured. *)
ClientServed ==
    mpc = "idle" /\ tcp = "loop"
      => instance # NULL /\ mjpegServer[instance] = mjpegStreamServer

(* main.cpp: 27: "// Restart server.": the encoder that was restarted has  *)
(* a server that can be sent to, or none.                                  *)
RestartedWithLiveServer ==
    mpc = "idle" /\ gAppStatus = "FOREGROUND" /\ instance # NULL =>
      mjpegServer[instance] = NULL \/ sstate[mjpegServer[instance]] = "live"

=============================================================================
