---------------------------- MODULE HeartBeatServer ---------------------------
(***************************************************************************)
(* HeartBeatServer: the TCP thread a client connects to, and the UDP       *)
(* servers it creates and deletes for its clients (HeartBeatServer.hpp,    *)
(* HeartBeatServer.cpp, and the life of a MJPEGStreamServerUDP).           *)
(*                                                                         *)
(* The thread and its loop around accept belong to the class TCPServer,    *)
(* which is not part of the repository: it calls acceptConnection, then    *)
(* whileLoop, then onConnectionClosed, again and again, and its destructor *)
(* raises the flag shouldExit returns and waits for the thread to end.     *)
(* tcp is where that thread is:                                            *)
(*                                                                         *)
(*   listen, loop                  waiting in accept, in whileLoop         *)
(*   accepted, renew, create,      in acceptConnection                     *)
(*   attach                                                                *)
(*   closed, drop                  in onConnectionClosed                   *)
(*   none, ended                   the thread does not exist, has ended    *)
(*                                                                         *)
(* whileLoop answers each heart beat and sleeps a second when it hears     *)
(* nothing: neither changes anything here, so a client may be silent for   *)
(* ever.                                                                   *)
(*                                                                         *)
(* A server object is a member of Servers and is never reused, so Servers  *)
(* also bounds how many clients a run can have.                            *)
(***************************************************************************)
EXTENDS EncodingHelper

VARIABLES
    tcp,
    mjpegStreamServer,   \* the field of that name
    sstate,              \* life of each UDP server; "lost": nobody can delete it
    doomed               \* the server whose destructor a thread is running

serverVars == <<mjpegStreamServer, sstate, doomed>>

(* Variant: the field has no initial value.                                *)
ServerInitUnset ==
    /\ tcp = "none"
    /\ mjpegStreamServer = "unset"
    /\ sstate = [s \in Servers |-> "unborn"]
    /\ doomed = [t \in Threads |-> NULL]

ServerInit ==
    /\ tcp = "none"
    /\ mjpegStreamServer = NULL
    /\ sstate = [s \in Servers |-> "unborn"]
    /\ doomed = [t \in Threads |-> NULL]

(* The thread is inside acceptConnection or onConnectionClosed.            *)
Handling == tcp \in {"accepted", "renew", "create", "attach", "closed", "drop"}

ThreadAt(here, there) == tcp = here /\ tcp' = there

-----------------------------------------------------------------------------
(* MJPEGStreamServerUDP                                                    *)

(* Its destructor sleeps 100 ms, for a streamJPEG that may be under way in *)
(* the encoder thread, before it closes the socket.  Until it is done the  *)
(* field still has the server.                                             *)
BeginDelete(t) ==
    /\ mjpegStreamServer # NULL
    /\ doomed[t] = NULL
    /\ doomed' = [doomed EXCEPT ![t] = mjpegStreamServer]
    /\ UNCHANGED <<mjpegStreamServer, sstate>>

(* Variant: the field keeps the deleted server.                            *)
EndDeleteKeepsField(t) ==
    /\ doomed[t] # NULL
    /\ sstate' = [sstate EXCEPT ![doomed[t]] = "freed"]
    /\ doomed' = [doomed EXCEPT ![t] = NULL]
    /\ UNCHANGED mjpegStreamServer

(* The server is gone, and mjpegStreamServer = NULL follows at once.       *)
EndDelete(t) ==
    /\ doomed[t] # NULL
    /\ sstate' = [sstate EXCEPT ![doomed[t]] = "freed"]
    /\ mjpegStreamServer' = NULL
    /\ doomed' = [doomed EXCEPT ![t] = NULL]

CreateServer ==
    /\ \E s \in Servers :
         /\ sstate[s] = "unborn"
         /\ sstate' = [sstate EXCEPT ![s] = "live"]
         /\ mjpegStreamServer' = s
    /\ UNCHANGED doomed

-----------------------------------------------------------------------------
(* What the two handlers hand to setMJPEGStreamServer, and where they go   *)
(* on from there                                                           *)

(* Variant: the server is deleted while the encoder still has it.          *)
ServerToSetStale == mjpegStreamServer

ServerToSet == IF tcp = "attach" THEN mjpegStreamServer ELSE NULL

AfterSet ==
    CASE tcp = "accepted" -> "renew"
      [] tcp = "attach" -> "loop"
      [] tcp = "closed" -> "drop"

-----------------------------------------------------------------------------

ServerTypeOK ==
    /\ tcp \in {"none", "listen", "accepted", "renew", "create", "attach", "loop",
                "closed", "drop", "ended"}
    /\ mjpegStreamServer \in Servers \cup {NULL}
    /\ sstate \in [Servers -> {"unborn", "live", "freed", "lost"}]
    /\ doomed \in [Threads -> Servers \cup {NULL}]

=============================================================================
