-------------------------- MODULE MCStreamingPlugin -------------------------
(* An instance of StreamingPlugin for TLC.                                 *)
EXTENDS StreamingPlugin

MCThreads == {Loader, Tcp}

=============================================================================
