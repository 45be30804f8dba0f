--------------------------- MODULE MCFramePipeline --------------------------
(* Instances of FramePipeline for TLC.                                     *)
EXTENDS FramePipeline, TLC

MCThreads == {Loader, Tcp}

(* The addresses of frames are interchangeable, and so are the objects:    *)
(* nothing compares them but for equality.                                 *)
MCSymmetry == Permutations(Buffers) \cup Permutations(Helpers)

=============================================================================
