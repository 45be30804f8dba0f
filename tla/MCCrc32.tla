------------------------------- MODULE MCCrc32 ------------------------------
(* An instance of Crc32 for TLC.                                           *)
EXTENDS Crc32

(* The nine digits, the empty buffer, and the bytes whose rounds differ    *)
(* most.                                                                   *)
MCMessages == {Digits, <<>>, <<{}, {}, {}>>, <<0 .. 7, {7}, {0}>>}

(* One bit, the bits at both ends, all bits.                               *)
MCErrors == {{n} : n \in 0 .. 7} \cup {{0, 7}, 0 .. 7}

=============================================================================
