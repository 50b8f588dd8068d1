-------------------------- MODULE MCC2DecoderWorker --------------------------
(* Instances of C2DecoderWorker for TLC.                                   *)
EXTENDS C2DecoderWorker

CONSTANTS f1, f2

(* Bitstreams for one decode call, or, in one of the formats, for two.     *)
MCWorks == [format : Formats, units : {1}] \cup {[format |-> f2, units |-> 2]}
=============================================================================
