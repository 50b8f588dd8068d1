------------------------- MODULE MCStatelessEncoder -------------------------
(* Instances of StatelessEncoder for TLC.                                  *)
EXTENDS StatelessEncoder

(* An encoder that does not block may wait all the same, and the client    *)
(* that makes any calls may make the worker's: the other two pairs are     *)
(* special cases of the second one.                                        *)
MCUses == {<<TRUE, "worker">>, <<FALSE, "any">>}

(* A period of three frames ends within four calls, and the worker can     *)
(* tune twice besides.                                                     *)
MCMaxCalls == [worker |-> 6, any |-> 4]

MCWorker == {<<TRUE, "worker">>, <<FALSE, "worker">>}
=============================================================================
