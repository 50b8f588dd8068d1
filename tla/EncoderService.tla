---------------------------- MODULE EncoderService ----------------------------
(***************************************************************************)
(* What VideoEncoder (src/encoder.rs) promises its client, whatever the    *)
(* codec and the prediction structure: every frame given to encode comes   *)
(* out of poll coded, once, in the order the frames went in, and when      *)
(* drain returns nothing is left to code.  A call that fails may lose a    *)
(* stretch of the frames the encoder holds, a drain that fails also coded  *)
(* frames it has collected; no call reorders or repeats one.  It is the    *)
(* encoder C2EncoderWorker works with.                                     *)
(***************************************************************************)
EXTENDS Integers, Sequences

VARIABLES
  accepted,   (* Frames encode has accepted, numbered from 1.              *)
  encoding,   (* Those still to be coded ...                               *)
  coded,      (* ... and the coded ones poll has not returned.             *)
  draining,   (* Is a drain call running?                                  *)
  failed      (* Has a call failed?                                        *)

vars == <<accepted, encoding, coded, draining, failed>>

Init ==
  /\ accepted = 0
  /\ encoding = <<>>
  /\ coded = <<>>
  /\ draining = FALSE
  /\ failed = FALSE

Encode ==
  /\ ~draining
  /\ accepted' = accepted + 1
  /\ encoding' = Append(encoding, accepted')
  /\ UNCHANGED <<coded, draining, failed>>

FrameCoded ==
  /\ encoding # <<>>
  /\ coded' = Append(coded, Head(encoding))
  /\ encoding' = Tail(encoding)
  /\ UNCHANGED <<accepted, draining, failed>>

Poll ==
  /\ ~draining
  /\ coded # <<>>
  /\ coded' = Tail(coded)
  /\ UNCHANGED <<accepted, encoding, draining, failed>>

StartDrain ==
  /\ ~draining
  /\ draining' = TRUE
  /\ UNCHANGED <<accepted, encoding, coded, failed>>

EndDrain ==
  /\ draining
  /\ encoding = <<>>
  /\ draining' = FALSE
  /\ UNCHANGED <<accepted, encoding, coded, failed>>

Fail ==
  /\ \E i, j \in 0..Len(encoding) :
       /\ i <= j
       /\ encoding' = SubSeq(encoding, 1, i) \o SubSeq(encoding, j + 1, Len(encoding))
  /\ draining' = FALSE
  /\ failed' = TRUE
  /\ UNCHANGED <<accepted, coded>>

(* What is lost are the latest of the coded frames.                        *)
DrainFails ==
  /\ draining
  /\ \E n \in 0..Len(coded) : coded' = SubSeq(coded, 1, n)
  /\ draining' = FALSE
  /\ failed' = TRUE
  /\ UNCHANGED <<accepted, encoding>>

Next == Encode \/ FrameCoded \/ Poll \/ StartDrain \/ EndDrain \/ Fail \/ DrainFails

Spec == Init /\ [][Next]_vars
=============================================================================
