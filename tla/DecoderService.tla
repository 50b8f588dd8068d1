---------------------------- MODULE DecoderService ----------------------------
(***************************************************************************)
(* What StatelessVideoDecoder promises its client, whatever the codec: the *)
(* frames that are output form a stream that only grows at its end and is  *)
(* handed over in that order, each once; every frame of the stream fits in *)
(* a buffer of the format the client had acknowledged when it was decoded; *)
(* and a format changes only when nothing in the old format is left to     *)
(* hand over.                                                              *)
(***************************************************************************)
EXTENDS Integers, Sequences

CONSTANTS
  Formats, NoFormat,
  Fits        (* The pairs <<f, g>>: a frame of format f fits in a buffer  *)
              (* that was allocated for format g.                          *)

VARIABLES
  output,     (* The output stream so far.                                 *)
  taken,      (* The part of it the client has taken.                      *)
  format      (* The format the client has acknowledged last.              *)

vars == <<output, taken, format>>

Init ==
  /\ output = <<>>
  /\ taken = <<>>
  /\ format = NoFormat

Output(frames) ==
  /\ format \in Formats
  /\ \A i \in DOMAIN frames : <<frames[i].format, format>> \in Fits
  /\ output' = output \o frames
  /\ UNCHANGED <<taken, format>>

Take ==
  /\ Len(taken) < Len(output)
  /\ taken' = Append(taken, output[Len(taken) + 1])
  /\ UNCHANGED <<output, format>>

ChangeFormat(f) ==
  /\ taken = output
  /\ format' = f
  /\ UNCHANGED <<output, taken>>

(* Written with the frames a step adds, so that TLC need not enumerate     *)
(* sequences.                                                              *)
Next ==
  \/ Output(SubSeq(output', Len(output) + 1, Len(output')))
  \/ Take
  \/ \E f \in Formats : ChangeFormat(f)

Spec == Init /\ [][Next]_vars
=============================================================================
