------------------------ MODULE StatelessEncoderProofs ------------------------
(***************************************************************************)
(* Theorems of StatelessEncoder, for every set of codecs, every length of  *)
(* the intra period, every set of tunings, and clients of both kinds that  *)
(* make any number of calls.                                               *)
(***************************************************************************)
EXTENDS StatelessEncoder, SequenceTheorems, FiniteSetTheorems, TLAPS

USE LowDelayAssumption

-----------------------------------------------------------------------------
(* Facts about the operators of the predictor.                             *)

LEMMA WrapFacts ==
  ASSUME limit \in Limits, NEW position \in 0..(limit - 1)
  PROVE  /\ Wrap(position) \in 0..(limit - 1)
         /\ Wrap(position) = 0 \/ Wrap(position) = position + 1
<1>1. limit \in Nat /\ limit > 0
  OBVIOUS
<1>2. CASE position + 1 = limit
  BY <1>1, <1>2 DEF Wrap
<1>3. CASE position + 1 # limit
  BY <1>1, <1>3 DEF Wrap
<1>4. QED BY <1>2, <1>3

LEMMA NumDueType ==
  ASSUME tunings_queue \in Seq([when : Nat, tunings : Tuning])
  PROVE  NumDue \in 0..Len(tunings_queue)
<1> DEFINE due == {n \in DOMAIN tunings_queue :
                     \A i \in 1..n : tunings_queue[i].when <= counter}
<1>1. Len(tunings_queue) \in Nat /\ DOMAIN tunings_queue = 1..Len(tunings_queue)
  BY LenProperties
<1>2. IsFiniteSet(1..Len(tunings_queue)) /\ Cardinality(1..Len(tunings_queue)) = Len(tunings_queue)
  BY <1>1, FS_Interval
<1>3. due \subseteq 1..Len(tunings_queue)
  <2>1. due \subseteq DOMAIN tunings_queue
    OBVIOUS
  <2>2. QED BY <1>1, <2>1
<1>4. Cardinality(due) <= Len(tunings_queue) /\ IsFiniteSet(due)
  BY <1>2, <1>3, FS_Subset
<1>5. Cardinality(due) \in Nat
  BY <1>4, FS_CardinalityType
<1>6. QED BY <1>1, <1>4, <1>5 DEF NumDue

LEMMA CurrentType ==
  ASSUME tunings_queue \in Seq([when : Nat, tunings : Tuning]), tunings \in Tuning
  PROVE  Current \in Tuning
<1>1. NumDue \in 0..Len(tunings_queue) /\ Len(tunings_queue) \in Nat
  BY NumDueType, LenProperties
<1>2. CASE NumDue = 0
  BY <1>2 DEF Current
<1>3. CASE NumDue # 0
  <2>1. NumDue \in 1..Len(tunings_queue)
    BY <1>1, <1>3
  <2>2. tunings_queue[NumDue] \in [when : Nat, tunings : Tuning]
    BY <2>1, ElementOfSeq
  <2>3. QED BY <1>3, <2>2 DEF Current
<1>4. QED BY <1>2, <1>3

LEMMA PreviousType ==
  ASSUME tunings_queue \in Seq([when : Nat, tunings : Tuning]), tunings \in Tuning
  PROVE  Previous \in Tuning
<1>1. NumDue \in 0..Len(tunings_queue) /\ Len(tunings_queue) \in Nat
  BY NumDueType, LenProperties
<1>2. CASE NumDue <= 1
  BY <1>2 DEF Previous
<1>3. CASE ~(NumDue <= 1)
  <2>1. NumDue - 1 \in 1..Len(tunings_queue)
    BY <1>1, <1>3
  <2>2. tunings_queue[NumDue - 1] \in [when : Nat, tunings : Tuning]
    BY <2>1, ElementOfSeq
  <2>3. QED BY <1>3, <2>2 DEF Previous
<1>4. QED BY <1>2, <1>3

(* The parameter sets are built from one tunings or another.               *)
LEMMA SetsType ==
  ASSUME LowDelayTypeOK, NEW key \in BOOLEAN
  PROVE  Sets(key) \in Nat /\ Writes(key) \in BOOLEAN
<1>1. Current.n \in Nat /\ Previous.n \in Nat
  BY CurrentType, PreviousType DEF LowDelayTypeOK, Tuning
<1>2. QED BY <1>1 DEF Sets, Writes, NewSequence, LowDelayTypeOK

LEMMA ReferencedType ==
  ASSUME references \in Seq(Reference), references # <<>>
  PROVE  Referenced \in Seq(Reference)
<1>1. Len(references) \in Nat /\ Len(references) > 0
  BY EmptySeq, LenProperties
<1>2. Reverse(references) \in Seq(Reference)
  BY <1>1 DEF Reverse
<1>3. <<references[Len(references)]>> \in Seq(Reference)
  BY <1>1
<1>4. <<Head(references)>> \in Seq(Reference)
  BY <1>1
<1>5. QED BY <1>2, <1>3, <1>4 DEF Referenced, NewestReference, OldestReference

LEMMA RequestType ==
  ASSUME LowDelayTypeOK, NEW frame \in Frame, NEW key \in BOOLEAN, NEW order \in Nat,
         NEW refs \in Seq(Reference)
  PROVE  /\ Request(frame, key, order, refs) \in Requests
         /\ Sets(key) \in Nat
         /\ Writes(key) \in BOOLEAN
<1>1. Current \in Tuning
  BY CurrentType DEF LowDelayTypeOK
<1>2. Sets(key) \in Nat /\ Writes(key) \in BOOLEAN
  BY SetsType
<1>3. frame.id \in Nat /\ frame.force_keyframe \in BOOLEAN /\ frame.asked \in Tuning
  BY DEF Frame
<1>4. QED BY <1>1, <1>2, <1>3 DEF Request, Requests

(* pop_tunings leaves tunings and a queue of them.                         *)
LEMMA PopTuningsType ==
  ASSUME LowDelayTypeOK, PopTunings
  PROVE  /\ tunings' \in Tuning
         /\ tunings_queue' \in Seq([when : Nat, tunings : Tuning])
<1>1. tunings' \in Tuning
  BY CurrentType DEF PopTunings, LowDelayTypeOK
<1>2. NumDue \in 0..Len(tunings_queue) /\ Len(tunings_queue) \in Nat
  BY NumDueType, LenProperties DEF LowDelayTypeOK
<1>3. \A i \in (NumDue + 1)..Len(tunings_queue) : i \in 1..Len(tunings_queue)
  BY <1>2
<1>4. \A i \in (NumDue + 1)..Len(tunings_queue) :
        tunings_queue[i] \in [when : Nat, tunings : Tuning]
  BY <1>3, ElementOfSeq DEF LowDelayTypeOK
<1>5. SubSeq(tunings_queue, NumDue + 1, Len(tunings_queue))
        \in Seq([when : Nat, tunings : Tuning])
  BY <1>2, <1>4, SubSeqProperties DEF LowDelayTypeOK
<1>6. QED BY <1>1, <1>5 DEF PopTunings

(* The frame at the front goes from the queue to the requests.             *)
LEMMA SendType ==
  ASSUME LowDelayTypeOK, queue # <<>>, NEW request \in Requests, Send(request)
  PROVE  /\ queue' \in Seq(Frame)
         /\ requests' \in Seq(Requests)
         /\ requests' # <<>>
         /\ Len(queue') = Len(queue) - 1 /\ Len(requests') = Len(requests) + 1
         /\ latest' \in Requests /\ last_key' \in Nat /\ written' \in Nat
         /\ sets' \in Nat /\ update_params_sets' = FALSE
<1>1. queue' \in Seq(Frame) /\ Len(queue') = Len(queue) - 1
  BY HeadTailProperties DEF Send, LowDelayTypeOK
<1>2. /\ requests' \in Seq(Requests) /\ requests' # <<>>
      /\ Len(requests') = Len(requests) + 1
  <2>1. requests \in Seq(Requests) /\ requests' = Append(requests, request)
    BY DEF Send, LowDelayTypeOK
  <2>2. QED BY <2>1, AppendProperties
<1>3. /\ request.key \in BOOLEAN /\ request.id \in Nat
      /\ request.sets \in Nat
  BY DEF Requests
<1>4. Sets(request.key) \in Nat
  BY <1>3, SetsType
<1>5. QED BY <1>1, <1>2, <1>3, <1>4 DEF Send, LowDelayTypeOK

-----------------------------------------------------------------------------
(* The turns of next_request.                                              *)

(* H.265: the picture order count of an inter frame does not underflow.    *)
PocBase == codec = "H265" /\ counter # 0 => poc_base <= counter

LEMMA RequestKeyframeFacts ==
  ASSUME LowDelayTypeOK, PocBase, RequestKeyframe
  PROVE  /\ LowDelayTypeOK' /\ PocBase'
         /\ \E request \in Requests : request.id = Head(queue).id /\ Send(request)
         /\ Len(queue') = Len(queue) - 1 /\ Len(requests') = Len(requests) + 1
         /\ requests' # <<>> /\ references' = <<>>
<1>1. limit \in Limits /\ counter \in 0..(limit - 1) /\ limit \in Nat /\ limit > 0
  BY DEF LowDelayTypeOK
<1>2. KeyframePosition \in 0..(limit - 1)
  BY <1>1 DEF KeyframePosition
<1>3. /\ counter' \in 0..(limit - 1)
      /\ counter' = 0 \/ counter' = KeyframePosition + 1
  BY <1>1, <1>2, WrapFacts DEF RequestKeyframe
<1>4. Head(queue) \in Frame
  BY HeadTailProperties DEF RequestKeyframe, LowDelayTypeOK
<1> DEFINE request == Request(Head(queue), TRUE, KeyframeOrder, <<>>)
<1>5. KeyframeOrder \in Nat
  BY <1>1, <1>2 DEF KeyframeOrder
<1>6. request \in Requests
  BY <1>4, <1>5, RequestType, EmptySeq
<1>7. queue # <<>> /\ Send(request) /\ PopTunings /\ request.id = Head(queue).id
  BY DEF RequestKeyframe, Request
<1> HIDE DEF request
<1>8. /\ queue' \in Seq(Frame)
      /\ requests' \in Seq(Requests)
      /\ requests' # <<>>
      /\ Len(queue') = Len(queue) - 1 /\ Len(requests') = Len(requests) + 1
      /\ latest' \in Requests /\ last_key' \in Nat /\ written' \in Nat
      /\ sets' \in Nat /\ update_params_sets' = FALSE
  BY <1>6, <1>7, SendType
<1>9. tunings' \in Tuning /\ tunings_queue' \in Seq([when : Nat, tunings : Tuning])
  BY <1>7, PopTuningsType
<1>10. references' = <<>> /\ references' \in Seq(Reference)
  BY DEF RequestKeyframe
<1>11. codec' = codec /\ limit' = limit
  BY DEF RequestKeyframe, config
<1>12. poc_base' \in Nat
  BY <1>1 DEF RequestKeyframe, LowDelayTypeOK
<1>13. LowDelayTypeOK'
  BY <1>1, <1>3, <1>8, <1>9, <1>10, <1>11, <1>12 DEF LowDelayTypeOK
<1>14. PocBase'
  <2> SUFFICES ASSUME codec = "H265", counter' # 0 PROVE poc_base' <= counter'
    BY <1>11 DEF PocBase
  <2>1. poc_base' = counter /\ KeyframePosition = counter
    BY DEF RequestKeyframe, KeyframePosition
  <2>2. QED BY <2>1, <1>1, <1>3
<1>15. QED BY <1>6, <1>7, <1>8, <1>10, <1>13, <1>14

LEMMA RequestInterframeFacts ==
  ASSUME LowDelayTypeOK, PocBase, RequestInterframe
  PROVE  /\ LowDelayTypeOK' /\ PocBase'
         /\ \E request \in Requests : request.id = Head(queue).id /\ Send(request)
         /\ Len(queue') = Len(queue) - 1 /\ Len(requests') = Len(requests) + 1
         /\ requests' # <<>> /\ references' = <<>>
<1>1. limit \in Limits /\ counter \in 0..(limit - 1) /\ limit \in Nat /\ limit > 0
  BY DEF LowDelayTypeOK
<1>2. counter # 0
  BY DEF RequestInterframe
<1>3. /\ counter' \in 0..(limit - 1)
      /\ counter' = 0 \/ counter' = counter + 1
  BY <1>1, WrapFacts DEF RequestInterframe
<1>4. Head(queue) \in Frame
  BY HeadTailProperties DEF RequestInterframe, LowDelayTypeOK
<1> DEFINE request == Request(Head(queue), FALSE, Order(counter), Referenced)
<1>5. Order(counter) \in Nat
  BY <1>1, <1>2 DEF Order, PocBase, LowDelayTypeOK
<1>6. Referenced \in Seq(Reference)
  BY ReferencedType DEF RequestInterframe, LowDelayTypeOK
<1>7. request \in Requests
  BY <1>4, <1>5, <1>6, RequestType
<1>8. queue # <<>> /\ Send(request) /\ PopTunings /\ request.id = Head(queue).id
  BY DEF RequestInterframe, Request
<1> HIDE DEF request
<1>9. /\ queue' \in Seq(Frame)
      /\ requests' \in Seq(Requests)
      /\ requests' # <<>>
      /\ Len(queue') = Len(queue) - 1 /\ Len(requests') = Len(requests) + 1
      /\ latest' \in Requests /\ last_key' \in Nat /\ written' \in Nat
      /\ sets' \in Nat /\ update_params_sets' = FALSE
  BY <1>7, <1>8, SendType
<1>10. tunings' \in Tuning /\ tunings_queue' \in Seq([when : Nat, tunings : Tuning])
  BY <1>8, PopTuningsType
<1>11. references' = <<>> /\ references' \in Seq(Reference)
  BY DEF RequestInterframe
<1>12. codec' = codec /\ limit' = limit /\ poc_base' = poc_base
  BY DEF RequestInterframe, config
<1>13. LowDelayTypeOK'
  BY <1>1, <1>3, <1>9, <1>10, <1>11, <1>12 DEF LowDelayTypeOK
<1>14. PocBase'
  BY <1>1, <1>2, <1>3, <1>12 DEF PocBase, LowDelayTypeOK
<1>15. QED BY <1>7, <1>8, <1>9, <1>11, <1>13, <1>14

LEMMA AwaitReferenceFacts ==
  ASSUME LowDelayTypeOK, PocBase, AwaitReference
  PROVE  /\ LowDelayTypeOK' /\ PocBase'
         /\ queue' = queue /\ requests' = requests
         /\ references' = <<>> /\ references = <<>> /\ counter # 0
<1>1. tunings' \in Tuning /\ tunings_queue' \in Seq([when : Nat, tunings : Tuning])
  BY PopTuningsType DEF AwaitReference
<1>2. sets' \in Nat /\ update_params_sets' \in BOOLEAN
  BY SetsType DEF AwaitReference
<1>3. QED
  BY <1>1, <1>2 DEF AwaitReference, LowDelayTypeOK, PocBase, config, history

-----------------------------------------------------------------------------
(* The inductive invariant.                                                *)

(* A failure of execute drops requests that stay counted.                  *)
Counted ==
  /\ predictor_frame_count >= Len(queue) + Len(requests)
  /\ FramesAreCounted

(* Requests are handed to the backend before next_request's caller does    *)
(* anything else.                                                          *)
InHand == pc \notin {"predict", "execute"} => requests = <<>>

(* Inside an intra period there is always a frame that is, or will be, a   *)
(* reference ...                                                           *)
Started ==
  counter # 0 /\ ~failed =>
    requests # <<>> \/ recon_queue # <<>> \/ references # <<>>

(* ... and a frame that waits, waits for one that is not there yet.        *)
Waiting ==
  pc # "predict" /\ queue # <<>> /\ ~failed =>
    requests # <<>> \/ recon_queue # <<>>

IInv == TypeOK /\ Counted /\ PocBase /\ InHand /\ Started /\ Waiting

LEMMA InitInvariant == Init => IInv
<1> SUFFICES ASSUME Init PROVE IInv
  OBVIOUS
<1>1. limit \in Limits /\ limit \in Nat /\ limit > 0
  BY DEF Init, LowDelayInit
<1>2. tunings \in Tuning /\ wanted = tunings
  BY DEF Init, LowDelayInit, Tuning
<1>3. NoRequest \in Requests
  BY EmptySeq DEF NoRequest, Requests, Tuning
<1>4. LowDelayTypeOK
  <2>1. counter \in 0..(limit - 1)
    BY <1>1 DEF Init, LowDelayInit
  <2>2. /\ queue \in Seq(Frame) /\ references \in Seq(Reference)
        /\ tunings_queue \in Seq([when : Nat, tunings : Tuning])
        /\ requests \in Seq(Requests)
    BY DEF Init, LowDelayInit
  <2>3. QED
    BY <1>2, <1>3, <2>1, <2>2 DEF Init, LowDelayInit, LowDelayTypeOK
<1>5. TypeOK
  BY <1>2, <1>4, EmptySeq DEF Init, TypeOK
<1>6. Counted
  BY EmptySeq DEF Init, LowDelayInit, Counted, FramesAreCounted
<1>7. PocBase /\ InHand /\ Started /\ Waiting
  BY DEF Init, LowDelayInit, PocBase, InHand, Started, Waiting
<1>8. QED BY <1>5, <1>6, <1>7 DEF IInv

(* What a step leaves of the predictor.                                    *)
LEMMA PredictorUnchanged ==
  ASSUME LowDelayTypeOK, PocBase, UNCHANGED predictor_vars
  PROVE  /\ LowDelayTypeOK' /\ PocBase'
         /\ queue' = queue /\ requests' = requests
         /\ references' = references /\ counter' = counter
BY DEF predictor_vars, config, tuning_vars, history, LowDelayTypeOK, PocBase

LEMMA RequestsTaken ==
  ASSUME LowDelayTypeOK, PocBase, requests # <<>>,
         requests' = Tail(requests) \/ requests' = <<>>,
         UNCHANGED <<config, queue, references, counter, poc_base, sets,
                     update_params_sets, tuning_vars, history>>
  PROVE  /\ LowDelayTypeOK' /\ PocBase'
         /\ Len(requests) \in Nat /\ Len(requests') \in Nat
         /\ Len(requests') <= Len(requests) - 1
         /\ requests' = Tail(requests) => Len(requests') = Len(requests) - 1
         /\ queue' = queue /\ references' = references /\ counter' = counter
<1>1. requests \in Seq(Requests)
  BY DEF LowDelayTypeOK
<1>2. /\ Tail(requests) \in Seq(Requests) /\ Len(Tail(requests)) = Len(requests) - 1
      /\ Len(requests) \in Nat /\ Len(requests) >= 1
  BY <1>1, HeadTailProperties, EmptySeq, LenProperties
<1>3. requests' \in Seq(Requests)
  BY <1>2, EmptySeq
<1>4. Len(requests') \in Nat /\ (Len(requests') = 0 \/ Len(requests') = Len(requests) - 1)
  BY <1>2, EmptySeq
<1>5. LowDelayTypeOK' /\ PocBase'
  BY <1>3 DEF LowDelayTypeOK, PocBase, config, tuning_vars, history
<1>6. queue' = queue /\ references' = references /\ counter' = counter
  OBVIOUS
<1>7. Len(requests') \in Nat /\ Len(requests') <= Len(requests) - 1
  <2>1. \A m, n \in Nat : n >= 1 /\ (m = 0 \/ m = n - 1) => m <= n - 1
    OBVIOUS
  <2>2. QED BY <1>2, <1>4, <2>1
<1>8. QED BY <1>2, <1>5, <1>6, <1>7

LEMMA NewFrameFacts ==
  ASSUME LowDelayTypeOK, PocBase, NEW frame \in Frame, NewFrame(frame)
  PROVE  /\ LowDelayTypeOK' /\ PocBase'
         /\ Len(queue') = Len(queue) + 1 /\ requests' = requests
         /\ references' = references /\ counter' = counter
<1>1. queue \in Seq(Frame) /\ queue' = Append(queue, frame)
  BY DEF NewFrame, LowDelayTypeOK
<1>2. queue' \in Seq(Frame) /\ Len(queue') = Len(queue) + 1
  BY <1>1, AppendProperties
<1>3. QED
  BY <1>2 DEF NewFrame, LowDelayTypeOK, PocBase, config, tuning_vars, history

LEMMA ReconstructedFacts ==
  ASSUME LowDelayTypeOK, PocBase, NEW reference \in Reference, Reconstructed(reference)
  PROVE  /\ LowDelayTypeOK' /\ PocBase'
         /\ queue' = queue /\ requests' = requests
         /\ references' # <<>> /\ counter' = counter
<1>1. references \in Seq(Reference) /\ references' = Append(references, reference)
  BY DEF Reconstructed, LowDelayTypeOK
<1>2. references' \in Seq(Reference) /\ references' # <<>>
  BY <1>1, AppendProperties
<1>3. QED
  BY <1>2 DEF Reconstructed, LowDelayTypeOK, PocBase, config, tuning_vars, history

LEMMA TuneFacts ==
  ASSUME LowDelayTypeOK, PocBase, NEW new \in Tuning, Tune(new)
  PROVE  /\ LowDelayTypeOK' /\ PocBase'
         /\ queue' = queue /\ requests' = requests
         /\ references' = references /\ counter' = counter
<1>1. counter + Len(queue) \in Nat
  <2>1. Len(queue) \in Nat /\ limit \in Nat /\ counter \in 0..(limit - 1)
    BY LenProperties DEF LowDelayTypeOK
  <2>2. QED BY <2>1
<1>2. [when |-> counter + Len(queue), tunings |-> new] \in [when : Nat, tunings : Tuning]
  BY <1>1
<1>3. tunings_queue' \in Seq([when : Nat, tunings : Tuning])
  BY <1>2, AppendProperties DEF Tune, LowDelayTypeOK
<1>4. QED
  BY <1>3 DEF Tune, LowDelayTypeOK, PocBase, config, history

-----------------------------------------------------------------------------
(* Every step keeps the invariant: the turns of next_request, ...          *)

LEMMA PredictInvariant == IInv /\ Predict => IInv'
<1> SUFFICES ASSUME IInv, Predict PROVE IInv'
  OBVIOUS
<1>1. /\ TypeOK /\ LowDelayTypeOK /\ PocBase /\ Counted /\ Started
      /\ pc = "predict" /\ call # "none"
  BY DEF IInv, TypeOK, Predict
<1>2. /\ queue \in Seq(Frame) /\ requests \in Seq(Requests)
      /\ Len(queue) \in Nat /\ Len(requests) \in Nat
  BY <1>1, LenProperties DEF LowDelayTypeOK
<1>3. UNCHANGED <<queue_vars, predictor_frame_count, client_vars, failed>>
  BY DEF Predict
<1>4. /\ LowDelayTypeOK' /\ PocBase'
      /\ Len(queue') + Len(requests') = Len(queue) + Len(requests)
  <2>1. CASE RequestKeyframe
    BY <1>1, <1>2, <2>1, RequestKeyframeFacts
  <2>2. CASE RequestInterframe
    BY <1>1, <1>2, <2>2, RequestInterframeFacts
  <2>3. CASE AwaitReference
    BY <1>1, <1>2, <2>3, AwaitReferenceFacts
  <2>4. CASE QueueEmpty
    BY <1>1, <1>2, <2>4, PredictorUnchanged DEF QueueEmpty
  <2>5. QED BY <2>1, <2>2, <2>3, <2>4 DEF Predict
<1>5. CASE RequestKeyframe /\ Goto("predict")
  <2>1. pc' = "predict" /\ call' = call /\ requests' # <<>>
    BY <1>1, <1>5, RequestKeyframeFacts DEF Goto
  <2>2. TypeOK'
    BY <1>1, <1>3, <1>4, <2>1 DEF TypeOK, queue_vars, client_vars
  <2>3. QED
    BY <1>1, <1>3, <1>4, <2>1, <2>2
    DEF IInv, Counted, FramesAreCounted, InHand, Started, Waiting
<1>6. CASE (RequestInterframe \/ AwaitReference \/ QueueEmpty) /\ Proceed("polled")
  <2>1. CASE requests' # <<>>
    <3>1. pc' = "execute" /\ call' = call
      BY <1>6, <2>1 DEF Proceed, Goto
    <3>2. TypeOK'
      BY <1>1, <1>3, <1>4, <3>1 DEF TypeOK, queue_vars, client_vars
    <3>3. QED
      BY <1>1, <1>3, <1>4, <2>1, <3>1, <3>2
      DEF IInv, Counted, FramesAreCounted, InHand, Started, Waiting
  <2>2. CASE requests' = <<>>
    <3>1. (pc' = "polled" /\ call' = call) \/ (pc' = "idle" /\ call' = "none")
      BY <1>6, <2>2 DEF Proceed, Goto, Return
    <3>2. TypeOK'
      BY <1>1, <1>3, <1>4, <3>1 DEF TypeOK, queue_vars, client_vars
    <3>3. CASE AwaitReference
      <4>1. /\ requests' = requests /\ references = <<>> /\ counter # 0
            /\ references' = <<>> /\ recon_queue' = recon_queue /\ failed' = failed
        BY <1>1, <1>3, <3>3, AwaitReferenceFacts DEF queue_vars
      <4>2. ~failed' => recon_queue' # <<>>
        BY <1>1, <2>2, <4>1 DEF Started
      <4>3. Started' /\ Waiting' /\ InHand'
        BY <2>2, <4>2 DEF Started, Waiting, InHand
      <4>4. QED
        BY <1>1, <1>3, <1>4, <3>2, <4>3 DEF IInv, Counted, FramesAreCounted
    <3>4. CASE QueueEmpty
      <4>1. /\ queue' = <<>> /\ requests' = requests /\ references' = references
            /\ counter' = counter /\ recon_queue' = recon_queue /\ failed' = failed
        BY <1>1, <1>3, <3>4, PredictorUnchanged DEF QueueEmpty, queue_vars
      <4>2. Started' /\ Waiting' /\ InHand'
        BY <1>1, <2>2, <4>1 DEF Started, Waiting, InHand
      <4>3. QED
        BY <1>1, <1>3, <1>4, <3>2, <4>2 DEF IInv, Counted, FramesAreCounted
    <3>5. ~RequestInterframe
      BY <1>1, <2>2, RequestInterframeFacts
    <3>6. QED BY <1>6, <3>3, <3>4, <3>5
  <2>3. QED BY <2>1, <2>2
<1>7. QED BY <1>5, <1>6 DEF Predict

(* ... the steps that leave the predictor alone, ...                       *)
Quiet ==
  \/ CallPoll \/ CallPollBlocking \/ CallDrain \/ PollOutput \/ NoOutput
  \/ NoRecon \/ Polled \/ DrainPolls \/ DrainEnds \/ PredictorDrainFails
  \/ OutputFails \/ ReconFails

LEMMA QuietInvariant == IInv /\ Quiet => IInv'
<1> SUFFICES ASSUME IInv, Quiet PROVE IInv'
  OBVIOUS
<1>1. /\ TypeOK /\ LowDelayTypeOK /\ PocBase
      /\ Counted /\ InHand /\ Started /\ Waiting
  BY DEF IInv, TypeOK
<1>2. UNCHANGED <<predictor_vars, predictor_frame_count>>
  BY DEF Quiet, CallPoll, CallPollBlocking, CallDrain, PollOutput, NoOutput,
         NoRecon, Polled, DrainPolls, DrainEnds, PredictorDrainFails,
         OutputFails, ReconFails
<1>3. /\ LowDelayTypeOK' /\ PocBase'
      /\ queue' = queue /\ requests' = requests
      /\ references' = references /\ counter' = counter
      /\ predictor_frame_count' = predictor_frame_count
  BY <1>1, <1>2, PredictorUnchanged
<1>4. /\ output_queue \in Seq(Nat) /\ recon_queue \in Seq(Reference)
      /\ coded_queue \in Seq(Nat)
  BY <1>1 DEF TypeOK
<1>5. /\ output_queue # <<>> => Head(output_queue) \in Nat /\ Tail(output_queue) \in Seq(Nat)
      /\ recon_queue # <<>> => Tail(recon_queue) \in Seq(Reference)
      /\ coded_queue # <<>> => Tail(coded_queue) \in Seq(Nat)
  BY <1>4, HeadTailProperties
<1>6. output_queue # <<>> => Append(coded_queue, Head(output_queue)) \in Seq(Nat)
  BY <1>4, <1>5, AppendProperties
<1>7. /\ output_queue' \in Seq(Nat) /\ recon_queue' \in Seq(Reference)
      /\ coded_queue' \in Seq(Nat)
  BY <1>4, <1>5, <1>6
  DEF Quiet, CallPoll, CallPollBlocking, CallDrain, PollOutput, NoOutput,
      NoRecon, Polled, DrainPolls, DrainEnds, PredictorDrainFails,
      OutputFails, ReconFails, queue_vars
<1>8. (failed' = failed /\ recon_queue' = recon_queue) \/ failed' = TRUE
  BY <1>1
  DEF Quiet, CallPoll, CallPollBlocking, CallDrain, PollOutput, NoOutput,
      NoRecon, Polled, DrainPolls, DrainEnds, PredictorDrainFails,
      OutputFails, ReconFails, Fails, queue_vars, TypeOK
<1>9. num_frames' = num_frames /\ wanted' = wanted
  BY DEF Quiet, CallPoll, CallPollBlocking, CallDrain, PollOutput, NoOutput,
      NoRecon, Polled, DrainPolls, DrainEnds, PredictorDrainFails,
      OutputFails, ReconFails, Fails, client_vars
<1>10. /\ pc' \in {"idle", "first", "outputs", "recons", "polled", "drain"}
       /\ call' \in {"none", "encode", "poll", "drain"}
       /\ pc' = "idle" => call' = "none"
       /\ pc' # "idle" => call' # "none"
       /\ pc # "predict" /\ pc # "execute"
  <2>1. CASE CallPollBlocking
    BY <1>1, <2>1 DEF CallPollBlocking, TypeOK
  <2>2. CASE CallPoll \/ CallDrain
    BY <2>2 DEF CallPoll, CallDrain
  <2>3. CASE PollOutput \/ NoOutput \/ NoRecon \/ DrainPolls
    BY <1>1, <2>3 DEF PollOutput, NoOutput, NoRecon, DrainPolls, Goto, TypeOK
  <2>4. CASE Polled
    BY <1>1, <2>4 DEF Polled, Goto, Return, TypeOK
  <2>5. CASE DrainEnds \/ PredictorDrainFails \/ OutputFails \/ ReconFails
    BY <2>5 DEF DrainEnds, PredictorDrainFails, OutputFails, ReconFails, Fails, Return
  <2>6. QED BY <2>1, <2>2, <2>3, <2>4, <2>5 DEF Quiet
<1>11. (pc' = "idle") = (call' = "none")
  BY <1>10, Zenon
<1>12. TypeOK'
  <2>1. failed' \in BOOLEAN
    BY <1>1, <1>8, Zenon DEF TypeOK
  <2>2. /\ num_frames' \in Nat /\ wanted' \in Tuning /\ predictor_frame_count' \in Nat
        /\ pc' \in {"idle", "predict", "execute", "first", "outputs", "recons",
                   "polled", "drain"}
    BY <1>1, <1>3, <1>9, <1>10 DEF TypeOK
  <2>3. QED BY <1>3, <1>7, <1>10, <1>11, <2>1, <2>2, Zenon DEF TypeOK
<1>13. InHand'
  BY <1>1, <1>3, <1>10 DEF InHand
<1>14. Started' /\ Waiting' /\ Counted'
  <2>1. predictor_frame_count' >= Len(queue') + Len(requests')
    BY <1>1, <1>3 DEF Counted
  <2>2. CASE failed' = failed /\ recon_queue' = recon_queue
    BY <1>1, <1>3, <1>10, <2>1, <2>2, Zenon
    DEF Started, Waiting, Counted, FramesAreCounted
  <2>3. CASE failed' = TRUE
    BY <2>1, <2>3, Zenon DEF Started, Waiting, Counted, FramesAreCounted
  <2>4. QED BY <1>8, <2>2, <2>3
<1>15. QED BY <1>3, <1>12, <1>13, <1>14 DEF IInv

(* ... the calls that reach the predictor, ...                             *)
LEMMA CallTuneInvariant ==
  ASSUME IInv, NEW value \in Values, CallTune(value)
  PROVE  IInv'
<1>1. /\ TypeOK /\ LowDelayTypeOK /\ PocBase
      /\ Counted /\ InHand /\ Started /\ Waiting
  BY DEF IInv, TypeOK
<1>2. wanted' \in Tuning /\ Tune(wanted')
  BY <1>1 DEF CallTune, Tuning, TypeOK
<1>3. /\ LowDelayTypeOK' /\ PocBase'
      /\ queue' = queue /\ requests' = requests
      /\ references' = references /\ counter' = counter
  <2> DEFINE new == wanted'
  <2>1. new \in Tuning /\ Tune(new)
    BY <1>2
  <2> HIDE DEF new
  <2>2. QED BY <1>1, <2>1, TuneFacts
<1>4. UNCHANGED <<pc, call, queue_vars, predictor_frame_count, num_frames, failed>>
  BY DEF CallTune
<1>5. TypeOK'
  BY <1>1, <1>2, <1>3, <1>4 DEF TypeOK, queue_vars
<1>6. Counted' /\ InHand' /\ Started' /\ Waiting'
  BY <1>1, <1>3, <1>4
  DEF Counted, FramesAreCounted, InHand, Started, Waiting, queue_vars
<1>7. QED BY <1>3, <1>5, <1>6 DEF IInv

LEMMA CallEncodeInvariant ==
  ASSUME IInv, NEW force \in BOOLEAN, CallEncode(force)
  PROVE  IInv'
<1>1. /\ TypeOK /\ LowDelayTypeOK /\ PocBase /\ Counted /\ Started
  BY DEF IInv, TypeOK
<1> DEFINE frame == [id |-> num_frames', force_keyframe |-> force, asked |-> wanted]
<1>2. frame \in Frame /\ num_frames' \in Nat
  BY <1>1 DEF CallEncode, Frame, TypeOK
<1>3. NewFrame(frame)
  BY DEF CallEncode
<1> HIDE DEF frame
<1>4. /\ LowDelayTypeOK' /\ PocBase'
      /\ Len(queue') = Len(queue) + 1 /\ requests' = requests
      /\ references' = references /\ counter' = counter
  BY <1>1, <1>2, <1>3, NewFrameFacts
<1>5. /\ UNCHANGED <<queue_vars, wanted, failed>>
      /\ pc' = "predict" /\ call' = "encode"
      /\ predictor_frame_count' = predictor_frame_count + 1
  BY DEF CallEncode
<1>6. TypeOK'
  BY <1>1, <1>2, <1>4, <1>5 DEF TypeOK, queue_vars
<1>7. Len(queue) \in Nat /\ Len(requests) \in Nat /\ predictor_frame_count \in Nat
  BY <1>1, LenProperties DEF TypeOK, LowDelayTypeOK
<1>8. Counted'
  BY <1>1, <1>4, <1>5, <1>7 DEF Counted, FramesAreCounted
<1>9. InHand' /\ Started' /\ Waiting'
  BY <1>1, <1>4, <1>5 DEF InHand, Started, Waiting, queue_vars
<1>10. QED BY <1>4, <1>6, <1>8, <1>9 DEF IInv

(* ... and the backend's.                                                  *)
LEMMA ExecuteInvariant == IInv /\ (Execute \/ ExecuteFails) => IInv'
<1> SUFFICES ASSUME IInv, Execute \/ ExecuteFails PROVE IInv'
  OBVIOUS
<1>1. /\ TypeOK /\ LowDelayTypeOK /\ PocBase /\ Counted /\ Started
      /\ pc = "execute" /\ call # "none" /\ requests # <<>>
  BY DEF IInv, TypeOK, Execute, ExecuteFails
<1>2. /\ requests' = Tail(requests) \/ requests' = <<>>
      /\ UNCHANGED <<config, queue, references, counter, poc_base, sets,
                     update_params_sets, tuning_vars, history>>
  BY DEF Execute, ExecuteFails
<1>3. /\ LowDelayTypeOK' /\ PocBase'
      /\ Len(requests) \in Nat /\ Len(requests') \in Nat
      /\ Len(requests') <= Len(requests) - 1
      /\ requests' = Tail(requests) => Len(requests') = Len(requests) - 1
      /\ queue' = queue /\ references' = references /\ counter' = counter
  BY <1>1, <1>2, RequestsTaken
<1>4. Len(queue) \in Nat /\ predictor_frame_count \in Nat
  BY <1>1, LenProperties DEF TypeOK, LowDelayTypeOK
<1>5. predictor_frame_count' = predictor_frame_count - 1
  BY DEF Execute, ExecuteFails
<1>6. /\ predictor_frame_count' \in Nat
      /\ predictor_frame_count' >= Len(queue') + Len(requests')
  BY <1>1, <1>3, <1>4, <1>5 DEF Counted
<1>7. UNCHANGED <<client_vars, coded_queue>>
  BY DEF Execute, ExecuteFails, Fails, queue_vars
<1>8. CASE Execute
  <2>1. Head(requests) \in Requests
    BY <1>1, HeadTailProperties DEF LowDelayTypeOK
  <2>2. Head(requests).id \in Nat /\ Head(requests).order \in Nat
    BY <2>1 DEF Requests
  <2> DEFINE reference == [id |-> Head(requests).id, order |-> Head(requests).order]
  <2>3. reference \in Reference
    BY <2>2 DEF Reference
  <2>4. /\ output_queue' = Append(output_queue, Head(requests).id)
        /\ recon_queue' = Append(recon_queue, reference)
    BY <1>8 DEF Execute, Submitted
  <2> HIDE DEF reference
  <2>5. /\ output_queue' \in Seq(Nat) /\ recon_queue' \in Seq(Reference)
        /\ recon_queue' # <<>>
    BY <1>1, <2>2, <2>3, <2>4, AppendProperties DEF TypeOK
  <2>6. requests' = Tail(requests) /\ failed' = failed
    BY <1>8 DEF Execute
  <2>7. \/ requests' # <<>> /\ pc' = "execute" /\ call' = call
        \/ requests' = <<>> /\ pc' = "recons" /\ call' = call
        \/ requests' = <<>> /\ pc' = "idle" /\ call' = "none"
    BY <1>8 DEF Execute, Proceed, Goto, Return
  <2>8. (pc' = "idle") = (call' = "none")
    BY <1>1, <2>7
  <2>9. TypeOK'
    BY <1>1, <1>3, <1>6, <1>7, <2>5, <2>6, <2>7, <2>8 DEF TypeOK, client_vars
  <2>10. FramesAreCounted'
    BY <1>1, <1>3, <1>4, <1>5, <2>6 DEF Counted, FramesAreCounted
  <2>11. InHand' /\ Started' /\ Waiting'
    BY <2>5, <2>7 DEF InHand, Started, Waiting
  <2>12. QED BY <1>3, <1>6, <2>9, <2>10, <2>11 DEF IInv, Counted
<1>9. CASE ExecuteFails
  <2>1. /\ requests' = <<>> /\ failed' = TRUE /\ pc' = "idle" /\ call' = "none"
        /\ UNCHANGED queue_vars
    BY <1>9 DEF ExecuteFails, Fails, Return
  <2>2. TypeOK'
    BY <1>1, <1>3, <1>6, <1>7, <2>1 DEF TypeOK, queue_vars, client_vars
  <2>3. FramesAreCounted' /\ InHand' /\ Started' /\ Waiting'
    BY <2>1 DEF FramesAreCounted, InHand, Started, Waiting
  <2>4. QED BY <1>3, <1>6, <2>2, <2>3 DEF IInv, Counted
<1>10. QED BY <1>8, <1>9

LEMMA PollReconInvariant == IInv /\ PollRecon => IInv'
<1> SUFFICES ASSUME IInv, PollRecon PROVE IInv'
  OBVIOUS
<1>1. /\ TypeOK /\ LowDelayTypeOK /\ PocBase /\ Counted
      /\ pc = "recons" /\ call # "none"
  BY DEF IInv, TypeOK, PollRecon
<1>2. /\ recon_queue \in Seq(Reference) /\ recon_queue # <<>>
      /\ recon_queue' = Tail(recon_queue)
      /\ Reconstructed(Head(recon_queue))
  BY <1>1 DEF PollRecon, TypeOK
<1>3. Head(recon_queue) \in Reference /\ recon_queue' \in Seq(Reference)
  BY <1>2, HeadTailProperties
<1>4. /\ LowDelayTypeOK' /\ PocBase'
      /\ queue' = queue /\ requests' = requests
      /\ references' # <<>> /\ counter' = counter
  BY <1>1, <1>2, <1>3, ReconstructedFacts
<1>5. /\ UNCHANGED <<output_queue, coded_queue, predictor_frame_count, client_vars, failed>>
      /\ pc' = "predict" /\ call' = call
  BY DEF PollRecon, Goto
<1>6. TypeOK'
  BY <1>1, <1>3, <1>4, <1>5 DEF TypeOK, client_vars
<1>7. Counted' /\ InHand' /\ Started' /\ Waiting'
  BY <1>1, <1>4, <1>5 DEF Counted, FramesAreCounted, InHand, Started, Waiting
<1>8. QED BY <1>4, <1>6, <1>7 DEF IInv

LEMMA StepInvariant == IInv /\ [Next]_vars => IInv'
<1> SUFFICES ASSUME IInv, [Next]_vars PROVE IInv'
  OBVIOUS
<1>1. CASE UNCHANGED vars
  <2>1. LowDelayTypeOK' /\ PocBase'
    BY <1>1, PredictorUnchanged DEF vars, IInv, TypeOK
  <2>2. UNCHANGED <<pc, call, queue, references, counter, requests, queue_vars,
                    predictor_frame_count, client_vars, failed>>
    BY <1>1 DEF vars, predictor_vars
  <2>3. QED
    BY <2>1, <2>2
    DEF IInv, TypeOK, Counted, FramesAreCounted, InHand, Started, Waiting,
        queue_vars, client_vars
<1>2. ASSUME NEW value \in Values, CallTune(value) PROVE IInv'
  BY <1>2, CallTuneInvariant
<1>3. ASSUME NEW force \in BOOLEAN, CallEncode(force) PROVE IInv'
  BY <1>3, CallEncodeInvariant
<1>4. QED
  BY <1>1, <1>2, <1>3, PredictInvariant, QuietInvariant, ExecuteInvariant,
     PollReconInvariant
  DEF Next, Step, Failure, Client, Quiet

-----------------------------------------------------------------------------
(* The types of the encoder's state, the picture order count of an H.265   *)
(* inter frame (which must not underflow) included.                        *)
THEOREM TypeCorrect == Spec => []TypeOK
<1>1. IInv => TypeOK
  BY DEF IInv
<1>2. QED BY <1>1, InitInvariant, StepInvariant, PTL DEF Spec

(* predictor_frame_count counts what has not reached the backend.          *)
THEOREM Accounted == Spec => []FramesAreCounted
<1>1. IInv => FramesAreCounted
  BY DEF IInv, Counted
<1>2. QED BY <1>1, InitInvariant, StepInvariant, PTL DEF Spec

(* The predictor's drain, which fails when it is called, is never called:  *)
(* a frame the predictor holds waits for one that is in flight.            *)
THEOREM NeverDrained == Spec => []PredictorIsNeverDrained
<1>1. IInv => PredictorIsNeverDrained
  <2> SUFFICES ASSUME IInv, pc = "drain", Held, ~failed, recon_queue = <<>>
               PROVE  FALSE
    BY DEF PredictorIsNeverDrained
  <2>1. predictor_frame_count > 0 /\ predictor_frame_count = Len(queue) + Len(requests)
    BY DEF Held, IInv, Counted, FramesAreCounted
  <2>2. requests = <<>> /\ queue = <<>>
    BY DEF IInv, InHand, Waiting
  <2>3. QED BY <2>1, <2>2, EmptySeq
<1>2. QED BY <1>1, InitInvariant, StepInvariant, PTL DEF Spec

-----------------------------------------------------------------------------
(* The frames to be coded are three queues, one after the other.           *)

InOrder(o, r, q) == o \o r \o q
Cut(e, i, j) == SubSeq(e, 1, i) \o SubSeq(e, j + 1, Len(e))

LEMMA HeadAndTail ==
  ASSUME NEW S, NEW s \in Seq(S), s # <<>>
  PROVE  s = <<Head(s)>> \o Tail(s)
<1> DEFINE t == <<Head(s)>> \o Tail(s)
<1>1. Head(s) \in S /\ Head(s) = s[1] /\ Len(s) \in Nat /\ Len(s) >= 1
  BY HeadTailProperties, EmptySeq
<1>2. <<Head(s)>> \in Seq(S) /\ Len(<<Head(s)>>) = 1 /\ <<Head(s)>>[1] = Head(s)
  BY <1>1
<1>3. /\ Tail(s) \in Seq(S) /\ Len(Tail(s)) = Len(s) - 1
      /\ \A i \in 1..Len(Tail(s)) : Tail(s)[i] = s[i + 1]
  BY HeadTailProperties
<1>4. /\ t \in Seq(S) /\ Len(t) = Len(s)
      /\ \A i \in 1..Len(s) : t[i] = IF i <= 1 THEN <<Head(s)>>[i] ELSE Tail(s)[i - 1]
  BY <1>1, <1>2, <1>3, ConcatProperties
<1>5. \A i \in 1..Len(s) : t[i] = s[i]
  BY <1>1, <1>2, <1>3, <1>4
<1>6. QED BY <1>4, <1>5, SeqEqual

LEMMA HeadAndTailOfConcat ==
  ASSUME NEW S, NEW s \in Seq(S), NEW t \in Seq(S), s # <<>>
  PROVE  s \o t # <<>> /\ Head(s \o t) = Head(s) /\ Tail(s \o t) = Tail(s) \o t
<1>1. /\ Head(s) \in S /\ Tail(s) \in Seq(S) /\ Len(Tail(s)) = Len(s) - 1
      /\ \A i \in 1..Len(Tail(s)) : Tail(s)[i] = s[i + 1]
  BY HeadTailProperties
<1>2. Len(s) \in Nat /\ Len(s) >= 1 /\ Len(t) \in Nat
  BY EmptySeq, LenProperties
<1>3. /\ s \o t \in Seq(S) /\ Len(s \o t) = Len(s) + Len(t)
      /\ \A i \in 1..(Len(s) + Len(t)) :
           (s \o t)[i] = IF i <= Len(s) THEN s[i] ELSE t[i - Len(s)]
  BY ConcatProperties
<1>4. s \o t # <<>>
  BY <1>2, <1>3, EmptySeq
<1>5. Head(s \o t) = Head(s)
  BY <1>2, <1>3, <1>4
<1>6. /\ Tail(s \o t) \in Seq(S) /\ Len(Tail(s \o t)) = Len(s) + Len(t) - 1
      /\ \A i \in 1..Len(Tail(s \o t)) : Tail(s \o t)[i] = (s \o t)[i + 1]
  BY <1>3, <1>4, HeadTailProperties
<1>7. /\ Tail(s) \o t \in Seq(S) /\ Len(Tail(s) \o t) = Len(s) + Len(t) - 1
      /\ \A i \in 1..(Len(s) + Len(t) - 1) :
           (Tail(s) \o t)[i] = IF i <= Len(s) - 1 THEN Tail(s)[i] ELSE t[i - (Len(s) - 1)]
  BY <1>1, <1>2, ConcatProperties
<1>8. \A i \in 1..Len(Tail(s \o t)) : Tail(s \o t)[i] = (Tail(s) \o t)[i]
  BY <1>1, <1>2, <1>3, <1>6, <1>7
<1>9. Tail(s \o t) = Tail(s) \o t
  BY <1>6, <1>7, <1>8, SeqEqual
<1>10. QED BY <1>4, <1>5, <1>9

(* The middle of three sequences is cut out.                               *)
LEMMA CutMiddle ==
  ASSUME NEW S, NEW s \in Seq(S), NEW t \in Seq(S), NEW u \in Seq(S)
  PROVE  s \o u = Cut(InOrder(s, t, u), Len(s), Len(s) + Len(t))
<1> DEFINE e == (s \o t) \o u
           first == SubSeq(e, 1, Len(s))
           last == SubSeq(e, Len(s) + Len(t) + 1, Len(e))
<1>1. Len(s) \in Nat /\ Len(t) \in Nat /\ Len(u) \in Nat
  BY LenProperties
<1>2. /\ s \o t \in Seq(S) /\ Len(s \o t) = Len(s) + Len(t)
      /\ \A i \in 1..Len(s) : (s \o t)[i] = s[i]
  BY <1>1, ConcatProperties
<1>3. /\ e \in Seq(S) /\ Len(e) = Len(s) + Len(t) + Len(u)
      /\ \A i \in 1..(Len(s) + Len(t) + Len(u)) :
           e[i] = IF i <= Len(s) + Len(t) THEN (s \o t)[i] ELSE u[i - (Len(s) + Len(t))]
  BY <1>1, <1>2, ConcatProperties
<1>4. \A i \in 1..Len(e) : e[i] \in S
  BY <1>3, ElementOfSeq
<1> HIDE DEF e
<1>5. /\ first \in Seq(S) /\ Len(first) = Len(s)
      /\ \A i \in 1..Len(s) : first[i] = e[i]
  <2>1. \A i \in 1..Len(s) : e[i] \in S
    BY <1>1, <1>3, <1>4
  <2>2. QED BY <1>1, <2>1, SubSeqProperties
<1>6. \A i \in 1..Len(s) : first[i] = s[i]
  BY <1>1, <1>2, <1>3, <1>5
<1>7. first = s
  BY <1>5, <1>6, SeqEqual
<1>8. /\ last \in Seq(S) /\ Len(last) = Len(u)
      /\ \A i \in 1..Len(u) : last[i] = e[Len(s) + Len(t) + i]
  <2> DEFINE m == Len(s) + Len(t) + 1
  <2>1. m \in Int /\ Len(e) \in Int /\ \A i \in m..Len(e) : e[i] \in S
    BY <1>1, <1>3, <1>4
  <2>2. /\ last \in Seq(S)
        /\ Len(last) = IF m <= Len(e) THEN Len(e) - m + 1 ELSE 0
        /\ \A i \in 1..(Len(e) - m + 1) : last[i] = e[m + i - 1]
    BY <2>1, SubSeqProperties
  <2>3. QED BY <1>1, <1>3, <2>2
<1>9. ASSUME NEW i \in 1..Len(u) PROVE last[i] = u[i]
  <2> DEFINE j == Len(s) + Len(t) + i
  <2>1. /\ j \in 1..(Len(s) + Len(t) + Len(u)) /\ ~(j <= Len(s) + Len(t))
        /\ j - (Len(s) + Len(t)) = i
    BY <1>1
  <2>2. e[j] = u[j - (Len(s) + Len(t))]
    BY <1>3, <2>1
  <2>3. last[i] = e[j]
    BY <1>8
  <2>4. QED BY <2>1, <2>2, <2>3
<1>10. last = u
  BY <1>8, <1>9, SeqEqual
<1>11. QED BY <1>7, <1>10 DEF e, Cut, InOrder

(* Ids of a sequence whose elements have an id.                            *)
LEMMA IdsType ==
  ASSUME NEW S, \A x \in S : x.id \in Nat, NEW s \in Seq(S)
  PROVE  /\ Ids(s) \in Seq(Nat) /\ Len(Ids(s)) = Len(s)
         /\ \A i \in 1..Len(s) : Ids(s)[i] = s[i].id
<1>1. Len(s) \in Nat /\ DOMAIN s = 1..Len(s) /\ \A i \in 1..Len(s) : s[i] \in S
  BY LenProperties, ElementOfSeq
<1>2. Ids(s) = [i \in 1..Len(s) |-> s[i].id]
  BY <1>1 DEF Ids
<1>3. QED BY <1>1, <1>2

LEMMA IdsAppend ==
  ASSUME NEW S, \A x \in S : x.id \in Nat, NEW s \in Seq(S), NEW x \in S
  PROVE  Ids(Append(s, x)) = Append(Ids(s), x.id)
<1> DEFINE t == Append(s, x)
<1>1. /\ t \in Seq(S) /\ Len(t) = Len(s) + 1 /\ t[Len(s) + 1] = x
      /\ \A i \in 1..Len(s) : t[i] = s[i]
  BY AppendProperties
<1> HIDE DEF t
<1>2. /\ Ids(t) \in Seq(Nat) /\ Len(Ids(t)) = Len(s) + 1
      /\ \A i \in 1..(Len(s) + 1) : Ids(t)[i] = t[i].id
  BY <1>1, IdsType
<1>3. /\ Ids(s) \in Seq(Nat) /\ Len(Ids(s)) = Len(s) /\ Len(s) \in Nat
      /\ \A i \in 1..Len(s) : Ids(s)[i] = s[i].id
  BY IdsType, LenProperties
<1> DEFINE u == Append(Ids(s), x.id)
<1>4. x.id \in Nat
  OBVIOUS
<1>5. /\ u \in Seq(Nat) /\ Len(u) = Len(s) + 1 /\ u[Len(s) + 1] = x.id
      /\ \A i \in 1..Len(s) : u[i] = Ids(s)[i]
  BY <1>3, <1>4, AppendProperties
<1> HIDE DEF u
<1>6. ASSUME NEW i \in 1..(Len(s) + 1) PROVE Ids(t)[i] = u[i]
  <2>1. CASE i = Len(s) + 1
    BY <1>1, <1>2, <1>5, <2>1
  <2>2. CASE i # Len(s) + 1
    <3>1. i \in 1..Len(s)
      BY <1>3, <2>2
    <3>2. QED BY <1>1, <1>2, <1>3, <1>5, <3>1, ZenonT(60)
  <2>3. QED BY <2>1, <2>2
<1>7. Ids(t) = u
  BY <1>2, <1>5, <1>6, SeqEqual
<1>8. QED BY <1>7 DEF t, u

LEMMA IdsTail ==
  ASSUME NEW S, \A x \in S : x.id \in Nat, NEW s \in Seq(S), s # <<>>
  PROVE  /\ Ids(s) = <<Head(s).id>> \o Ids(Tail(s))
         /\ Head(s).id \in Nat /\ Ids(Tail(s)) \in Seq(Nat)
<1>1. /\ Ids(s) \in Seq(Nat) /\ Len(Ids(s)) = Len(s)
      /\ \A i \in 1..Len(s) : Ids(s)[i] = s[i].id
  BY IdsType
<1>2. /\ Head(s) \in S /\ Tail(s) \in Seq(S) /\ Len(Tail(s)) = Len(s) - 1
      /\ \A i \in 1..Len(Tail(s)) : Tail(s)[i] = s[i + 1]
  BY HeadTailProperties
<1>3. Len(s) \in Nat /\ Len(s) >= 1 /\ Ids(s) # <<>>
  BY <1>1, EmptySeq
<1>4. Head(Ids(s)) = Head(s).id
  BY <1>1, <1>3
<1>5. /\ Ids(Tail(s)) \in Seq(Nat) /\ Len(Ids(Tail(s))) = Len(s) - 1
      /\ \A i \in 1..(Len(s) - 1) : Ids(Tail(s))[i] = Tail(s)[i].id
  BY <1>2, IdsType
<1>6. /\ Tail(Ids(s)) \in Seq(Nat) /\ Len(Tail(Ids(s))) = Len(s) - 1
      /\ \A i \in 1..(Len(s) - 1) : Tail(Ids(s))[i] = Ids(s)[i + 1]
  BY <1>1, <1>3, HeadTailProperties
<1>7. \A i \in 1..(Len(s) - 1) : Tail(Ids(s))[i] = Ids(Tail(s))[i]
  BY <1>1, <1>2, <1>3, <1>5, <1>6
<1>8. Tail(Ids(s)) = Ids(Tail(s))
  BY <1>5, <1>6, <1>7, SeqEqual
<1>9. QED BY <1>1, <1>2, <1>3, <1>4, <1>5, <1>8, HeadAndTail

-----------------------------------------------------------------------------
(* Refinement: the mapping of the frames to be coded, step by step.        *)
Encoding == output_queue \o Ids(requests) \o Ids(queue)

LEMMA QueueTypes ==
  ASSUME TypeOK
  PROVE  /\ output_queue \in Seq(Nat) /\ Ids(requests) \in Seq(Nat) /\ Ids(queue) \in Seq(Nat)
         /\ requests \in Seq(Requests) /\ queue \in Seq(Frame)
         /\ \A x \in Requests : x.id \in Nat
         /\ \A x \in Frame : x.id \in Nat
         /\ output_queue \o Ids(requests) \in Seq(Nat)
         /\ Encoding \in Seq(Nat)
<1>1. /\ output_queue \in Seq(Nat) /\ requests \in Seq(Requests) /\ queue \in Seq(Frame)
  BY DEF TypeOK, LowDelayTypeOK
<1>2. (\A x \in Requests : x.id \in Nat) /\ (\A x \in Frame : x.id \in Nat)
  BY DEF Requests, Frame
<1>3. Ids(requests) \in Seq(Nat)
  BY <1>1, <1>2, IdsType
<1>4. Ids(queue) \in Seq(Nat)
  BY <1>1, <1>2, IdsType
<1>5. output_queue \o Ids(requests) \in Seq(Nat)
  BY <1>1, <1>3, ConcatProperties
<1>6. Encoding \in Seq(Nat)
  BY <1>4, <1>5, ConcatProperties DEF Encoding
<1>7. QED BY <1>1, <1>2, <1>3, <1>4, <1>5, <1>6

(* A new frame is the last of them.                                        *)
LEMMA NewFrameLast ==
  ASSUME TypeOK, NEW frame \in Frame, queue' = Append(queue, frame),
         output_queue' = output_queue, requests' = requests
  PROVE  Encoding' = Append(Encoding, frame.id)
<1> DEFINE o == output_queue \o Ids(requests)
           q == Ids(queue)
<1>1. o \in Seq(Nat) /\ q \in Seq(Nat) /\ frame.id \in Nat
  BY QueueTypes
<1>2. Ids(queue') = Append(q, frame.id)
  BY QueueTypes, IdsAppend
<1>3. Encoding = o \o q /\ Encoding' = o \o Append(q, frame.id)
  BY <1>2 DEF Encoding
<1> HIDE DEF o, q
<1>4. Append(q, frame.id) = q \o <<frame.id>>
  BY <1>1, AppendIsConcat
<1>5. o \o (q \o <<frame.id>>) = (o \o q) \o <<frame.id>>
  BY <1>1, ConcatAssociative
<1>6. Append(o \o q, frame.id) = (o \o q) \o <<frame.id>>
  BY <1>1, ConcatProperties, AppendIsConcat
<1>7. QED BY <1>3, <1>4, <1>5, <1>6

(* The first of the predictor's frames becomes the last of the requests.   *)
LEMMA SendKeeps ==
  ASSUME TypeOK, queue # <<>>, NEW request \in Requests,
         request.id = Head(queue).id, Send(request), output_queue' = output_queue
  PROVE  Encoding' = Encoding
<1> DEFINE o == output_queue
           r == Ids(requests)
           q == Ids(Tail(queue))
           n == request.id
<1>1. queue' = Tail(queue) /\ requests' = Append(requests, request)
  BY DEF Send
<1>2. Ids(queue) = <<n>> \o q /\ n \in Nat /\ q \in Seq(Nat)
  BY QueueTypes, IdsTail
<1>3. Ids(requests') = Append(r, n)
  BY <1>1, QueueTypes, IdsAppend
<1>4. o \in Seq(Nat) /\ r \in Seq(Nat) /\ o \o r \in Seq(Nat)
  BY QueueTypes
<1>5. Encoding = (o \o r) \o (<<n>> \o q) /\ Encoding' = (o \o Append(r, n)) \o q
  BY <1>1, <1>2, <1>3 DEF Encoding
<1> HIDE DEF o, r, q, n
<1>6. Append(r, n) = r \o <<n>> /\ <<n>> \in Seq(Nat)
  <2>1. n \in Nat /\ r \in Seq(Nat)
    BY <1>2, <1>4
  <2>2. Append(r, n) = r \o <<n>>
    BY <2>1, AppendIsConcat
  <2>3. QED BY <2>1, <2>2
<1>7. o \o (r \o <<n>>) = (o \o r) \o <<n>>
  BY <1>4, <1>6, ConcatAssociative
<1>8. ((o \o r) \o <<n>>) \o q = (o \o r) \o (<<n>> \o q)
  BY <1>2, <1>4, <1>6, ConcatAssociative
<1>9. QED BY <1>5, <1>6, <1>7, <1>8

(* The first request becomes the last frame of the backend.                *)
LEMMA ExecuteKeeps ==
  ASSUME TypeOK, Execute
  PROVE  Encoding' = Encoding
<1> DEFINE o == output_queue
           r == Ids(Tail(requests))
           q == Ids(queue)
           n == Head(requests).id
<1>1. /\ requests # <<>> /\ requests' = Tail(requests) /\ queue' = queue
      /\ output_queue' = Append(o, n)
  BY DEF Execute, Submitted
<1>2. Ids(requests) = <<n>> \o r /\ n \in Nat /\ r \in Seq(Nat)
  BY <1>1, QueueTypes, IdsTail
<1>3. o \in Seq(Nat) /\ q \in Seq(Nat)
  BY QueueTypes
<1>4. Encoding = (o \o (<<n>> \o r)) \o q /\ Encoding' = (Append(o, n) \o r) \o q
  BY <1>1, <1>2 DEF Encoding
<1> HIDE DEF o, r, q, n
<1>5. Append(o, n) = o \o <<n>> /\ <<n>> \in Seq(Nat)
  BY <1>2, <1>3, AppendIsConcat
<1>6. (o \o <<n>>) \o r = o \o (<<n>> \o r)
  BY <1>2, <1>3, <1>5, ConcatAssociative
<1>7. QED BY <1>4, <1>5, <1>6

LEMMA FirstOfThree ==
  ASSUME NEW S, NEW o \in Seq(S), NEW r \in Seq(S), NEW q \in Seq(S), o # <<>>
  PROVE  /\ InOrder(o, r, q) # <<>> /\ Head(InOrder(o, r, q)) = Head(o)
         /\ InOrder(Tail(o), r, q) = Tail(InOrder(o, r, q))
<1>1. Tail(o) \in Seq(S) /\ r \o q \in Seq(S)
  BY HeadTailProperties, ConcatProperties
<1>2. (o \o r) \o q = o \o (r \o q)
  BY ConcatAssociative
<1>3. (Tail(o) \o r) \o q = Tail(o) \o (r \o q)
  BY <1>1, ConcatAssociative
<1>4. /\ o \o (r \o q) # <<>> /\ Head(o \o (r \o q)) = Head(o)
      /\ Tail(o \o (r \o q)) = Tail(o) \o (r \o q)
  BY <1>1, HeadAndTailOfConcat
<1>5. QED BY <1>2, <1>3, <1>4 DEF InOrder

LEMMA BackendFirst ==
  ASSUME TypeOK, output_queue # <<>>, UNCHANGED <<requests, queue>>,
         output_queue' = Tail(output_queue)
  PROVE  /\ Encoding # <<>> /\ Head(Encoding) = Head(output_queue)
         /\ Encoding' = Tail(Encoding)
<1> DEFINE o == output_queue
           r == Ids(requests)
           q == Ids(queue)
<1>1. o \in Seq(Nat) /\ r \in Seq(Nat) /\ q \in Seq(Nat) /\ o # <<>>
  BY QueueTypes
<1>2. Encoding = InOrder(o, r, q) /\ Encoding' = InOrder(Tail(o), r, q)
  BY DEF Encoding, InOrder
<1>3. Head(o) = Head(output_queue)
  OBVIOUS
<1> HIDE DEF o, r, q
<1>4. QED BY <1>1, <1>2, <1>3, FirstOfThree, SMTT(30)

(* A failure cuts a stretch out.                                           *)
LEMMA ServiceFails ==
  ASSUME TypeOK, call' = "none", failed' = TRUE, UNCHANGED <<num_frames, coded_queue>>,
         NEW i \in 0..Len(Encoding), NEW j \in 0..Len(Encoding), i <= j,
         Encoding' = SubSeq(Encoding, 1, i) \o SubSeq(Encoding, j + 1, Len(Encoding))
  PROVE  Service!Next
<1>1. (call' = "drain") = FALSE
  OBVIOUS
<1>2. Service!Fail
  BY <1>1 DEF Service!Fail, Encoding
<1>3. QED BY <1>2 DEF Service!Next

LEMMA PollOutputServes ==
  ASSUME TypeOK, PollOutput
  PROVE  Service!Next
<1>1. /\ output_queue # <<>> /\ output_queue' = Tail(output_queue)
      /\ coded_queue' = Append(coded_queue, Head(output_queue))
      /\ UNCHANGED <<num_frames, call, requests, queue, failed>>
  BY DEF PollOutput, Goto, client_vars, predictor_vars
<1>2. /\ Encoding # <<>> /\ Head(Encoding) = Head(output_queue)
      /\ Encoding' = Tail(Encoding)
  BY <1>1, BackendFirst
<1>3. Service!FrameCoded
  BY <1>1, <1>2 DEF Service!FrameCoded, Encoding
<1>4. QED BY <1>3 DEF Service!Next

LEMMA OutputFailsServes ==
  ASSUME TypeOK, OutputFails
  PROVE  Service!Next
<1>1. /\ output_queue # <<>> /\ output_queue' = Tail(output_queue)
      /\ call' = "none" /\ failed' = TRUE
      /\ UNCHANGED <<num_frames, coded_queue, requests, queue>>
  BY DEF OutputFails, Fails, Return, client_vars, predictor_vars
<1>2. Encoding \in Seq(Nat) /\ Encoding # <<>> /\ Encoding' = Tail(Encoding)
  BY <1>1, BackendFirst, QueueTypes
<1>3. Tail(Encoding) = SubSeq(Encoding, 2, Len(Encoding)) /\ Len(Encoding) \in Nat \ {0}
  BY <1>2, TailIsSubSeq, EmptySeq
<1>4. SubSeq(Encoding, 1, 0) = <<>>
  BY SubSeqEmpty
<1>5. SubSeq(Encoding, 2, Len(Encoding)) \in Seq(Nat)
  BY <1>2, <1>3, HeadTailProperties
<1>6. Encoding' = SubSeq(Encoding, 1, 0) \o SubSeq(Encoding, 1 + 1, Len(Encoding))
  BY <1>2, <1>3, <1>4, <1>5, ConcatEmptySeq
<1>7. 0 \in 0..Len(Encoding) /\ 1 \in 0..Len(Encoding) /\ 0 <= 1
  BY <1>3
<1>8. QED BY <1>1, <1>6, <1>7, ServiceFails

LEMMA ExecuteFailsServes ==
  ASSUME TypeOK, ExecuteFails
  PROVE  Service!Next
<1> DEFINE o == output_queue
           r == Ids(requests)
           q == Ids(queue)
<1>1. o \in Seq(Nat) /\ r \in Seq(Nat) /\ q \in Seq(Nat)
  BY QueueTypes
<1>2. /\ UNCHANGED <<num_frames, coded_queue>> /\ call' = "none" /\ failed' = TRUE
      /\ requests' = <<>> /\ queue' = queue /\ output_queue' = output_queue
  BY DEF ExecuteFails, Fails, Return, client_vars, queue_vars
<1>3. Ids(requests') = <<>>
  BY <1>2 DEF Ids
<1>4. Encoding = (o \o r) \o q /\ Encoding' = o \o q
  BY <1>1, <1>2, <1>3, ConcatEmptySeq DEF Encoding
<1>5. /\ Len(o) \in Nat /\ Len(r) \in Nat /\ Len(q) \in Nat
      /\ Len(Encoding) = Len(o) + Len(r) + Len(q)
  BY <1>1, <1>4, LenProperties, ConcatProperties
<1> HIDE DEF o, r, q
<1>6. Encoding' = SubSeq(Encoding, 1, Len(o))
                    \o SubSeq(Encoding, Len(o) + Len(r) + 1, Len(Encoding))
  <2>1. Encoding = InOrder(o, r, q)
    BY <1>4 DEF InOrder
  <2>2. Encoding' = Cut(Encoding, Len(o), Len(o) + Len(r))
    BY <1>1, <1>4, <2>1, CutMiddle, SMTT(30)
  <2>3. QED BY <2>2 DEF Cut
<1>7. /\ Len(o) \in 0..Len(Encoding) /\ Len(o) + Len(r) \in 0..Len(Encoding)
      /\ Len(o) <= Len(o) + Len(r)
  BY <1>5
<1>8. QED BY <1>2, <1>6, <1>7, ServiceFails

LEMMA NothingLost ==
  ASSUME TypeOK, call' = "none", failed' = TRUE, UNCHANGED <<num_frames, coded_queue>>,
         Encoding' = Encoding
  PROVE  Service!Next
<1>1. Encoding \in Seq(Nat) /\ Len(Encoding) \in Nat
  BY QueueTypes, LenProperties
<1>2. SubSeq(Encoding, 1, 0) = <<>> /\ SubSeq(Encoding, 1, Len(Encoding)) = Encoding
  BY <1>1, SubSeqEmpty, SubSeqFull
<1>3. Encoding' = SubSeq(Encoding, 1, 0) \o SubSeq(Encoding, 0 + 1, Len(Encoding))
  BY <1>1, <1>2, ConcatEmptySeq
<1>4. 0 \in 0..Len(Encoding) /\ 0 <= 0
  BY <1>1
<1>5. QED BY <1>3, <1>4, ServiceFails

LEMMA Stutters ==
  ASSUME UNCHANGED <<num_frames, coded_queue, failed>>, Encoding' = Encoding,
         call' = call \/ (call # "drain" /\ call' # "drain")
  PROVE  UNCHANGED Service!vars
<1>1. (call' = "drain") = (call = "drain")
  OBVIOUS
<1>2. QED BY <1>1 DEF Service!vars, Encoding

LEMMA EncodingUnchanged ==
  ASSUME UNCHANGED <<output_queue, requests, queue>>
  PROVE  Encoding' = Encoding
BY DEF Encoding

LEMMA PredictServes == ASSUME TypeOK, PocBase, Predict PROVE UNCHANGED Service!vars
<1>1. /\ LowDelayTypeOK /\ output_queue' = output_queue
      /\ UNCHANGED <<num_frames, coded_queue, failed>>
  BY DEF TypeOK, Predict, queue_vars, client_vars
<1>2. call' = call \/ (call # "drain" /\ call' # "drain")
  BY DEF Predict, Proceed, Goto, Return
<1>3. Encoding' = Encoding
  <2>1. CASE RequestKeyframe \/ RequestInterframe
    <3>1. PICK request \in Requests : request.id = Head(queue).id /\ Send(request)
      BY <1>1, <2>1, RequestKeyframeFacts, RequestInterframeFacts
    <3>2. queue # <<>>
      BY <2>1 DEF RequestKeyframe, RequestInterframe
    <3>3. QED BY <1>1, <3>1, <3>2, SendKeeps
  <2>2. CASE AwaitReference \/ QueueEmpty
    <3>1. queue' = queue /\ requests' = requests
      BY <2>2 DEF AwaitReference, QueueEmpty, predictor_vars
    <3>2. QED BY <1>1, <3>1, EncodingUnchanged
  <2>3. QED BY <2>1, <2>2 DEF Predict
<1>4. QED BY <1>1, <1>2, <1>3, Stutters

LEMMA CallEncodeServes ==
  ASSUME TypeOK, NEW force \in BOOLEAN, CallEncode(force)
  PROVE  Service!Next
<1> DEFINE frame == [id |-> num_frames', force_keyframe |-> force, asked |-> wanted]
<1>1. frame \in Frame /\ frame.id = num_frames' /\ num_frames' = num_frames + 1
  BY DEF CallEncode, Frame, TypeOK
<1>2. NewFrame(frame)
  BY DEF CallEncode
<1> HIDE DEF frame
<1>3. /\ queue' = Append(queue, frame) /\ requests' = requests
      /\ UNCHANGED <<output_queue, coded_queue, failed>>
      /\ call # "drain" /\ call' = "encode"
  BY <1>2 DEF CallEncode, NewFrame, queue_vars, TypeOK
<1>4. Encoding' = Append(Encoding, num_frames')
  BY <1>1, <1>3, NewFrameLast
<1>5. (call = "drain") = FALSE /\ (call' = "drain") = (call = "drain")
  BY <1>3
<1>6. Service!Encode
  BY <1>1, <1>3, <1>4, <1>5 DEF Service!Encode, Encoding
<1>7. QED BY <1>6 DEF Service!Next

LEMMA ServicePolls ==
  ASSUME coded_queue # <<>>, coded_queue' = Tail(coded_queue), num_frames' = num_frames,
         failed' = failed,
         Encoding' = Encoding, call # "drain", call' # "drain"
  PROVE  Service!Next
<1>1. (call = "drain") = FALSE /\ (call' = "drain") = (call = "drain")
  OBVIOUS
<1>2. Service!Poll
  BY <1>1 DEF Service!Poll, Encoding
<1>3. QED BY <1>2 DEF Service!Next

LEMMA DrainEndsServes ==
  ASSUME TypeOK, Counted, DrainEnds
  PROVE  [Service!Next]_Service!vars
<1>1. /\ output_queue = <<>> /\ recon_queue = <<>> /\ ~(predictor_frame_count > 0)
      /\ call' = "none"
      /\ UNCHANGED <<num_frames, coded_queue, output_queue, requests, queue, failed>>
  BY DEF DrainEnds, Held, Return, queue_vars, client_vars, predictor_vars
<1>2. Encoding' = Encoding
  BY <1>1, EncodingUnchanged
<1>3. CASE call = "drain"
  <2>1. Len(requests) \in Nat /\ Len(queue) \in Nat /\ predictor_frame_count \in Nat
    BY QueueTypes, LenProperties DEF TypeOK
  <2>2. Len(requests) = 0 /\ Len(queue) = 0
    BY <1>1, <2>1 DEF Counted
  <2>3. requests = <<>> /\ queue = <<>>
    BY <2>2, QueueTypes, EmptySeq
  <2>4. Ids(requests) = <<>> /\ Ids(queue) = <<>>
    BY <2>3 DEF Ids
  <2>5. Encoding = <<>>
    BY <1>1, <2>4, EmptySeq, ConcatEmptySeq DEF Encoding
  <2>6. (call = "drain") = TRUE /\ (call' = "drain") = FALSE
    BY <1>1, <1>3
  <2>7. Service!EndDrain
    BY <1>1, <1>2, <2>5, <2>6 DEF Service!EndDrain, Encoding
  <2>8. QED BY <2>7 DEF Service!Next
<1>4. CASE call # "drain"
  BY <1>1, <1>2, <1>4, Stutters
<1>5. QED BY <1>3, <1>4

(* The encoder implements EncoderService: frames come out once and in      *)
(* order whatever the predictor holds back, a failure only loses frames,   *)
(* and when drain returns none is left.                                    *)
THEOREM ImplementsService == Spec => ServiceSpec
<1>1. Init => Service!Init
  <2> SUFFICES ASSUME Init PROVE Service!Init
    OBVIOUS
  <2>1. /\ output_queue = <<>> /\ requests = <<>> /\ queue = <<>>
        /\ coded_queue = <<>> /\ num_frames = 0 /\ call = "none" /\ failed = FALSE
    BY DEF Init, LowDelayInit
  <2>2. Ids(<<>>) = <<>>
    BY DEF Ids
  <2>3. Encoding = <<>>
    BY <2>1, <2>2, EmptySeq, ConcatEmptySeq DEF Encoding
  <2>4. (call = "drain") = FALSE
    BY <2>1
  <2>5. QED BY <2>1, <2>3, <2>4 DEF Service!Init, Encoding
<1>2. IInv /\ [Next]_vars => [Service!Next]_Service!vars
  <2> SUFFICES ASSUME IInv, [Next]_vars PROVE [Service!Next]_Service!vars
    OBVIOUS
  <2>a. pc = "idle" => call # "drain"
    BY DEF IInv, TypeOK
  <2>b. TypeOK /\ PocBase /\ Counted
    BY DEF IInv
  <2>1. CASE UNCHANGED vars
    <3>1. UNCHANGED <<num_frames, coded_queue, output_queue, requests, queue, call, failed>>
      BY <2>1 DEF vars, queue_vars, client_vars, predictor_vars
    <3>2. QED BY <3>1, EncodingUnchanged, Stutters
  <2>2. CASE Predict
    BY <2>2, <2>b, PredictServes
  <2>3. CASE Execute
    <3>1. Encoding' = Encoding
      BY <2>3, <2>b, ExecuteKeeps
    <3>2. UNCHANGED <<num_frames, coded_queue, failed>>
      BY <2>3 DEF Execute, client_vars
    <3>3. call' = call \/ (call # "drain" /\ call' # "drain")
      BY <2>3 DEF Execute, Proceed, Goto, Return
    <3>4. QED BY <3>1, <3>2, <3>3, Stutters
  <2>4. CASE PollOutput
    BY <2>4, <2>b, PollOutputServes
  <2>5. CASE NoOutput \/ PollRecon \/ NoRecon \/ DrainPolls
    <3>1. UNCHANGED <<num_frames, coded_queue, output_queue, requests, queue, call, failed>>
      BY <2>5
      DEF NoOutput, PollRecon, NoRecon, DrainPolls, Goto, Reconstructed, queue_vars,
          client_vars, predictor_vars
    <3>2. QED BY <3>1, EncodingUnchanged, Stutters
  <2>6. CASE Polled
    <3>1. UNCHANGED <<num_frames, output_queue, requests, queue, failed>>
      BY <2>6 DEF Polled, predictor_vars
    <3>2. CASE call = "poll" /\ coded_queue # <<>>
      <4>1. coded_queue' = Tail(coded_queue) /\ call' = "none"
        BY <2>6, <3>2 DEF Polled, Return
      <4>2. QED BY <3>1, <3>2, <4>1, EncodingUnchanged, ServicePolls
    <3>3. CASE ~(call = "poll" /\ coded_queue # <<>>)
      <4>1. coded_queue' = coded_queue
        BY <2>6, <3>3 DEF Polled
      <4>2. call' = call \/ (call # "drain" /\ call' # "drain")
        BY <2>6 DEF Polled, Goto, Return
      <4>3. QED BY <3>1, <4>1, <4>2, EncodingUnchanged, Stutters
    <3>4. QED BY <3>2, <3>3
  <2>7. CASE DrainEnds
    BY <2>7, <2>b, DrainEndsServes
  <2>8. CASE PredictorDrainFails \/ ReconFails
    <3>1. /\ UNCHANGED <<num_frames, coded_queue, output_queue, requests, queue>>
          /\ call' = "none" /\ failed' = TRUE
      BY <2>8
      DEF PredictorDrainFails, ReconFails, Fails, Return, queue_vars, client_vars,
          predictor_vars
    <3>2. QED BY <2>b, <3>1, EncodingUnchanged, NothingLost
  <2>9. CASE ExecuteFails
    BY <2>9, <2>b, ExecuteFailsServes
  <2>10. CASE OutputFails
    BY <2>10, <2>b, OutputFailsServes
  <2>11. ASSUME NEW value \in Values, CallTune(value) PROVE UNCHANGED Service!vars
    <3>1. UNCHANGED <<num_frames, coded_queue, output_queue, requests, queue, call, failed>>
      BY <2>11 DEF CallTune, Tune, queue_vars
    <3>2. QED BY <3>1, EncodingUnchanged, Stutters
  <2>12. ASSUME NEW force \in BOOLEAN, CallEncode(force) PROVE Service!Next
    BY <2>12, <2>b, CallEncodeServes
  <2>13. CASE CallPoll
    <3>1. /\ UNCHANGED <<num_frames, coded_queue, output_queue, requests, queue, failed>>
          /\ pc = "idle" /\ call' = "poll"
      BY <2>13 DEF CallPoll, queue_vars, client_vars, predictor_vars
    <3>2. QED BY <2>a, <2>b, <3>1, EncodingUnchanged, Stutters
  <2>14. CASE CallPollBlocking
    <3>1. UNCHANGED <<num_frames, output_queue, requests, queue, failed>> /\ call # "drain"
      BY <2>14, <2>a, <2>b DEF CallPollBlocking, client_vars, predictor_vars
    <3>2. CASE coded_queue # <<>>
      <4>1. coded_queue' = Tail(coded_queue) /\ call' = call
        BY <2>14, <3>2 DEF CallPollBlocking
      <4>2. QED BY <3>1, <3>2, <4>1, EncodingUnchanged, ServicePolls
    <3>3. CASE coded_queue = <<>>
      <4>1. coded_queue' = coded_queue /\ call' = "poll"
        BY <2>14, <3>3 DEF CallPollBlocking
      <4>2. QED BY <3>1, <4>1, EncodingUnchanged, Stutters
    <3>4. QED BY <3>2, <3>3
  <2>15. CASE CallDrain
    <3>1. /\ UNCHANGED <<num_frames, coded_queue, output_queue, requests, queue, failed>>
          /\ call # "drain" /\ call' = "drain"
      BY <2>15, <2>a, <2>b DEF CallDrain, queue_vars, predictor_vars
    <3>2. (call = "drain") = FALSE /\ (call' = "drain") = TRUE
      BY <3>1
    <3>3. Service!StartDrain
      BY <3>1, <3>2, EncodingUnchanged DEF Service!StartDrain, Encoding
    <3>4. QED BY <3>3 DEF Service!Next
  <2>16. QED
    BY <2>1, <2>2, <2>3, <2>4, <2>5, <2>6, <2>7, <2>8, <2>9, <2>10, <2>11, <2>12,
       <2>13, <2>14, <2>15
    DEF Next, Step, Failure, Client
<1>3. QED
  BY <1>1, <1>2, InitInvariant, StepInvariant, PTL
  DEF Spec, ServiceSpec, Service!Spec

-----------------------------------------------------------------------------
(* Tunings are never early.                                                *)

(* A change is not due before the frames that were given to encode before  *)
(* it was asked for, ...                                                   *)
NotBefore ==
  \A i \in 1..Len(tunings_queue), j \in 1..Len(queue) :
    tunings_queue[i].tunings.n > queue[j].asked.n =>
      tunings_queue[i].when >= counter + j

(* ... those applied were asked for before any frame that waits, ...       *)
Applied == \A j \in 1..Len(queue) : tunings.n <= queue[j].asked.n

(* ... and no change was asked for after the last one.                     *)
AskedLast ==
  /\ tunings.n <= wanted.n
  /\ \A i \in 1..Len(tunings_queue) : tunings_queue[i].tunings.n <= wanted.n

TuningsInv == NotBefore /\ Applied /\ AskedLast /\ TuningsNeverEarly

LEMMA ElementTypes ==
  ASSUME TypeOK
  PROVE  /\ \A i \in 1..Len(tunings_queue) :
              tunings_queue[i].when \in Nat /\ tunings_queue[i].tunings.n \in Nat
         /\ \A j \in 1..Len(queue) : queue[j].asked.n \in Nat
<1>1. ASSUME NEW i \in 1..Len(tunings_queue)
      PROVE  tunings_queue[i].when \in Nat /\ tunings_queue[i].tunings.n \in Nat
  <2> DEFINE E == [when : Nat, tunings : Tuning]
  <2>1. tunings_queue \in Seq(E)
    BY DEF TypeOK, LowDelayTypeOK
  <2> HIDE DEF E
  <2>2. tunings_queue[i] \in E
    BY <2>1, ElementOfSeq
  <2>3. QED BY <2>2 DEF E, Tuning
<1>2. ASSUME NEW j \in 1..Len(queue) PROVE queue[j].asked.n \in Nat
  <2>1. queue \in Seq(Frame)
    BY DEF TypeOK, LowDelayTypeOK
  <2>2. queue[j] \in Frame
    BY <2>1, ElementOfSeq
  <2>3. QED BY <2>2 DEF Frame, Tuning
<1>3. QED BY <1>1, <1>2

LEMMA LastDue ==
  ASSUME TypeOK, NumDue # 0
  PROVE  /\ NumDue \in 1..Len(tunings_queue)
         /\ tunings_queue[NumDue].when <= counter
<1> DEFINE due == {n \in DOMAIN tunings_queue :
                     \A i \in 1..n : tunings_queue[i].when <= counter}
<1>1. /\ NumDue \in 0..Len(tunings_queue) /\ Len(tunings_queue) \in Nat
      /\ DOMAIN tunings_queue = 1..Len(tunings_queue)
  BY NumDueType, LenProperties DEF TypeOK, LowDelayTypeOK
<1>2. NumDue = Cardinality(due) /\ NumDue \in 1..Len(tunings_queue)
  BY <1>1 DEF NumDue
<1>3. SUFFICES ASSUME NumDue \notin due PROVE FALSE
  BY <1>2
<1> DEFINE k == NumDue
<1>4. k \in Nat /\ k >= 1 /\ k \in DOMAIN tunings_queue /\ k \notin due
  BY <1>1, <1>2, <1>3
<1> HIDE DEF k
<1>5. due \subseteq 1..(k - 1)
  <2> SUFFICES ASSUME NEW n \in due, n >= k PROVE FALSE
    BY <1>1, <1>4
  <2>1. \A i \in 1..k : i \in 1..n
    BY <1>1, <1>4
  <2>2. k \in due
    BY <1>4, <2>1
  <2>3. QED BY <1>4, <2>2
<1>6. IsFiniteSet(1..(k - 1)) /\ Cardinality(1..(k - 1)) = k - 1
  <2>1. 1 \in Int /\ k - 1 \in Int
    BY <1>4
  <2>2. /\ IsFiniteSet(1..(k - 1))
        /\ Cardinality(1..(k - 1)) = IF 1 > k - 1 THEN 0 ELSE (k - 1) - 1 + 1
    BY <2>1, FS_Interval
  <2>3. QED BY <1>4, <2>2
<1>7. Cardinality(due) <= k - 1
  BY <1>5, <1>6, FS_Subset
<1>8. QED BY <1>2, <1>4, <1>7 DEF k

LEMMA CurrentFacts ==
  ASSUME TypeOK, TuningsInv
  PROVE  /\ Current.n <= wanted.n
         /\ \A j \in 1..Len(queue) : Current.n <= queue[j].asked.n
<1>1. CASE NumDue = 0
  BY <1>1 DEF Current, TuningsInv, Applied, AskedLast
<1>2. CASE NumDue # 0
  <2>1. /\ NumDue \in 1..Len(tunings_queue)
        /\ tunings_queue[NumDue].when <= counter
        /\ Current = tunings_queue[NumDue].tunings
    BY <1>2, LastDue DEF Current
  <2>2. Current.n <= wanted.n
    BY <2>1 DEF TuningsInv, AskedLast
  <2>3. ASSUME NEW j \in 1..Len(queue) PROVE Current.n <= queue[j].asked.n
    <3>1. tunings_queue[NumDue].when \in Nat /\ Current.n \in Nat
      BY <2>1, ElementTypes
    <3>2. queue[j].asked.n \in Nat
      BY ElementTypes
    <3>3. counter \in Nat /\ j \in Nat /\ j >= 1
      BY DEF TypeOK, LowDelayTypeOK
    <3>4. ~(tunings_queue[NumDue].when >= counter + j)
      BY <2>1, <3>1, <3>3
    <3>5. ~(Current.n > queue[j].asked.n)
      BY <2>1, <3>4 DEF TuningsInv, NotBefore
    <3>6. QED BY <3>1, <3>2, <3>5
  <2>4. QED BY <2>2, <2>3
<1>3. QED BY <1>1, <1>2

(* A turn of next_request, with the frames that wait, or all but the first.*)
LEMMA PopKeeps ==
  ASSUME TypeOK, TuningsInv, PopTunings, wanted' = wanted,
         NEW gone \in {0, 1}, counter' \in Nat, counter' <= counter + gone,
         Len(queue') = Len(queue) - gone,
         \A j \in 1..Len(queue') : queue'[j] = queue[j + gone]
  PROVE  (NotBefore /\ Applied /\ AskedLast)'
<1>1. /\ NumDue \in 0..Len(tunings_queue) /\ Len(tunings_queue) \in Nat
      /\ Len(queue) \in Nat /\ counter \in Nat
  BY NumDueType, LenProperties DEF TypeOK, LowDelayTypeOK
<1>2. /\ Len(tunings_queue') = Len(tunings_queue) - NumDue
      /\ \A i \in 1..Len(tunings_queue') : tunings_queue'[i] = tunings_queue[i + NumDue]
  <2> DEFINE E == [when : Nat, tunings : Tuning]
             m == NumDue + 1
             n == Len(tunings_queue)
  <2>1. m \in Int /\ n \in Int /\ \A i \in m..n : i \in 1..n
    BY <1>1
  <2>2. \A i \in m..n : tunings_queue[i] \in E
    BY <2>1, ElementOfSeq DEF TypeOK, LowDelayTypeOK
  <2>3. tunings_queue' = SubSeq(tunings_queue, m, n)
    BY DEF PopTunings
  <2> HIDE DEF E, m, n
  <2>4. /\ Len(SubSeq(tunings_queue, m, n)) = IF m <= n THEN n - m + 1 ELSE 0
        /\ \A i \in 1..(n - m + 1) : SubSeq(tunings_queue, m, n)[i] = tunings_queue[m + i - 1]
    BY <2>1, <2>2, SubSeqProperties
  <2>5. Len(tunings_queue') = n - m + 1
    BY <1>1, <2>3, <2>4 DEF m, n
  <2>6. \A i \in 1..Len(tunings_queue') : tunings_queue'[i] = tunings_queue[m + i - 1]
    BY <2>3, <2>4, <2>5
  <2>7. \A i \in 1..Len(tunings_queue') : m + i - 1 = i + NumDue
    BY <1>1, <2>5 DEF m, n
  <2>8. QED BY <1>1, <2>5, <2>6, <2>7 DEF m, n
<1>3. /\ \A i \in 1..Len(tunings_queue') : i + NumDue \in 1..Len(tunings_queue)
      /\ \A j \in 1..Len(queue') : j + gone \in 1..Len(queue)
  BY <1>1, <1>2
<1>4. NotBefore'
  <2> SUFFICES ASSUME NEW i \in 1..Len(tunings_queue'), NEW j \in 1..Len(queue'),
                      tunings_queue'[i].tunings.n > queue'[j].asked.n
               PROVE  tunings_queue'[i].when >= counter' + j
    BY DEF NotBefore
  <2>1. tunings_queue[i + NumDue].when >= counter + (j + gone)
    BY <1>2, <1>3 DEF TuningsInv, NotBefore
  <2>2. tunings_queue[i + NumDue].when \in Nat
    BY <1>3, ElementTypes
  <2>3. QED BY <1>1, <1>2, <2>1, <2>2, SMTT(30)
<1>5. tunings' = Current
  BY DEF PopTunings
<1>6. Applied'
  BY <1>3, <1>5, CurrentFacts DEF Applied
<1>7. AskedLast'
  BY <1>2, <1>3, <1>5, CurrentFacts DEF TuningsInv, AskedLast
<1>8. QED BY <1>4, <1>6, <1>7

LEMMA PredictTunings ==
  ASSUME TypeOK, PocBase, TuningsInv, Predict
  PROVE  TuningsInv'
<1>1. LowDelayTypeOK /\ wanted' = wanted /\ queue \in Seq(Frame)
  BY DEF TypeOK, LowDelayTypeOK, Predict, client_vars
<1>2. limit \in Nat /\ limit > 0 /\ counter \in 0..(limit - 1) /\ limit \in Limits
  BY <1>1 DEF LowDelayTypeOK
<1>3. CASE RequestKeyframe \/ RequestInterframe
  <2>1. PopTunings /\ queue # <<>>
    BY <1>3 DEF RequestKeyframe, RequestInterframe
  <2>2. \E position \in 0..counter : counter' = Wrap(position)
    <3>1. counter' = Wrap(KeyframePosition) \/ counter' = Wrap(counter)
      BY <1>3 DEF RequestKeyframe, RequestInterframe
    <3>2. KeyframePosition \in 0..counter /\ counter \in 0..counter
      BY <1>2 DEF KeyframePosition
    <3>3. QED BY <3>1, <3>2
  <2>3. counter' \in Nat /\ counter' <= counter + 1
    <3>1. PICK position \in 0..counter : counter' = Wrap(position)
      BY <2>2
    <3>2. position \in 0..(limit - 1)
      BY <1>2
    <3>3. counter' = 0 \/ counter' = position + 1
      BY <1>2, <3>1, <3>2, WrapFacts
    <3>4. QED BY <1>2, <3>3
  <2>4. PICK request \in Requests : request.id = Head(queue).id /\ Send(request)
    BY <1>1, <1>3, RequestKeyframeFacts, RequestInterframeFacts
  <2>5. queue' = Tail(queue)
    BY <2>4 DEF Send
  <2>6. /\ Len(queue') = Len(queue) - 1
        /\ \A j \in 1..Len(queue') : queue'[j] = queue[j + 1]
    BY <1>1, <2>1, <2>5, HeadTailProperties
  <2>7. (NotBefore /\ Applied /\ AskedLast)'
    <3>1. 1 \in {0, 1}
      OBVIOUS
    <3>2. QED BY <1>1, <2>1, <2>3, <2>6, <3>1, PopKeeps
  <2>8. latest'.tunings = Current /\ latest'.asked = Head(queue).asked
    <3>1. CASE RequestKeyframe
      <4>1. \E order : latest' = Request(Head(queue), TRUE, order, <<>>)
        BY <3>1 DEF RequestKeyframe, Send
      <4>2. QED BY <4>1 DEF Request
    <3>2. CASE RequestInterframe
      <4>1. \E order, refs : latest' = Request(Head(queue), FALSE, order, refs)
        BY <3>2 DEF RequestInterframe, Send
      <4>2. QED BY <4>1 DEF Request
    <3>3. QED BY <1>3, <3>1, <3>2
  <2>9. Head(queue) = queue[1] /\ 1 \in 1..Len(queue)
    BY <1>1, <2>1, EmptySeq
  <2>10. TuningsNeverEarly'
    BY <2>8, <2>9, CurrentFacts DEF TuningsNeverEarly
  <2>11. QED BY <2>7, <2>10 DEF TuningsInv
<1>4. CASE AwaitReference
  <2>1. PopTunings /\ queue' = queue /\ counter' = counter /\ latest' = latest
    BY <1>4 DEF AwaitReference, history
  <2>2. /\ 0 \in {0, 1} /\ counter' \in Nat /\ counter' <= counter + 0
        /\ Len(queue) \in Nat /\ Len(queue') = Len(queue) - 0
    BY <1>1, <1>2, <2>1, LenProperties
  <2>3. \A j \in 1..Len(queue') : queue'[j] = queue[j + 0]
    BY <2>1, <2>2
  <2>4. (NotBefore /\ Applied /\ AskedLast)'
    BY <1>1, <2>1, <2>2, <2>3, PopKeeps
  <2>5. QED BY <2>1, <2>4 DEF TuningsInv, TuningsNeverEarly
<1>5. CASE QueueEmpty
  BY <1>1, <1>5
  DEF QueueEmpty, TuningsInv, NotBefore, Applied, AskedLast, TuningsNeverEarly,
      predictor_vars, tuning_vars, history
<1>6. QED BY <1>3, <1>4, <1>5 DEF Predict

LEMMA CallTuneTunings ==
  ASSUME TypeOK, TuningsInv, NEW value \in Values, CallTune(value)
  PROVE  TuningsInv'
<1>1. /\ Tune(wanted') /\ wanted' \in Tuning
      /\ wanted.n \in Nat /\ wanted'.n = wanted.n + 1
  BY DEF CallTune, TypeOK, Tuning
<1>2. UNCHANGED <<queue, counter, tunings, latest>>
  BY <1>1 DEF Tune, history
<1> DEFINE entry == [when |-> counter + Len(queue), tunings |-> wanted']
<1>3. /\ Len(queue) \in Nat /\ counter \in Nat /\ Len(tunings_queue) \in Nat
      /\ tunings_queue \in Seq([when : Nat, tunings : Tuning])
      /\ tunings.n \in Nat
  BY LenProperties DEF TypeOK, LowDelayTypeOK, Tuning
<1>4. /\ entry \in [when : Nat, tunings : Tuning]
      /\ entry.when = counter + Len(queue) /\ entry.tunings.n = wanted.n + 1
  BY <1>1, <1>3
<1>5. tunings_queue' = tunings_queue \/ tunings_queue' = Append(tunings_queue, entry)
  BY <1>1 DEF Tune
<1> HIDE DEF entry
<1>6. \A i \in 1..Len(tunings_queue) : tunings_queue[i].tunings.n \in Nat
  BY ElementTypes
<1>7. \A i \in 1..Len(tunings_queue') :
        \/ i \in 1..Len(tunings_queue) /\ tunings_queue'[i] = tunings_queue[i]
        \/ tunings_queue'[i] = entry
  <2>1. CASE tunings_queue' = tunings_queue
    BY <2>1
  <2>2. CASE tunings_queue' = Append(tunings_queue, entry)
    <3>1. /\ Len(tunings_queue') = Len(tunings_queue) + 1
          /\ tunings_queue'[Len(tunings_queue) + 1] = entry
          /\ \A i \in 1..Len(tunings_queue) : tunings_queue'[i] = tunings_queue[i]
      BY <1>3, <1>4, <2>2, AppendProperties
    <3>2. QED BY <1>3, <3>1
  <2>3. QED BY <1>5, <2>1, <2>2
<1>8. NotBefore'
  <2> SUFFICES ASSUME NEW i \in 1..Len(tunings_queue'), NEW j \in 1..Len(queue),
                      tunings_queue'[i].tunings.n > queue[j].asked.n
               PROVE  tunings_queue'[i].when >= counter + j
    BY <1>2 DEF NotBefore
  <2>1. CASE i \in 1..Len(tunings_queue) /\ tunings_queue'[i] = tunings_queue[i]
    BY <2>1 DEF TuningsInv, NotBefore
  <2>2. CASE tunings_queue'[i] = entry
    BY <1>3, <1>4, <2>2
  <2>3. QED BY <1>7, <2>1, <2>2
<1>9. Applied'
  BY <1>2 DEF TuningsInv, Applied
<1>10. AskedLast'
  <2>1. tunings'.n <= wanted'.n
    BY <1>1, <1>2, <1>3 DEF TuningsInv, AskedLast
  <2>2. ASSUME NEW i \in 1..Len(tunings_queue')
        PROVE  tunings_queue'[i].tunings.n <= wanted'.n
    <3>1. CASE i \in 1..Len(tunings_queue) /\ tunings_queue'[i] = tunings_queue[i]
      <4>1. tunings_queue[i].tunings.n <= wanted.n /\ tunings_queue[i].tunings.n \in Nat
        BY <1>6, <3>1 DEF TuningsInv, AskedLast
      <4>2. QED BY <1>1, <3>1, <4>1
    <3>2. CASE tunings_queue'[i] = entry
      BY <1>1, <1>4, <3>2
    <3>3. QED BY <1>7, <3>1, <3>2
  <2>3. QED BY <2>1, <2>2 DEF AskedLast
<1>11. QED BY <1>2, <1>8, <1>9, <1>10 DEF TuningsInv, TuningsNeverEarly

LEMMA CallEncodeTunings ==
  ASSUME TypeOK, TuningsInv, NEW force \in BOOLEAN, CallEncode(force)
  PROVE  TuningsInv'
<1> DEFINE frame == [id |-> num_frames', force_keyframe |-> force, asked |-> wanted]
<1>1. frame \in Frame /\ frame.asked = wanted /\ wanted.n \in Nat
  BY DEF CallEncode, Frame, TypeOK, Tuning
<1>2. NewFrame(frame) /\ wanted' = wanted
  BY DEF CallEncode
<1> HIDE DEF frame
<1>3. queue' = Append(queue, frame) /\ UNCHANGED <<counter, tunings, tunings_queue, latest>>
  BY <1>2 DEF NewFrame, tuning_vars, history
<1>4. queue \in Seq(Frame) /\ Len(queue) \in Nat
  BY LenProperties DEF TypeOK, LowDelayTypeOK
<1>5. /\ Len(queue') = Len(queue) + 1 /\ queue'[Len(queue) + 1] = frame
      /\ \A j \in 1..Len(queue) : queue'[j] = queue[j]
  BY <1>1, <1>3, <1>4, AppendProperties
<1>6. \A j \in 1..Len(queue') :
        \/ j \in 1..Len(queue) /\ queue'[j] = queue[j]
        \/ queue'[j].asked = wanted
  BY <1>1, <1>4, <1>5
<1>7. \A i \in 1..Len(tunings_queue) : tunings_queue[i].tunings.n \in Nat
  BY ElementTypes
<1>8. NotBefore'
  <2> SUFFICES ASSUME NEW i \in 1..Len(tunings_queue), NEW j \in 1..Len(queue'),
                      tunings_queue[i].tunings.n > queue'[j].asked.n
               PROVE  tunings_queue[i].when >= counter + j
    BY <1>3 DEF NotBefore
  <2>1. ~(queue'[j].asked = wanted)
    BY <1>1, <1>7 DEF TuningsInv, AskedLast
  <2>2. QED BY <1>6, <2>1 DEF TuningsInv, NotBefore
<1>9. Applied'
  BY <1>3, <1>6 DEF TuningsInv, Applied, AskedLast
<1>10. AskedLast'
  BY <1>2, <1>3 DEF TuningsInv, AskedLast
<1>11. QED BY <1>3, <1>8, <1>9, <1>10 DEF TuningsInv, TuningsNeverEarly

(* No tunings reach a frame given to encode before they were asked for:    *)
(* the time of a change counts the frames that wait, and the counter never *)
(* runs ahead of the frames it counts.                                     *)
THEOREM NeverEarly == Spec => []TuningsNeverEarly
<1>1. Init => TuningsInv
  <2> SUFFICES ASSUME Init PROVE TuningsInv
    OBVIOUS
  <2>1. /\ queue = <<>> /\ tunings_queue = <<>> /\ wanted = tunings
        /\ tunings.n = 0 /\ latest.tunings.n = 0 /\ latest.asked.n = 0
    BY DEF Init, LowDelayInit, NoRequest
  <2>2. Len(queue) = 0 /\ Len(tunings_queue) = 0
    BY <2>1, EmptySeq
  <2>3. QED
    BY <2>1, <2>2 DEF TuningsInv, NotBefore, Applied, AskedLast, TuningsNeverEarly
<1>2. IInv /\ TuningsInv /\ [Next]_vars => TuningsInv'
  <2> SUFFICES ASSUME IInv, TuningsInv, [Next]_vars PROVE TuningsInv'
    OBVIOUS
  <2>a. TypeOK /\ PocBase
    BY DEF IInv
  <2>b. ASSUME UNCHANGED <<queue, counter, tunings, tunings_queue, latest, wanted>>
        PROVE  TuningsInv'
    BY <2>b DEF TuningsInv, NotBefore, Applied, AskedLast, TuningsNeverEarly
  <2>1. CASE Predict
    BY <2>1, <2>a, PredictTunings
  <2>2. CASE Execute \/ ExecuteFails \/ PollRecon
    BY <2>2, <2>b
    DEF Execute, ExecuteFails, Fails, PollRecon, Reconstructed, tuning_vars, history, client_vars
  <2>3. CASE Quiet \/ UNCHANGED vars
    BY <2>3, <2>b
    DEF Quiet, CallPoll, CallPollBlocking, CallDrain, PollOutput, NoOutput, NoRecon,
        Polled, DrainPolls, DrainEnds, PredictorDrainFails, OutputFails, ReconFails,
        Fails, vars, predictor_vars, tuning_vars, history, client_vars
  <2>4. ASSUME NEW value \in Values, CallTune(value) PROVE TuningsInv'
    BY <2>4, <2>a, CallTuneTunings
  <2>5. ASSUME NEW force \in BOOLEAN, CallEncode(force) PROVE TuningsInv'
    BY <2>5, <2>a, CallEncodeTunings
  <2>6. QED
    BY <2>1, <2>2, <2>3, <2>4, <2>5 DEF Next, Step, Failure, Client, Quiet
<1>3. TuningsInv => TuningsNeverEarly
  BY DEF TuningsInv
<1>4. QED BY <1>1, <1>2, <1>3, InitInvariant, StepInvariant, PTL DEF Spec

-----------------------------------------------------------------------------
(* Parameter sets are in the stream: those not written yet are marked so.  *)
SetsInv ==
  codec = "H264" =>
    /\ latest.sets = written
    /\ ~update_params_sets => sets = written

LEMMA SendWrites ==
  ASSUME SetsInv, NEW key \in BOOLEAN, NEW request,
         request.key = key, request.sets = Sets(key), request.writes = Writes(key),
         Send(request), codec' = codec
  PROVE  SetsInv'
<1>1. /\ latest'.sets = Sets(key) /\ sets' = Sets(key)
      /\ written' = IF Writes(key) THEN Sets(key) ELSE written
  BY DEF Send
<1>2. codec = "H264" /\ ~Writes(key) => Sets(key) = written
  BY DEF SetsInv, Sets, Writes
<1>3. QED BY <1>1, <1>2 DEF SetsInv

(* Whenever an H.264 frame is requested the parameter sets it uses are the *)
(* ones the stream holds, even if a change of tunings and the request that *)
(* must write it are calls apart.                                          *)
THEOREM SetsWritten == Spec => []ParameterSetsWritten
<1>1. Init => SetsInv
  BY DEF Init, LowDelayInit, NoRequest, SetsInv
<1>2. SetsInv /\ [Next]_vars => SetsInv'
  <2> SUFFICES ASSUME SetsInv, [Next]_vars PROVE SetsInv'
    OBVIOUS
  <2>a. ASSUME UNCHANGED <<codec, sets, update_params_sets, latest, written>>
        PROVE  SetsInv'
    BY <2>a DEF SetsInv
  <2>1. CASE Predict /\ RequestKeyframe
    <3>1. PICK order : Send(Request(Head(queue), TRUE, order, <<>>)) /\ codec' = codec
      BY <2>1 DEF RequestKeyframe, config
    <3> DEFINE request == Request(Head(queue), TRUE, order, <<>>)
    <3>2. request.key = TRUE /\ request.sets = Sets(TRUE) /\ request.writes = Writes(TRUE)
      BY DEF Request
    <3>3. TRUE \in BOOLEAN /\ Send(request)
      BY <3>1
    <3> HIDE DEF request
    <3>4. QED BY <3>1, <3>2, <3>3, SendWrites
  <2>2. CASE Predict /\ RequestInterframe
    <3>1. PICK order, refs : Send(Request(Head(queue), FALSE, order, refs)) /\ codec' = codec
      BY <2>2 DEF RequestInterframe, config
    <3> DEFINE request == Request(Head(queue), FALSE, order, refs)
    <3>2. request.key = FALSE /\ request.sets = Sets(FALSE) /\ request.writes = Writes(FALSE)
      BY DEF Request
    <3>3. FALSE \in BOOLEAN /\ Send(request)
      BY <3>1
    <3> HIDE DEF request
    <3>4. QED BY <3>1, <3>2, <3>3, SendWrites
  <2>3. CASE Predict /\ AwaitReference
    <3>1. /\ sets' = Sets(FALSE) /\ update_params_sets' = Writes(FALSE)
          /\ UNCHANGED <<codec, latest, written>>
      BY <2>3 DEF AwaitReference, config, history
    <3>2. codec = "H264" /\ ~Writes(FALSE) => Sets(FALSE) = written
      BY DEF SetsInv, Sets, Writes
    <3>3. QED BY <3>1, <3>2 DEF SetsInv
  <2>4. CASE Predict /\ QueueEmpty
    BY <2>4, <2>a DEF QueueEmpty, predictor_vars, config, history
  <2>5. CASE Execute \/ ExecuteFails \/ PollRecon
    BY <2>5, <2>a
    DEF Execute, ExecuteFails, PollRecon, Reconstructed, config, history
  <2>6. CASE Quiet \/ UNCHANGED vars
    BY <2>6, <2>a
    DEF Quiet, CallPoll, CallPollBlocking, CallDrain, PollOutput, NoOutput, NoRecon,
        Polled, DrainPolls, DrainEnds, PredictorDrainFails, OutputFails, ReconFails,
        vars, predictor_vars, config, history
  <2>7. ASSUME NEW value \in Values, CallTune(value) PROVE SetsInv'
    BY <2>7, <2>a DEF CallTune, Tune, config, history
  <2>8. ASSUME NEW force \in BOOLEAN, CallEncode(force) PROVE SetsInv'
    BY <2>8, <2>a DEF CallEncode, NewFrame, config, history
  <2>9. QED
    BY <2>1, <2>2, <2>3, <2>4, <2>5, <2>6, <2>7, <2>8
    DEF Next, Step, Failure, Client, Quiet, Predict
<1>3. SetsInv => ParameterSetsWritten
  BY DEF SetsInv, ParameterSetsWritten
<1>4. QED BY <1>1, <1>2, <1>3, PTL DEF Spec

-----------------------------------------------------------------------------
(* Frames, periods and order numbers.                                      *)

(* Frames are numbered as they come, and predicted in that order.          *)
Numbered ==
  /\ num_frames = latest.id + Len(queue)
  /\ \A i \in 1..Len(queue) : queue[i].id = latest.id + i

(* Where the next frame stands in the intra period: frames are counted     *)
(* from the last key frame in H.264, from the first frame elsewhere.       *)
InPeriod ==
  IF codec = "H264"
    THEN \/ latest.id = 0 /\ last_key = 0 /\ counter = 0
         \/ /\ last_key # 0 /\ last_key <= latest.id /\ latest.id < last_key + limit
            /\ counter = IF latest.id + 1 = last_key + limit THEN 0 ELSE latest.id + 1 - last_key
    ELSE counter = latest.id % limit

(* Inside a period order numbers go up by one.                             *)
Ordered ==
  counter # 0 =>
    latest.order + 1 = IF codec = "H265" THEN counter - poc_base ELSE counter

Places == Numbered /\ InPeriod /\ Ordered

LEMMA RemainderUnique ==
  ASSUME NEW n \in Nat, n > 0, NEW p \in Int, NEW q \in Int,
         NEW r \in 0..(n - 1), NEW s \in 0..(n - 1), n * p + r = n * q + s
  PROVE  r = s
<1> DEFINE d == p - q
<1>1. d \in Int /\ n * d = s - r
  OBVIOUS
<1> HIDE DEF d
<1>2. d >= 1 => n * d >= n
  BY <1>1
<1>3. d <= -1 => n * d <= -n
  BY <1>1
<1>4. d = 0 => n * d = 0
  OBVIOUS
<1>5. QED BY <1>1, <1>2, <1>3, <1>4

(* Counting modulo n.                                                      *)
LEMMA NextRemainder ==
  ASSUME NEW n \in Nat, n > 0, NEW a \in Nat
  PROVE  (a + 1) % n = IF (a % n) + 1 = n THEN 0 ELSE (a % n) + 1
<1> DEFINE p == a \div n
           r == a % n
           q == (a + 1) \div n
           s == (a + 1) % n
<1>1. a = n * p + r /\ r \in 0..(n - 1) /\ p \in Int
  OBVIOUS
<1>2. a + 1 = n * q + s /\ s \in 0..(n - 1) /\ q \in Int
  OBVIOUS
<1> HIDE DEF p, q, r, s
<1>3. CASE r + 1 = n
  <2>1. n * q + s = n * (p + 1) + 0
    BY <1>1, <1>2, <1>3
  <2>2. s = 0
    BY <1>1, <1>2, <2>1, RemainderUnique
  <2>3. QED BY <1>3, <2>2 DEF r, s
<1>4. CASE r + 1 # n
  <2>1. n * q + s = n * p + (r + 1)
    BY <1>1, <1>2
  <2>2. s = r + 1
    BY <1>1, <1>2, <1>4, <2>1, RemainderUnique
  <2>3. QED BY <1>4, <2>2 DEF r, s
<1>5. QED BY <1>3, <1>4

LEMMA WrapExact ==
  ASSUME limit \in Limits, NEW position \in 0..(limit - 1)
  PROVE  Wrap(position) = IF position + 1 = limit THEN 0 ELSE position + 1
<1>1. limit \in Nat /\ limit > 0
  OBVIOUS
<1>2. CASE position + 1 = limit
  BY <1>1, <1>2 DEF Wrap
<1>3. CASE position + 1 # limit
  BY <1>1, <1>3 DEF Wrap
<1>4. QED BY <1>2, <1>3

LEMMA FrameTypes ==
  ASSUME TypeOK
  PROVE  /\ limit \in Limits /\ limit \in Nat /\ limit > 0 /\ counter \in 0..(limit - 1)
         /\ latest.id \in Nat /\ latest.order \in Nat /\ last_key \in Nat
         /\ Len(queue) \in Nat /\ num_frames \in Nat /\ poc_base \in Nat
         /\ queue # <<>> => Head(queue) = queue[1] /\ Len(queue) > 0
<1>1. latest.id \in Nat /\ latest.order \in Nat
  BY DEF TypeOK, LowDelayTypeOK, Requests
<1>2. /\ limit \in Limits /\ counter \in 0..(limit - 1) /\ last_key \in Nat
      /\ queue \in Seq(Frame) /\ num_frames \in Nat /\ poc_base \in Nat
  BY DEF TypeOK, LowDelayTypeOK
<1>3. Len(queue) \in Nat /\ (queue # <<>> => Head(queue) = queue[1] /\ Len(queue) > 0)
  BY <1>2, EmptySeq, LenProperties
<1>4. limit \in Nat /\ limit > 0
  BY <1>2
<1>5. QED BY <1>1, <1>2, <1>3, <1>4

LEMMA SendNumbered ==
  ASSUME TypeOK, Numbered, queue # <<>>, NEW request, request.id = Head(queue).id,
         Send(request), num_frames' = num_frames
  PROVE  latest' = request /\ request.id = latest.id + 1 /\ Numbered'
<1>1. /\ latest' = request /\ queue' = Tail(queue) /\ Len(queue) \in Nat
      /\ Head(queue) = queue[1] /\ Len(queue) > 0 /\ latest.id \in Nat
  BY FrameTypes DEF Send
<1>2. 1 \in 1..Len(queue)
  BY <1>1
<1>3. request.id = latest.id + 1
  BY <1>1, <1>2 DEF Numbered
<1>4. /\ Len(queue') = Len(queue) - 1
      /\ \A i \in 1..Len(queue') : queue'[i] = queue[i + 1]
  BY <1>1, HeadTailProperties DEF TypeOK, LowDelayTypeOK
<1>5. \A i \in 1..Len(queue') : i + 1 \in 1..Len(queue) /\ latest.id + (i + 1) = (latest.id + 1) + i
  BY <1>1, <1>4
<1>6. \A i \in 1..Len(queue') : queue'[i].id = latest'.id + i
  BY <1>1, <1>3, <1>4, <1>5 DEF Numbered
<1>7. num_frames' = latest'.id + Len(queue')
  BY <1>1, <1>3, <1>4 DEF Numbered
<1>8. QED BY <1>1, <1>3, <1>6, <1>7 DEF Numbered

(* A key frame, or an inter frame, is predicted: its place, and the places *)
(* behind it.                                                              *)
LEMMA KeyframePlaces ==
  ASSUME TypeOK, PocBase, Places, RequestKeyframe, num_frames' = num_frames
  PROVE  /\ Places' /\ latest'.key /\ latest'.id = latest.id + 1
         /\ latest'.force_keyframe \/ counter = 0
<1> DEFINE request == Request(Head(queue), TRUE, KeyframeOrder, <<>>)
<1>1. /\ queue # <<>> /\ Send(request) /\ codec' = codec /\ limit' = limit
      /\ counter' = Wrap(KeyframePosition)
      /\ poc_base' = IF codec = "H265" THEN counter ELSE poc_base
      /\ counter = 0 \/ Head(queue).force_keyframe
  BY DEF RequestKeyframe, config
<1>2. /\ request.id = Head(queue).id /\ request.key = TRUE /\ request.order = KeyframeOrder
      /\ request.force_keyframe = Head(queue).force_keyframe
  BY DEF Request
<1> HIDE DEF request
<1>3. latest' = request /\ request.id = latest.id + 1 /\ Numbered' /\ last_key' = request.id
  BY <1>1, <1>2, SendNumbered DEF Places, Send
<1>4. /\ limit \in Limits /\ limit \in Nat /\ limit > 0 /\ counter \in 0..(limit - 1)
      /\ latest.id \in Nat /\ last_key \in Nat
  BY FrameTypes
<1>5. KeyframePosition \in 0..(limit - 1)
  BY <1>4 DEF KeyframePosition
<1>6. counter' = IF KeyframePosition + 1 = limit THEN 0 ELSE KeyframePosition + 1
  BY <1>1, <1>4, <1>5, WrapExact
<1>7. InPeriod'
  <2>1. CASE codec = "H264"
    <3>1. last_key' = latest.id + 1 /\ latest'.id = latest.id + 1 /\ KeyframePosition = 0
      BY <1>3, <2>1 DEF KeyframePosition
    <3>2. /\ last_key' # 0 /\ last_key' <= latest'.id /\ latest'.id < last_key' + limit'
          /\ counter' = IF latest'.id + 1 = last_key' + limit' THEN 0
                        ELSE latest'.id + 1 - last_key'
      BY <1>1, <1>4, <1>6, <3>1
    <3>3. QED BY <1>1, <2>1, <3>2 DEF InPeriod
  <2>2. CASE codec # "H264"
    <3>1. counter = latest.id % limit /\ KeyframePosition = counter
      BY <2>2 DEF Places, InPeriod, KeyframePosition
    <3>2. counter' = (latest.id + 1) % limit
      BY <1>4, <1>6, <3>1, NextRemainder
    <3>3. QED BY <1>1, <1>3, <2>2, <3>2 DEF InPeriod
  <2>3. QED BY <2>1, <2>2
<1>8. Ordered'
  <2>1. CASE codec = "H265"
    <3>1. latest'.order = 0 /\ KeyframePosition = counter /\ poc_base' = counter
      BY <1>1, <1>2, <1>3, <2>1 DEF KeyframeOrder, KeyframePosition
    <3>2. counter' # 0 => latest'.order + 1 = counter' - poc_base'
      BY <1>4, <1>6, <3>1
    <3>3. QED BY <1>1, <2>1, <3>2 DEF Ordered
  <2>2. CASE codec # "H265"
    <3>1. latest'.order = KeyframePosition
      BY <1>2, <1>3, <2>2 DEF KeyframeOrder
    <3>2. counter' # 0 => latest'.order + 1 = counter'
      BY <1>6, <3>1
    <3>3. QED BY <1>1, <2>2, <3>2 DEF Ordered
  <2>3. QED BY <2>1, <2>2
<1>9. QED BY <1>1, <1>2, <1>3, <1>7, <1>8 DEF Places

LEMMA InterframePlaces ==
  ASSUME TypeOK, PocBase, Places, RequestInterframe, num_frames' = num_frames
  PROVE  /\ Places' /\ latest'.key = FALSE /\ latest'.id = latest.id + 1
         /\ latest'.force_keyframe = FALSE /\ counter # 0
         /\ latest'.order = latest.order + 1 /\ latest'.refs = Referenced
<1> DEFINE request == Request(Head(queue), FALSE, Order(counter), Referenced)
<1>1. /\ queue # <<>> /\ Send(request) /\ codec' = codec /\ limit' = limit
      /\ counter' = Wrap(counter) /\ poc_base' = poc_base
      /\ counter # 0 /\ ~Head(queue).force_keyframe
  BY DEF RequestInterframe, config
<1>2. /\ request.id = Head(queue).id /\ request.key = FALSE /\ request.order = Order(counter)
      /\ request.force_keyframe = Head(queue).force_keyframe /\ request.refs = Referenced
  BY DEF Request
<1> HIDE DEF request
<1>3. latest' = request /\ request.id = latest.id + 1 /\ Numbered' /\ last_key' = last_key
  BY <1>1, <1>2, SendNumbered DEF Places, Send
<1>4. /\ limit \in Limits /\ limit \in Nat /\ limit > 0 /\ counter \in 0..(limit - 1)
      /\ latest.id \in Nat /\ last_key \in Nat /\ latest.order \in Nat /\ poc_base \in Nat
  BY FrameTypes
<1>5. counter' = IF counter + 1 = limit THEN 0 ELSE counter + 1
  BY <1>1, <1>4, WrapExact
<1>6. latest'.order = latest.order + 1
  BY <1>1, <1>2, <1>3 DEF Order, Places, Ordered
<1>7. InPeriod'
  <2>1. CASE codec = "H264"
    <3>1. /\ last_key # 0 /\ last_key <= latest.id /\ latest.id < last_key + limit
          /\ counter = IF latest.id + 1 = last_key + limit THEN 0 ELSE latest.id + 1 - last_key
      BY <1>1, <2>1 DEF Places, InPeriod
    <3>2. /\ last_key' # 0 /\ last_key' <= latest'.id /\ latest'.id < last_key' + limit'
          /\ counter' = IF latest'.id + 1 = last_key' + limit' THEN 0
                        ELSE latest'.id + 1 - last_key'
      BY <1>1, <1>3, <1>4, <1>5, <3>1
    <3>3. QED BY <1>1, <2>1, <3>2 DEF InPeriod
  <2>2. CASE codec # "H264"
    <3>1. counter = latest.id % limit
      BY <2>2 DEF Places, InPeriod
    <3>2. counter' = (latest.id + 1) % limit
      BY <1>4, <1>5, <3>1, NextRemainder
    <3>3. QED BY <1>1, <1>3, <2>2, <3>2 DEF InPeriod
  <2>3. QED BY <2>1, <2>2
<1>8. Ordered'
  <2>1. CASE codec = "H265"
    <3>1. latest.order + 1 = counter - poc_base
      BY <1>1, <2>1 DEF Places, Ordered
    <3>2. counter' # 0 => latest'.order + 1 = counter' - poc_base'
      BY <1>1, <1>4, <1>5, <1>6, <3>1
    <3>3. QED BY <1>1, <2>1, <3>2 DEF Ordered
  <2>2. CASE codec # "H265"
    <3>1. latest.order + 1 = counter
      BY <1>1, <2>2 DEF Places, Ordered
    <3>2. counter' # 0 => latest'.order + 1 = counter'
      BY <1>4, <1>5, <1>6, <3>1
    <3>3. QED BY <1>1, <2>2, <3>2 DEF Ordered
  <2>3. QED BY <2>1, <2>2
<1>9. latest'.force_keyframe = FALSE
  <2>1. Head(queue) \in Frame
    BY <1>1, HeadTailProperties DEF TypeOK, LowDelayTypeOK
  <2>2. Head(queue).force_keyframe \in BOOLEAN
    BY <2>1 DEF Frame
  <2>3. QED BY <1>1, <1>2, <1>3, <2>2
<1>10. QED BY <1>1, <1>2, <1>3, <1>6, <1>7, <1>8, <1>9 DEF Places

(* The steps that are no requests.                                         *)
LEMMA PlacesKept ==
  ASSUME TypeOK, Places, UNCHANGED <<codec, limit, counter, poc_base, latest, last_key>>,
         \/ UNCHANGED <<queue, num_frames>>
         \/ \E frame : /\ queue' = Append(queue, frame)
                       /\ num_frames' = num_frames + 1 /\ frame.id = num_frames'
  PROVE  Places'
<1>1. InPeriod' /\ Ordered'
  BY DEF Places, InPeriod, Ordered
<1>2. Numbered'
  <2>1. CASE UNCHANGED <<queue, num_frames>>
    BY <2>1 DEF Places, Numbered
  <2>2. ASSUME NEW frame, queue' = Append(queue, frame),
               num_frames' = num_frames + 1, frame.id = num_frames'
        PROVE  Numbered'
    <3> DEFINE s == Append(queue, frame)
    <3>1. /\ Len(queue) \in Nat /\ latest.id \in Nat
          /\ Len(s) = Len(queue) + 1
          /\ \A i \in 1..Len(queue) : s[i] = queue[i]
          /\ s[Len(queue) + 1] = frame
      <4>1. queue \in Seq(Frame) /\ Len(queue) \in Nat /\ latest.id \in Nat
        BY FrameTypes DEF TypeOK, LowDelayTypeOK
      <4>2. QED BY <4>1
    <3> HIDE DEF s
    <3>2. queue' = s
      BY <2>2 DEF s
    <3>3. \A i \in 1..Len(s) : i \in 1..Len(queue) \/ i = Len(queue) + 1
      BY <3>1
    <3>4. num_frames = latest.id + Len(queue) /\ \A i \in 1..Len(queue) : queue[i].id = latest.id + i
      BY DEF Places, Numbered
    <3>5. frame.id = latest.id + (Len(queue) + 1) /\ num_frames' = latest.id + (Len(queue) + 1)
      <4>1. num_frames' = (latest.id + Len(queue)) + 1 /\ frame.id = num_frames'
        BY <2>2, <3>4
      <4>2. (latest.id + Len(queue)) + 1 = latest.id + (Len(queue) + 1)
        BY <3>1
      <4>3. QED BY <4>1, <4>2
    <3>6. \A i \in 1..Len(s) : s[i].id = latest.id + i
      BY <3>1, <3>3, <3>4, <3>5
    <3>7. QED BY <3>1, <3>2, <3>5, <3>6 DEF Numbered
  <2>3. QED BY <2>1, <2>2
<1>3. QED BY <1>1, <1>2 DEF Places

LEMMA StepPlaces == IInv /\ Places /\ [Next]_vars => Places'
<1> SUFFICES ASSUME IInv, Places, [Next]_vars PROVE Places'
  OBVIOUS
<1>1. TypeOK /\ PocBase
  BY DEF IInv
<1>2. CASE Predict /\ RequestKeyframe
  BY <1>1, <1>2, KeyframePlaces DEF Predict, client_vars
<1>3. CASE Predict /\ RequestInterframe
  BY <1>1, <1>3, InterframePlaces DEF Predict, client_vars
<1>4. ASSUME NEW force \in BOOLEAN, CallEncode(force) PROVE Places'
  <2> DEFINE frame == [id |-> num_frames', force_keyframe |-> force, asked |-> wanted]
  <2>1. /\ queue' = Append(queue, frame) /\ num_frames' = num_frames + 1
        /\ UNCHANGED <<codec, limit, counter, poc_base, latest, last_key>>
    BY <1>4 DEF CallEncode, NewFrame, config, history
  <2>2. frame.id = num_frames'
    OBVIOUS
  <2> HIDE DEF frame
  <2>3. QED BY <1>1, <2>1, <2>2, PlacesKept
<1>5. ASSUME UNCHANGED <<config, queue, counter, poc_base, history, num_frames>> PROVE Places'
  BY <1>1, <1>5, PlacesKept DEF config, history
<1>6. CASE Predict /\ (AwaitReference \/ QueueEmpty)
  BY <1>6, <1>5 DEF Predict, AwaitReference, QueueEmpty, predictor_vars, client_vars
<1>7. CASE Execute \/ ExecuteFails \/ PollRecon
  BY <1>7, <1>5 DEF Execute, ExecuteFails, Fails, PollRecon, Reconstructed, client_vars
<1>8. CASE Quiet \/ UNCHANGED vars
  BY <1>8, <1>5
  DEF Quiet, CallPoll, CallPollBlocking, CallDrain, PollOutput, NoOutput, NoRecon, Polled,
      DrainPolls, DrainEnds, PredictorDrainFails, OutputFails, ReconFails, Fails, vars,
      predictor_vars, client_vars
<1>9. ASSUME NEW value \in Values, CallTune(value) PROVE Places'
  BY <1>9, <1>5 DEF CallTune, Tune
<1>10. QED
  BY <1>2, <1>3, <1>4, <1>6, <1>7, <1>8, <1>9
  DEF Next, Step, Failure, Client, Quiet, Predict

LEMMA InitPlaces == Init => Places
<1> SUFFICES ASSUME Init PROVE Places
  OBVIOUS
<1>1. /\ queue = <<>> /\ latest.id = 0 /\ last_key = 0 /\ counter = 0 /\ num_frames = 0
      /\ limit \in Limits
  BY DEF Init, LowDelayInit, NoRequest
<1>2. limit \in Nat /\ limit > 0
  BY <1>1
<1>3. 0 % limit = 0
  BY <1>2
<1>4. InPeriod
  BY <1>1, <1>3 DEF InPeriod
<1>5. QED BY <1>1, <1>4 DEF Places, Numbered, Ordered

(* A key frame comes when the period starts or the client forces one, and  *)
(* only then (KeyframesInTime).                                            *)
THEOREM KeysInTime == Spec => KeyframesInTime
<1> DEFINE Timely == latest' # latest =>
             latest'.key = (latest'.force_keyframe \/ PeriodStarts(latest'.id))
<1>1. IInv /\ Places /\ [Next]_vars => Timely
  <2> SUFFICES ASSUME IInv, Places, [Next]_vars, latest' # latest
               PROVE  latest'.key = (latest'.force_keyframe \/ PeriodStarts(latest'.id))
    OBVIOUS
  <2>1. Predict /\ (RequestKeyframe \/ RequestInterframe)
    BY DEF Next, Step, Failure, Client, Predict, AwaitReference, QueueEmpty, Execute,
       ExecuteFails, PollRecon, Reconstructed, CallPoll, CallPollBlocking, CallDrain, PollOutput,
       NoOutput, NoRecon, Polled, DrainPolls, DrainEnds, PredictorDrainFails, OutputFails,
       ReconFails, CallTune, Tune, CallEncode, NewFrame, vars, predictor_vars, history
  <2>2. TypeOK /\ PocBase /\ num_frames' = num_frames
    BY <2>1 DEF IInv, Predict, client_vars
  <2>3. latest'.id = latest.id + 1 => (PeriodStarts(latest'.id) <=> counter = 0)
    <3> SUFFICES ASSUME latest'.id = latest.id + 1
                 PROVE  PeriodStarts(latest'.id) <=> counter = 0
      OBVIOUS
    <3>1. latest.id \in Nat /\ last_key \in Nat /\ limit \in Nat /\ latest'.id - 1 = latest.id
      BY <2>2, FrameTypes
    <3>2. CASE codec = "H264"
      <4>1. \/ latest.id = 0 /\ last_key = 0 /\ counter = 0
            \/ /\ last_key # 0 /\ last_key <= latest.id /\ latest.id < last_key + limit
               /\ counter = IF latest.id + 1 = last_key + limit THEN 0 ELSE latest.id + 1 - last_key
        BY <3>2 DEF Places, InPeriod
      <4>2. (last_key = 0 \/ last_key + limit = latest.id + 1) <=> counter = 0
        BY <3>1, <4>1
      <4>3. QED BY <3>2, <4>2 DEF PeriodStarts
    <3>3. CASE codec # "H264"
      <4>1. counter = latest.id % limit
        BY <3>3 DEF Places, InPeriod
      <4>2. QED BY <3>1, <3>3, <4>1 DEF PeriodStarts
    <3>4. QED BY <3>2, <3>3
  <2>4. CASE RequestKeyframe
    <3>1. latest'.key = TRUE
      <4>1. \E order : latest' = Request(Head(queue), TRUE, order, <<>>)
        BY <2>4 DEF RequestKeyframe, Send
      <4>2. QED BY <4>1 DEF Request
    <3>2. latest'.id = latest.id + 1 /\ (latest'.force_keyframe \/ counter = 0)
      BY <2>2, <2>4, KeyframePlaces
    <3>3. (latest'.force_keyframe \/ PeriodStarts(latest'.id)) = TRUE
      BY <2>3, <3>2
    <3>4. QED BY <3>1, <3>3
  <2>5. CASE RequestInterframe
    <3>1. /\ latest'.id = latest.id + 1 /\ latest'.key = FALSE
          /\ latest'.force_keyframe = FALSE /\ counter # 0
      BY <2>2, <2>5, InterframePlaces
    <3>2. (latest'.force_keyframe \/ PeriodStarts(latest'.id)) = FALSE
      BY <2>3, <3>1
    <3>3. QED BY <3>1, <3>2
  <2>6. QED BY <2>1, <2>4, <2>5
<1>2. Spec => [](IInv /\ Places)
  BY InitInvariant, StepInvariant, InitPlaces, StepPlaces, PTL DEF Spec
<1>3. IInv /\ Places /\ [Next]_vars => [Timely]_vars
  BY <1>1
<1> HIDE DEF Timely
<1>4. Spec => [][Timely]_vars
  BY <1>2, <1>3, PTL DEF Spec
<1>5. QED BY <1>4 DEF Timely, KeyframesInTime

-----------------------------------------------------------------------------
(* A client that polls until nothing comes, of an encoder that blocks, has *)
(* one frame in the encoder at a time.                                     *)
LastReference == <<[id |-> latest.id, order |-> latest.order]>>

(* The frame is with the predictor, which has the reference for it; ...    *)
Fresh ==
  /\ pc = "predict" /\ call = "encode" /\ ~failed /\ must_poll /\ ~tuned
  /\ Len(queue) = 1 /\ queue[1].asked = wanted
  /\ requests = <<>> /\ recon_queue = <<>>
  /\ latest.id # 0 => references = LastReference

(* ... it is on its way to the backend; ...                                *)
Sent ==
  /\ pc \in {"predict", "execute"} /\ call = "encode" /\ ~failed /\ must_poll /\ ~tuned
  /\ queue = <<>> /\ requests = <<latest>>
  /\ recon_queue = <<>> /\ references = <<>>
  /\ tunings_queue = <<>>

(* No reference waits where the client goes on or has polled its last.     *)
NoneWaits == pc \in {"predict", "polled", "drain"} \/ ~must_poll => recon_queue = <<>>

(* ... the backend has it, or it is the reference for the next one.  The   *)
(* client goes on when it is.                                              *)
Done ==
  /\ pc \notin {"execute", "first"} /\ call # "encode"
  /\ queue = <<>> /\ requests = <<>>
  /\ recon_queue = <<>> \/ recon_queue = LastReference
  /\ NoneWaits
  /\ ~failed /\ latest.id # 0 =>
       IF recon_queue = <<>> THEN references = LastReference ELSE references = <<>>
  /\ tuned \/ tunings_queue = <<>>

(* The tunings asked for last are in force, or due at the next frame.      *)
Tuned ==
  \/ tunings_queue = <<>> /\ tunings.value = wanted.value
  \/ /\ Len(tunings_queue) = 1
     /\ tunings_queue[1].when = counter
     /\ tunings_queue[1].tunings.value = wanted.value

OneByOne == (Fresh \/ Sent \/ Done) /\ Tuned /\ TuningsOnTime

LEMMA InitOneByOne == Init => OneByOne
<1> SUFFICES ASSUME Init PROVE OneByOne
  OBVIOUS
<1>1. /\ pc = "idle" /\ call = "none" /\ queue = <<>> /\ requests = <<>> /\ recon_queue = <<>>
      /\ tunings_queue = <<>> /\ wanted = tunings /\ latest = NoRequest
  BY DEF Init, LowDelayInit
<1>2. latest.id = 0 /\ latest.tunings = latest.asked
  BY <1>1 DEF NoRequest
<1>3. Done
  BY <1>1, <1>2 DEF Done, NoneWaits
<1>4. Tuned /\ TuningsOnTime
  BY <1>1, <1>2 DEF Tuned, TuningsOnTime
<1>5. QED BY <1>3, <1>4 DEF OneByOne

(* Inside a period there is a last frame.                                  *)
LEMMA NotFirst ==
  ASSUME TypeOK, Places, counter # 0
  PROVE  latest.id # 0
<1>1. limit \in Nat /\ limit > 0 /\ latest.id \in Nat /\ last_key \in Nat
  BY FrameTypes
<1>2. CASE codec = "H264"
  <2>1. last_key # 0 /\ last_key <= latest.id
    BY <1>2 DEF Places, InPeriod
  <2>2. QED BY <1>1, <2>1
<1>3. CASE codec # "H264"
  <2>1. counter = latest.id % limit /\ 0 % limit = 0
    BY <1>1, <1>3 DEF Places, InPeriod
  <2>2. QED BY <2>1
<1>4. QED BY <1>2, <1>3

(* A request takes all that is due.                                        *)
LEMMA PopTuned ==
  ASSUME TypeOK, Tuned, PopTunings
  PROVE  tunings' = Current /\ Current.value = wanted.value /\ tunings_queue' = <<>>
<1> DEFINE E == [when : Nat, tunings : Tuning]
<1>1. /\ tunings' = Current
      /\ tunings_queue' = SubSeq(tunings_queue, NumDue + 1, Len(tunings_queue))
      /\ NumDue \in 0..Len(tunings_queue) /\ tunings_queue \in Seq(E)
      /\ Len(tunings_queue) \in Nat /\ DOMAIN tunings_queue = 1..Len(tunings_queue)
  BY NumDueType, LenProperties DEF PopTunings, TypeOK, LowDelayTypeOK
<1>2. counter \in Nat
  BY FrameTypes
<1> HIDE DEF E
<1>3. NumDue = Len(tunings_queue) => tunings_queue' = <<>>
  <2> SUFFICES ASSUME NumDue = Len(tunings_queue) PROVE tunings_queue' = <<>>
    OBVIOUS
  <2> DEFINE m == NumDue + 1
             n == Len(tunings_queue)
  <2>1. m \in Nat /\ n \in Nat /\ ~(m <= n) /\ \A i \in m..n : tunings_queue[i] \in E
    BY <1>1
  <2>2. tunings_queue' = SubSeq(tunings_queue, m, n)
    BY <1>1
  <2> HIDE DEF m, n
  <2>3. /\ SubSeq(tunings_queue, m, n) \in Seq(E)
        /\ Len(SubSeq(tunings_queue, m, n)) = IF m <= n THEN n - m + 1 ELSE 0
    BY <2>1, SubSeqProperties
  <2>4. QED BY <2>1, <2>2, <2>3, EmptySeq
<1>4. CASE tunings_queue = <<>> /\ tunings.value = wanted.value
  <2>1. Len(tunings_queue) = 0
    BY <1>4, EmptySeq
  <2>2. NumDue = 0
    BY <1>1, <2>1
  <2>3. QED BY <1>1, <1>3, <1>4, <2>1, <2>2 DEF Current
<1>5. CASE /\ Len(tunings_queue) = 1
           /\ tunings_queue[1].when = counter
           /\ tunings_queue[1].tunings.value = wanted.value
  <2> DEFINE due == {n \in DOMAIN tunings_queue : \A i \in 1..n : tunings_queue[i].when <= counter}
  <2>1. due = {1}
    <3>1. DOMAIN tunings_queue = {1} /\ 1..1 = {1}
      BY <1>1, <1>5
    <3>2. tunings_queue[1].when <= counter
      BY <1>2, <1>5
    <3>3. QED BY <3>1, <3>2
  <2>2. NumDue = Cardinality(due)
    BY DEF NumDue
  <2> HIDE DEF due
  <2>3. NumDue = 1
    BY <2>1, <2>2, FS_Singleton
  <2>4. Current = tunings_queue[1].tunings
    BY <2>3 DEF Current
  <2>5. QED BY <1>1, <1>3, <1>5, <2>3, <2>4
<1>6. QED BY <1>4, <1>5 DEF Tuned

(* The predictor's turns.                                                  *)
LEMMA FreshPredicted ==
  ASSUME TypeOK, PocBase, Places, Fresh, Tuned, Predict
  PROVE  Sent' /\ Tuned' /\ TuningsOnTime'
<1>1. /\ queue # <<>> /\ Len(queue) = 1 /\ queue[1].asked = wanted /\ requests = <<>>
      /\ recon_queue = <<>> /\ pc = "predict" /\ call = "encode"
      /\ latest.id # 0 => references = LastReference
  BY EmptySeq DEF Fresh
<1>2. UNCHANGED <<recon_queue, must_poll, tuned, wanted, failed>>
  BY DEF Predict, queue_vars, client_vars
<1>3. ~QueueEmpty
  BY <1>1 DEF QueueEmpty
<1>4. ~AwaitReference
  <2> SUFFICES ASSUME AwaitReference PROVE FALSE
    OBVIOUS
  <2>1. counter # 0 /\ references = <<>>
    BY DEF AwaitReference
  <2>2. LastReference # <<>>
    BY DEF LastReference
  <2>3. QED BY <1>1, <2>1, <2>2, NotFirst
<1>5. ASSUME NEW request, Send(request), request.tunings = Current,
             request.asked = Head(queue).asked, PopTunings, references' = <<>>,
             pc' \in {"predict", "execute"}, call' = call
      PROVE  Sent' /\ Tuned' /\ TuningsOnTime'
  <2>1. tunings' = Current /\ Current.value = wanted.value /\ tunings_queue' = <<>>
    BY <1>5, PopTuned
  <2>2. latest' = request /\ requests' = <<request>> /\ queue' = <<>>
    <3>1. latest' = request /\ requests' = Append(<<>>, request) /\ queue' = Tail(queue)
      BY <1>1, <1>5 DEF Send
    <3>2. Append(<<>>, request) = <<request>>
      OBVIOUS
    <3>3. Tail(queue) \in Seq(Frame) /\ Len(Tail(queue)) = 0
      BY <1>1, HeadTailProperties DEF TypeOK, LowDelayTypeOK
    <3>4. QED BY <3>1, <3>2, <3>3, EmptySeq
  <2>3. request.asked = wanted
    BY <1>1, <1>5, FrameTypes
  <2>4. Tuned'
    BY <1>2, <2>1 DEF Tuned
  <2>5. TuningsOnTime'
    BY <1>5, <2>1, <2>2, <2>3 DEF TuningsOnTime
  <2>6. Sent'
    BY <1>1, <1>2, <1>5, <2>1, <2>2 DEF Sent, Fresh
  <2>7. QED BY <2>4, <2>5, <2>6
<1>6. CASE RequestKeyframe /\ Goto("predict")
  <2> DEFINE request == Request(Head(queue), TRUE, KeyframeOrder, <<>>)
  <2>1. Send(request) /\ PopTunings /\ references' = <<>> /\ pc' = "predict" /\ call' = call
    BY <1>6 DEF RequestKeyframe, Goto
  <2>2. request.tunings = Current /\ request.asked = Head(queue).asked
    BY DEF Request
  <2> HIDE DEF request
  <2>3. QED BY <1>5, <2>1, <2>2
<1>7. CASE RequestInterframe /\ Proceed("polled")
  <2> DEFINE request == Request(Head(queue), FALSE, Order(counter), Referenced)
  <2>1. Send(request) /\ PopTunings /\ references' = <<>>
    BY <1>7 DEF RequestInterframe
  <2>2. request.tunings = Current /\ request.asked = Head(queue).asked
    BY DEF Request
  <2>3. requests' # <<>>
    BY <1>7, RequestInterframeFacts DEF TypeOK
  <2>4. pc' = "execute" /\ call' = call
    BY <1>7, <2>3 DEF Proceed, Goto
  <2> HIDE DEF request
  <2>5. QED BY <1>5, <2>1, <2>2, <2>4
<1>8. QED BY <1>3, <1>4, <1>6, <1>7 DEF Predict

(* Nothing of the tunings, and of the frame predicted last, changes.       *)
LEMMA TunedKept ==
  ASSUME Tuned, TuningsOnTime, UNCHANGED <<tuning_vars, wanted, counter, latest>>
  PROVE  Tuned' /\ TuningsOnTime'
BY DEF Tuned, TuningsOnTime, tuning_vars

LEMMA SentStep ==
  ASSUME TypeOK, Sent, Tuned, TuningsOnTime, Next
  PROVE  (Sent \/ Done)' /\ Tuned' /\ TuningsOnTime'
<1>1. /\ pc \in {"predict", "execute"} /\ call = "encode" /\ queue = <<>>
      /\ requests = <<latest>> /\ requests # <<>> /\ recon_queue = <<>> /\ references = <<>>
      /\ tunings_queue = <<>> /\ ~failed /\ must_poll /\ ~tuned
  BY DEF Sent
<1>2. Predict \/ Execute \/ ExecuteFails
  BY <1>1 DEF Next, Step, Failure, Client, CallPoll, CallPollBlocking, CallDrain, PollOutput,
     NoOutput, PollRecon, NoRecon, Polled, DrainPolls, DrainEnds, PredictorDrainFails,
     OutputFails, ReconFails, CallTune, CallEncode
<1>3. CASE Predict
  <2>1. QueueEmpty /\ Proceed("polled")
    BY <1>1, <1>3 DEF Predict, RequestKeyframe, RequestInterframe, AwaitReference
  <2>2. /\ UNCHANGED <<queue, requests, latest, references, tuning_vars, counter>>
        /\ UNCHANGED <<recon_queue, must_poll, tuned, wanted, failed>>
    BY <1>3, <2>1 DEF QueueEmpty, predictor_vars, history, Predict, queue_vars, client_vars
  <2>3. pc' = "execute" /\ call' = call
    BY <1>1, <2>1, <2>2 DEF Proceed, Goto
  <2>4. Sent'
    BY <1>1, <2>2, <2>3 DEF Sent, tuning_vars
  <2>5. QED BY <2>2, <2>4, TunedKept
<1>4. CASE Execute
  <2>1. /\ requests' = Tail(requests) /\ recon_queue' = Append(recon_queue, [id |-> Head(requests).id, order |-> Head(requests).order])
        /\ Proceed("recons")
        /\ UNCHANGED <<queue, latest, references, tuning_vars, counter>>
        /\ UNCHANGED <<must_poll, tuned, wanted, failed>>
    BY <1>4 DEF Execute, Submitted, history, client_vars
  <2>2. Tail(<<latest>>) = <<>> /\ Head(<<latest>>) = latest
    OBVIOUS
  <2>3. requests' = <<>> /\ recon_queue' = LastReference
    <3>1. recon_queue' = Append(<<>>, [id |-> latest.id, order |-> latest.order])
      BY <1>1, <2>1, <2>2
    <3>2. QED BY <1>1, <2>1, <2>2, <3>1 DEF LastReference
  <2>4. pc' = "idle" /\ call' = "none"
    BY <1>1, <2>1, <2>3 DEF Proceed, Return
  <2>5. LastReference' = LastReference /\ LastReference # <<>>
    BY <2>1 DEF LastReference
  <2>6. Done'
    BY <1>1, <2>1, <2>3, <2>4, <2>5 DEF Done, NoneWaits, tuning_vars
  <2>7. QED BY <2>1, <2>6, TunedKept
<1>5. CASE ExecuteFails
  <2>1. /\ requests' = <<>> /\ failed' = TRUE /\ pc' = "idle" /\ call' = "none"
        /\ UNCHANGED <<queue, latest, references, tuning_vars, counter, recon_queue>>
        /\ UNCHANGED <<must_poll, tuned, wanted>>
    BY <1>5 DEF ExecuteFails, Fails, Return, history, client_vars, queue_vars
  <2>2. Done'
    BY <1>1, <2>1 DEF Done, NoneWaits, tuning_vars
  <2>3. QED BY <2>1, <2>2, TunedKept
<1>6. QED BY <1>2, <1>3, <1>4, <1>5

(* The client asks for other tunings before the next frame.                *)
LEMMA DoneTune ==
  ASSUME TypeOK, Done, Tuned, TuningsOnTime, Careful, NEW value, CallTune(value)
  PROVE  Done' /\ Tuned' /\ TuningsOnTime'
<1>1. /\ tunings_queue = <<>> /\ queue = <<>> /\ tunings.value = wanted.value
  <2>1. ~tuned /\ tunings_queue = <<>> /\ queue = <<>>
    BY DEF CallTune, Careful, Done, NoneWaits
  <2>2. Len(tunings_queue) # 1
    BY <2>1, EmptySeq
  <2>3. QED BY <2>1, <2>2 DEF Tuned
<1>2. /\ wanted' = [value |-> value, n |-> wanted.n + 1] /\ Tune(wanted') /\ tuned' = TRUE
      /\ UNCHANGED <<pc, call, recon_queue, must_poll, failed>>
      /\ UNCHANGED <<queue, references, counter, tunings, requests, latest>>
  BY DEF CallTune, Careful, Tune, history, queue_vars
<1>3. Done'
  BY <1>2 DEF Done, NoneWaits, LastReference
<1>4. TuningsOnTime'
  BY <1>2 DEF TuningsOnTime
<1>5. wanted'.value = value
  BY <1>2
<1>6. Tuned'
  <2>1. CASE tunings.value = wanted'.value
    <3>1. tunings_queue' = tunings_queue
      BY <1>1, <1>2, <2>1 DEF Tune, SameAsNext
    <3>2. QED BY <1>1, <1>2, <2>1, <3>1 DEF Tuned
  <2>2. CASE tunings.value # wanted'.value
    <3> DEFINE entry == [when |-> counter + Len(queue), tunings |-> wanted']
    <3>1. tunings_queue' = Append(<<>>, entry)
      BY <1>1, <1>2, <2>2 DEF Tune, SameAsNext
    <3>2. counter + Len(queue) = counter
      <4>1. Len(queue) = 0 /\ counter \in Nat
        BY <1>1, EmptySeq, FrameTypes
      <4>2. QED BY <4>1
    <3>3. entry.when = counter /\ entry.tunings = wanted'
      BY <3>2
    <3> HIDE DEF entry
    <3>4. Len(tunings_queue') = 1 /\ tunings_queue'[1] = entry
      BY <3>1
    <3>5. QED BY <1>2, <3>3, <3>4 DEF Tuned
  <2>3. QED BY <2>1, <2>2
<1>7. QED BY <1>3, <1>4, <1>6

(* ... and hands it in: the reference is there.                            *)
LEMMA DoneEncode ==
  ASSUME TypeOK, Done, Tuned, TuningsOnTime, Careful, NEW force, CallEncode(force)
  PROVE  Fresh' /\ Tuned' /\ TuningsOnTime'
<1> DEFINE frame == [id |-> num_frames', force_keyframe |-> force, asked |-> wanted]
<1>1. /\ ~failed /\ ~must_poll /\ queue = <<>> /\ requests = <<>> /\ recon_queue = <<>>
      /\ latest.id # 0 => references = LastReference
  BY DEF CallEncode, Disciplined, Careful, Done, NoneWaits
<1>2. /\ queue' = Append(queue, frame)
      /\ pc' = "predict" /\ call' = "encode" /\ must_poll' = TRUE /\ tuned' = FALSE
      /\ UNCHANGED <<references, counter, tuning_vars, requests, latest, recon_queue, wanted, failed>>
  BY DEF CallEncode, NewFrame, history, queue_vars, Careful
<1>3. frame.asked = wanted
  OBVIOUS
<1> HIDE DEF frame
<1>4. Len(queue') = 1 /\ queue'[1] = frame
  BY <1>1, <1>2
<1>5. Fresh'
  BY <1>1, <1>2, <1>3, <1>4 DEF Fresh, LastReference
<1>6. QED BY <1>2, <1>5, TunedKept

(* What leaves the predictor, the backend and the tunings alone.           *)
LEMMA DoneKept ==
  ASSUME Done, Tuned, TuningsOnTime,
         UNCHANGED <<queue, requests, references, counter, tuning_vars, latest, tuned, wanted>>,
         pc' \notin {"execute", "first"}, call' # "encode",
         ~failed' => ~failed /\ recon_queue' = recon_queue,
         recon_queue' \in {recon_queue, <<>>},
         NoneWaits'
  PROVE  Done' /\ Tuned' /\ TuningsOnTime'
<1>1. Done'
  BY DEF Done, LastReference, tuning_vars
<1>2. QED BY <1>1, TunedKept

LEMMA DoneStep ==
  ASSUME TypeOK, Done, Tuned, TuningsOnTime, Careful, Next
  PROVE  (Fresh \/ Done)' /\ Tuned' /\ TuningsOnTime'
<1>1. /\ pc \notin {"execute", "first"} /\ call # "encode" /\ queue = <<>> /\ requests = <<>>
      /\ recon_queue = <<>> \/ recon_queue = LastReference
      /\ blocking /\ client = "worker"
  BY DEF Done, Careful
<1>2. TypeOK /\ Done /\ Tuned /\ TuningsOnTime
  OBVIOUS
<1>3. ASSUME NEW value \in Values, CallTune(value)
      PROVE  (Fresh \/ Done)' /\ Tuned' /\ TuningsOnTime'
  BY <1>3, DoneTune
<1>4. ASSUME NEW force \in BOOLEAN, CallEncode(force)
      PROVE  (Fresh \/ Done)' /\ Tuned' /\ TuningsOnTime'
  BY <1>4, DoneEncode
<1>5. CASE Predict
  <2>1. QueueEmpty /\ Proceed("polled") /\ recon_queue = <<>>
    BY <1>1, <1>5 DEF Predict, RequestKeyframe, RequestInterframe, AwaitReference, Done, NoneWaits
  <2>2. /\ UNCHANGED <<queue, requests, references, counter, tuning_vars, latest>>
        /\ UNCHANGED <<recon_queue, must_poll, tuned, wanted, failed>>
    BY <1>5, <2>1 DEF QueueEmpty, predictor_vars, history, Predict, queue_vars, client_vars
  <2>3. pc' = "polled" /\ call' = call
    BY <1>1, <2>1, <2>2 DEF Proceed, Goto
  <2>4. NoneWaits'
    BY <2>1, <2>2 DEF NoneWaits
  <2>5. QED BY <1>1, <1>2, <2>2, <2>3, <2>4, DoneKept
<1>6. CASE PollRecon
  <2>1. recon_queue = LastReference
    BY <1>1, <1>6 DEF PollRecon
  <2>2. /\ recon_queue' = Tail(recon_queue) /\ references' = Append(references, Head(recon_queue))
        /\ pc' = "predict" /\ call' = call
        /\ UNCHANGED <<queue, requests, counter, tuning_vars, latest>>
        /\ UNCHANGED <<must_poll, tuned, wanted, failed>>
    BY <1>6 DEF PollRecon, Reconstructed, Goto, history, client_vars
  <2>3. /\ Tail(LastReference) = <<>> /\ LastReference # <<>>
        /\ Append(<<>>, Head(LastReference)) = LastReference
    BY DEF LastReference
  <2>4. LastReference' = LastReference
    BY <2>2 DEF LastReference
  <2>5. ~failed /\ latest.id # 0 => references' = LastReference
    BY <2>1, <2>2, <2>3 DEF Done
  <2>6. recon_queue' = <<>>
    BY <2>1, <2>2, <2>3
  <2>7. Done'
    BY <1>1, <2>2, <2>4, <2>5, <2>6 DEF Done, NoneWaits, tuning_vars
  <2>8. QED BY <2>2, <2>7, TunedKept
<1>7. CASE CallPoll \/ PollOutput \/ NoOutput \/ OutputFails \/ DrainPolls \/ DrainEnds
           \/ PredictorDrainFails \/ NoRecon \/ CallDrain
  <2>1. /\ UNCHANGED <<queue, requests, references, counter, tuning_vars, latest>>
        /\ UNCHANGED <<recon_queue, tuned, wanted>> /\ (failed' = failed \/ failed' = TRUE)
    BY <1>7 DEF CallPoll, PollOutput, NoOutput, OutputFails, DrainPolls, DrainEnds,
         PredictorDrainFails, NoRecon, CallDrain, Fails, predictor_vars, history, queue_vars,
         client_vars
  <2>2. /\ pc' \in {"idle", "outputs", "recons", "polled", "drain"}
        /\ call' # "encode"
    BY <1>1, <1>7 DEF CallPoll, PollOutput, NoOutput, OutputFails, DrainPolls, DrainEnds,
         PredictorDrainFails, NoRecon, CallDrain, Fails, Goto, Return
  <2>3. (pc' \in {"polled", "drain"} \/ ~must_poll') => recon_queue = <<>>
    <3>1. CASE NoRecon
      BY <1>1, <3>1 DEF NoRecon, Waits
    <3>2. CASE CallDrain
      BY <1>1, <3>2 DEF CallDrain, Disciplined, Done, NoneWaits
    <3>3. CASE CallPoll \/ PollOutput \/ NoOutput \/ OutputFails \/ DrainPolls \/ DrainEnds
               \/ PredictorDrainFails
      <4>1. must_poll' = must_poll /\ pc' \notin {"polled", "drain"}
        BY <3>3 DEF CallPoll, PollOutput, NoOutput, OutputFails, DrainPolls, DrainEnds,
             PredictorDrainFails, Fails, Goto, Return, client_vars
      <4>2. QED BY <4>1 DEF Done, NoneWaits
    <3>4. QED BY <1>7, <3>1, <3>2, <3>3
  <2>4. pc' # "predict" /\ pc' \notin {"execute", "first"}
    BY <2>2
  <2>5. NoneWaits'
    BY <2>1, <2>3, <2>4 DEF NoneWaits
  <2>6. QED BY <1>2, <2>1, <2>2, <2>4, <2>5, DoneKept
<1>8. CASE Polled
  <2>1. recon_queue = <<>>
    BY <1>8 DEF Polled, Done, NoneWaits
  <2>2. /\ UNCHANGED <<queue, requests, references, counter, tuning_vars, latest>>
        /\ UNCHANGED <<recon_queue, tuned, wanted, failed>>
    BY <1>8 DEF Polled, predictor_vars, history
  <2>3. pc' \notin {"execute", "first"} /\ call' # "encode"
    BY <1>1, <1>8 DEF Polled, Goto, Return
  <2>4. NoneWaits'
    BY <2>1, <2>2 DEF NoneWaits
  <2>5. QED BY <1>2, <2>2, <2>3, <2>4, DoneKept
<1>9. CASE ReconFails
  <2>1. recon_queue = LastReference
    BY <1>1, <1>9 DEF ReconFails
  <2>2. /\ UNCHANGED <<queue, requests, references, counter, tuning_vars, latest>>
        /\ UNCHANGED <<tuned, wanted>> /\ failed' = TRUE /\ recon_queue' = Tail(recon_queue)
        /\ pc' = "idle" /\ call' = "none"
    BY <1>9 DEF ReconFails, Fails, Return, predictor_vars, history, client_vars
  <2>3. Tail(LastReference) = <<>>
    BY DEF LastReference
  <2>4. recon_queue' = <<>>
    BY <2>1, <2>2, <2>3
  <2>5. NoneWaits'
    BY <2>4 DEF NoneWaits
  <2>6. QED BY <1>2, <2>2, <2>4, <2>5, DoneKept
<1>10. ~Execute /\ ~ExecuteFails /\ ~CallPollBlocking
  BY <1>1 DEF Execute, ExecuteFails, CallPollBlocking
<1>11. QED BY <1>3, <1>4, <1>5, <1>6, <1>7, <1>8, <1>9, <1>10 DEF Next, Step, Failure, Client

LEMMA StepOneByOne ==
  ASSUME IInv, Places, Careful, OneByOne, [Next]_vars
  PROVE  OneByOne'
<1>1. TypeOK /\ PocBase /\ Tuned /\ TuningsOnTime
  BY DEF IInv, OneByOne
<1>2. CASE UNCHANGED vars
  <2>1. Fresh' \/ Sent' \/ Done'
    BY <1>2 DEF OneByOne, Fresh, Sent, Done, NoneWaits, LastReference, vars, predictor_vars,
       queue_vars, client_vars, history, tuning_vars
  <2>2. UNCHANGED <<tuning_vars, wanted, counter, latest>>
    BY <1>2 DEF vars, predictor_vars, client_vars, history
  <2>3. QED BY <1>1, <2>1, <2>2, TunedKept DEF OneByOne
<1>3. CASE Next /\ Fresh
  <2>1. Predict
    BY <1>3 DEF Fresh, Next, Step, Failure, Client, CallPoll, CallPollBlocking, CallDrain,
       PollOutput, NoOutput, PollRecon, NoRecon, Polled, DrainPolls, DrainEnds,
       PredictorDrainFails, OutputFails, ReconFails, CallTune, CallEncode, Execute, ExecuteFails
  <2>2. QED BY <1>1, <1>3, <2>1, FreshPredicted DEF OneByOne
<1>4. CASE Next /\ Sent
  BY <1>1, <1>4, SentStep DEF OneByOne
<1>5. CASE Next /\ Done
  BY <1>1, <1>5, DoneStep DEF OneByOne
<1>6. QED BY <1>2, <1>3, <1>4, <1>5 DEF OneByOne

LEMMA CarefulStays == [Next]_vars => Careful' = Careful
<1> SUFFICES ASSUME [Next]_vars PROVE blocking' = blocking /\ client' = client
  BY DEF Careful
<1>1. QED
  BY DEF Next, Step, Failure, Client, Predict, Execute, ExecuteFails, PollRecon, CallPoll,
     CallPollBlocking, CallDrain, PollOutput, NoOutput, NoRecon, Polled, DrainPolls, DrainEnds,
     PredictorDrainFails, OutputFails, ReconFails, Fails, CallTune, CallEncode, vars, client_vars

OneInv == IInv /\ Places /\ (Careful => OneByOne)

LEMMA OneInvariant == Spec => []OneInv
<1>1. Init => OneInv
  BY InitInvariant, InitPlaces, InitOneByOne DEF OneInv
<1>2. OneInv /\ [Next]_vars => OneInv'
  BY StepInvariant, StepPlaces, StepOneByOne, CarefulStays DEF OneInv
<1>3. QED BY <1>1, <1>2, PTL DEF Spec

(* A frame is coded with the tunings asked for last before it, for a       *)
(* client that polls until nothing comes (TuningsOnTimeIfCareful).         *)
THEOREM OnTime == Spec => []TuningsOnTimeIfCareful
<1>1. OneInv => TuningsOnTimeIfCareful
  BY DEF OneInv, OneByOne, TuningsOnTimeIfCareful
<1>2. QED BY <1>1, OneInvariant, PTL

(* Such a client's inter frames are predicted from the frame before, under *)
(* its number (LastFrameIfCareful).                                        *)
THEOREM FromLast == Spec => LastFrameIfCareful
<1> DEFINE Linked == latest' # latest /\ Careful => FromLastFrame(latest, latest')
<1>1. OneInv /\ [Next]_vars => Linked
  <2> SUFFICES ASSUME OneInv, [Next]_vars, latest' # latest, Careful
               PROVE  FromLastFrame(latest, latest')
    OBVIOUS
  <2>1. Predict /\ (RequestKeyframe \/ RequestInterframe)
    BY DEF Next, Step, Failure, Client, Predict, AwaitReference, QueueEmpty, Execute,
       ExecuteFails, PollRecon, Reconstructed, CallPoll, CallPollBlocking, CallDrain, PollOutput,
       NoOutput, NoRecon, Polled, DrainPolls, DrainEnds, PredictorDrainFails, OutputFails,
       ReconFails, CallTune, Tune, CallEncode, NewFrame, vars, predictor_vars, history
  <2>2. TypeOK /\ PocBase /\ Places /\ OneByOne /\ num_frames' = num_frames
    BY <2>1 DEF OneInv, IInv, Predict, client_vars
  <2>3. CASE RequestKeyframe
    <3>1. latest'.key
      BY <2>2, <2>3, KeyframePlaces
    <3>2. QED BY <3>1 DEF FromLastFrame
  <2>4. CASE RequestInterframe
    <3>1. /\ latest'.key = FALSE /\ counter # 0
          /\ latest'.order = latest.order + 1 /\ latest'.refs = Referenced
      BY <2>2, <2>4, InterframePlaces
    <3>2. Fresh
      BY <2>2, <2>4 DEF OneByOne, Sent, Done, RequestInterframe
    <3>3. references = LastReference
      BY <2>2, <3>1, <3>2, NotFirst DEF Fresh
    <3>4. Referenced = LastReference
      <4> DEFINE x == [id |-> latest.id, order |-> latest.order]
      <4>1. references = <<x>>
        BY <3>3 DEF LastReference
      <4> HIDE DEF x
      <4>2. Len(<<x>>) = 1 /\ <<x>>[1] = x /\ Head(<<x>>) = x
        OBVIOUS
      <4>3. Reverse(<<x>>) = <<x>>
        BY DEF Reverse
      <4>4. Referenced = <<x>>
        BY <4>1, <4>2, <4>3 DEF Referenced, NewestReference, OldestReference
      <4>5. QED BY <4>4 DEF x, LastReference
    <3>5. QED BY <3>1, <3>4 DEF FromLastFrame, LastReference
  <2>5. QED BY <2>1, <2>3, <2>4
<1>2. OneInv /\ [Next]_vars => [Linked]_vars
  BY <1>1
<1> HIDE DEF Linked
<1>3. Spec => [][Linked]_vars
  BY OneInvariant, <1>2, PTL DEF Spec
<1>4. QED BY <1>3 DEF Linked, LastFrameIfCareful

(* What the run checks in one: the count of frames, the predictor's drain, *)
(* the tunings and the parameter sets.                                     *)
THEOREM Safe == Spec => []Safety
<1>1. FramesAreCounted /\ PredictorIsNeverDrained /\ TuningsNeverEarly /\ ParameterSetsWritten => Safety
  BY DEF Safety
<1>2. QED BY <1>1, Accounted, NeverDrained, NeverEarly, SetsWritten, PTL
=============================================================================
