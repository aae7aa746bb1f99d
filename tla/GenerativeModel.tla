--------------------------- MODULE GenerativeModel ---------------------------
(***************************************************************************)
(* The FIFO of feature vectors that every generator of LyraAndroid derives *)
(* from (class GenerativeModel, generative_model_interface.h).  The module *)
(* has no variables: a generator is a record, and the operators below say  *)
(* what the two state-changing methods do to it.  LyraDecoder uses them    *)
(* for its generative model and for its comfort noise generator,           *)
(* LyraGanModel for one generator with an arbitrary client.                *)
(*                                                                         *)
(*   features_queue      features_queue_                                   *)
(*   next_sample_in_hop  next_sample_in_hop_                               *)
(*   hop                 the features whose samples are in the subclass's  *)
(*                       buffer: the output tensor of LyraGanModel, or     *)
(*                       reconstructed_samples_ of ComfortNoiseGenerator   *)
(*                                                                         *)
(* A sample is abstracted to the features it was generated from and its    *)
(* index in their hop.                                                     *)
(***************************************************************************)
EXTENDS Integers, Sequences

CONSTANT NumSamplesPerHop    \* num_samples_per_hop_

ASSUME HopAssumption == NumSamplesPerHop \in Nat \ {0}

NoFeatures == "nothing"

\* The records a generator with features from the set Features can be.
GenerativeModels(Features) ==
  [ features_queue     : Seq(Features),
    next_sample_in_hop : 0 .. NumSamplesPerHop - 1,
    hop                : Features \union {NoFeatures} ]

EmptyModel ==
  [ features_queue |-> <<>>, next_sample_in_hop |-> 0, hop |-> NoFeatures ]

NumSamplesAvailable(model) ==
  Len(model.features_queue) * NumSamplesPerHop - model.next_sample_in_hop

\* AddFeatures with features of the right size; others are refused and leave
\* the model as it is.
AddFeatures(model, features) ==
  [model EXCEPT !.features_queue = Append(@, features)]

-----------------------------------------------------------------------------
(***************************************************************************)
(* GenerateSamples.                                                        *)
(***************************************************************************)

\* Faulty variant: what was conditioned once is never conditioned again.
RunConditioningOnce(model) ==
  IF model.hop = NoFeatures
  THEN [model EXCEPT !.hop = Head(model.features_queue)]
  ELSE model

\* RunConditioning on the front of the queue, at the beginning of a hop only.
RunConditioning(model) ==
  IF model.next_sample_in_hop = 0
  THEN [model EXCEPT !.hop = Head(model.features_queue)]
  ELSE model

\* Faulty variant: nobody looks whether the request straddles the hop.
CanGenerateAcross(model, num_samples) ==
  num_samples >= 0 /\ num_samples <= NumSamplesAvailable(model)

\* The call returns samples.  A request for nothing always does; any other
\* needs features and may not straddle the end of the hop.
CanGenerate(model, num_samples) ==
  \/ num_samples = 0
  \/ /\ num_samples > 0
     /\ NumSamplesAvailable(model) > 0
     /\ num_samples <= NumSamplesPerHop - model.next_sample_in_hop

\* Faulty variants: the end of the hop is noticed a sample late, and the
\* features are not retired at its end.
AdvanceLate(model, num_samples) ==
  IF model.next_sample_in_hop + num_samples > NumSamplesPerHop
  THEN [model EXCEPT !.next_sample_in_hop = 0, !.features_queue = Tail(@)]
  ELSE [model EXCEPT !.next_sample_in_hop = @ + num_samples]

AdvanceKeepingFeatures(model, num_samples) ==
  [model EXCEPT !.next_sample_in_hop = (@ + num_samples) % NumSamplesPerHop]

\* RunModel moves through the hop; its last sample retires the features.
Advance(model, num_samples) ==
  IF model.next_sample_in_hop + num_samples = NumSamplesPerHop
  THEN [model EXCEPT !.next_sample_in_hop = 0, !.features_queue = Tail(@)]
  ELSE [model EXCEPT !.next_sample_in_hop = @ + num_samples]

\* The model after a call that returns samples.
Generate(model, num_samples) ==
  IF num_samples = 0 THEN model
  ELSE Advance(RunConditioning(model), num_samples)

\* The model after a call that returns nullopt: the features may have been
\* conditioned before the request is found to straddle the hop.
Refuse(model, num_samples) ==
  IF num_samples > 0 /\ NumSamplesAvailable(model) > 0
  THEN RunConditioning(model)
  ELSE model

\* The samples a successful call returns, read out of the subclass's buffer.
Samples(model, num_samples) ==
  [ i \in 1 .. num_samples |->
      << RunConditioning(model).hop, model.next_sample_in_hop + i >> ]
=============================================================================
