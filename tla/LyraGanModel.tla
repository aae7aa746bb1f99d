----------------------------- MODULE LyraGanModel -----------------------------
(***************************************************************************)
(* A generative model with an arbitrary client.  The client adds features  *)
(* and asks for samples, in any order and any number, also with malformed  *)
(* arguments; the model is LyraGanModel, whose RunConditioning runs the    *)
(* TensorFlow Lite interpreter and whose RunModel reads the interpreter's  *)
(* output tensor.  TfLiteModelWrapper::Invoke may fail at any time.        *)
(***************************************************************************)
EXTENDS GenerativeModel

CONSTANTS
  Features,         \* feature vectors the client may add
  MaxQueue          \* bound of the model: feature vectors waiting at a time

ASSUME ClientAssumption == MaxQueue \in Nat \ {0}

VARIABLES
  model,    \* the LyraGanModel
  reply,    \* what the last call returned to the client
  spoilt    \* history: Invoke failed for the hop that was last played from

vars == << model, reply, spoilt >>

\* A call returns true or samples, or it returns false or nullopt.
Succeeds(samples) == [ok |-> TRUE, samples |-> samples]
Refused == [ok |-> FALSE, samples |-> <<>>]

Init == model = EmptyModel /\ reply = Succeeds(<<>>) /\ spoilt = FALSE

-----------------------------------------------------------------------------
(***************************************************************************)
(* Calls of the client.                                                    *)
(***************************************************************************)

AddWellFormedFeatures(features) ==
  /\ Len(model.features_queue) < MaxQueue
  /\ model' = AddFeatures(model, features)
  /\ reply' = Succeeds(<<>>)
  /\ UNCHANGED spoilt

\* features.size() != num_features_
AddMalformedFeatures ==
  /\ reply' = Refused
  /\ UNCHANGED << model, spoilt >>

\* The interpreter runs on the front of the queue whenever a hop begins.
GenerateSamples(num_samples) ==
  /\ CanGenerate(model, num_samples)
  /\ model' = Generate(model, num_samples)
  /\ reply' = Succeeds(Samples(model, num_samples))
  /\ spoilt' = (spoilt /\ (num_samples = 0 \/ model.next_sample_in_hop > 0))

\* Invoke fails at the beginning of a hop.  Its result is not looked at, so
\* the samples come out of whatever the output tensor held before.
GenerateFromStaleTensor(num_samples) ==
  /\ num_samples > 0
  /\ model.next_sample_in_hop = 0
  /\ CanGenerate(model, num_samples)
  /\ model' = Advance(model, num_samples)
  /\ reply' = Succeeds([ i \in 1 .. num_samples |-> << model.hop, i >> ])
  /\ spoilt' = TRUE

\* Negative requests, requests without features, requests that straddle a hop.
\* The last are found out after conditioning, which may have failed as well.
RefuseSamples(num_samples) ==
  /\ ~CanGenerate(model, num_samples)
  /\ model' \in {Refuse(model, num_samples), model}
  /\ reply' = Refused
  /\ UNCHANGED spoilt

Next ==
  \/ \E f \in Features : AddWellFormedFeatures(f)
  \/ AddMalformedFeatures
  \/ \E n \in -1 .. NumSamplesPerHop + 1 :
       \/ GenerateSamples(n)
       \/ GenerateFromStaleTensor(n)
       \/ RefuseSamples(n)

Spec == Init /\ [][Next]_vars

-----------------------------------------------------------------------------
(***************************************************************************)
(* Properties.                                                             *)
(***************************************************************************)

\* Every variable has its type; in particular the position in the hop stays
\* below the end of the hop (GenerateSamples, next_sample_in_hop_).
TypeOK ==
  /\ model \in GenerativeModels(Features)
  /\ reply.ok \in BOOLEAN
  /\ reply.samples \in
       Seq((Features \union {NoFeatures}) \X (1 .. NumSamplesPerHop))
  /\ spoilt \in BOOLEAN

\* A position inside a hop is a position inside the hop of the features at the
\* front of the queue, and their samples are what the buffer holds: RunModel
\* only ever reads features "which have already been processed by
\* RunConditioning".
ConditionedHop ==
  model.next_sample_in_hop > 0 =>
    /\ model.features_queue # <<>>
    /\ model.hop = Head(model.features_queue)

\* The samples still owed: the queue's hops without what was handed out.
SamplesOwed ==
  [ k \in 1 .. NumSamplesAvailable(model) |->
      LET position == k - 1 + model.next_sample_in_hop
      IN  << model.features_queue[(position \div NumSamplesPerHop) + 1],
             (position % NumSamplesPerHop) + 1 >> ]

Stream == INSTANCE SampleStream WITH owed <- SamplesOwed

\* The model keeps the generator's promise: every sample of every feature
\* vector is returned once, in order, never across a hop, whatever the client
\* asks for and whenever a call is refused.  A failure of the interpreter
\* spoils the samples of one hop and nothing that comes after them: the next hop
\* is conditioned again and is that of its own features (AddFeatures,
\* GenerateSamples, RunConditioning).
StreamsEverySampleInOrder ==
  /\ Stream!Init
  /\ [][Stream!Next \/ (spoilt' /\ reply'.samples # <<>>)]_(Stream!vars)

\* The same with the features forgotten: a sample is its index in its hop.
Indices(samples) == [ k \in DOMAIN samples |-> << "any", samples[k][2] >> ]

Clock == INSTANCE SampleStream
  WITH Features <- {"any"},
       owed <- Indices(SamplesOwed),
       reply <- [reply EXCEPT !.samples = Indices(@)]

\* Also when the interpreter fails, the model returns as many samples as were
\* asked for, at the right places of the hops, and retires the features on
\* time: client and model never disagree about the position in the hop.
StreamsOnTime == Clock!Spec
=============================================================================
