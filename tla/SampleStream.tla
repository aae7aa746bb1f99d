----------------------------- MODULE SampleStream -----------------------------
(***************************************************************************)
(* What a generator promises its client, without saying how: it owes the   *)
(* client a stream of samples, NumSamplesPerHop of them for every feature  *)
(* vector added, in the order the features were added, and it hands them   *)
(* out from the front without ever crossing from one hop to the next.      *)
(***************************************************************************)
EXTENDS Integers, Sequences

CONSTANTS Features, NumSamplesPerHop

VARIABLES
  owed,     \* samples the client has a right to, oldest first
  reply     \* what the last call returned

vars == << owed, reply >>

\* A call succeeds, with samples or none, or is refused.
Succeeds(samples) == [ok |-> TRUE, samples |-> samples]
Refused == [ok |-> FALSE, samples |-> <<>>]

Init == owed = <<>> /\ reply = Succeeds(<<>>)

\* A feature vector is worth one hop of samples.
AddFeatures(features) ==
  /\ owed' = owed \o [ i \in 1 .. NumSamplesPerHop |-> << features, i >> ]
  /\ reply' = Succeeds(<<>>)

\* The client gets the oldest samples, all of one hop.
GenerateSamples(num_samples) ==
  /\ num_samples <= Len(owed)
  /\ num_samples = 0 \/ owed[num_samples][2] = owed[1][2] + num_samples - 1
  /\ reply' = Succeeds(SubSeq(owed, 1, num_samples))
  /\ owed' = SubSeq(owed, num_samples + 1, Len(owed))

\* A call that cannot be served leaves the debt as it is.
RefuseCall == reply' = Refused /\ UNCHANGED owed

Next ==
  \/ \E f \in Features : AddFeatures(f)
  \/ \E n \in 0 .. NumSamplesPerHop : GenerateSamples(n)
  \/ RefuseCall

Spec == Init /\ [][Next]_vars
=============================================================================
