--------------------------- MODULE LossConcealment ---------------------------
(***************************************************************************)
(* What LyraDecoder promises, without its generators and its progress      *)
(* counters.  It remembers how much received audio waits to be played, for *)
(* how long it has been concealing, and how loud the comfort noise is:     *)
(*                                                                         *)
(*   - a request is always filled, whatever was received;                  *)
(*   - received audio resumes at the first hop boundary of the concealment *)
(*     after a packet came, and then plays until the backlog is used up;   *)
(*   - comfort noise fades in once ConcealmentDuration samples in a row    *)
(*     were lost, and fades out otherwise.                                 *)
(***************************************************************************)
EXTENDS Integers

CONSTANTS
  NumSamplesPerHop, ConcealmentDuration, FadeDuration, Requests

VARIABLES
  backlog,      \* samples of received packets not played yet
  lost,         \* samples played since the last one of a received packet; it
                \* is counted up to a hop beyond pure comfort noise
  fade,         \* share of comfort noise, of FadeDuration
  remaining     \* samples the running call has yet to produce

vars == << backlog, lost, fade, remaining >>

Init == backlog = 0 /\ lost = 0 /\ fade = 0 /\ remaining = 0

Louder(num_samples) ==
  IF fade + num_samples < FadeDuration THEN fade + num_samples ELSE FadeDuration

Softer(num_samples) ==
  IF fade > num_samples THEN fade - num_samples ELSE 0

CountLost(num_samples) ==
  IF lost + num_samples < ConcealmentDuration + FadeDuration + NumSamplesPerHop
  THEN lost + num_samples ELSE lost + num_samples - NumSamplesPerHop

\* Between calls: a hop of received audio joins the backlog, or audio is asked for.
ReceivePacket ==
  /\ remaining = 0
  /\ backlog' = backlog + NumSamplesPerHop
  /\ UNCHANGED << lost, fade, remaining >>

Request(num_samples) ==
  /\ remaining = 0
  /\ remaining' = num_samples
  /\ UNCHANGED << backlog, lost, fade >>

AtHopBoundary == lost % NumSamplesPerHop = 0

PlayReceived(num_samples) ==
  /\ AtHopBoundary
  /\ num_samples <= backlog
  /\ backlog' = backlog - num_samples
  /\ lost' = 0
  /\ fade' = Softer(num_samples)
  /\ remaining' = remaining - num_samples

Conceal(num_samples) ==
  /\ ~(AtHopBoundary /\ backlog > 0)
  /\ num_samples <= NumSamplesPerHop - (lost % NumSamplesPerHop)
  /\ lost' = CountLost(num_samples)
  /\ fade' = IF lost >= ConcealmentDuration THEN Louder(num_samples)
                                            ELSE Softer(num_samples)
  /\ remaining' = remaining - num_samples
  /\ UNCHANGED backlog

Next ==
  \/ ReceivePacket
  \/ \E n \in Requests : Request(n)
  \/ \E n \in 1 .. remaining : PlayReceived(n) \/ Conceal(n)

Spec == Init /\ [][Next]_vars
=============================================================================
