--------------------------- MODULE MCPacketChannel ---------------------------
(***************************************************************************)
(* The audio of the model.  Packing and unpacking move every bit on its    *)
(* own, so hops that differ from all zeros or from all ones in at most one *)
(* bit show every bit that is moved to a wrong place, or lost, or made up. *)
(***************************************************************************)
EXTENDS PacketChannel

OneBitApart(a, b) ==
  \A i, j \in 1 .. MaxNumQuantizers, c, d \in 0 .. BitsPerQuantizer - 1 :
    a[i][c] # b[i][c] /\ a[j][d] # b[j][d] => i = j /\ c = d

AllOnes == [ i \in 1 .. MaxNumQuantizers |-> [ b \in 0 .. BitsPerQuantizer - 1 |-> 1 ] ]

MCAudio ==
  { a \in [ 1 .. MaxNumQuantizers -> Indices ] :
      OneBitApart(a, Silence) \/ OneBitApart(a, AllOnes) }
=============================================================================
