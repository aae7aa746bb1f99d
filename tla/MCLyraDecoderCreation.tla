------------------------ MODULE MCLyraDecoderCreation ------------------------
(***************************************************************************)
(* A client that asks for supported and unsupported sample rates, with the *)
(* files of this version, of two others, of none, and with a quantizer that*)
(* cannot encode.                                                          *)
(***************************************************************************)
EXTENDS LyraDecoderCreation

MCRequests == 1 .. 1023

Published ==
  [ parsed |-> TRUE, identifier |-> 3, num_outputs |-> 320, num_features |-> 64,
    bits_per_quantizer |-> 4, signatures |-> {"encode", "decode"} ]

MCModelFiles ==
  { Published,
    [Published EXCEPT !.identifier = 2, !.num_outputs = 640],
    [Published EXCEPT !.identifier = 4, !.num_features = 128],
    [Published EXCEPT !.parsed = FALSE],
    [Published EXCEPT !.signatures = {"decode"}] }
=============================================================================
