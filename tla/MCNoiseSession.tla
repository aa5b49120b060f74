--------------------------- MODULE MCNoiseSession ---------------------------
(* NoiseSession with two devices that share no index. *)
EXTENDS NoiseSession

CONSTANTS a, b

MCEnds == {a, b}
MCFirstIndex == [e \in MCEnds |-> IF e = a THEN 1 ELSE 101]
MCMaxHandshakes == [e \in MCEnds |-> IF e = a THEN 3 ELSE 2]
=============================================================================
