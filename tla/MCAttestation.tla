--------------------------- MODULE MCAttestation ----------------------------
(* Instances of Attestation: the nonce 1234 the border router multicasts,  *)
(* and all ones.                                                           *)
EXTENDS Attestation

Seed1234 == [b \in 0..3 |-> IF b = 3 THEN 210 ELSE IF b = 2 THEN 4 ELSE 0]

MCNonces == {Seed1234, [b \in 0..3 |-> 255]}
=============================================================================
