----------------------------- MODULE MCSendQueue -----------------------------
(* Two producers against a queue that two large batches overfill and that  *)
(* one exceeds by itself.                                                  *)
EXTENDS SendQueue

CONSTANTS p1, p2

MCProducers == {p1, p2}
=============================================================================
