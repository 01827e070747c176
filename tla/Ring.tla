-------------------------------- MODULE Ring --------------------------------
(***************************************************************************)
(* What a subscriber of an iceoryx2 service holds: a ring of `depth`       *)
(* samples, the oldest overwritten by a publication that finds it full.    *)
(***************************************************************************)
EXTENDS Naturals, Sequences

RingSend(q, sample, depth) ==
  IF Len(q) < depth THEN Append(q, sample) ELSE Append(Tail(q), sample)
============================================================================
