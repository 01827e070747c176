----------------------------- MODULE MCPreview -----------------------------
(***************************************************************************)
(* Requests for model checking: one wider and higher than the maximum and  *)
(* off the alignment in height, and the size there is at first, so that a  *)
(* size can be taken back.                                                 *)
(***************************************************************************)
EXTENDS Preview

SomeRequests == {<<4096, 2694>>, <<320, 240>>}
DefaultConfiguration == <<320, 240>>
============================================================================
