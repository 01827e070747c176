---------------------------- MODULE PreviewSizes ----------------------------
(***************************************************************************)
(* The sizes of a preview: what the visualizer makes of a request          *)
(* (visualizer/src/preview_config.rs) and what the encoder accepts         *)
(* (encoder/src/preview_runtime.rs).  The two crates repeat the constants. *)
(***************************************************************************)
EXTENDS Integers

MIN_PREVIEW_DIMENSION == 160
MAX_PREVIEW_DIMENSION == 1920
PREVIEW_DIMENSION_ALIGNMENT == 16

Larger(a, b) == IF a > b THEN a ELSE b
Smaller(a, b) == IF a < b THEN a ELSE b

(* Mutant: no alignment. *)
ClampOnly(v) == Smaller(Larger(v, MIN_PREVIEW_DIMENSION), MAX_PREVIEW_DIMENSION)

ClampPreviewDimension(v) ==
  LET clamped == Smaller(Larger(v, MIN_PREVIEW_DIMENSION), MAX_PREVIEW_DIMENSION)
  IN  Larger(clamped - (clamped % PREVIEW_DIMENSION_ALIGNMENT), MIN_PREVIEW_DIMENSION)

(* Rounds x / y, halves up. *)
Rounded(x, y) == (2 * x + y) \div (2 * y)

(* PreviewSize::new: both sides are scaled by the same factor when one is    *)
(* beyond the maximum, then clamped and aligned one by one.                  *)
PreviewSize(width, height) ==
  LET max_dim == Larger(width, height)
      scaled(v) == IF max_dim > MAX_PREVIEW_DIMENSION
                   THEN Rounded(v * MAX_PREVIEW_DIMENSION, max_dim) ELSE v
  IN  [width |-> ClampPreviewDimension(scaled(width)),
       height |-> ClampPreviewDimension(scaled(height))]

(* Mutant: the largest size is refused. *)
IsValidBelowMax(v) == v >= 160 /\ v < MAX_PREVIEW_DIMENSION /\ v % 16 = 0

IsValidPreviewDim(v) == v >= 160 /\ v % 16 = 0

IsValidSize(s) == IsValidPreviewDim(s.width) /\ IsValidPreviewDim(s.height)
============================================================================
