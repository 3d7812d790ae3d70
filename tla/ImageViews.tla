----------------------------- MODULE ImageViews -----------------------------
(***************************************************************************)
(* How an image becomes views, and views become rows of the language       *)
(* model's input: the tiling (one text in modeling_deepseekocr2.py and in  *)
(* image_process.py), the views of the training template and of the vLLM   *)
(* processor, and the rows the recurrent encoder returns for them.         *)
(*                                                                         *)
(* Aspect ratios are compared exactly; the code compares them in floating  *)
(* point, which differs for ties of ratios that are not dyadic.            *)
(***************************************************************************)
EXTENDS Integers

BaseSide == 1024
ImageSide == 768
MaxSteps == 32      \* max_scanpath_steps

Sizes == [w : Nat \ {0}, h : Nat \ {0}]
Small(size) == size.w <= ImageSide /\ size.h <= ImageSide

-----------------------------------------------------------------------------
(* Tiling: <<columns, rows>>. *)

Blocks(r) == r[1] * r[2]
TargetRatios == {r \in (1 .. 6) \X (1 .. 6) : Blocks(r) \in 2 .. 6}

\* |w/h - r1/r2|, times h * r2
Gap(size, r) ==
    LET gap == size.w * r[2] - r[1] * size.h IN IF gap < 0 THEN -gap ELSE gap

Closest(size) ==
    {r \in TargetRatios : \A s \in TargetRatios : Gap(size, r) * s[2] <= Gap(size, s) * r[2]}

\* The ratios come in the order of their blocks; one as close as the best so far
\* replaces it where the image fills more than half of its blocks.
FindClosestAspectRatio(size) ==
    LET first(r) == \A s \in Closest(size) : Blocks(r) <= Blocks(s)
        filled(r) == 2 * size.w * size.h > ImageSide * ImageSide * Blocks(r)
        taken == {r \in Closest(size) : first(r) \/ filled(r)}
    IN  CHOOSE r \in taken : \A s \in taken : Blocks(s) <= Blocks(r)

LocalViews(ratio) == IF ratio[1] > 1 \/ ratio[2] > 1 THEN Blocks(ratio) ELSE 0

-----------------------------------------------------------------------------
(* The views of an image: its local views, of ImageSide, and its global view, *)
(* whose image kept its proportions or was resized to a square first.         *)

Views == [locals : Nat, side : {BaseSide, ImageSide}, kept : BOOLEAN]

\* _preprocess_image of the template, under its environment's CROP_MODE.
TrainedViews(size, crop) ==
    IF crop
    THEN [locals |-> IF Small(size) THEN 0 ELSE LocalViews(FindClosestAspectRatio(size)),
          side |-> BaseSide, kept |-> TRUE]
    ELSE [locals |-> 0, side |-> ImageSide, kept |-> FALSE]

\* tokenize_with_images, with the CROP_MODE of config.py.
ServedTiles(size, crop) ==
    IF Small(size) \/ ~crop THEN <<1, 1>> ELSE FindClosestAspectRatio(size)
ServedViews(size, crop) ==
    [locals |-> LocalViews(ServedTiles(size, crop)), side |-> BaseSide, kept |-> crop]

-----------------------------------------------------------------------------
(* Rows: N visual tokens and T recurrent states for every view, and the      *)
(* separator.                                                                *)

\* ceil((side // 16) / 4)
Queries(side) == (side \div 16 + 3) \div 4

\* num_dynamic_tokens
TemplateSlots(views, steps) ==
    Queries(views.side) * Queries(views.side) + steps
        + views.locals * (Queries(ImageSide) * Queries(ImageSide) + steps) + 1

\* get_num_image_tokens, which works from the size of the image alone.
\* (NumImageTokens_OneRollout: T states for the global view only.)
NumImageTokens_OneRollout(size, crop, steps) ==
    Queries(BaseSide) * Queries(BaseSide) + steps + 1
        + LocalViews(ServedTiles(size, crop)) * (Queries(ImageSide) * Queries(ImageSide))
NumImageTokens(size, crop, steps) ==
    LET tiles == IF crop /\ ~Small(size) THEN FindClosestAspectRatio(size) ELSE <<1, 1>>
    IN  Queries(BaseSide) * Queries(BaseSide) + steps + 1
            + LocalViews(tiles) * (Queries(ImageSide) * Queries(ImageSide) + steps)

\* The feature map has (side / 64)^2 tokens; the encoder returns [V'; H] of a view.
EncodedView(side, steps) == (side \div 64) * (side \div 64) + steps
EncodedRows(views, seen, steps) ==
    seen * EncodedView(ImageSide, steps) + EncodedView(views.side, steps) + 1

\* Local views are encoded if the sum of their pixels is not 0: the tensor of an
\* image without any is all zeros.
SeenLocals(views, blank) == IF blank THEN 0 ELSE views.locals
=============================================================================
