---------------------------- MODULE VisionTokens ----------------------------
(***************************************************************************)
(* The image of a sample on its way into the language model.  In training: *)
(* the ms-swift template reserves slots for each row of a batch, the       *)
(* collator gathers the scanpath lengths, DeepseekOCR2Model.forward        *)
(* encodes the images and fills the slots, and DeepseekOCR2ForCausalLM     *)
(* supervises the attention maps.  Then the checkpoint is served: the vLLM *)
(* processor cuts the image, the prompt gets its placeholders, and the     *)
(* runtime encodes and merges.                                             *)
(***************************************************************************)
EXTENDS ImageViews, Sequences

CONSTANTS
    Rows,          \* the rows of the training file: see Row
    BatchSizes,    \* per_device_train_batch_size
    TryFetch,      \* min(10, len(dataset)): the rows LazyLLMDataset tries for one
    Stricts,       \* the training's strict: a subset of BOOLEAN
    TrainCrops,    \* the CROP_MODE exported for training
    Weights,       \* is the attention loss weighted? a subset of BOOLEAN
    Images,        \* the images asked about: see Image
    RuntimeCrops,  \* CROP_MODE of config.py
    InferenceSteps, \* SCANFLOW_V2_INFERENCE_STEPS
    None

\* blank: the pixels sum to 0, of the local views ("locals") or of the global view.
Blanks == {"none", "locals", "global"}
Image == [size : Sizes, blank : Blanks]
\* length: scanpath_length, if the row has it; map: that of its fixation map.
Row == [image : Image, length : Int \cup {None}, map : (1 .. MaxSteps) \cup {None}]

ASSUME VisionTokensAssumption ==
    /\ None \notin Int
    /\ Rows \subseteq Row /\ BatchSizes \subseteq Nat \ {0}
    /\ TryFetch \in 1 .. 10 /\ Stricts \subseteq BOOLEAN
    /\ TrainCrops \subseteq BOOLEAN /\ Weights \subseteq BOOLEAN
    /\ Images \subseteq Image /\ RuntimeCrops \subseteq BOOLEAN
    /\ InferenceSteps \in 1 .. MaxSteps

VARIABLES
    crop, weighted, strict, runtimeCrop,  \* the configuration
    pc,        \* "batch", "encode", "collate", "forward", "loss", "step", "raised", "serve"
    batch,     \* the rows of the step
    encoded,   \* per row encoded so far: its views, its T and the slots reserved for it
    tries,     \* the rows tried in vain for the next place of the batch
    lengths,   \* scanpath_lengths of the batch; <<>> if there are none
    filled,    \* per sample forwarded so far: the local views seen, T, the rows
    maps,      \* batch_visual_attn_maps: per sample, its T
    kept,      \* qwen2_model.last_visual_attn_maps: "none", of this batch, or "earlier"
    used,      \* whose maps the attention loss is of: "none", "own" or "earlier"
    request    \* the last request served, or None

config == <<crop, weighted, strict, runtimeCrop>>
vars == <<config, pc, batch, encoded, tries, lengths, filled, maps, kept, used, request>>

-----------------------------------------------------------------------------
(* Template and collator. *)

\* _encode: 32 where the row does not say.
Steps(row) == IF row.length = None THEN MaxSteps ELSE row.length
Encodable(row) == Steps(row) \in 1 .. MaxSteps

NextBatch ==
    /\ pc \in {"batch", "step"}
    /\ \E n \in BatchSizes : batch' \in [1 .. n -> Rows]
    /\ pc' = "encode" /\ encoded' = <<>> /\ tries' = 0 /\ lengths' = <<>>
    /\ filled' = <<>> /\ maps' = <<>> /\ used' = "none"
    /\ kept' = IF kept = "none" THEN "none" ELSE "earlier"
    /\ UNCHANGED <<config, request>>

Encode ==
    /\ pc = "encode" /\ Len(encoded) < Len(batch)
    /\ LET row == batch[Len(encoded) + 1]
           views == TrainedViews(row.image.size, crop)
       IN  /\ Encodable(row)
           /\ encoded' = Append(encoded, [views |-> views, steps |-> Steps(row),
                                          slots |-> TemplateSlots(views, Steps(row))])
    /\ tries' = 0
    /\ UNCHANGED <<config, pc, batch, lengths, filled, maps, kept, used, request>>

\* LazyLLMDataset tries the next row of a permutation in the place of one that raises,
\* and gives up after n_try_fetch of them; the first one's error goes on if it is strict.
NTryFetch == IF strict THEN 1 ELSE TryFetch
EncodeFails ==
    /\ pc = "encode" /\ Len(encoded) < Len(batch)
    /\ ~Encodable(batch[Len(encoded) + 1])
    /\ tries' = tries + 1
    /\ IF tries' < NTryFetch
       THEN /\ \E row \in Rows : batch' = [batch EXCEPT ![Len(encoded) + 1] = row]
            /\ pc' = pc
       ELSE pc' = "raised" /\ batch' = batch
    /\ UNCHANGED <<config, encoded, lengths, filled, maps, kept, used, request>>

\* rows_to_batched gives a row without the field a None, which neither int nor
\* np.load takes.
Some(P(_)) == \E i \in 1 .. Len(batch) : P(batch[i])
HasLength(row) == row.length # None
HasMap(row) == row.map # None
Ragged(P(_)) == Some(P) /\ \E i \in 1 .. Len(batch) : ~P(batch[i])

\* (RawLengths_OfMaps: the lengths of the fixation maps come first.)
RawLengths_OfMaps ==
    IF Some(HasMap) THEN [i \in 1 .. Len(batch) |-> batch[i].map]
    ELSE IF Some(HasLength) THEN [i \in 1 .. Len(batch) |-> batch[i].length] ELSE <<>>
RawLengths ==
    IF Some(HasLength) THEN [i \in 1 .. Len(batch) |-> batch[i].length]
    ELSE IF Some(HasMap) THEN [i \in 1 .. Len(batch) |-> batch[i].map] ELSE <<>>

DataCollator ==
    /\ pc = "encode" /\ Len(encoded) = Len(batch)
    /\ ~Ragged(HasLength) /\ ~Ragged(HasMap)
    /\ lengths' = RawLengths /\ pc' = "forward"
    /\ UNCHANGED <<config, batch, encoded, tries, filled, maps, kept, used, request>>

CollatorRaises ==
    /\ pc = "encode" /\ Len(encoded) = Len(batch)
    /\ Ragged(HasLength) \/ Ragged(HasMap)
    /\ pc' = "raised"
    /\ UNCHANGED <<config, batch, encoded, tries, lengths, filled, maps, kept, used, request>>

-----------------------------------------------------------------------------
(* DeepseekOCR2Model.forward. *)

\* The images of the whole batch are passed over if the first global view sums to 0.
SkipImages ==
    /\ pc = "forward" /\ filled = <<>> /\ batch[1].image.blank = "global"
    /\ pc' = "loss"
    /\ UNCHANGED <<config, batch, encoded, tries, lengths, filled, maps, kept, used, request>>

Sample == Len(filled) + 1
Rollout == IF lengths = <<>> THEN MaxSteps ELSE lengths[Sample]
Seen == SeenLocals(encoded[Sample].views, batch[Sample].image.blank = "locals")
Features == EncodedRows(encoded[Sample].views, Seen, Rollout)

\* The local views are encoded first, without their maps, and the global view last:
\* its maps are those the encoder has when they are asked for.
\* (Collects_GlobalFirst: the other way round.)
Collects_GlobalFirst == weighted /\ Seen = 0
Collects == weighted

Reached ==
    /\ pc = "forward" /\ Sample <= Len(batch)
    /\ filled # <<>> \/ batch[1].image.blank # "global"
Fill ==
    /\ filled' = Append(filled, [locals |-> Seen, steps |-> Rollout, rows |-> Features])
    /\ maps' = IF Collects THEN Append(maps, Rollout) ELSE maps
    /\ kept' = IF Collects THEN "own" ELSE "none"
    /\ UNCHANGED <<config, pc, batch, encoded, tries, lengths, used, request>>

\* (EncodeSample_Unchecked: the rows are scattered as they are.)
EncodeSample_Unchecked == Reached /\ Fill
EncodeSample == Reached /\ Features = encoded[Sample].slots /\ Fill

CountMismatch ==
    /\ Reached /\ Features # encoded[Sample].slots
    /\ kept' = IF Collects THEN "own" ELSE "none"
    /\ pc' = "raised"
    /\ UNCHANGED <<config, batch, encoded, tries, lengths, filled, maps, used, request>>

\* torch.cat of the maps, which all need the same T.
SameRollouts == \A i, j \in 1 .. Len(maps) : maps[i] = maps[j]

Concatenate ==
    /\ pc = "forward" /\ Sample > Len(batch)
    /\ pc' = IF SameRollouts THEN "loss" ELSE "raised"
    /\ UNCHANGED <<config, batch, encoded, tries, lengths, filled, maps, kept, used, request>>

-----------------------------------------------------------------------------
(* DeepseekOCR2ForCausalLM.forward. *)

Supervised == weighted /\ Some(HasMap)

\* Without maps of this forward, those the encoder still has are taken: their graph
\* was freed by the backward pass of an earlier step, so that this one's raises.
AttentionLoss ==
    /\ pc = "loss"
    /\ IF ~Supervised THEN used' = "none" /\ pc' = "step"
       ELSE IF maps # <<>> THEN used' = "own" /\ pc' = "step"
       ELSE /\ used' = IF kept = "none" THEN "none" ELSE "earlier"
            /\ pc' = "raised"
    /\ UNCHANGED <<config, batch, encoded, tries, lengths, filled, maps, kept, request>>

-----------------------------------------------------------------------------
(* Serving the checkpoint. *)

\* A checkpoint of some step, or of the last one before training raised.
Serve ==
    /\ pc \in {"step", "raised"}
    /\ pc' = "serve" /\ batch' = <<>> /\ encoded' = <<>> /\ tries' = 0 /\ lengths' = <<>>
    /\ filled' = <<>> /\ maps' = <<>> /\ kept' = "none" /\ used' = "none"
    /\ UNCHANGED <<config, request>>

\* tokenize_with_images and the placeholders of the prompt; then the embeddings, none
\* at all for a global view that sums to 0 (_parse_and_validate_image_input). The merge
\* raises where some came but not as many as there are placeholders.
Embedded(image) ==
    LET views == ServedViews(image.size, runtimeCrop)
        seen == SeenLocals(views, image.blank = "locals")
    IN  IF image.blank = "global" THEN 0 ELSE EncodedRows(views, seen, InferenceSteps)
Ask ==
    /\ pc = "serve"
    /\ \E image \in Images :
         LET placeholders == NumImageTokens(image.size, runtimeCrop, InferenceSteps)
             rows == Embedded(image)
         IN  request' = [image |-> image, views |-> ServedViews(image.size, runtimeCrop),
                         filled |-> rows = placeholders,
                         raised |-> rows \notin {0, placeholders}]
    /\ UNCHANGED <<config, pc, batch, encoded, tries, lengths, filled, maps, kept, used>>

-----------------------------------------------------------------------------
Init ==
    /\ crop \in TrainCrops /\ weighted \in Weights /\ strict \in Stricts
    /\ runtimeCrop \in RuntimeCrops /\ tries = 0
    /\ pc = "batch" /\ batch = <<>> /\ encoded = <<>> /\ lengths = <<>>
    /\ filled = <<>> /\ maps = <<>> /\ kept = "none" /\ used = "none" /\ request = None

Next ==
    \/ NextBatch \/ Encode \/ EncodeFails \/ DataCollator \/ CollatorRaises
    \/ SkipImages \/ EncodeSample \/ CountMismatch \/ Concatenate
    \/ AttentionLoss \/ Serve \/ Ask

Spec == Init /\ [][Next]_vars

-----------------------------------------------------------------------------
(* Properties. *)

\* A sample is used as it was reserved: where a step of training ends, each sample
\* of its batch has all its local views, with the T the template read, in as many
\* rows as slots, or the step had no image at all. (deepseek.py:549-583,
\* base.py:1541-1612 and modeling_deepseekocr2.py:993-1130: four places count.)
TrainedAsReserved ==
    pc = "step" =>
        \/ filled = <<>> /\ batch[1].image.blank = "global"
        \/ /\ Len(filled) = Len(batch)
           /\ \A i \in 1 .. Len(batch) :
                /\ filled[i].locals = encoded[i].views.locals
                /\ filled[i].steps = encoded[i].steps
                /\ filled[i].rows = encoded[i].slots

\* Rows as the converter writes them, which name their length and their fixation map, on
\* images that do not sum to 0, stop the training for two reasons only: as many rows
\* as are tried for one (one, if strict) were longer than the limit, to which the
\* converter does not cut them, or a supervised batch mixes lengths.
\* (dataset/utils.py:86-110, modeling_deepseekocr2.py:1111-1121 and 1132-1136.)
Regular(row) == HasLength(row) /\ HasMap(row) /\ row.image.blank = "none"
GaveUp == tries = NTryFetch /\ ~Encodable(batch[Len(encoded) + 1])
RegularRowsTrain ==
    pc = "raised" =>
        \/ \E i \in 1 .. Len(batch) : ~Regular(batch[i])
        \/ Len(encoded) < Len(batch) /\ GaveUp
        \/ weighted /\ \E i, j \in 1 .. Len(batch) : batch[i].length # batch[j].length

\* The attention loss is of the maps of this step, one per sample, unless the first
\* image of the batch sums to 0: the fallback to the encoder's own maps then finds
\* those of an earlier step. (modeling_deepseekocr2.py:1392-1409)
SupervisedByOwn ==
    /\ used = "own" => maps = [i \in 1 .. Len(batch) |-> encoded[i].steps]
    /\ used = "earlier" => batch[1].image.blank = "global"

\* The placeholders counted from the size of an image are the rows its views make: they
\* are all filled, unless the global view sums to 0, when they all keep the embedding of
\* the image token and the request goes on, or the local views do, when it raises.
\* (scanflow_pro_deepseek_ocr2.py:113-164 against 448-449, 687-809, 841-876 and
\* image_process.py:361-450)
PlaceholdersFilled ==
    request # None /\ ~request.filled =>
        \/ request.image.blank = "global" /\ ~request.raised
        \/ request.image.blank = "locals" /\ request.views.locals > 0 /\ request.raised

\* An image is served in the views the model was trained on, whatever config.py says: the
\* launch scripts export CROP_MODE=1 for both ends, and the evaluator sets it too
\* (run_scanflowpro_v2_evaluation.py:755).
ServedAsTrained ==
    request # None => request.views = TrainedViews(request.image.size, crop)
=============================================================================
