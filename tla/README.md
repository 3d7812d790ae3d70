# Verification of ScanFlow

TLA+ models of the ScanFlow repository (chart question answering with a recurrent visual
encoder), TLC configurations that check them, and theorems checked by TLAPS. Paths are
relative to the repository's root; `EV` stands for `src/run_scanflowpro_v2_evaluation.py`,
`OCR` for `src/run_deepseek_ocr2_eval.py`, `RT` for the vLLM runtime
`src/DeepSeek-OCR-2/DeepSeek-OCR2-master/DeepSeek-OCR2-vllm/scanflow_pro_deepseek_ocr2.py`
and `TD` for `src/train_dataloader.py`, `ACC` for `src/accuracy_calc.py`, `MW` for
`src/modelings/scanflow/modeling_deepseekocr2.py` and `DS` for
`src/ms-swift/swift/template/templates/deepseek.py`.

The repository has no tests. What a definition models is in `PROJECT.json` (`map`), with the
lines; so are the hazards the properties are aimed at, each at the line where it bites.

## 1. Inventory

| Part | State it keeps | Operations | Hard behaviours | What makes it correct |
|---|---|---|---|---|
| A. Batched evaluator, `evaluate_dataset` and `flush_question_batch` (EV 2630-2973) | `sample_states`, `pending_questions`, `follow_up_questions`, counters | admit a sample, queue its questions (the turns of a conversation one at a time), generate for a batch, recover task by task after an exception, finalize, drain, fallback | a batch that fails half way, a handler that raises, repeated ids | every sample read is asked completely and recorded once; nothing in flight is lost |
| B. Prediction file (OCR 37-57) | JSONL lines | append, read the ids back, delete on `--overwrite` | a kill or a failure in the middle of a line or just before its newline, resuming with `--max-samples` | a record stays, unless its newline is missing; a resumed job asks what has no record |
| C. `main` (EV 3353-3534) and the runner (1054-1292) | jobs, exit code, engine and sampling parameters of two runners | build the jobs, run each, shut down, analyse, aggregate | failures at every step, two engines that do not fit one GPU, one dataset in two spellings, `--max-samples`, files an earlier run left unfinished | one engine at a time, none left behind; an honest exit code |
| D. Analysis pass (EV 2384-2605, 1294-1366) | metrics, pair and error files, raw tensors, retained tensors | capture a question, read the payload, write rows, render, write pairs | kills between the rows of one question or within a row, drawings that fail, files left by failures, resuming | a row comes from its own question's tensors and exists once; no question is forgotten |
| E. Capture in the vLLM runtime (RT 67-92, 469-685) | the metadata queue, the views of the last pass | push, pop, save | metadata left over from a call that failed | a payload carries the metadata of its own request |
| F. Training loader (TD) | iterators, position and batch of every worker | normalise names, interleave datasets, shard, collate | worker processes that read independently, errors in a worker | every example once per epoch, or an error |
| G. Dataset readers, `src/dataloader.py` | none | iterate over JSONL and parquet | questions and answers filtered separately, line numbers as ids, a line that does not parse in the middle of the loop | answers belong to their questions |
| H. Single-stream evaluator (OCR 66-251, 351-408) | the same file as B, temporary images, the exit code | open a dataset, write a temporary image, ask question by question, record, remove the image | records a failure and raises; five ways out of one sample; kills; reruns that resume or overwrite | as B; no image left behind |
| I. Accuracy (ACC) | counts | read the prediction file, score | files torn by kills, repeated or missing predictions | each sample counts once or the file is refused; credit only for a sample's own labels |
| J. Recurrent encoder, `src/modelings/scanflow/deepencoderv2.py` | the maps of the last pass | T recurrent steps, one residual | T differs by row, maps kept between steps | N + T rows per view |
| K. Tiling and token counts (`process/image_process.py`, RT 113-163, 687-809, DS 358-583) | none | choose tiles, reserve slots, count placeholders, concatenate views | four computations of one number, in two programs and two configurations | one row per placeholder; served as trained |
| L. Model wrapper and losses (MW 993-1136, 1392-1409) with the collator of ms-swift (`template/base.py` 1541-1612) | the batch, its scanpath lengths, the maps | collate, fill the slots sample by sample, concatenate maps, attention loss | lengths from two sources, rows that differ within a batch, maps of an earlier step | every row trains with its own length and maps, or the step raises |
| M. Offline scripts (`select_one_scanpath_per_question.py`, `convert_salchartqa_to_swift_jsonl.py`), launch scripts | files | select, convert, launch | - | rows the trainer accepts |

How they interact: `main` (C) calls A for each dataset and then D, over the prediction files
(B) that A wrote. A and D drive vLLM through a runner each; D pushes metadata into the queue
of E in the same process and finds the tensor file E saved by comparing directory listings.
I reads the files of B, whichever of A and H wrote them. F reads datasets through G and is independent
of the evaluation. M converts datasets to the rows L trains on; K is computed twice, by the training
template and by the vLLM runtime, and both must agree with what J returns.

## 2. Modules

| Module | Models | State and actions |
|---|---|---|
| `EvalScheduler` | A over one dataset, with B's file functions | variables are the locals of `evaluate_dataset` and `flush_question_batch`, `pc` says which loop runs; `runs` and `had` (the ids read back at the start) stay as they are within a run. `SkipRecorded`, `StopReading`, `RecordEmpty`, `LoadFails`, `Admit`, `AdmitFails` are the exits of one iteration of the `for`; `DrainFlush`, `Fallback`, `Return` what follows it; `Generate` and `GenerateFails` the batch call, `ApplyOutput` one turn of its loop, `AskAlone`, `AskAloneFails`, `RecordError` the recovery, `EndFlush` the hand-over of follow-up questions |
| `EvalLedger` | the promise of A: samples are accepted or rejected, settled question by question, recorded once | `Accept`, `Reject`, `Settle`, `Close` |
| `EvalResume` | B: A over killed, restarted and overwritten runs | extends `EvalScheduler` with `Kill` (between writes, or within one of the lines the step may be writing, `DueLines`) and `Restart` |
| `V2Analysis` | D composed with E, over several runs | the three files are sequences of lines, `failed` what the error file names, `Key` what `existing_keys` holds; one action per step of a question: `BeginCapture`, `EncoderPass` (in the runtime), `GenerateReturns`, `GenerateRaises`, `ReadPayload`, `WriteRow`, `Render`, `CloseQuestion`, `LogError`; then `EndQuestions`, `WritePair`, `EndSample`; `Kill` (within an append to any of the files, too), `Restart` |
| `EvalMain` | C, with A and D reduced to one call of the runner per sample | a file is the bag of its whole lines and a last line (`tail`) that may lack its newline; `cap` is `--max-samples`. `StartJob` ... `Finally`; `Construct` and `Bind` are the two halves of `load`, `Drawing` the part of a rendering that leaves tensors |
| `TrainLoader` | F, one epoch with its workers | `Take`, `Exhaust`, `ReadFails` in a worker's stream, `SendBatch`, `EndStream`, `Receive`, `EndEpoch` for the (external) DataLoader |
| `ChartBench` | the two ends of a measurement: G's `iter_chartbench` and the row shape of `iter_chartqa`, I's `exact_match` scoring | operators: which turns become `Questions` and `Answers`, `SampleId`, `Credited` |
| `SingleStream` | H over several runs, composed with the readers and the scorer of `ChartBench` | variables are the locals of H's `main` and `evaluate_dataset`, the files and the temporary images. `OpenDataset`, `SkipBlank`, `ReaderRaises`, `SkipRecorded`, `EndLoop` for the loop; `Materialize`, `MaterializeFails`, `TempWriteFails`, `Answer`, `InferFails`, `AllAnswered`, `Except`, `Finally`, `Write` for the clauses of one sample; `Leave` for `main`; `Kill`, `Start`. `Report` is what the scorer says of a file |
| `ImageViews` | K: from an image to views and to rows | operators: `FindClosestAspectRatio`, `TrainedViews` and `ServedViews`, `TemplateSlots`, `NumImageTokens`, `EncodedRows` |
| `VisionTokens` | L over batches of rows, and a request to the vLLM runtime | training: `NextBatch`, `Encode` and `EncodeFails` (template), `DataCollator`, `CollatorRaises`, then `SkipImages`, `EncodeSample`, `CountMismatch`, `Concatenate`, `AttentionLoss` (forward); serving: `Serve`, `Ask` |
| `*Proofs` | theorems | section 5 |
| `MC*` | instances for TLC | - |

Abstractions that hold everywhere: texts are reduced to what the code tests of them (in A and D whether
they contain `<image>`, on which `build_request` fails; in H and I equality after normalisation); figures,
normalised answers, logs and times are left out; an environment fault (unreadable image, failing
`generate`, failing write) may happen at any call whose kind is in the constant `Faults`. An append may
leave the line, nothing, a part of it, or all of it but its newline, which is read back as a record; so may a
kill. The next append is glued to either, and the result does not parse (in `EvalMain`, whose own appends are whole,
only the files it finds may end like that). Sizes of images are numbers, and the tiling is computed as the code does, with
exact ratios. Tensors are reduced to the number of their rows and to whether their pixels sum to zero.
Definitions named `X_Something` next to a definition `X` are plausible mistakes in that code;
each property is checked to fail under one of them.

## 3. Runs

| Run | Question | Bounds and why they suffice |
|---|---|---|
| `sched_clean` | With unreadable images and failing `generate` calls, is every sample asked completely, in turn and once? `EvalScheduler` implements `EvalLedger` | all streams of 3 samples with 0, 1 or 2 questions or a two-turn conversation, batch size 2: a batch mixes samples, a conversation spans flushes, a sample is split over batches |
| `resume` | What do kills and failing writes cost? Does a capped job advance? Does a run end under every fault? | 2 runs, the second of which meets what a killed one left; cap 2 over 3 samples, so a capped run stops with one left; samples of 2 questions, conversations, every placement of `<image>`, a third sample that is empty or repeats the first one's id; strict or not, `--overwrite` or not |
| `continue_raises`, `failures_recorded` | violations: `--continue-on-error` promises (section 4) | as `sched_clean` without faults, with answers that contain `<image>` |
| `analysis_runs` | Is every row the question's own and unique over killed runs? Is no question forgotten, and no pair without rows? | 2 images (the second like the first, a conversation, with the first one's id, or not recorded), 2 questions, 2 views, 2 encoder passes per call, 2 runs: one killed anywhere, also within each of the three appends, one resuming; visualization budget 1 |
| `analysis_steady` | What does a pass leave behind under every fault, and does it still account for its questions? | all faults including failing appends, with and without `--overwrite`, 2 runs, no kills |
| `analysis_rows` | violation (section 4) | two images |
| `main_runs` | Do engines meet or stay? Is the exit code honest? Is the budget kept? | 2 command lines that name datasets twice and in two spellings, all option combinations, `--max-samples` 1 or more than there are, files found complete, cut short or with a record that lacks its newline, every fault at every step |
| `train_epochs` | Do the workers share the stream exactly? | 0, 2 and 3 workers, batch sizes 1 and 2, one, two and three-name requests over datasets of 3, 1 and 3 examples, both modes, both splits, targets on and off, a malformed line |
| `benchmark` | Can interrupted runs lead to a score for a benchmark that was not measured, or to a sample nobody misses? Do strict reruns get past a failing sample? Are temporary images removed? | 3 runs (a killed one, one that meets its leftovers, one that meets theirs), each with any of strict, overwriting and capped; 12 files for one dataset, with a missing image, a blank and a broken line, an id that collides with a line number, conversations with every defect, one without labels; a pair of datasets of which the first cannot be read to its end |
| `image_tokens` | Do the four places that count rows agree, and what stops a step? | batches of 1 and 2 of 42 rows, 10 rows tried for one or, if strict, 1: no and four local views, three ways of summing to zero, lengths at both ends, out of range, missing, contradicted by the map; in serving 7 sizes with ties, the longest strip and one pixel over the threshold |
| `serving_crops` | violation (section 4) | as above |

Deadlock is checked in every run; a finished program stutters in an explicit `Finished`
(`VisionTokens` serves requests for ever).

Fairness. `EvalScheduler`, `EvalMain` and `TrainLoader` assume `WF_vars(Next)`: one thread that
keeps running (workers whose number of steps is finite need no fairness among themselves), and
engine calls that return or raise. `SingleStream` assumes it of the program's own steps
only (`Work`), `EvalResume` of the scheduler's steps (`Next` of `EvalScheduler`, without `Kill` and
`Restart`); kills and restarts are never forced. `EvalLedger` promises that an open sample is settled;
`EvalScheduler` implements that as well. `V2Analysis` and `VisionTokens` have no
fairness: they are stated for safety only. That a pass of the analysis ends is no question, since it is four nested
loops over finite sequences; and every step of training may be the last.

## 4. Where the code departs from its documentation

* `ContinueNeverRaises`: `--continue-on-error` says "Continue after sample-level failures and
  record them to JSONL." (EV 3305). `update_error` queues the next turn of a conversation, whose
  `build_request` raises again out of the `except` clause (EV 2829): one answer with `<image>`
  ends the job and loses what is in flight.
* `FailuresRecorded`: the same help text. The recovery (EV 2824) applies answers of the failed
  batch again and counts `remaining` down twice, so a sample is finalized with a question that
  has neither an answer nor an error.
* `RowsComplete`: the docstring promises statistics per question and view (EV 6). After a kill
  between two rows the question counts as existing (EV 2414) and stays incomplete.
* `ServedAsTrained`: both launch scripts export `CROP_MODE=1`, and the evaluator sets it (EV 755). The
  training template reads the variable, the vLLM runtime the constant `False` of its `config.py`: no local
  view is ever served.

Hazards in `PROJECT.json` that no property covers carry a note. Notably an unfinished line of the metrics file
makes every later analysis raise once the next row is glued to it (EV 2414); `--num-visualizations` is "Number of
analyzed questions whose full tensors [...] are retained" (EV 3259-3262), but a drawing that fails leaves its tensors
uncounted (EV 2328 comes before the panels, 2539 after), so `DrawnWithinBudget` bounds those that no error file
names; an image whose global view sums to zero is answered from placeholders that were never filled (RT 448), and a
training row longer than the limit, to which the converter does not cut, is replaced by another one nine times before
training stops (`src/ms-swift/swift/dataset/utils.py` 89-109); a prompt that cannot be built ends the analysis (EV 2452 is outside the `try`
of the question), and refused sampling options (`--temperature -1`) make `load` build an
engine while it still holds one, which is why `OneEngine` is stated for accepted options. In the
single-stream evaluator, two defects of one conversation can pair an answer with another turn's label, and a
conversation without any label is credited even when its questions failed (ACC 386 compares two empty
lists); `CreditEarned` excludes both cases by name (`Misaligned`, `Unlabelled`).

## 5. Proofs

The modules with theorems use no recursive operator. Assumptions are only the named `ASSUME`s on
constants (`SchedulerAssumption`, `ResumeAssumption`, `MainAssumption`, `AnalysisAssumption`,
`LoaderAssumption`, `ChartBenchAssumption`, `SingleStreamAssumption`, `InputsAssumption`,
`VisionTokensAssumption`); TLC evaluates them in every run of their module. A theorem that needs more says so
with an `ASSUME` of its own.

What a fold over a sequence returns (the jobs of `build_eval_jobs`, the names, examples and counts of the
training loader) is proved for every length without an induction rule: the fold is a function on `1 .. n`
that satisfies its recursive equation, and of the positions where a claim about it fails there would be a
least one (`Least`, from `WellFoundedInduction`), which the equation refutes. `SelectSeq` is defined by a
recursion local to its body that the provers cannot expand, so `ChartBench` states the same filter as
`InOrder`, the elements of a set of positions in their order.

`EvalSchedulerProofs`, for every dataset, batch size, cap and combination of faults:

* `TypeCorrect`: `Spec => []TypeOK`. Every handler goes through `CountDown`, which may queue, write
  and forget; `Effect` says what it can have done to queue, entry and file, `SuccessEffect` and
  `FailureEffect` derive it, and `StoreType` and the steps use nothing else.
* `WrittenAtMostOnce`: `Spec => []DuplicateOnlyAfterLoadError`. The property alone is not
  inductive, because it does not say that a sample in flight has not been written. `OnceInv`
  adds: no entry of `sample_states` has a record of answers, and every record is of a sample the
  loop has gone past, or of the one it is at in a state that cannot admit it again, or of one whose id is
  in `completed_ids`. After an exception has left the job only the property itself remains.

`EvalCleanProofs`, for every dataset, batch size and cap, under `Clean`: ids are distinct, no text
contains `<image>` and no write fails (images may be unreadable and `generate` may fail at any time). This is
what `sched_clean` checks on three samples; with `<image>` in an answer a job can raise (`continue_raises`) and
write a sample with an unsettled question (`failures_recorded`).

* `RecordedOnce`, `RecordedWhole`, `EachQuestionOnce`, `PromptsNeverStale`: `Spec => []OneRecord`, `[]RecordComplete`,
  `[]Accounting`, `[]PromptsCurrent`; `OutcomesNeverChange`: `Spec => OutcomesFinal`. All come from one
  invariant, `CleanInv`. It reads the rest of the batch and the follow-ups as one queue (`LiveTasks`) and says
  that its tasks are exactly the scheduled questions without outcome, once each (`QueueOK`); that an entry
  counts its open questions, that its settled ones are scheduled, and that of a conversation only the last
  scheduled turn is open (`EntriesOK`); that the samples with a record are behind the loop and not in flight.
  No conjunct is inductive alone: that storing an outcome finds its entry, and that it is not stored twice,
  is `QueueOK`; that it is written at zero and not before is `EntriesOK`.
* `HeadStep` is the heart: storing the outcome of the head of the queue settles one question, appends at most
  the next turn (`QueueAdvance`), or appends the record. `NoFallback`: the "defensive fallback" after the
  loop never runs, since an entry always has a live task.

* `QueueNeverGrows`: `Spec => []QueueBound`. The bound is not inductive: what follows a flush depends on how
  far the conversations of the batch are. `BoundInv` adds that past the place of the batch size there are later
  turns only, each at least a turn ahead of the one behind it (`QueueSteep`, and `FlushSteep` across a batch and
  its follow-ups): one conversation joins per admission, and every flush takes each a turn further.
* `ImplementsLedgerSafely`: `Spec => LedgerInit /\ [][LedgerNext]_ledgerVars` of `EvalLedger`, under the
  mapping of `EvalScheduler`: every stored outcome is `Settle`, an admission or an empty sample `Accept`, a
  load error `Reject`, the return `Close`; reading, batching, recovery and the end of a flush are stutters.

`EvalResumeProofs`, for any number of killed, resumed and overwritten runs as well. The step lemmas of
`EvalSchedulerProofs` carry over; `Kill` and `Restart` are added to each.

* `RunsTypeCorrect`, `RunsWriteAtMostOnce`: the two theorems above over all runs. After `Restart` every
  old record's id is in `completed_ids`, which is why `OnceInv` has that last case.
* `RecordsAreKept`: `ResumeSpec => RecordsPersist`. `StepWrites` shows that a step of the scheduler changes
  the file by one append or not at all, `JsonlAppendKeeps` that an append, glued or cut, leaves every
  readable line where it is, but for a last one without its newline.
* `NoSampleLost`: `ResumeSpec => []NothingLost`. `LostInv` is a balance of two kinds of ids. Those that are passed,
  were not found recorded, have no record and are not in flight, plus one for a file that ends in a torn line, to
  which the next record will be glued (`Allowance`), are at most the unreadable lines (`CountInv`). Of those the
  run found recorded at most one has lost its record (`HadInv`): the one in a last line without newline,
  which only the first append of the run can meet. It is not inductive without `OwnKeys` (an entry in
  flight is under its sample's id) and `CompletedKnown` (what is skipped was found recorded or is passed).
* `CappedRunsAdvance`: `ResumeSpec => []CapAdvances`. `CapInv` says that `processed` is the number of samples
  this run passed and did not find recorded, and that the ids in the file are those it found and those it
  passed.

`EvalMainProofs`, for every command line and fault:

* `EnginesNeverMeet` and `NoEngineLeft`: `EngineInv` counts the engines: `live` is the number of
  runners that hold one plus the one being built, and the part of the program that runs says
  which runner that can be. The number alone is not inductive.
* `BudgetKept`: `BudgetInv` relates what was drawn and is in no error file to what `remaining_visualizations` still
  allows, between datasets and within one.
* `ExitCodeTells`: `Spec => []ExitCodeHonest`; `JobsAllRun`: `Spec => []EveryJobRuns`. `JobInv` follows the
  jobs: those behind are settled (their file holds the records asked for, or one was reported as failed), what
  the current one is still to ask is not in its file and makes up what it must leave there (`AskingInv`), `DiskInv`
  bounds what a last line without newline can have cost each file (`Damage`, `Slack`), the exit code is 1 exactly when
  something was reported, and what comes after the jobs comes with all of them settled or in a strict run.
  It rests on what `EvalJobs` is, for a command line of any length: every dataset named has a job, and no
  two jobs have the same name.
* `NothingAskedTwice`: `Spec => []AskedOnce`, where the files found hold no sample twice (`EarlierOnce`;
  `resume` and its theorems say when they do not). Two spellings of one dataset are two jobs on one
  file, and the second finds all the first has recorded: `todo` of a job never meets `Recorded` of its file.

`V2AnalysisProofs`, for every dataset, fault, kill and number of runs:

* `TypeCorrect`: `Spec => []TypeOK`, with `Position` added: which of `i`, `q` and `view` point at a
  sample, a question and a view in which part of the loop.
* `RowsNeverMixed`: `Spec => []RowsUnambiguous`. `CaptureInv` adds what the next row will be made of:
  during a call the queue holds at most the metadata of the question asked, and every file newer
  than `before` is of it. Files of earlier failures stay below `before`.
* `RowsNeverRepeat`: `Spec => []RowOnce`. `Fresh` adds that every row is of a question read back
  from the file at the start of the run, of one the loop has left behind, or of an earlier view
  of the current one; so the next row is new. `RowsOnlyFromWriteRow` shows that no other step,
  a kill in the middle of a line included, makes up a readable row.
* `PairsNeverRepeat`: `Spec => []PairOnce`. No key of the pairs is read back: a pair is new because its left
  question was not in the metrics when the run began (`PairsNew`), and a pair on file has rows for both
  questions (`BackedInv`), so its questions will be. A `Damaged` metrics file ends every later run before it writes.
* `PairsHaveRows`: `Spec => []PairBacked`. `CacheComplete` says that a cached question has a row for every view. Both
  hold while the metrics parse: a row is only lost to an append that leaves a line which does not (`MetricsKept`),
  whether an append failed, was killed or met a line without newline.
* `NoneForgotten`: `Spec => []Accounted`, from `LoopAccounted`: what the loop has gone past, and every key read back,
  has a row or is named in the error file, unless one of the two files does not parse (`Unsound`).
* `LeftoversNamed`: `Spec => []LeftoversExplained`. `LeftInv` counts the files of a call: it saves one at most,
  since the first encoder pass takes the metadata, and every other file is of a question in the error file.

`TrainLoaderProofs`, for all datasets, requests, numbers of workers, batch sizes and options, both modes and
every set of malformed lines:

* `DeliversOnce`: `Spec => []DeliveredOnce`; `EpochsAreComplete`: `Spec => []EpochComplete`; `ErrorsAreTold`:
  `Spec => []FaultsSurface`; `RoundRobinIsFair`: `Spec => []RoundRobinBalance`. All come from one invariant,
  `LoaderInv`.
* Its heart is that workers that never speak to each other agree on the order of the stream. `InTurn` relates
  the iterators still active to what each dataset has yielded: they stand in the order in which their next
  examples come (`Ahead`), none is more than one example from the first (`Near`), and one that has
  left is exhausted and was ahead. `TurnRotates`, `TurnStays` and `TurnExhausts` show that both modes and
  a `StopIteration` keep it. From it `NextIsKnown`: the example that comes next says how much of every dataset
  has been read before it (`ReadBefore`), hence its position in the stream, whichever worker reads it.
* So the share of a worker (`Due`) is a function of what it has read: shares are disjoint (`DueApart`), every
  example is in one (`DueToOne`), and reading on adds exactly the next example or nothing (`DueMore`). `PlaceInv`
  and `GotInv` say that an example is in one batch, one result or with the loop, and there once; `KeptInv` that
  what was due and is nowhere is what `drop_last` dropped, less than a batch of each worker, unless
  the worker has sent an error.
* `ReadInv` (what was read or exhausted could be read), `EndInv` (a worker that stopped without an error is
  at the end of its stream) and `TroubleInv` (an error has a cause) carry `ErrorsAreTold`.

`SingleStreamProofs`, for all datasets, command lines, faults, kills and numbers of runs:

* `OnlyKilledRunsLeaveFiles`: `Spec => []TempFilesRemoved`. `TempInv` counts a file that is remembered
  (`Held`) beside those left by kills, and says that none is remembered outside of a sample.
* `NoRecordLostUnexplained`: `Spec => []LossExplained`. `LossInv` follows the claim through the loops:
  `Passed` for the lines before the current one, `Ended` for a dataset whose loop has ended, `Before` for
  the datasets before it. Holding a sample on an unreadable line counts: lines are never taken away.
* `NothingTruncatedIsReported`: `Spec => []ReportComplete`. `OnceInv` adds to `LossInv` that a file that can
  be scored has one line per sample (`Singles`) and that the current sample is not among them (`Fresh`);
  then the lines and the samples of a complete file are in bijection (`LinesAreSamples`), which gives the
  total the scorer prints.
* `EachRerunGetsFurther`: `Spec => []StrictRunsAdvance`. `StopInv` counts the failure on its way out of the
  program as well: it has its record before it ends the run, so while files can be scored the failures are
  at most the ids on file.
* `CreditIsEarned`: `Spec => []CreditEarned`. `CreditInv` says that a line with predictions has one for each
  question of its sample (`AllRecords`), and how many the sample at hand has at each place (`Asked`). The
  rest is about the reader and the scorer alone: filtering questions and answers separately keeps
  them aligned unless one turn has lost its question and another its answer.

`VisionTokensProofs`, for every size of image, set of rows, batch size and configuration:

* `ClosestIsTarget`: the tiling is defined, and one of the target ratios, for every size: the order of
  distances is total, and a least one exists among finitely many (`ClosestExists`).
* `RowsMatch`: slots and rows are equal if and only if all local views are encoded with the T the slots were
  reserved for. It is what makes the code's count check enough.
* `TrainedAsReservedHolds`, `RegularRowsTrainHolds`, `SupervisedByOwnHolds`: from `TrainInv`, which relates
  what the template reserved, the collator read, the encoder filled and the maps it kept, at each stage.
  `Tried` adds that an encoded batch was reached with tries left, so that who stops there gave up.
* `PlaceholdersFilledHolds`: from `ServeInv`, that a request is what `Ask` makes of some image, and
  `PlaceholderRows`.

Every safety property of a passing run is a theorem. Only model-checked: termination (`Termination` of
`EvalResume` and `TrainLoader`) and the progress half of the refinement of `EvalLedger`, which are
liveness under fairness and out of the prover's reach. The violations of section 4 are counterexamples and need
no proof. The theorems of `EvalCleanProofs` and `NothingAskedTwice` are under
assumptions that their runs make as well (named in each).

## 6. Not modelled

* Vendored frameworks: DeepSeek-OCR-2, DeepSeek-V2 and ms-swift make up almost all of the lines of the
  repository. Only where this project hooks into them is modelled (E, K, L); their trainers, templates for
  other models and tensor code are other people's programs.
* Tensor code: the recurrence, gate, masks and residual of J, the losses and the isolation of gradients of
  L, the statistics of D, weight loading, image decoding.
* Floating point: ratios are compared exactly. The code's comparison can differ where two ratios that are
  not dyadic are equally close.
* Text functions: prompt wording, answer normalisation, ANLS and the relaxed comparison of numbers in I.
* The other readers of G: they differ from the one modelled in field names; what they yield is a constant of
  A, D and F.
* The single-stream evaluator with a dataset named twice; `EvalMain` has that case for the batched one.
* The visualization collector of A: `main` passes none (EV 3461).
* The selection of one scanpath per question (M): a sequential script that reads all, sorts and writes, with
  no state between runs. Shell scripts: preflight and environment variables around one call.

`components` in `PROJECT.json` gives the status of every part.

## 7. Plan

Done: 1. `EvalScheduler`, `EvalLedger`, `EvalResume`; 2. `V2Analysis`; 3. `EvalMain`; 4. `TrainLoader`;
5. `ImageViews` and `VisionTokens` (K, and the row counts of J and L); 6. `SingleStream` with `ChartBench` (H, I,
and the pairing of G); first theorems of each, those of `EvalResume` over all runs, and those
of a clean job with its refinement of the ledger; 7. the safety properties of every passing run as theorems.

Next: how far the theorems of a clean job reach without `Clean` (which of them survive a failing append, or
`<image>` in an answer under the recovery as it is); the lemmas of `TrainLoaderProofs` about folds and sums as a module of their own.
