----------------------------- MODULE TrainLoader -----------------------------
(***************************************************************************)
(* One epoch of build_train_dataloader in train_dataloader.py.  Every      *)
(* worker process of the DataLoader walks through the whole stream of      *)
(* iter_train_examples with iterators of its own and keeps the examples    *)
(* whose position falls to it; it collates them in batches, and the main   *)
(* process receives the batches of all workers.                            *)
(*                                                                         *)
(* Abstractions.  An example is <<dataset, sample, question>>; the sample  *)
(* ids of a dataset are distinct.  torch's DataLoader is external: a       *)
(* worker works ahead by at most Prefetch batches, and the main process    *)
(* may receive from the workers in any order, while torch goes round them. *)
(***************************************************************************)
EXTENDS Integers, Sequences, FiniteSets, SequencesExt, FiniteSetsExt

CONSTANTS
    Questions,   \* dataset -> the number of questions of each of its samples
    PerQuestion, \* the datasets with an example for every question (ChartBench)
    TrainOnly,   \* the datasets that have no other split than "train"
    Requests,    \* the dataset_name arguments considered: sequences of supported names
    Splits, Modes, NumWorkers, BatchSizes, \* the values of these arguments considered
    DropLasts, LoadTargets,
    Targets,     \* example -> the shape of its fixation targets, or NoTargets
    NoTargets,   \* no fixation map, or one that does not agree with the annotation
    Unreadables, \* the sets of <<dataset, k>> considered: reading the k-th example raises
    Prefetch     \* prefetch_factor of the DataLoader

Datasets == DOMAIN Questions

\* _iter_sample_qa_pairs: one example per question, or only the first question.
Yield(d, n) == IF d \in PerQuestion \/ n = 0 THEN n ELSE 1

\* _iter_train_examples_for_dataset
Examples(d) ==
    FlattenSeq([s \in 1 .. Len(Questions[d]) |->
                   [q \in 1 .. Yield(d, Questions[d][s]) |-> <<d, s, q>>]])
AllExamples == UNION {ToSet(Examples(d)) : d \in Datasets}

ASSUME LoaderAssumption ==
    /\ \A d \in Datasets : Questions[d] \in Seq(Nat)
    /\ PerQuestion \subseteq Datasets /\ TrainOnly \subseteq Datasets
    /\ \A r \in Requests : r \in Seq(Datasets) /\ r # <<>>
    /\ Modes \subseteq {"round_robin", "concat"}
    /\ NumWorkers \subseteq Nat /\ BatchSizes \subseteq Nat \ {0}
    /\ DropLasts \subseteq BOOLEAN /\ LoadTargets \subseteq BOOLEAN
    /\ AllExamples \subseteq DOMAIN Targets
    /\ Prefetch \in Nat \ {0}

VARIABLES
    \* The arguments of build_train_dataloader, and the state of the files; fixed.
    request, split, mode, numWorkers, batchSize, dropLast, loadTargets, unreadable,
    \* Of every worker:
    turn,      \* the iterators still active, the next one first (active_names)
    pos,       \* how many examples each iterator has yielded
    idx,       \* example_idx
    batch,     \* the batch the worker is collecting
    results,   \* what it sent and the main process has not received
    working,   \* whether it will send more
    \* Of the main process:
    delivered, \* example -> how often the training loop got it
    main       \* "loop", "done" or "raised"

arguments == <<request, split, mode, numWorkers, batchSize, dropLast, loadTargets, unreadable>>
stream == <<turn, pos, idx>>
vars == <<arguments, stream, batch, results, working, delivered, main>>

-----------------------------------------------------------------------------

\* _normalize_train_dataset_names
Once(names, d) == IF Contains(names, d) THEN names ELSE Append(names, d)
Names == FoldLeft(Once, <<>>, request)

\* Without workers the main process reads the stream itself.
Workers == IF numWorkers = 0 THEN {0} ELSE 0 .. numWorkers - 1

\* (Mine_All: every worker keeps everything.)
Mine_All(w) == TRUE
Mine(w) == numWorkers = 0 \/ idx[w] % numWorkers = w

\* The worker has been asked for a batch that is not full yet.
Reading(w) ==
    /\ main = "loop" /\ working[w]
    /\ Len(results[w]) < Prefetch /\ Len(batch[w]) < batchSize

\* Reading the next example of d raises: the split does not exist (_validate_train_split),
\* or its line or row is malformed.
Raises(w, d) ==
    \/ d \in TrainOnly /\ split # "train"
    \/ <<d, pos[w][d] + 1>> \in unreadable

\* round_robin passes on to the next dataset, concat stays with this one.
\* (Rotate_Stays: so does round_robin.)
Rotate_Stays(names) == names
Rotate(names) == IF mode = "round_robin" THEN Append(Tail(names), Head(names)) ELSE names

Count(w) == idx' = [idx EXCEPT ![w] = @ + 1]

\* next(iterator) yields; __iter__ passes the example on or leaves it to another worker.
Take(w) ==
    /\ Reading(w) /\ turn[w] # <<>>
    /\ LET d == Head(turn[w])
       IN /\ ~Raises(w, d) /\ pos[w][d] < Len(Examples(d))
          /\ pos' = [pos EXCEPT ![w][d] = @ + 1]
          /\ turn' = [turn EXCEPT ![w] = Rotate(@)]
          /\ Count(w)
          /\ batch' = IF Mine(w) THEN [batch EXCEPT ![w] = Append(@, Examples(d)[pos[w][d] + 1])]
                                 ELSE batch
    /\ UNCHANGED <<arguments, results, working, delivered, main>>

\* StopIteration of one dataset.
\* (Exhaust_StopsAll: the shortest dataset ends the stream.)
\* (Exhaust_Stays: the exhausted dataset keeps its turn.)
Exhausted(w) ==
    /\ Reading(w) /\ turn[w] # <<>>
    /\ LET d == Head(turn[w]) IN ~Raises(w, d) /\ pos[w][d] = Len(Examples(d))
    /\ UNCHANGED <<arguments, pos, idx, batch, results, working, delivered, main>>
Exhaust_StopsAll(w) == Exhausted(w) /\ turn' = [turn EXCEPT ![w] = <<>>]
Exhaust_Stays(w) == Exhausted(w) /\ turn' = [turn EXCEPT ![w] = Append(Tail(@), Head(@))]
Exhaust(w) == Exhausted(w) /\ turn' = [turn EXCEPT ![w] = Tail(@)]

\* collate_train_examples
Collatable(b) ==
    loadTargets => /\ \A k \in DOMAIN b : Targets[b[k]] # NoTargets
                   /\ \A k \in DOMAIN b : Targets[b[k]] = Targets[b[1]]

Batch(b) == [kind |-> IF Collatable(b) THEN "batch" ELSE "error",
             examples |-> IF Collatable(b) THEN b ELSE <<>>]
Signal(kind) == [kind |-> kind, examples |-> <<>>]

\* The dataset's own exception goes to the main process with the batch that meets it.
\* (ReadFails_Ends: the worker takes it for the end of the stream.)
ReadFailsAs(w, kind) ==
    /\ Reading(w) /\ turn[w] # <<>> /\ Raises(w, Head(turn[w]))
    /\ results' = [results EXCEPT ![w] = Append(@, Signal(kind))]
    /\ batch' = [batch EXCEPT ![w] = <<>>]
    /\ working' = [working EXCEPT ![w] = FALSE]
    /\ UNCHANGED <<arguments, stream, delivered, main>>
ReadFails_Ends(w) == ReadFailsAs(w, "end")
ReadFails(w) == ReadFailsAs(w, "error")

Full(w) == Len(batch[w]) = batchSize

SendBatch(w) ==
    /\ main = "loop" /\ working[w] /\ Full(w)
    /\ results' = [results EXCEPT ![w] = Append(@, Batch(batch[w]))]
    /\ batch' = [batch EXCEPT ![w] = <<>>]
    /\ working' = [working EXCEPT ![w] = Collatable(batch[w])]
    /\ UNCHANGED <<arguments, stream, delivered, main>>

\* The stream is exhausted: the last batch goes unless drop_last, then the end.
EndStream(w) ==
    /\ Reading(w) /\ turn[w] = <<>>
    /\ LET last == IF batch[w] = <<>> \/ dropLast THEN <<>> ELSE <<Batch(batch[w])>>
       IN results' = [results EXCEPT ![w] = @ \o last \o <<Signal("end")>>]
    /\ batch' = [batch EXCEPT ![w] = <<>>]
    /\ working' = [working EXCEPT ![w] = FALSE]
    /\ UNCHANGED <<arguments, stream, delivered, main>>

-----------------------------------------------------------------------------
(* The main process. *)

Receive(w) ==
    /\ main = "loop" /\ results[w] # <<>>
    /\ LET r == Head(results[w])
       IN /\ delivered' = [e \in AllExamples |->
                              delivered[e] + Cardinality({k \in DOMAIN r.examples : r.examples[k] = e})]
          /\ main' = IF r.kind = "error" THEN "raised" ELSE "loop"
    /\ results' = [results EXCEPT ![w] = Tail(@)]
    /\ UNCHANGED <<arguments, stream, batch, working>>

EndEpoch ==
    /\ main = "loop"
    /\ \A w \in Workers : ~working[w] /\ results[w] = <<>>
    /\ main' = "done"
    /\ UNCHANGED <<arguments, stream, batch, results, working, delivered>>

Finished == main # "loop" /\ UNCHANGED vars

Init ==
    /\ request \in Requests /\ split \in Splits /\ mode \in Modes
    /\ numWorkers \in NumWorkers /\ batchSize \in BatchSizes
    /\ dropLast \in DropLasts /\ loadTargets \in LoadTargets
    /\ unreadable \in Unreadables
    /\ turn = [w \in Workers |-> Names]
    /\ pos = [w \in Workers |-> [d \in Datasets |-> 0]]
    /\ idx = [w \in Workers |-> 0]
    /\ batch = [w \in Workers |-> <<>>]
    /\ results = [w \in Workers |-> <<>>]
    /\ working = [w \in Workers |-> TRUE]
    /\ delivered = [e \in AllExamples |-> 0]
    /\ main = "loop"

Next ==
    \/ \E w \in Workers : \/ Take(w) \/ Exhaust(w) \/ ReadFails(w)
                          \/ SendBatch(w) \/ EndStream(w) \/ Receive(w)
    \/ EndEpoch
    \/ Finished

Spec == Init /\ [][Next]_vars /\ WF_vars(Next)

-----------------------------------------------------------------------------
(* Properties. *)

Requested == UNION {ToSet(Examples(d)) : d \in ToSet(Names)}
Faulty == {d \in ToSet(Names) : \/ d \in TrainOnly /\ split # "train"
                                \/ \E k \in 1 .. Len(Examples(d)) + 1 : <<d, k>> \in unreadable}

\* Workers that read on their own, each as fast as it can, never train on an example
\* twice in one epoch, also when a dataset is named twice (__iter__).
DeliveredOnce == \A e \in AllExamples : delivered[e] <= 1

\* An epoch that ends normally has delivered every example of every dataset that was
\* asked for and no other; with drop_last each worker keeps back less than a batch.
EpochComplete ==
    main = "done" =>
        LET missing == {e \in Requested : delivered[e] = 0}
        IN /\ \A e \in AllExamples \ Requested : delivered[e] = 0
           /\ IF dropLast THEN Cardinality(missing) <= Cardinality(Workers) * (batchSize - 1)
                          ELSE missing = {}

\* An error in a worker reaches the training loop, and the loop fails for no other reason:
\* an epoch over a dataset that cannot be read to its end never looks complete, and no
\* example comes without the targets that were asked for (collate_train_examples).
FaultsSurface ==
    /\ main = "done" => Faulty = {}
    /\ main = "raised" =>
         \/ Faulty # {}
         \/ loadTargets /\ \E e, f \in Requested :
                 Targets[e] = NoTargets \/ Targets[e] # Targets[f]
    /\ loadTargets => \A e \in AllExamples : delivered[e] > 0 => Targets[e] # NoTargets

\* round_robin takes the datasets in turn: those not exhausted are never more than one
\* example apart, and no exhausted one is ahead (iter_train_examples).
RoundRobinBalance ==
    mode = "round_robin" =>
        \A w \in Workers : \A d \in ToSet(turn[w]) : \A other \in ToSet(Names) :
            /\ other \in ToSet(turn[w]) => pos[w][other] <= pos[w][d] + 1
            /\ other \notin ToSet(turn[w]) => pos[w][other] <= pos[w][d]

\* Every epoch ends, normally or with the error of a worker: no exhausted dataset keeps
\* iter_train_examples busy.
Termination == <>(main # "loop")
=============================================================================
