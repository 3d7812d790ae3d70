---------------------------- MODULE MCTrainLoader ----------------------------
(* Three datasets with questions to skip, a sample without any, and one example whose *)
(* fixation targets have another shape.                                               *)
EXTENDS TrainLoader

MCQuestions == [ChartBench |-> <<2, 0, 1>>, ChartQA |-> <<3>>, SalChartQA |-> <<1, 1, 1>>]

MCRequests == {<<"ChartBench", "ChartQA">>, <<"SalChartQA">>,
               <<"ChartQA", "SalChartQA", "ChartQA">>}

\* Only SalChartQA has targets; those of its last sample have another shape.
MCTargets ==
    [e \in AllExamples |-> IF e[1] # "SalChartQA" THEN "none"
                           ELSE IF e[2] = 3 THEN "long" ELSE "short"]

\* Everything can be read, or the second example of ChartQA (after its last) raises.
MCUnreadables == {{}, {<<"ChartQA", 2>>}}

=============================================================================
