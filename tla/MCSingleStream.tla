--------------------------- MODULE MCSingleStream ---------------------------
(* Instances of SingleStream for TLC. *)
EXTENDS SingleStream

Full(label) == [query |-> TRUE, label |-> label]
Open == [query |-> TRUE, label |-> NoLabel]
Mute(label) == [query |-> FALSE, label |-> label]
Sample(id, turns, image) == [kind |-> "sample", id |-> id, turns |-> turns, image |-> image]
Blank == [Sample(NoId, <<>>, "none") EXCEPT !.kind = "blank"]
Broken == [Blank EXCEPT !.kind = "broken"]

\* Two rows of ChartQA; ChartBench files with a missing image, a blank line before a sample whose id is also
\* the number of the next line, a line that does not parse, and the defects a
\* conversation may have.
Files ==
    {<<Sample(NoId, <<Full("yes")>>, "bytes"), Sample(NoId, <<Full("")>>, image)>> : image \in {"bytes", "none"}}
    \cup {<<Blank, Sample(id, <<Full("yes")>>, "path"), Sample(NoId, <<>>, "none")>> : id \in {NoId, 2}}
    \cup {<<Sample(NoId, <<Full("yes")>>, "none"), Broken>>}
    \cup {<<Sample(NoId, turns, "path")>> :
             turns \in {<<Full("yes"), Full("yes")>>, <<Open, Mute("yes")>>, <<Mute("yes"), Full("yes")>>,
                        <<Open, Full("")>>, <<Mute("")>>, <<Open>>}}
\* One dataset, or two of which the first cannot be read to its end.
OneOrTwoFiles ==
    {<<f>> : f \in Files}
    \cup {<<<<Sample(NoId, <<Full("yes")>>, "path"), Broken>>, <<Sample(NoId, <<Full("yes")>>, "bytes")>>>>}

AllArgs == [strict : BOOLEAN, overwrite : BOOLEAN, cap : {0, 1}]
=============================================================================
