--------------------------- MODULE MCVisionTokens ---------------------------
EXTENDS VisionTokens

\* Within one view; 2 x 2 and 3 x 2 tiles; a tie of 3/2 and 2, won by 3 x 2;
\* the longest strip; just over the threshold in one side.
MCSizes == {[w |-> 640, h |-> 480], [w |-> 1536, h |-> 1536], [w |-> 1800, h |-> 1200],
            [w |-> 1764, h |-> 1008], [w |-> 500, h |-> 4000], [w |-> 769, h |-> 768],
            [w |-> 768, h |-> 1000]}
MCImages == [size : MCSizes, blank : Blanks]

\* A row with no local view and one with four; lengths at both ends, out of range and
\* missing; with and without a map, of its own length or of another.
MCRows ==
    {[image |-> [size |-> size, blank |-> blank], length |-> s[1], map |-> s[2]] :
        size \in {[w |-> 640, h |-> 480], [w |-> 1536, h |-> 1536]}, blank \in Blanks,
        s \in {<<1, 1>>, <<32, 32>>, <<7, None>>, <<7, 9>>, <<None, 9>>, <<None, None>>, <<33, 32>>}}
=============================================================================
