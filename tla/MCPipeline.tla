----------------------------- MODULE MCPipeline -----------------------------
(* Small instances of the pipeline.                                        *)
EXTENDS Pipeline, TLC

CONSTANTS f1, q1

JustOne == <<f1>>
NoOrder == <<>>
\* Enough for any gate: Rightsizing has the analyzer's own confidence.
AllHigh == [f \in Findings |-> 3]

Live == [apply |-> TRUE, nudge |-> TRUE, nudgeLive |-> TRUE, gc |-> TRUE, gcLive |-> TRUE]
Dry == [apply |-> FALSE, nudge |-> TRUE, nudgeLive |-> FALSE, gc |-> TRUE, gcLive |-> FALSE]
Off == [apply |-> FALSE, nudge |-> FALSE, nudgeLive |-> FALSE, gc |-> FALSE, gcLive |-> FALSE]
LiveDryOrOff == {Live, Dry, Off}
OnlyLive == {Live}

\* All outside actors, but not all at once.
Around == {{"halt", "cordon", "pods", "crash", "expiry"},
           {"halt", "labels", "usage", "crash", "expiry"}}
OnlyCordons == {{"cordon"}}
=============================================================================
