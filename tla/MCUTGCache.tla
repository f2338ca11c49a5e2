------------------------------ MODULE MCUTGCache ------------------------------
(* Instances of UTGCache for TLC: the event loop, which serves every HTTP    *)
(* route, beside a recording thread.                                         *)
EXTENDS UTGCache

CONSTANTS d1, d2, d3, loop, worker

OneDataset == {d1}
ThreeDatasets == {d1, d2, d3}
FreshDataset == {d2}
NoDataset == {}
LoopAndWorker == {loop, worker}
ReadAndRecord ==
    [t \in {loop, worker} |-> IF t = loop THEN {"read", "edit"} ELSE {"edit", "create"}]
ReadBesideEdit ==
    [t \in {loop, worker} |-> IF t = loop THEN {"read"} ELSE {"edit"}]
=============================================================================
