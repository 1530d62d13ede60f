----------------------------- MODULE MCWorkerRun -----------------------------
(* Small instances of WorkerRun for TLC.                                    *)
EXTENDS WorkerRun, TLC

CONSTANTS up, down, x, y, z, n, p

\* One worker that reads the output of another.
MCRequires == [w \in Workers |-> IF w = down THEN {up} ELSE {}]
MCTexts == [w \in Workers |-> IF w = down THEN {z} ELSE {x, y}]
MCParams == [w \in Workers |-> IF w = down THEN {p} ELSE {n}]

\* x and y are the answers of up only.
MCSymmetry == Permutations(Slots) \cup Permutations({x, y})
=============================================================================
