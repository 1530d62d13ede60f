---------------------- MODULE MCHeavierStartScheduler ----------------------
(* A small instance of HeavierStartScheduler for TLC.                        *)
EXTENDS HeavierStartScheduler

\* Edges only from lower to higher ids: every unlabelled DAG once or more.
UpperGraphs == {g \in [Nodes -> SUBSET Nodes] : \A u \in Nodes : \A v \in g[u] : u < v}

\* Every directed graph on the nodes below N, cyclic ones and self-loops too.
LowerGraphs == {g \in [Nodes -> SUBSET (Nodes \ {N})] : g[N] = {}}

MCInit == adj \in UpperGraphs \cup LowerGraphs /\ targets \in {{N}, Nodes} /\ Init

MCSpec == MCInit /\ [][Next]_vars /\ Fairness

============================================================================
