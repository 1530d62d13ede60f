------------------------- MODULE MCUiDocumentStore -------------------------
(* Small instances of UiDocumentStore for TLC.                               *)
EXTENDS UiDocumentStore

\* A change, its undoing, a list that changes nothing and one that fails half way.
MCBatches ==
    {<<Nil>>, <<Clear>>}
    \cup {<<Put(n, v)>> : n \in NodeIds, v \in Contents}
    \cup {<<Put(n, v), Unsupported>> : n \in NodeIds, v \in Contents}
============================================================================
