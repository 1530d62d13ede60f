----------------------------- MODULE MCLLMCall -----------------------------
(* Three models: one without limits whose provider reports its own, one    *)
(* with requests per second and with tokens per minute, of which a request *)
(* costs more than the bucket can hold, and one without limits whose       *)
(* client has no timeout.                                                  *)
EXTENDS LLMCall, TLC

CONSTANTS rps, tpm, broker, c1, c2, k1, k2

MCBurst == [l \in Limiters |-> 1]

Pay(l, n, credit) == [lim |-> l, n |-> n, credit |-> credit]

Unlimited == [pay |-> <<>>, reports |-> TRUE, timeout |-> TRUE]
Limited == [pay |-> <<Pay(rps, 1, TRUE), Pay(tpm, 2, FALSE)>>, reports |-> FALSE, timeout |-> TRUE]
Patient == [pay |-> <<>>, reports |-> FALSE, timeout |-> FALSE]

\* Each goroutine runs in a chunk of its own, or one of them in none.
ChunkEach == (c1 :> k1) @@ (c2 :> k2)
ChunkOne  == (c1 :> k1) @@ (c2 :> NoChunk)

MCProfiles == {Unlimited, Limited, Patient}
=============================================================================
