------------------------------ MODULE MCRunner ------------------------------
(* Instances of Runner for TLC.                                            *)
EXTENDS Runner

CONSTANTS a, b, c, d

\* Two prompts with a common beginning, and one too long for a context of three.
PromptsShared ==
    [r \in Req |-> CASE r = a -> <<1, 1>> [] r = b -> <<1, 2>> [] r = c -> <<1, 1, 1, 1>>]
\* Completions, one with a prompt to be truncated, and embeddings.
PromptsLong ==
    [r \in Req |-> CASE r = a -> <<1, 1>> [] r = b -> <<1, 2, 1>>
                     [] r = c -> <<1>> [] r = d -> <<1, 2>>]
PromptsShort == [r \in Req |-> <<1>>]

\* A model that completes, with batches of n inputs, and an encoder.
Completes(n) == [supportsAsync |-> TRUE, cacheEnabled |-> TRUE, batchSize |-> n]
Encoder == [supportsAsync |-> FALSE, cacheEnabled |-> FALSE, batchSize |-> NumCtx]
ModelsPair == {Completes(2)}
ModelsWhole == {Completes(NumCtx)}
ModelsBoth == {Completes(1), Encoder}

NoLimit == [r \in Req |-> 0]
LimitOne == [r \in Req |-> 1]
LimitMixed == [r \in Req |-> IF r = b THEN 1 ELSE 2]

KeepNone == [r \in Req |-> 0]
KeepMixed == [r \in Req |-> CASE r = a -> 1 [] r = b -> 0 [] OTHER -> -1]
=============================================================================
