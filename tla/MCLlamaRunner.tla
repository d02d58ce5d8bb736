--------------------------- MODULE MCLlamaRunner ---------------------------
(* Instances of LlamaRunner for TLC.                                       *)
EXTENDS LlamaRunner

CONSTANTS a, b, c, d

\* Prompts that part at different places: at the end of the context and before.
PromptsMixed ==
    [r \in Req |-> CASE r = a -> <<1, 1, 1, 2>> [] r = b -> <<1, 1, 1>> [] r = c -> <<1, 2>>
                     [] r = d -> <<1, 1>>]
PredictMixed == [r \in Req |-> IF r = c THEN 5 ELSE 3]
KeepMixed == [r \in Req |-> IF r = a THEN 1 ELSE 0]
=============================================================================
