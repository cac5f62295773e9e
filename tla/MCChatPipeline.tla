-------------------------- MODULE MCChatPipeline --------------------------
(* Small instances of ChatPipeline for TLC. *)
EXTENDS ChatPipeline, TLC

CONSTANTS t1, nova, opus, off, foreign

Ask(m, len, b, n, c, w) ==
    [tenant |-> t1, model |-> m, lenient |-> len, bytes |-> b, maxTokens |-> n,
     content |-> c, restricted |-> w]

MCCatalog == {nova, opus, off}
MCInPrice == [m \in MCCatalog |-> 1]
MCOutPrice == [m \in MCCatalog |-> 1]

\* One input per verdict of the pipeline, on a model that is premium, one
\* that is disabled and one that is neither.
GovernanceInputs ==
    { Ask(nova, FALSE, 4, 1, "clean", FALSE),
      Ask(nova, FALSE, 4, 0, "findings", FALSE),
      Ask(nova, FALSE, 4, 3, "clean", TRUE),
      Ask(opus, FALSE, 4, 1, "clean", FALSE),
      Ask(off, TRUE, 4, 1, "clean", FALSE),
      Ask(foreign, TRUE, 4, 1, "clean", FALSE),
      Ask(foreign, FALSE, 4, 1, "clean", FALSE) }

\* A caller that names no max_tokens.
SpendInputs == { Ask(nova, FALSE, 7, 0, "clean", FALSE) }

RequestSymmetry == Permutations(Requests)
=============================================================================
