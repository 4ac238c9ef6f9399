-------------------------- MODULE MCKnowledgeStore --------------------------
(* Instances of KnowledgeStore for TLC.                                    *)
EXTENDS KnowledgeStore

CONSTANTS w1, w2

\* Bodies shrink and grow again: two chunks, one, two, ...
MCChunkCount == [b \in Contents |-> IF b % 2 = 1 THEN 2 ELSE 1]

OneGeneration == [w \in Workers |-> 1]

Edit(body, tags, status, flags) ==
    [body |-> body, tags |-> tags, status |-> status, flags |-> flags]

\* Text edits and status changes, alone and together.
TextPatches == {Edit(FALSE, TRUE, "draft", {}), Edit(FALSE, FALSE, "published", {}),
                Edit(TRUE, FALSE, "published", {})}

\* No unpublication.
EditPatches == {Edit(TRUE, FALSE, "keep", {}), Edit(FALSE, FALSE, "published", {})}

StatusPatches == {Edit(FALSE, FALSE, "draft", {}), Edit(FALSE, FALSE, "published", {})}
=============================================================================
