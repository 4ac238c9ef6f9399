--------------------------- MODULE MCReembedding ---------------------------
(* Instances of Reembedding for TLC: w1 runs the old version, w2 the new.  *)
EXTENDS Reembedding

CONSTANTS w1, w2

MCChunkCount == [b \in Contents |-> IF b % 2 = 1 THEN 2 ELSE 1]

TwoGenerations == [w \in Workers |-> IF w = w1 THEN OldVersion ELSE NewVersion]

MCPatches == {[body |-> TRUE, tags |-> FALSE, status |-> "keep", flags |-> {}],
              [body |-> FALSE, tags |-> TRUE, status |-> "published", flags |-> {}]}
=============================================================================
