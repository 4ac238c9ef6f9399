----------------------------- MODULE MCArticles -----------------------------
(* Instances of Articles for TLC.                                          *)
EXTENDS Articles, TLC

CONSTANTS r1, r2, r3, claude, tool, timeout

\* Two records of the first week, one of the second.
MCWeek == [r \in Records |-> IF r = r3 THEN 2 ELSE 1]

\* The reports of the model hold those of the tool.
MCAxes == [r \in Records |-> IF r = r1 THEN {claude} ELSE {claude, tool}]
MCTags == [r \in Records |-> IF r = r3 THEN {} ELSE {timeout}]

Drafts == {[body |-> TRUE, status |-> "draft"]}

Rejections == {[body |-> FALSE, status |-> "rejected"]}

\* Writing a draft, taking it up without a text, rejecting it.
AllPatches == Rejections \cup {[body |-> TRUE, status |-> "keep"],
                               [body |-> FALSE, status |-> "draft"],
                               [body |-> TRUE, status |-> "draft"]}

NoLabels == [r \in Records |-> {}]

TwoBatches == Permutations(Batches)
-----------------------------------------------------------------------------
(* Editors and judges beside the batch: records appear and are published,   *)
(* but none is taken back or flagged, and the week does not end.            *)

EditorsNext ==
    \/ \E r \in Records, s \in {"draft", "published"} : CreateRecord(r, s, FALSE)
    \/ \E r \in Records : PublishRecord(r)
    \/ GiveFeedback
    \/ \E b \in Batches : Batch(b)
    \/ \E e \in Editors : Editor(e)

EditorsSpec == ArticlesInit /\ [][EditorsNext]_articleVars
=============================================================================
