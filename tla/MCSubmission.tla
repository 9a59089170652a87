---------------------------- MODULE MCSubmission ----------------------------
(***************************************************************************)
(* Instance of Submission for TLC.                                          *)
(***************************************************************************)
EXTENDS Submission

CONSTANT k1

\* No draft, one draft, two seeded drafts, and a list whose second draft is refused.
SmallBatches == {<<>>, <<"seeded">>, <<"seeded", "seeded">>, <<"plain", "colliding">>}
=============================================================================
