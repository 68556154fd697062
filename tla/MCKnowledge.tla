---------------------------- MODULE MCKnowledge ----------------------------
(* TLC instances of Knowledge.                                                *)
EXTENDS Knowledge, TLC

\* Retrievers and the editors of sets share no state: one of them at a time is enough.
EachAlone == {{"retrievers"}, {"editors"}}

MCSymmetry == Permutations(Uploads) \union Permutations(Sets) \union Permutations(Readers)
              \union Permutations(Processes)
=============================================================================
