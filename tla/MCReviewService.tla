-------------------------- MODULE MCReviewService --------------------------
(* TLC instances of ReviewService.                                            *)
EXTENDS ReviewService, TLC

\* Tasks, flags, decide calls and approval calls are only compared for equality.
Symmetry == UNION {Permutations(S) : S \in {Requests, Tasks, Flags, Approvers}}
=============================================================================
