-------------------------- MODULE MCCampaignView --------------------------
(* TLC instances of CampaignView.                                             *)
EXTENDS CampaignView, TLC

\* The calls and the run share no state: one of them at a time is enough.
EachAlone == {{"calls"}, {"run"}}

MCSymmetry == Permutations(Calls)
=============================================================================
