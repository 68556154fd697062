-------------------------- MODULE MCCampaignQueue --------------------------
(* TLC instances of CampaignQueue.                                            *)
EXTENDS CampaignQueue, TLC

CONSTANT c1
\* The decisions are all on one of the campaigns.
BothOnOne == [d \in Decisions |-> c1]
=============================================================================
