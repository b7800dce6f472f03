---------------------------- MODULE MCCampaigns ----------------------------
(* Small instances of Campaigns.                                           *)
EXTENDS Campaigns

Recurrences == {Once, 1}
=============================================================================
