----------------------------- MODULE MCCampaign -----------------------------
(***************************************************************************)
(* Small instances of Campaign for TLC.                                    *)
(***************************************************************************)
EXTENDS Campaign

CONSTANTS positive, negative

TwoScenarios == {positive, negative}
OnePositive == {positive}
=============================================================================
