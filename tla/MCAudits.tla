------------------------------ MODULE MCAudits ------------------------------
(***************************************************************************)
(* The instances of MCCampaign, seen by the views, the scanners and the    *)
(* helpers as well as by Campaign's own properties.                        *)
(***************************************************************************)
EXTENDS MCCampaign, CampaignAudits, CampaignHelpers

MCOffsets == 1..2
MCGoals == 2..3
=============================================================================
