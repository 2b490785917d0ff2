------------------------- MODULE MCResearchCampaign -------------------------
(***************************************************************************)
(* Instance of ResearchCampaign for TLC.                                   *)
(***************************************************************************)
EXTENDS ResearchCampaign

\* The files that are written together, or that campaign verify does not read, are
\* deleted together.
MCDeletedTogether ==
    {{"state"}, {"ledger", "trials"}, {"summary", "graph"},
     {"landscape", "selected", "rejected", "proposal", "results"}}
=============================================================================
