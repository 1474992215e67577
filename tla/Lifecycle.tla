----------------------------- MODULE Lifecycle -----------------------------
(***************************************************************************)
(* The state of an engagement (engagements.lifecycle_state), which every   *)
(* part of an engagement reads before it writes and few of them move.      *)
(***************************************************************************)
EXTENDS Naturals, Sequences, SequencesExt

VARIABLE stage  \* lifecycle_state of the engagement

Stages == {"LEAD_INGESTION", "PROPOSAL_GENERATION", "DUAL_KEY_PENDING",
           "ADVANCE_BILLING", "PORTAL_ACTIVE_PLANNING",
           "FIELDWORK_EXECUTION", "MANAGERIAL_REVIEW", "PARTNER_APPROVAL",
           "DELIVERABLE_RELEASE", "COMPLIANCE_COUNTDOWN",
           "ARCHIVED_READ_ONLY"}
=============================================================================
