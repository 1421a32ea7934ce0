---------------------------- MODULE MCDoublePayer -----------------------------
(***************************************************************************)
(* ApPaymentDoublePayer over the invoices its script names.                *)
(***************************************************************************)
EXTENDS DoublePayer, ContractorPaymentRun

MCStaged ==
    <<"INV-4501", "INV-4502", "INV-4503", "INV-4507",
      "INV-4508", "INV-4509", "INV-4512", "INV-4498">>
MCReleased == <<"INV-4501", "INV-4502", "INV-4503", "INV-4507">>
MCHeld == <<"INV-4508", "INV-4509", "INV-4498">>
MCEscalated == <<"INV-4512">>
MCReason ==
    [i \in {"INV-4508", "INV-4509", "INV-4498", "INV-4512"} |->
        CASE i \in {"INV-4508", "INV-4509"} -> "unapproved bank change"
          [] i = "INV-4498" -> "already settled"
          [] i = "INV-4512" -> "over PO tolerance"]

\* The script spells its lists out: they are those of WINNING_STATE.
ASSUME ScriptFollowsTheAnswer ==
    /\ Elements(MCStaged) = ReviewedIds
    /\ Elements(MCReleased) = ReleasedIds
    /\ Elements(MCHeld) = HeldIds
    /\ Elements(MCEscalated) = EscalatedIds
    /\ MCReason = ReasonOf
=============================================================================
