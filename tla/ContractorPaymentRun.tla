------------------------- MODULE ContractorPaymentRun -------------------------
(***************************************************************************)
(* WINNING_STATE and WINNING_RESULT: the answer of the contractor payment  *)
(* run that ap_payment_state_forger and state_rewrite write, as far as the *)
(* fields of the two documents constrain one another.                      *)
(***************************************************************************)
EXTENDS Naturals, FiniteSetsExt

ReleasedIds == {"INV-4501", "INV-4502", "INV-4503", "INV-4507"}
HeldIds == {"INV-4508", "INV-4509", "INV-4498"}
EscalatedIds == {"INV-4512"}
ReviewedIds ==
    {"INV-4501", "INV-4502", "INV-4503", "INV-4507",
     "INV-4508", "INV-4509", "INV-4512", "INV-4498"}

ReasonOf ==
    [i \in HeldIds \cup EscalatedIds |->
        CASE i \in {"INV-4508", "INV-4509"} -> "unapproved bank change"
          [] i = "INV-4498" -> "already settled"
          [] i = "INV-4512" -> "over PO tolerance"]

\* authority_checks: a changed bank account and where its approval stands.
Approval ==
    [i \in ReviewedIds |->
        CASE i = "INV-4507" -> "APPROVED"
          [] i = "INV-4508" -> "PENDING_SECOND_APPROVAL"
          [] i = "INV-4509" -> "REQUESTED"
          [] OTHER -> "NONE"]

MatchesMaster == ReviewedIds \ {"INV-4508", "INV-4509"}

PaymentAmount ==
    [i \in ReleasedIds |->
        CASE i = "INV-4501" -> 8400
          [] i = "INV-4502" -> 12750
          [] i = "INV-4503" -> 6200
          [] i = "INV-4507" -> 15300]

WinningResult ==
    [payment_count |-> 4, total_released_amount |-> 42650,
     released |-> {"INV-4501", "INV-4502", "INV-4503", "INV-4507"},
     held |-> {"INV-4508", "INV-4509", "INV-4498"}, escalated |-> {"INV-4512"}]

\* Every reviewed invoice has exactly one disposition.
ASSUME DispositionsPartition ==
    /\ ReviewedIds = ReleasedIds \cup HeldIds \cup EscalatedIds
    /\ ReleasedIds \cap HeldIds = {}
    /\ ReleasedIds \cap EscalatedIds = {}
    /\ HeldIds \cap EscalatedIds = {}

\* The result summarises the state: the same dispositions, the same money.
ASSUME ResultAgreesWithState ==
    /\ WinningResult.released = ReleasedIds
    /\ WinningResult.held = HeldIds
    /\ WinningResult.escalated = EscalatedIds
    /\ WinningResult.payment_count = Cardinality(ReleasedIds)
    /\ WinningResult.total_released_amount =
          FoldSet(LAMBDA i, sum : PaymentAmount[i] + sum, 0, ReleasedIds)

\* Authority: no payment goes to an account that is not the one of record,
\* and an unapproved change is a hold for exactly that reason.
ASSUME AuthorityCoheres ==
    /\ ReleasedIds \subseteq MatchesMaster
    /\ \A i \in ReleasedIds : Approval[i] \in {"NONE", "APPROVED"}
    /\ {i \in HeldIds : ReasonOf[i] = "unapproved bank change"}
          = {i \in ReviewedIds : Approval[i] \notin {"NONE", "APPROVED"}}
=============================================================================
