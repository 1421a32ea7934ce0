-------------------------------- MODULE Gates --------------------------------
(***************************************************************************)
(* The checks a world's gate runs on the evidence of an execution, as the  *)
(* probes describe them (the docstring of state_rewrite.py).  The gate is  *)
(* the consumer's: these are the promises the probes are built against.    *)
(* Evidence is a set of rows [verb, inv, reason, at], `at` the position of *)
(* the row; claimed[v] is the set of invoices the final state says v was   *)
(* done to.                                                                *)
(***************************************************************************)
EXTENDS Naturals, FiniteSets

Dispositions == {"release_payment", "hold_payment", "escalate_invoice"}

Calls(rows, verb) == {r \in rows : r.verb = verb}

\* Coverage: every tool the state implies was called at least once.
Covers(trajectory, claimed) ==
    \A v \in DOMAIN claimed : claimed[v] # {} => Calls(trajectory, v) # {}

\* The ledger says of each verb what the state says, as often as it says it.
LedgerAgrees(ledger, claimed) ==
    \A v \in DOMAIN claimed :
        Cardinality(Calls(ledger, v)) = Cardinality(claimed[v])

\* A hold or an escalation carries the reason the state records for it.
ReasonsAgree(ledger, reason) ==
    \A r \in Calls(ledger, "hold_payment") \cup Calls(ledger, "escalate_invoice") :
        r.reason = reason[r.inv]

\* Every disposition follows a review and then a verification of its invoice.
ReviewedFirst(rows) ==
    \A d \in rows :
        d.verb \in Dispositions =>
            \E r, w \in rows :
                /\ r.verb = "review_invoice" /\ w.verb = "verify_vendor_account"
                /\ r.inv = d.inv /\ w.inv = d.inv
                /\ r.at < w.at /\ w.at < d.at

\* Magnitude: the verbs of which the trajectory shows fewer calls than the
\* state claims, max(1, state count) each.
Short(trajectory, claimed) ==
    {v \in DOMAIN claimed :
        \/ Calls(trajectory, v) = {}
        \/ Cardinality(Calls(trajectory, v)) < Cardinality(claimed[v])}

Reconciles(trajectory, claimed) == Short(trajectory, claimed) = {}
=============================================================================
