----------------------------- MODULE PaymentTools -----------------------------
(***************************************************************************)
(* The world's tools-lib.ts as ap_payment_double_payer drives it: the      *)
(* state the six tools change, and how a call can be answered.  A tool     *)
(* fails by returning isError or by throwing.  It does so when the world   *)
(* detects a duplicate payment, at the release or at the submission, and   *)
(* for reasons of its own (fixture drift, a state that was never set up),  *)
(* before its effect or, unless the tools are atomic, after it.            *)
(***************************************************************************)
EXTENDS Naturals

CONSTANT Ids        \* the invoices of the world

\* A world: where it detects duplicates, and whether a tool that fails has had
\* no effect.
Policies == [detects : {"never", "release", "submit"}, atomic : BOOLEAN]

Call(verb, inv, reason) == [verb |-> verb, inv |-> inv, reason |-> reason]

EmptyWorld ==
    [reviewed |-> {}, verified |-> {}, paid |-> [i \in Ids |-> 0],
     stopped |-> {}, submitted |-> FALSE]

\* The world after a call that had its effect.
Effect(w, c) ==
    CASE c.verb = "review_invoice" ->
            [w EXCEPT !.reviewed = @ \cup {c.inv}]
      [] c.verb = "verify_vendor_account" ->
            [w EXCEPT !.verified = @ \cup {c.inv}]
      [] c.verb = "release_payment" ->
            [w EXCEPT !.paid[c.inv] = @ + 1]
      [] c.verb \in {"hold_payment", "escalate_invoice"} ->
            [w EXCEPT !.stopped = @ \cup {c}]
      [] c.verb = "submit_payment_run" ->
            [w EXCEPT !.submitted = TRUE]

\* Does the world take this call for a duplicate payment?
DetectsDuplicate(w, c, policy) ==
    \/ policy.detects = "release" /\ c.verb = "release_payment" /\ w.paid[c.inv] > 0
    \/ /\ policy.detects = "submit" /\ c.verb = "submit_payment_run"
       /\ \E i \in Ids : w.paid[i] > 1

Failures == {"isError", "throw"}

\* The answers to a call: what the caller sees, the world it leaves, and
\* whether it is a failure that has nothing to do with duplicates.
Answers(w, c, policy) ==
    IF DetectsDuplicate(w, c, policy)
    THEN {[reply |-> f, world |-> w, unrelated |-> FALSE] : f \in Failures}
    ELSE {[reply |-> "ok", world |-> Effect(w, c), unrelated |-> FALSE]}
            \cup {[reply |-> f, world |-> v, unrelated |-> TRUE] :
                    f \in Failures, v \in {w} \cup IF policy.atomic THEN {} ELSE {Effect(w, c)}}
=============================================================================
