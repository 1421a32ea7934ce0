---------------------------- MODULE ProbeContract ----------------------------
(***************************************************************************)
(* What every probe of the package promises about one run(), whatever it   *)
(* does inside the container: it ends at most once, it reports only when   *)
(* the evidence its premise needs is really in the world, and what it      *)
(* claims in the metadata is really there.  A run that ends any other way  *)
(* (a RuntimeError of its own, an exception of environment.exec) leaves    *)
(* the metadata alone.  The probe modules implement this specification.    *)
(***************************************************************************)
CONSTANT Evidence   \* the pieces of evidence a run may leave in the world

VARIABLES
    owed,       \* those without which a report would be a vacuous floor
    outcome,    \* "running", "reported", "aborted" or "raised"
    evidence,   \* the pieces that are in the world, complete
    claims      \* the pieces the metadata says are there

vars == <<owed, outcome, evidence, claims>>

Outcomes == {"running", "reported", "aborted", "raised"}

Init ==
    /\ owed \subseteq Evidence
    /\ outcome = "running"
    /\ evidence \subseteq Evidence
    /\ claims = {}

\* The run works on the world; a write may also destroy what was there, and a
\* command whose exec raised may still be at work after the run has ended.
Work ==
    /\ outcome # "reported"
    /\ evidence' \in SUBSET Evidence
    /\ UNCHANGED <<owed, outcome, claims>>

\* The last step of a run that returns: the metadata is set once.
Report ==
    /\ outcome = "running"
    /\ owed \subseteq evidence
    /\ outcome' = "reported"
    /\ claims' \in SUBSET evidence
    /\ UNCHANGED <<owed, evidence>>

\* The run ends by an exception, its own or the environment's.
Fail ==
    /\ outcome = "running"
    /\ outcome' \in {"aborted", "raised"}
    /\ evidence' \in SUBSET Evidence
    /\ UNCHANGED <<owed, claims>>

Next == Work \/ Report \/ Fail

Spec == Init /\ [][Next]_vars
=============================================================================
