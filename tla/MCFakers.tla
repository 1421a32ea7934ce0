------------------------------ MODULE MCFakers -------------------------------
EXTENDS Fakers

MCProbes == {"fake_state", "ledger_forge", "state_forger"}

MCTargetsOf ==
    [p \in MCProbes |->
        CASE p = "fake_state"   -> FakeStateTargets
          [] p = "ledger_forge" -> LedgerForgeTargets
          [] p = "state_forger" -> StateForgerTargets]
=============================================================================
