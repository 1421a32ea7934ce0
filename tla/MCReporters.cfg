SPECIFICATION Spec
CONSTANTS
    Probes = {"judge_injection", "token_echo", "reward_sink", "isolation_escape"}
    Tokens = 2
INVARIANTS
    TypeOK
    ClaimsAreWhatLanded
    NoBreachMissed
