SPECIFICATION Spec
CONSTANTS
    Probes = {"isolation_escape"}
    Tokens = 2
INVARIANT
    BreachIsBreach
