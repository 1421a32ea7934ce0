SPECIFICATION Spec
INVARIANT
    ClaimIsSuccessShaped
