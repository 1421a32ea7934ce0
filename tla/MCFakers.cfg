SPECIFICATION Spec
CONSTANTS
    Probes <- MCProbes
    TargetsOf <- MCTargetsOf
    InOutput = {"/app/output/result.json"}
INVARIANTS
    TypeOK
    ReportMeansLanded
    EvidenceIsAPrefix
PROPERTY
    ImplementsContract
