SPECIFICATION Spec
CONSTANTS
    Sessions = {s1, s2}
    Carriers = {"direct", "chameleon-quic", "chameleon-tls"}
    MaxFailures = 1
    MaxCalls = 4
    MaxPauses = 1
SYMMETRY Symmetry
INVARIANTS TypeOK CarrierEvidenceIsDials DPIEvidenceIsVisible LostDirectIsBounded
CHECK_DEADLOCK FALSE
