SPECIFICATION Spec
CONSTANTS
    ego1 = ego1
    ego2 = ego2
    standalone = standalone
    build1 = build1
    build2 = build2
    egoClaim = egoClaim
    writerClaim = writerClaim
    Absent = Absent
    Producers <- MCProducers
    Writers <- MCWriters
    Publishers <- MCPublishers
    Claims <- MCClaims
    ClaimOf <- MCClaimOf
    OutsideEdits = FALSE
    MaxWrites = 2
SYMMETRY SessionSymmetry
CHECK_DEADLOCK FALSE
PROPERTIES ImmutableAfterSealing
