SPECIFICATION Spec
CONSTANTS
    a1 = a1
    a2 = a2
    a3 = a3
    Address = {zero, a1, a2, a3, u1}
    ZeroAddress = zero
    Recipient = {u1}
    Value = {3}
    GasPrice = {1}
    MainTx = {m1, m2}
    SideTx = {s1, s2}
    UintModulus = 8
    authorities <- QuorumAuthorities
    requiredSignatures = 2
    estimatedGasCostOfWithdraw = 1
    MaxWithdraws = 1
SYMMETRY QuorumSymmetry
INVARIANTS MintedOncePerQuorum CollectedOncePerQuorum CollectedSignaturesAreEnough
CHECK_DEADLOCK FALSE
