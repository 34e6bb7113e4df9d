SPECIFICATION Spec
CONSTANTS
    a1 = a1
    a2 = a2
    a3 = a3
    Address = {zero, a1, u1, u2}
    ZeroAddress = zero
    Recipient = {u1, u2}
    Value = {1, 3}
    GasPrice = {1}
    MainTx = {m1}
    SideTx = {s1}
    UintModulus = 4
    authorities <- TokenAuthorities
    requiredSignatures = 1
    estimatedGasCostOfWithdraw = 1
    MaxWithdraws = 1
SYMMETRY TokenSymmetry
INVARIANT TotalSupplyIsSum
CHECK_DEADLOCK FALSE
