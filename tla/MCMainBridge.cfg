SPECIFICATION Spec
CONSTANTS
    a1 = a1
    a2 = a2
    a3 = a3
    Address = {zero, a1, a2, a3, u1, contract}
    ZeroAddress = zero
    Recipient = {u1}
    Value = {1, 3}
    GasPrice = {1, 5}
    MainTx = {m1}
    SideTx = {s1, s2}
    UintModulus = 8
    authorities <- MCAuthorities
    requiredSignatures = 2
    estimatedGasCostOfWithdraw = 2
    maxTotalMainContractBalance = 6
    maxSingleDepositValue = 3
    Payable = {a1, a2, a3, u1}
    EtherSupply = 7
    MaxRepeats = 2
    MaxSigned = 4
    MaxSignatures = 2
SYMMETRY Symmetry
INVARIANTS  PayoutsAreSigned PaidOncePerSideTransaction BalanceIsCapped
INVARIANT EncodingsAgree
PROPERTIES WithdrawTakesExactlyValue
CHECK_DEADLOCK FALSE
