SPECIFICATION Spec
CONSTANTS
    buy1 = buy1
    buy2 = buy2
    use1 = use1
    use2 = use2
    k1 = k1
    k2 = k2
    Requests <- MCRequests
    KeyOf <- MCKeyOf
    Op <- MCOp
    Amount <- MCAmount
    MaxExpiries = 1
SYMMETRY MCSymmetry
INVARIANTS AnswersAreBacked SerialUseIsCovered RepeatedWithoutCharge
