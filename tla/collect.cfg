SPECIFICATION Spec
CONSTANTS
    Invoices = {i1}
    ManualPayments = {m1}
    Intents = {n1, n2}
    Orders = {o1, o2}
    RefundIds = {}
    Requests = {}
    Amounts = {2, 3}
    Totals = {6}
    MinorUnit = 3
    None = None
    TaxOutcomes = {FALSE}
    MaxCommitFailures = 1
SYMMETRY Symmetric
CHECK_DEADLOCK FALSE
INVARIANTS
    ChargeableIntentIsHeld
    CapturedMoneyIsRecorded
    AtMostOnePending
    PaidIsCovered
PROPERTIES
    OverCollectionIsFlagged
    CreditOnlyLostByRefund
