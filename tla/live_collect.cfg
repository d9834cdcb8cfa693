SPECIFICATION FairSpec
CONSTANTS
    Invoices = {i1, i2}
    ManualPayments = {m1}
    Intents = {n1}
    Orders = {o1}
    RefundIds = {}
    Requests = {}
    Amounts = {1}
    Totals = {1}
    MinorUnit = 1
    None = None
    TaxOutcomes = {FALSE, TRUE}
    MaxCommitFailures = 1
CHECK_DEADLOCK FALSE
INVARIANTS
    RecordedPaymentsAreBacked
PROPERTIES
    CardMoneyIsRecorded
    ReviewedCaptureSettles
    ImplementsTill
