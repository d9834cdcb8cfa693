SPECIFICATION FairSpec
CONSTANTS
    Invoices = {i1}
    ManualPayments = {}
    Intents = {}
    Orders = {o1}
    RefundIds = {r1, r2}
    Requests = {q1, q2}
    Amounts = {1}
    Totals = {2}
    MinorUnit = 1
    None = None
    TaxOutcomes = {FALSE}
    MaxCommitFailures = 0
CHECK_DEADLOCK FALSE
INVARIANTS
    TypeOK
PROPERTIES
    PendingRefundSettles
    ImplementsTill
