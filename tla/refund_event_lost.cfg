SPECIFICATION FairSpec
CONSTANTS
    Invoices = {i1}
    ManualPayments = {}
    Intents = {n1}
    Orders = {}
    RefundIds = {r1}
    Requests = {q1}
    Amounts = {1}
    Totals = {2}
    MinorUnit = 1
    None = None
    TaxOutcomes = {FALSE}
    MaxCommitFailures = 0
CHECK_DEADLOCK FALSE
PROPERTIES
    PendingRefundSettles
