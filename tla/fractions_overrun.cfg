SPECIFICATION Spec
CONSTANTS
    Invoices = {i1}
    ManualPayments = {}
    Intents = {n1}
    Orders = {}
    RefundIds = {r1, r2}
    Requests = {q1, q2}
    Amounts = {4}
    Totals = {6}
    MinorUnit = 3
    None = None
    TaxOutcomes = {FALSE}
    MaxCommitFailures = 0
SYMMETRY Symmetric
CHECK_DEADLOCK FALSE
INVARIANT OverRefundIsTheProviders
