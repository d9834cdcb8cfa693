SPECIFICATION Spec
CONSTANTS
    Invoices = {i1}
    ManualPayments = {m1}
    Intents = {n1}
    Orders = {}
    RefundIds = {r1, r2}
    Requests = {q1, q2}
    Amounts = {1}
    Totals = {2}
    MinorUnit = 1
    None = None
    TaxOutcomes = {FALSE}
    MaxCommitFailures = 0
SYMMETRY Symmetric
CONSTRAINT SweepsBetweenRequests
CHECK_DEADLOCK FALSE
INVARIANTS
    NoOverRefund
    RecordedRefundsAreBacked
    NetIsWhatWasKept
    RefundedInvoiceGaveBackTotal
