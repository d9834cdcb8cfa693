SPECIFICATION BackOfficeSpec
CONSTANTS
    Rows = {r1}
    Columns = {c1, c2}
    Values = {v1, v2}
    Edits = {t1, t2}
    MaxEntries = 3
    People = {a1, a2, p1}
    Admins = {a1, a2}
    Contacts = {p1}
    Sends = {s1, s2}
    MaxTokens = 3
    MaxLinks = 2
    Nobody = Nobody
    Deliveries = {d1, d2}
    MaxDeliveries = 4
    Undisputed = Undisputed
    Workers = {w1, w2}
    Limit = 2
    Window = 2
    Keys = {k1, k2}
    Decisions = {c0, x0}
    Exempt = {}
    PlainKey = k2
    PlainDecision = c0
    Invoices = {i1, i2}
    Reviewers = {e1}
    Nothing = Nothing
    Origin = "FL"
    Destination = "TN"
    Customs = "customs"
    Items = {"part"}
    Topics <- TaxTopics
    Rates = {0, 1}
    Requests = {q1, q2}
    MaxChanges = 3
    Batches <- TaxBatches
    Files = {f1, f2, f3}
    Names = {n1, n2}
    Backend = "local"
    NoFile = NoFile
SYMMETRY Alike
CHECK_DEADLOCK FALSE
INVARIANTS
    MailedLinksAreCommitted
    DeadTokensLoseNoMail
    MailsAreChanges
    AdmitsAtMostTwice
    BlocksEnd
    UnreviewedTaxIsHeld
    TaxIsSumOfCharges
    PricedAsLookedUp
    RatesHaveNoGap
    RowsHaveTheirFile
PROPERTIES
    AuditIsExact
    UndoRestores
