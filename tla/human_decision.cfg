SPECIFICATION TaxReviewSpec
CONSTANTS
    Keys = {k1}
    Decisions = {d1, d2}
    Exempt = {}
    Invoices = {i1, i2}
    Reviewers = {e1}
    Nothing = Nothing
CHECK_DEADLOCK FALSE
PROPERTIES
    HumanDecisionStands
