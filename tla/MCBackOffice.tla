----------------------------- MODULE MCBackOffice -----------------------------
(***************************************************************************)
(* The components of the back office that share no state with each other,  *)
(* side by side: which one a behaviour is about is chosen at the start     *)
(* (`focus`) and the others stay as they are.  One run checks them all,    *)
(* with as many states as they have one by one.                            *)
(***************************************************************************)
EXTENDS RawData, Mail, Disputes, RateLimiter, TaxReview, TaxRates, Uploads, TLC

CONSTANTS
    PlainKey,      \* a kind of item that admins confirm and never override,
    PlainDecision  \* and what Claude answers about it whenever it answers

VARIABLE focus

\* A rate for the destination and its own for an item, one for the origin,
\* and the import duty of the item.
TaxTopics == {<<"TN", "sales", "*">>, <<"TN", "sales", "part">>,
              <<"FL", "sales", "*">>, <<"customs", "duty", "part">>}

\* The form brings one rate, the loader's file may bring several.
TaxBatches == {{t} : t \in TaxTopics}
                \cup {{<<"TN", "sales", "part">>, <<"FL", "sales", "*">>}}

\* Bound: the other kinds go through every decision in every order.
PlainStaysPlain ==
    /\ \A i \in Invoices : bill'[i].answer[PlainKey] \in {PlainDecision, Nothing}
    /\ \A a \in Reviewers : desk'[a].key = PlainKey => desk'[a].want = Nothing

\* Requests that create an invoice, and deliveries of mail, are alike.
Alike == Permutations(Invoices) \cup Permutations(Sends)

BackOfficeInit ==
    /\ focus \in {"raw data", "mail", "disputes", "rate limit", "tax review", "tax rates",
                   "uploads"}
    /\ RawDataInit /\ MailInit /\ RateInit /\ TaxReviewInit /\ TaxRatesInit /\ UploadsInit
    /\ DisputesInit
    /\ focus # "raw data" => row = [r \in Rows |-> None]

BackOfficeNext ==
    /\ UNCHANGED focus
    /\ IF focus = "raw data" THEN RawDataNext ELSE UNCHANGED rawDataVars
    /\ IF focus = "mail" THEN MailNext ELSE UNCHANGED mailVars
    /\ IF focus = "disputes" THEN DisputesNext ELSE UNCHANGED disputeVars
    /\ IF focus = "rate limit" THEN RateNext ELSE UNCHANGED rateVars
    /\ IF focus = "tax review" THEN TaxReviewNext /\ PlainStaysPlain
                               ELSE UNCHANGED taxReviewVars
    /\ IF focus = "tax rates" THEN TaxRatesNext ELSE UNCHANGED taxRatesVars
    /\ IF focus = "uploads" THEN UploadsNext ELSE UNCHANGED uploadsVars

BackOfficeSpec ==
    BackOfficeInit /\ [][BackOfficeNext]_<<focus, rawDataVars, mailVars, disputeVars, rateVars,
                                           taxReviewVars, taxRatesVars, uploadsVars>>

=============================================================================
