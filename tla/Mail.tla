--------------------------------- MODULE Mail ----------------------------------
(***************************************************************************)
(* Notifications.  Mail is sent after the fact it reports is committed and *)
(* is best effort: a failure is logged and nothing is undone.  Sends run   *)
(* concurrently and share one Gmail access token per process, cached, not  *)
(* synchronized, evicted when Google answers 401.  Each call to Google is  *)
(* an await, so a send is several actions.                                 *)
(*                                                                         *)
(* Links are the single-use tokens of Accounts as the mails carry them,    *)
(* here only minted, committed or rolled back.  A verify or reset link is  *)
(* minted, then committed, and only then is its mail scheduled; the commit *)
(* may fail.  A claim link is minted and mailed inside a transaction that  *)
(* commits last.                                                           *)
(***************************************************************************)
EXTENDS Integers, FiniteSets, FiniteSetsExt

CONSTANTS
    People,       \* addressees
    Admins,       \* \subseteq People
    Contacts,     \* \subseteq People: no password yet
    Sends,        \* notifications in progress at once
    MaxTokens,    \* bound on Gmail access tokens issued
    MaxLinks,     \* bound on links minted
    Nobody

ASSUME MailConstants ==
    /\ Admins \subseteq People /\ Contacts \subseteq People \ Admins
    /\ MaxTokens \in Nat /\ MaxLinks \in Nat /\ Nobody \notin People

VARIABLES
    optedOut,    \* people who have opted out of informational mail
    gmail,       \* the cached token (0: none), tokens issued, tokens Google revoked
    link,        \* [1..MaxLinks -> [status, person, kind]]
    mailbox,     \* external: mails delivered, <<send's number, person, link>>
    sent,        \* notifications started so far
    send         \* [Sends -> SendRow]

mailVars == <<optedOut, gmail, link, mailbox, sent, send>>

\* A link is open between its INSERT and its commit.
NoLink == [status |-> "absent", person |-> Nobody, kind |-> "none"]
\* step: minted and kept, before and after the commit of the link, come before
\* the mail is scheduled.  to: addressees still to be tried.  tried: those who were (history).
\* revoked: a token this send was given has been revoked since it started.
NoSend == [step |-> "idle", number |-> 0, to |-> {}, tried |-> {}, all |-> {}, link |-> 0,
           token |-> 0, retried |-> FALSE, revoked |-> FALSE, refused |-> FALSE]

MailInit ==
    /\ optedOut = {}
    /\ gmail = [cached |-> 0, issued |-> 0, revoked |-> {}]
    /\ link = [l \in 1..MaxLinks |-> NoLink]
    /\ mailbox = {}
    /\ sent = 0
    /\ send = [s \in Sends |-> NoSend]

-----------------------------------------------------------------------------
(***************************************************************************)
(* Who is written to, about what.                                          *)
(***************************************************************************)
Starts(s, step, to, l) ==
    /\ send[s] = NoSend
    /\ to # {}
    /\ sent' = sent + 1
    /\ send' = [send EXCEPT ![s] = [NoSend EXCEPT !.step = step, !.number = sent + 1,
                                                  !.to = to, !.all = to, !.link = l]]

Minted(l, p, kind) == [link EXCEPT ![l] = [status |-> "open", person |-> p, kind |-> kind]]

Free(l) == link[l] = NoLink /\ \A x \in 1..(l - 1) : link[x] # NoLink

\* notify_payment_received and notify_refund_settled
NotifyCustomer(s, p) ==
    /\ p \notin optedOut /\ p \notin Admins
    /\ Starts(s, "token", {p}, 0)
    /\ UNCHANGED <<optedOut, gmail, link, mailbox>>

\* notify_dispute_updated: the admins whose accounts are enabled, one after
\* the other.
NotifyDisputeUpdated(s) ==
    /\ \E enabled \in SUBSET Admins : Starts(s, "token", enabled \ optedOut, 0)
    /\ UNCHANGED <<optedOut, gmail, link, mailbox>>

\* notify_invoice_sent.  A contact gets a claim link with it, in the
\* transaction that is still open.
NotifyInvoiceSent(s, p) ==
    /\ p \notin optedOut /\ p \notin Admins
    /\ IF p \in Contacts
       THEN \E l \in 1..MaxLinks : Free(l) /\ link' = Minted(l, p, "claim")
                                          /\ Starts(s, "token", {p}, l)
       ELSE Starts(s, "token", {p}, 0) /\ UNCHANGED link
    /\ UNCHANGED <<optedOut, gmail, mailbox>>

\* Registration, resend and password reset insert the token; opting out does
\* not matter.
RequestLink(s, p, kind) ==
    /\ \E l \in 1..MaxLinks : Free(l) /\ link' = Minted(l, p, kind)
                              /\ Starts(s, "minted", {p}, l)
    /\ UNCHANGED <<optedOut, gmail, mailbox>>

CommitLink(s) ==
    /\ send[s].step = "minted" /\ link[send[s].link].status = "open"
    /\ link' = [link EXCEPT ![send[s].link].status = "committed"]
    /\ send' = [send EXCEPT ![s].step = "kept"]
    /\ UNCHANGED <<optedOut, gmail, mailbox, sent>>

\* The row is rolled back and the request fails.
LinkCommitFails(s) ==
    /\ send[s].step = "minted" /\ link[send[s].link].status = "open"
    /\ link' = [link EXCEPT ![send[s].link].status = "absent"]
    /\ send' = [send EXCEPT ![s] = NoSend]
    /\ UNCHANGED <<optedOut, gmail, mailbox, sent>>

\* Mutant: the mail is scheduled first, and its transaction commits later.
SchedulesFirst(s) == send[s].step \in {"minted", "kept"}

\* The handler schedules the mail after its own commit.
MayBeScheduled(s) == send[s].step = "kept"

\* add_task: the mail is sent once the request has been answered.
ScheduleMail(s) ==
    /\ MayBeScheduled(s)
    /\ send' = [send EXCEPT ![s].step = "token"]
    /\ UNCHANGED <<optedOut, gmail, link, mailbox, sent>>

\* The footer of any mail carries the addressee's signed token, which no one
\* else can make.  It is refused when 180 days old: the addressee need not
\* have used it by then.
HasUnsubscribeLink(p) == \E m \in mailbox : m[2] = p

\* Only the POST writes.
Unsubscribe(p) ==
    /\ HasUnsubscribeLink(p)
    /\ optedOut' = optedOut \cup {p}
    /\ UNCHANGED <<gmail, link, mailbox, sent, send>>

-----------------------------------------------------------------------------
(***************************************************************************)
(* One mail through the Gmail API.                                         *)
(***************************************************************************)

\* _get_gmail_access_token: the cached token, or an exchange.
GetToken(s) ==
    /\ send[s].step = "token"
    /\ send' = [send EXCEPT
           ![s].step = IF gmail.cached # 0 THEN "post" ELSE "exchange",
           ![s].token = gmail.cached]
    /\ UNCHANGED <<optedOut, gmail, link, mailbox, sent>>

TokenExchanged(s) ==
    /\ send[s].step = "exchange" /\ gmail.issued < MaxTokens
    /\ gmail' = [gmail EXCEPT !.issued = @ + 1, !.cached = gmail.issued + 1]
    /\ send' = [send EXCEPT ![s].step = "post", ![s].token = gmail.issued + 1]
    /\ UNCHANGED <<optedOut, link, mailbox, sent>>

\* The cached token is older than its lifetime less the skew.
CacheExpires ==
    /\ gmail.cached # 0
    /\ gmail' = [gmail EXCEPT !.cached = 0]
    /\ UNCHANGED <<optedOut, link, mailbox, sent, send>>

\* External: Google revokes a token.
RevokeToken(k) ==
    /\ k \in 1..gmail.issued \ gmail.revoked
    /\ gmail' = [gmail EXCEPT !.revoked = @ \cup {k}]
    /\ send' = [s \in Sends |-> [send[s] EXCEPT !.revoked =
                   @ \/ (send[s].step = "post" /\ send[s].retried /\ send[s].token = k)]]
    /\ UNCHANGED <<optedOut, link, mailbox, sent>>

\* Addressees left once p has been tried, well or ill.
Remaining(s, p, ok) == send[s].to \ {p}

\* The send to p is over: the next addressee, or the end of the request.
Tried(s, p, ok, refused) ==
    send' = [send EXCEPT
        ![s].to = Remaining(s, p, ok), ![s].tried = @ \cup {p},
        ![s].step = IF Remaining(s, p, ok) = {} THEN "end" ELSE "token",
        ![s].token = 0, ![s].retried = FALSE,
        ![s].refused = @ \/ (refused /\ ~send[s].revoked)]

\* Mutant: the second try asks the cache again.
AsksCacheAgain(s) ==
    IF gmail.cached \in {0, send[s].token} THEN "exchange" ELSE "token"

\* The step after a 401: force_refresh passes the cache over.
AfterUnauthorized(s) == "exchange"

\* Google refuses the token: evict, whatever is cached by now, and try once
\* more with a new one.
PostUnauthorized(s, p) ==
    /\ send[s].step = "post" /\ p \in send[s].to
    /\ send[s].token \in gmail.revoked
    /\ IF send[s].retried
       THEN Tried(s, p, FALSE, TRUE) /\ UNCHANGED gmail
       ELSE /\ gmail' = [gmail EXCEPT !.cached = 0]
            /\ send' = [send EXCEPT ![s].step = AfterUnauthorized(s), ![s].retried = TRUE]
    /\ UNCHANGED <<optedOut, link, mailbox, sent>>

Deliver(s, p) == mailbox' = mailbox \cup {<<send[s].number, p, send[s].link>>}

PostDelivered(s, p) ==
    /\ send[s].step = "post" /\ p \in send[s].to
    /\ send[s].token \notin gmail.revoked
    /\ Deliver(s, p)
    /\ Tried(s, p, TRUE, FALSE)
    /\ UNCHANGED <<optedOut, gmail, link, sent>>

\* The exchange or the post fails, or times out with the mail delivered.
SendFails(s, p, delivered) ==
    /\ send[s].step \in {"exchange", "post"} /\ p \in send[s].to
    /\ IF delivered
       THEN send[s].step = "post" /\ send[s].token \notin gmail.revoked /\ Deliver(s, p)
       ELSE UNCHANGED mailbox
    /\ Tried(s, p, FALSE, FALSE)
    /\ UNCHANGED <<optedOut, gmail, link, sent>>

\* The request ends.  Only now does the transaction of a link that is still
\* open commit, or roll back.
SendEnds(s) ==
    /\ send[s].step = "end"
    /\ LET l == send[s].link
       IN  IF l # 0 /\ link[l].status = "open"
           THEN \E status \in {"committed", "absent"} :
                    link' = [link EXCEPT ![l].status = status]
           ELSE UNCHANGED link
    /\ send' = [send EXCEPT ![s] = NoSend]
    /\ UNCHANGED <<optedOut, gmail, mailbox, sent>>

-----------------------------------------------------------------------------
MailNext ==
    \/ \E s \in Sends :
          \/ \E p \in People :
                \/ sent < MaxLinks /\ (\/ NotifyCustomer(s, p) \/ NotifyInvoiceSent(s, p)
                                       \/ RequestLink(s, p, "verify")
                                       \/ RequestLink(s, p, "reset"))
                \/ PostUnauthorized(s, p) \/ PostDelivered(s, p)
                \/ \E delivered \in BOOLEAN : SendFails(s, p, delivered)
          \/ sent < MaxLinks /\ NotifyDisputeUpdated(s)
          \/ CommitLink(s) \/ LinkCommitFails(s) \/ ScheduleMail(s)
          \/ GetToken(s) \/ TokenExchanged(s) \/ SendEnds(s)
    \/ \E p \in People : Unsubscribe(p)
    \/ \E k \in 1..MaxTokens : RevokeToken(k)
    \/ CacheExpires

MailSpec == MailInit /\ [][MailNext]_mailVars

-----------------------------------------------------------------------------
(* A link to verify an address or to reset a password that has been mailed *)
(* out is in the database: no commit that fails or is still to come can    *)
(* take it back.                                                           *)
MailedLinksAreCommitted ==
    \A m \in mailbox : m[3] # 0 /\ link[m[3]].kind \in {"verify", "reset"} =>
        link[m[3]].status = "committed"

(* However many sends share the cache, and whatever they put into it, no   *)
(* mail is lost to a dead token: a send that is refused twice was refused  *)
(* a token minted for it and revoked since.                                *)
DeadTokensLoseNoMail == \A s \in Sends : ~send[s].refused

=============================================================================
