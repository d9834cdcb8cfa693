------------------------------- MODULE Accounts -------------------------------
(***************************************************************************)
(* Accounts: the users table, the single-use tokens mailed to an address   *)
(* (verify, claim, reset), and the sessions a login opens.                 *)
(*                                                                         *)
(* Postgres runs these transactions under READ COMMITTED and no handler    *)
(* locks the user row before reading it.  A transaction whose later writes *)
(* rest on an earlier read is therefore two actions: one for its reads,    *)
(* and for the row locks its first UPDATE takes, and one for its writes    *)
(* and its commit.  A handler none of whose reads can go stale in a way    *)
(* that matters is one action.  A DELETE of the user's sessions is placed  *)
(* at the commit: a login that slips between the two leaves what one that  *)
(* commits right after them leaves.                                        *)
(***************************************************************************)
EXTENDS Integers, FiniteSets, FiniteSetsExt

CONSTANTS
    Users,           \* addresses
    Tokens,          \* token rows that may be minted
    Sessions,        \* session rows in use at once
    Txns,            \* transactions in progress at once
    Passwords,
    SeededUsers,     \* \subseteq Users: SEED_ADMIN_EMAIL, or nothing
    CustomerIdle,    \* idle timeout of a customer's session, in ticks
    AdminIdle,       \* of an admin's
    MaxLifetime,     \* absolute lifetime of a session, in ticks
    Nil

ASSUME AccountConstants ==
    /\ SeededUsers \subseteq Users
    /\ CustomerIdle \in Nat \ {0} /\ AdminIdle \in Nat \ {0}
    /\ MaxLifetime \in Nat \ {0}
    /\ Nil \notin Users \cup Tokens \cup Sessions \cup Passwords

VARIABLES
    user,       \* [Users -> UserRow]
    token,      \* [Tokens -> TokenRow]
    session,    \* [Sessions -> SessionRow]
    txn         \* [Txns -> TxnRow]: the requests between two of their steps

accountVars == <<user, token, session, txn>>

Purposes == {"verify", "claim", "reset"}
UserRow == [exists: BOOLEAN, password: Passwords \cup {Nil}, verified: BOOLEAN,
            disabled: BOOLEAN, role: {"customer", "admin"}]
TokenRow == [status: {"absent", "live", "dead"}, user: Users \cup {Nil},
             purpose: Purposes \cup {Nil}]
\* left: ticks until expires_at.  age: ticks since created_at.  Three are
\* history: idle, ticks since the last accepted request; under, the password
\* its login gave; overlap, that login ran beside a change of the account.
SessionRow == [live: BOOLEAN, user: Users \cup {Nil}, under: Passwords \cup {Nil},
               overlap: BOOLEAN, left: 0..MaxLifetime, age: 0..MaxLifetime,
               idle: 0..MaxLifetime]
\* slides: validate_session's new expires_at differs from the row's, so that
\* it is an UPDATE.  overlap is history: the account was disabled after the
\* request had begun.
TxnRow == [op: {"idle", "mint", "redeem", "reset", "login", "request", "route"},
           user: Users \cup {Nil}, saw: {"absent", "contact", "unverified", "active"},
           purpose: Purposes \cup {Nil}, locks: SUBSET Tokens,
           password: Passwords \cup {Nil}, session: Sessions \cup {Nil},
           slides: BOOLEAN, overlap: BOOLEAN]

NoUser == [exists |-> FALSE, password |-> Nil, verified |-> FALSE,
           disabled |-> FALSE, role |-> "customer"]
NoToken == [status |-> "absent", user |-> Nil, purpose |-> Nil]
NoSession == [live |-> FALSE, user |-> Nil, under |-> Nil, overlap |-> FALSE,
              left |-> 0, age |-> 0, idle |-> 0]
NoTxn == [op |-> "idle", user |-> Nil, saw |-> "absent", purpose |-> Nil,
          locks |-> {}, password |-> Nil, session |-> Nil,
          slides |-> FALSE, overlap |-> FALSE]

AccountsTypeOK ==
    /\ user \in [Users -> UserRow]
    /\ token \in [Tokens -> TokenRow]
    /\ session \in [Sessions -> SessionRow]
    /\ txn \in [Txns -> TxnRow]
    /\ \A k \in Tokens : token[k].status # "absent" =>
           token[k].user \in Users /\ token[k].purpose \in Purposes
    /\ \A s \in Sessions : session[s].live => session[s].user \in Users

AccountsInit ==
    /\ user = [u \in Users |-> NoUser]
    /\ token = [k \in Tokens |-> NoToken]
    /\ session = [s \in Sessions |-> NoSession]
    /\ txn = [t \in Txns |-> NoTxn]

-----------------------------------------------------------------------------
Contact == [NoUser EXCEPT !.exists = TRUE]

\* Which of the states of docs/design/17 the row is in.
AccountState(u) ==
    CASE ~user[u].exists -> "absent"
      [] user[u].exists /\ user[u].password = Nil -> "contact"
      [] user[u].exists /\ user[u].password # Nil /\ ~user[u].verified -> "unverified"
      [] user[u].exists /\ user[u].password # Nil /\ user[u].verified -> "active"

\* Token rows another transaction has updated and not yet committed.
Locked(t) == UNION {txn[x].locks : x \in Txns \ {t}}

LiveTokens(u, purpose) ==
    {k \in Tokens : token[k] = [status |-> "live", user |-> u, purpose |-> purpose]}

Begin(t, row) == txn[t] = NoTxn /\ txn' = [txn EXCEPT ![t] = row]

EndsTxn(t) == txn' = [txn EXCEPT ![t] = NoTxn]

\* Mutant: the password changes and the sessions stay.
KeepsSessions(u) == session

\* revoke_all_sessions_for_user.
Revoked(u) == [s \in Sessions |-> IF session[s].user = u THEN NoSession ELSE session[s]]

-----------------------------------------------------------------------------
(***************************************************************************)
(* Minting a token: the address's live tokens of the same purpose are      *)
(* marked used, a fresh one is inserted, and the link is mailed.           *)
(***************************************************************************)
BeginMint(t, u, purpose) ==
    /\ LiveTokens(u, purpose) \cap Locked(t) = {}
    /\ Begin(t, [NoTxn EXCEPT !.op = "mint", !.user = u, !.saw = AccountState(u),
                              !.purpose = purpose, !.locks = LiveTokens(u, purpose)])
    /\ UNCHANGED <<user, token, session>>

Register(t, u) == AccountState(u) # "active" /\ BeginMint(t, u, "verify")

RequestVerificationResend(t, u) ==
    AccountState(u) = "unverified" /\ BeginMint(t, u, "verify")

\* notify_invoice_sent, for a customer who has no password yet.
MintClaim(t, u) == AccountState(u) = "contact" /\ BeginMint(t, u, "claim")

RequestPasswordReset(t, u) ==
    /\ AccountState(u) # "absent" /\ ~user[u].disabled
    /\ BeginMint(t, u, "reset")

\* Mutant: registration stores the password the form gave.
TakesPassword(u) == [Contact EXCEPT !.password = CHOOSE p \in Passwords : TRUE]

\* The row register() and get_or_create_contact_user insert.
FreshRow(u) == Contact

\* A registration that lost the race for the address inserts nothing.
MintCommits(t) ==
    LET u == txn[t].user
    IN  /\ txn[t].op = "mint"
        /\ IF txn[t].saw = "absent" /\ user[u].exists
           THEN UNCHANGED <<user, token>>
           ELSE /\ user' = [user EXCEPT ![u] = IF @.exists THEN @ ELSE FreshRow(u)]
                /\ \E k \in Tokens :
                     /\ token[k].status = "absent"
                     /\ token' = [x \in Tokens |->
                           IF x = k THEN [status |-> "live", user |-> u,
                                          purpose |-> txn[t].purpose]
                           ELSE IF x \in txn[t].locks THEN [token[x] EXCEPT !.status = "dead"]
                           ELSE token[x]]
        /\ EndsTxn(t)
        /\ UNCHANGED session

\* An invoice is addressed to somebody who has no row.
GetOrCreateContactUser(u) ==
    /\ AccountState(u) = "absent"
    /\ user' = [user EXCEPT ![u] = FreshRow(u)]
    /\ UNCHANGED <<token, session, txn>>

TokenExpires(k) ==
    /\ token[k].status = "live"
    /\ \A t \in Txns : k \notin txn[t].locks
    /\ token' = [token EXCEPT ![k].status = "dead"]
    /\ UNCHANGED <<user, session, txn>>

-----------------------------------------------------------------------------
(***************************************************************************)
(* Redeeming a token.  The claim is one conditional UPDATE: it waits for   *)
(* the transaction that holds the row and then looks again.                *)
(***************************************************************************)

\* Mutant: a SELECT decides, and the row is written later.
SelectsToken(t, k) == token[k].status = "live"

ClaimsToken(t, k) == token[k].status = "live" /\ k \notin Locked(t)

\* verify_email and claim_invoices; an account already active refuses.
RedeemAndActivate(t, k, p) ==
    /\ token[k].purpose \in {"verify", "claim"}
    /\ ClaimsToken(t, k)
    /\ ~user[token[k].user].verified
    /\ Begin(t, [NoTxn EXCEPT !.op = "redeem", !.user = token[k].user,
                              !.locks = {k}, !.password = p])
    /\ UNCHANGED <<user, token, session>>

Spent(t) == [k \in Tokens |-> IF k \in txn[t].locks
                              THEN [token[k] EXCEPT !.status = "dead"] ELSE token[k]]

RedeemCommits(t) ==
    /\ txn[t].op = "redeem"
    /\ user' = [user EXCEPT ![txn[t].user].password = txn[t].password,
                            ![txn[t].user].verified = TRUE]
    /\ token' = Spent(t)
    /\ EndsTxn(t)
    /\ UNCHANGED session

ResetPassword(t, k, p) ==
    /\ token[k].purpose = "reset"
    /\ ClaimsToken(t, k)
    /\ ~user[token[k].user].disabled
    /\ Begin(t, [NoTxn EXCEPT !.op = "reset", !.user = token[k].user,
                              !.locks = {k}, !.password = p])
    /\ UNCHANGED <<user, token, session>>

ResetCommits(t) ==
    /\ txn[t].op = "reset"
    /\ user' = [user EXCEPT ![txn[t].user].password = txn[t].password]
    /\ session' = Revoked(txn[t].user)
    /\ token' = Spent(t)
    /\ EndsTxn(t)

-----------------------------------------------------------------------------
(***************************************************************************)
(* Sessions.                                                               *)
(***************************************************************************)
IdleTimeout(u) == IF user[u].role = "admin" THEN AdminIdle ELSE CustomerIdle

MayLogIn(u) == AccountState(u) = "active" /\ ~user[u].disabled

Login(t, u, p) ==
    /\ MayLogIn(u)
    /\ user[u].password = p
    /\ Begin(t, [NoTxn EXCEPT !.op = "login", !.user = u, !.password = p])
    /\ UNCHANGED <<user, token, session>>

\* Another transaction is about to change the account's password.
Changing(u) == \E x \in Txns : txn[x].op \in {"redeem", "reset"} /\ txn[x].user = u

\* A row id is never used again while somebody still holds it.
NewSessionId(s) == session[s] = NoSession /\ \A x \in Txns : txn[x].session # s

LoginCommits(t, s) ==
    LET u == txn[t].user
    IN  /\ txn[t].op = "login"
        /\ NewSessionId(s)
        /\ session' = [session EXCEPT ![s] =
               [live |-> TRUE, user |-> u, under |-> txn[t].password,
                overlap |-> \/ Changing(u) \/ user[u].disabled
                            \/ user[u].password # txn[t].password,
                left |-> Min({IdleTimeout(u), MaxLifetime}), age |-> 0, idle |-> 0]]
        /\ EndsTxn(t)
        /\ UNCHANGED <<user, token>>

\* Mutant: nobody asks whether the account was disabled since.
TrustsSessionRow(s) == session[s].live /\ session[s].left > 0

\* What validate_session requires of the row and of its user.
Valid(s) ==
    /\ session[s].live /\ session[s].left > 0
    /\ ~user[session[s].user].disabled
    /\ user[session[s].user].verified

\* Mutant: every request restarts the whole idle timeout.
SlidesFreely(s) == IdleTimeout(session[s].user)

\* Ticks to the new expires_at: the idle timeout, up to the absolute cap.
Slid(s) == Min({IdleTimeout(session[s].user), MaxLifetime - session[s].age})

\* An expires_at that already is the absolute cap does not move: no UPDATE.
Slides(s) == session[s].left # MaxLifetime - session[s].age \/ session[s].left # Slid(s)

\* A request resolves its session: the middleware's transaction for one that
\* changes anything, the route's own for a safe one (GET).
ValidateSession(t, s) ==
    /\ Valid(s)
    /\ Begin(t, [NoTxn EXCEPT !.op = "request", !.user = session[s].user,
                              !.session = s, !.slides = Slides(s)])
    /\ UNCHANGED <<user, token, session>>

\* An UPDATE of a row that has been deleted fails the request.
RowStillThere(t) == txn[t].slides => session[txn[t].session].live

\* The request passes: it slides the session, unless that is a no-op.
Accepted(t) ==
    LET s == txn[t].session
    IN  IF ~session[s].live THEN session
        ELSE [session EXCEPT ![s].idle = 0,
                             ![s].left = IF txn[t].slides THEN Slid(s) ELSE @]

\* The slide is committed once verify_csrf has passed; a request that fails
\* there leaves no trace.  A safe request is answered in this transaction,
\* any other goes on to its route with the session it has resolved.
RequestCommits(t, csrf, safe) ==
    /\ txn[t].op = "request"
    /\ IF RowStillThere(t) /\ (csrf \/ safe)
       THEN /\ session' = Accepted(t)
            /\ IF safe THEN EndsTxn(t) ELSE txn' = [txn EXCEPT ![t].op = "route"]
       ELSE EndsTxn(t) /\ UNCHANGED session
    /\ UNCHANGED <<user, token>>

\* The route commits, in a transaction of its own; what it writes is other
\* modules' matter.  Nobody looks at the session or the account again.
RouteCommits(t) ==
    /\ txn[t].op = "route"
    /\ EndsTxn(t)
    /\ UNCHANGED <<user, token, session>>

\* The route that deletes the session it came through.
Logout(t) ==
    /\ txn[t].op = "route"
    /\ session[txn[t].session].live
    /\ session' = [session EXCEPT ![txn[t].session] = NoSession]
    /\ EndsTxn(t)
    /\ UNCHANGED <<user, token>>

\* The clock.  Each session ages, expired or not.
Tick ==
    /\ \E s \in Sessions : session[s].live /\ session[s].age < MaxLifetime
    /\ session' = [s \in Sessions |->
          IF ~session[s].live THEN session[s]
          ELSE [session[s] EXCEPT !.left = IF @ > 0 THEN @ - 1 ELSE 0,
                                  !.age = Min({@ + 1, MaxLifetime}),
                                  !.idle = Min({@ + 1, MaxLifetime})]]
    /\ UNCHANGED <<user, token, txn>>

-----------------------------------------------------------------------------
(***************************************************************************)
(* The admin's routes, and the account seeded at start-up.                 *)
(***************************************************************************)

\* get_customer: no route here touches an admin's account.
IsCustomer(u) == user[u].exists /\ user[u].role = "customer"

\* The requests in progress of an account that is being disabled.
Overlapping(u) ==
    [t \in Txns |-> IF txn[t].op \in {"request", "route"} /\ txn[t].user = u
                    THEN [txn[t] EXCEPT !.overlap = TRUE] ELSE txn[t]]

DeactivateCustomer(u) ==
    /\ IsCustomer(u)
    /\ user' = [user EXCEPT ![u].disabled = TRUE]
    /\ session' = Revoked(u)
    /\ txn' = Overlapping(u)
    /\ UNCHANGED token

ReactivateCustomer(u) ==
    /\ IsCustomer(u)
    /\ user' = [user EXCEPT ![u].disabled = FALSE]
    /\ UNCHANGED <<token, session, txn>>

AdminResetPassword(u, p) ==
    /\ IsCustomer(u)
    /\ AccountState(u) # "contact"
    /\ user' = [user EXCEPT ![u].password = p]
    /\ session' = Revoked(u)
    /\ UNCHANGED <<token, txn>>

EnsureAdminSeeded(u, p) ==
    /\ u \in SeededUsers
    /\ user' = [user EXCEPT ![u] = [@ EXCEPT !.exists = TRUE, !.password = p,
                                             !.verified = TRUE, !.role = "admin"]]
    /\ UNCHANGED <<token, session, txn>>

\* The request fails, or the server restarts: get_db rolls back.
Abort(t) ==
    /\ txn[t] # NoTxn
    /\ EndsTxn(t)
    /\ UNCHANGED <<user, token, session>>

-----------------------------------------------------------------------------
AccountsNext ==
    \/ \E t \in Txns :
          \/ \E u \in Users :
                \/ Register(t, u) \/ RequestVerificationResend(t, u) \/ MintClaim(t, u)
                \/ RequestPasswordReset(t, u)
                \/ \E p \in Passwords : Login(t, u, p)
          \/ \E k \in Tokens, p \in Passwords :
                RedeemAndActivate(t, k, p) \/ ResetPassword(t, k, p)
          \/ \E s \in Sessions : LoginCommits(t, s) \/ ValidateSession(t, s)
          \/ \E csrf, safe \in BOOLEAN : RequestCommits(t, csrf, safe)
          \/ RouteCommits(t) \/ Logout(t)
          \/ MintCommits(t) \/ RedeemCommits(t) \/ ResetCommits(t) \/ Abort(t)
    \/ \E u \in Users :
          \/ GetOrCreateContactUser(u) \/ DeactivateCustomer(u) \/ ReactivateCustomer(u)
          \/ \E p \in Passwords : AdminResetPassword(u, p) \/ EnsureAdminSeeded(u, p)
    \/ \E k \in Tokens : TokenExpires(k)
    \/ Tick

AccountsSpec == AccountsInit /\ [][AccountsNext]_accountVars

-----------------------------------------------------------------------------
(* A session under a password that is no longer the account's, or of an    *)
(* account that has been disabled, is one whose login ran beside that very *)
(* change: neither reset, nor the admin's reset, nor deactivation leaves a *)
(* session behind that was there before it began.  (The seeded admin's     *)
(* password may change with the configuration, under its sessions.)        *)
OldSessionsOverlapped ==
    \A s \in Sessions : session[s].live =>
        \/ session[s].overlap
        \/ user[session[s].user].role = "admin"
        \/ /\ session[s].under = user[session[s].user].password
           /\ ~user[session[s].user].disabled

(* However it is used, a session ends: past the idle timeout since its     *)
(* last accepted request, or past its absolute lifetime, it has expired.   *)
(* Requests that fail the CSRF check do not count as use.                  *)
SessionsExpire ==
    \A s \in Sessions : session[s].live /\ session[s].left > 0 =>
        /\ session[s].age < MaxLifetime
        /\ session[s].idle < IF user[session[s].user].role = "admin"
                             THEN Max({AdminIdle, CustomerIdle}) ELSE CustomerIdle

(* What is carried out for a disabled account is a request that had begun  *)
(* before the account was disabled: none that begins later is, even        *)
(* through a session that slipped past the deactivation, and none, early   *)
(* or late, prolongs such a session.  (A route already past the middleware *)
(* is not stopped: it commits with the session it resolved.)               *)
DisabledAccountsDoNothing ==
    [][/\ \A t \in Txns :
             (RouteCommits(t) \/ Logout(t) \/ RequestCommits(t, TRUE, TRUE)) =>
                 txn[t].overlap \/ ~user[txn[t].user].disabled
       /\ \A s \in Sessions : session[s].live /\ user[session[s].user].disabled =>
             session'[s].left <= session[s].left]_accountVars

(* One token, one use: whoever writes a password with a token finds it     *)
(* unspent at the commit.                                                  *)
TokenInstallsOnce ==
    [][\A t \in Txns : RedeemCommits(t) \/ ResetCommits(t) =>
          \A k \in txn[t].locks : token[k].status = "live"]_accountVars

(* A password comes to an account that had none only through a token that  *)
(* was mailed to its address, or as the seeded admin's.                    *)
CredentialNeedsInbox ==
    [][\A u \in Users : user[u].password = Nil /\ user'[u].password # Nil =>
          \/ user'[u].role = "admin"
          \/ \E k \in Tokens : /\ token[k].user = u /\ token[k].status = "live"
                               /\ token'[k].status = "dead"]_accountVars

=============================================================================
