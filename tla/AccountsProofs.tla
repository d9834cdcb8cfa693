---------------------------- MODULE AccountsProofs ----------------------------
(***************************************************************************)
(* Why a token installs one password, why a password reaches an address    *)
(* only through its mailbox, and what a disabled account may still do.  A  *)
(* transaction that holds a token's row finds it live until it ends, for   *)
(* the others wait for the row; and it redeems it for its owner.  A        *)
(* request that has resolved its session either finds it deleted or its    *)
(* user enabled, for who disables an account deletes its sessions with it; *)
(* and its own user is enabled unless it has been disabled on the way.     *)
(***************************************************************************)
EXTENDS Accounts, TLAPS

\* SessionRow without the bounds of its clocks, which these proofs do not need.
SessionShape == [live: BOOLEAN, user: Users \cup {Nil}, under: Passwords \cup {Nil},
                 overlap: BOOLEAN, left: Int, age: Int, idle: Int]

ShapesOK ==
    /\ user \in [Users -> UserRow]
    /\ token \in [Tokens -> TokenRow]
    /\ session \in [Sessions -> SessionShape]
    /\ txn \in [Txns -> TxnRow]

TokensAreOwned ==
    \A k \in Tokens : token[k].status # "absent" =>
        token[k].user \in Users /\ token[k].purpose \in Purposes

SessionsAreOwned == \A s \in Sessions : session[s].live => session[s].user \in Users

\* What a transaction in progress may rely on.
HoldsLiveTokens(r) == \A k \in r.locks : token[k].status = "live"

RedeemsOwnToken(r) ==
    r.op \in {"redeem", "reset"} => \E k \in r.locks : token[k].user = r.user

Serves(r) == r.op \in {"request", "route"}

ServesEnabledUser(r) ==
    Serves(r) =>
        /\ r.session \in Sessions /\ r.user \in Users
        /\ session[r.session].live => ~user[session[r.session].user].disabled
        /\ user[r.user].disabled => r.overlap

HasItsUser(r) ==
    /\ r.op \in {"mint", "redeem", "reset", "login"} => r.user \in Users
    /\ r.op = "mint" => r.purpose \in Purposes

TxnOK(r) ==
    HoldsLiveTokens(r) /\ RedeemsOwnToken(r) /\ ServesEnabledUser(r) /\ HasItsUser(r)

LocksAreExclusive ==
    \A t, x \in Txns : t # x => txn[t].locks \cap txn[x].locks = {}

AccountsInv ==
    /\ ShapesOK /\ TokensAreOwned /\ SessionsAreOwned
    /\ \A t \in Txns : TxnOK(txn[t])
    /\ LocksAreExclusive

-----------------------------------------------------------------------------
(* A transaction slot that is free holds nothing.                          *)
LEMMA FreeTxn == NoTxn \in TxnRow /\ TxnOK(NoTxn) /\ NoTxn.locks = {} /\ NoTxn.op = "idle"
  BY DEF NoTxn, TxnRow, TxnOK, HoldsLiveTokens, RedeemsOwnToken, ServesEnabledUser, Serves,
         HasItsUser

\* What becomes of a transaction that goes on: a request reaches its route, or
\* its account is disabled meanwhile.
GoesOn(r, q) ==
    /\ q.op = r.op \/ (Serves(q) /\ Serves(r))
    /\ q.locks = r.locks /\ q.user = r.user
    /\ q.purpose = r.purpose /\ q.session = r.session

\* A transaction that serves a session still does so, or its account has been
\* disabled meanwhile and it bears the mark.
ServesOn(x) ==
    Serves(txn'[x]) =>
        /\ session'[txn[x].session].live =>
              /\ session[txn[x].session].live
              /\ session'[txn[x].session].user = session[txn[x].session].user
              /\ user'[session[txn[x].session].user].disabled
                     => user[session[txn[x].session].user].disabled
        /\ txn[x].overlap => txn'[x].overlap
        /\ user'[txn[x].user].disabled => user[txn[x].user].disabled \/ txn'[x].overlap

(* Rows that hold nothing have the shape of a row.                         *)
LEMMA EmptyRows ==
    /\ NoUser \in UserRow /\ Contact \in UserRow
    /\ Contact.password = Nil /\ ~Contact.disabled
    /\ NoToken \in TokenRow /\ NoToken.status = "absent"
    /\ NoSession \in SessionShape /\ ~NoSession.live
  <1>1. NoUser \in UserRow /\ NoUser.password = Nil /\ ~NoUser.disabled
    BY DEF NoUser, UserRow
  <1>2. Contact \in UserRow
    BY <1>1 DEF Contact, UserRow
  <1>3. Contact.password = Nil /\ ~Contact.disabled
    BY <1>1 DEF Contact, UserRow
  <1>4. NoToken \in TokenRow /\ NoToken.status = "absent"
    BY DEF NoToken, TokenRow
  <1>5. NoSession \in SessionShape /\ ~NoSession.live
    BY DEF NoSession, SessionShape
  <1> QED
    BY <1>1, <1>2, <1>3, <1>4, <1>5

(* A contact is a user.                                                    *)
LEMMA ContactExists == Contact.exists
  <1>1. NoUser \in UserRow
    BY EmptyRows
  <1> QED
    BY <1>1 DEF Contact, UserRow

(* The tables are empty at the start.                                      *)
LEMMA AccountsInitInv == AccountsInit => AccountsInv
  <1> SUFFICES ASSUME AccountsInit PROVE AccountsInv
    OBVIOUS
  <1>1. ShapesOK
    BY FreeTxn, EmptyRows DEF AccountsInit, ShapesOK
  <1>2. TokensAreOwned /\ SessionsAreOwned
    BY EmptyRows DEF AccountsInit, TokensAreOwned, SessionsAreOwned
  <1>3. \A t \in Txns : txn[t] = NoTxn
    BY DEF AccountsInit
  <1> QED
    BY <1>1, <1>2, <1>3, FreeTxn DEF AccountsInv, LocksAreExclusive

(* A transaction that begins, taking rows that no other holds.             *)
LEMMA BeginStep ==
    ASSUME AccountsInv, NEW t \in Txns, NEW row \in TxnRow,
           txn' = [txn EXCEPT ![t] = row], UNCHANGED <<user, token, session>>,
           TxnOK(row), row.locks \cap Locked(t) = {}
    PROVE  AccountsInv'
  <1>1. ShapesOK' /\ TokensAreOwned' /\ SessionsAreOwned'
    BY DEF AccountsInv, ShapesOK, TokensAreOwned, SessionsAreOwned
  <1>2. \A x \in Txns : txn'[x] = IF x = t THEN row ELSE txn[x]
    BY DEF AccountsInv, ShapesOK
  <1>3. ASSUME NEW x \in Txns PROVE TxnOK(txn[x])'
    BY <1>2 DEF AccountsInv, TxnOK, HoldsLiveTokens, RedeemsOwnToken, ServesEnabledUser,
                Serves, HasItsUser
  <1>4. LocksAreExclusive'
    BY <1>2 DEF AccountsInv, LocksAreExclusive, Locked
  <1> QED
    BY <1>1, <1>3, <1>4 DEF AccountsInv

(* Any other step: transactions go on or end, those that go on keep their  *)
(* tokens live, and no session that one of them serves comes to life or    *)
(* gets a disabled user.                                                   *)
LEMMA FrameStep ==
    ASSUME AccountsInv, ShapesOK', TokensAreOwned', SessionsAreOwned',
           \A x \in Txns : txn'[x] = NoTxn \/ GoesOn(txn[x], txn'[x]),
           \A x \in Txns : \A k \in txn'[x].locks :
               token'[k].status = "live" /\ token'[k].user = token[k].user,
           \A x \in Txns : ServesOn(x)
    PROVE  AccountsInv'
  <1>1. ASSUME NEW x \in Txns PROVE TxnOK(txn[x])'
    <2>1. CASE txn'[x] = NoTxn
      BY <2>1, FreeTxn
         DEF TxnOK, HoldsLiveTokens, RedeemsOwnToken, ServesEnabledUser, Serves, HasItsUser
    <2>2. CASE GoesOn(txn[x], txn'[x])
      <3>1. TxnOK(txn[x]) /\ txn'[x].locks = txn[x].locks /\ txn'[x].user = txn[x].user
        BY <2>2 DEF AccountsInv, GoesOn
      <3>2. HoldsLiveTokens(txn[x])'
        BY <3>1 DEF TxnOK, HoldsLiveTokens
      <3>3. HasItsUser(txn[x])'
        BY <2>2, <3>1 DEF TxnOK, HasItsUser, GoesOn, Serves
      <3>4. RedeemsOwnToken(txn[x])'
        BY <2>2, <3>1 DEF TxnOK, RedeemsOwnToken, GoesOn, Serves
      <3>5. ServesEnabledUser(txn[x])'
        <4> SUFFICES ASSUME Serves(txn'[x])
                     PROVE  /\ txn'[x].session \in Sessions /\ txn'[x].user \in Users
                            /\ session'[txn'[x].session].live
                                  => ~user'[session'[txn'[x].session].user].disabled
                            /\ user'[txn'[x].user].disabled => txn'[x].overlap
          BY DEF ServesEnabledUser, Serves
        <4>1. Serves(txn[x]) /\ txn'[x].session = txn[x].session /\ txn'[x].user = txn[x].user
          BY <2>2 DEF GoesOn, Serves
        <4>2. ServesEnabledUser(txn[x]) /\ ServesOn(x)
          BY <3>1 DEF TxnOK
        <4> QED
          BY <4>1, <4>2 DEF ServesEnabledUser, ServesOn
      <3> QED
        BY <3>2, <3>3, <3>4, <3>5 DEF TxnOK
    <2> QED
      BY <2>1, <2>2
  <1>2. \A x \in Txns : txn'[x].locks \subseteq txn[x].locks
    BY FreeTxn DEF GoesOn
  <1>3. LocksAreExclusive'
    BY <1>2 DEF AccountsInv, LocksAreExclusive
  <1> QED
    BY <1>1, <1>3 DEF AccountsInv

(* A transaction that a step leaves as it is, in a step that disables      *)
(* nobody.                                                                 *)
LEMMA LeftAlone ==
    ASSUME AccountsInv, \A x \in Txns : txn'[x] \in {txn[x], NoTxn},
           \A v \in Users : user'[v].disabled => user[v].disabled,
           \A s \in Sessions : \A x \in Txns : session'[s].live /\ txn[x].session = s =>
               session[s].live /\ session'[s].user = session[s].user
    PROVE  /\ \A x \in Txns : txn'[x] = NoTxn \/ GoesOn(txn[x], txn'[x])
           /\ \A x \in Txns : ServesOn(x)
  <1>1. ASSUME NEW x \in Txns PROVE txn'[x] = NoTxn \/ GoesOn(txn[x], txn'[x])
    BY DEF GoesOn
  <1>2. ASSUME NEW x \in Txns PROVE ServesOn(x)
    <2> SUFFICES ASSUME Serves(txn'[x]) PROVE ServesOn(x)
      BY DEF ServesOn
    <2>1. txn'[x] = txn[x]
      BY FreeTxn DEF Serves
    <2>2. txn[x].session \in Sessions /\ txn[x].user \in Users
      BY <2>1 DEF AccountsInv, TxnOK, ServesEnabledUser
    <2>3. session[txn[x].session].live => session[txn[x].session].user \in Users
      BY <2>2 DEF AccountsInv, SessionsAreOwned
    <2> QED
      BY <2>1, <2>2, <2>3 DEF ServesOn
  <1> QED
    BY <1>1, <1>2

-----------------------------------------------------------------------------
(***************************************************************************)
(* The steps that begin a transaction.                                     *)
(***************************************************************************)

(* Every user row is in one of the four states.                            *)
LEMMA AccountStates ==
    ASSUME ShapesOK, NEW u \in Users
    PROVE  AccountState(u) \in {"absent", "contact", "unverified", "active"}
  BY DEF ShapesOK, UserRow, AccountState

(* Minting takes live tokens that nobody holds.                            *)
LEMMA BeginMintInv ==
    ASSUME AccountsInv, NEW t \in Txns, NEW u \in Users, NEW purpose \in Purposes,
           BeginMint(t, u, purpose)
    PROVE  AccountsInv'
  <1> DEFINE row == [NoTxn EXCEPT !.op = "mint", !.user = u, !.saw = AccountState(u),
                                  !.purpose = purpose, !.locks = LiveTokens(u, purpose)]
  <1>1. /\ row.op = "mint" /\ row.user = u /\ row.purpose = purpose
        /\ row.locks = LiveTokens(u, purpose)
    BY FreeTxn DEF TxnRow
  <1>2. AccountState(u) \in {"absent", "contact", "unverified", "active"}
    BY AccountStates DEF AccountsInv
  <1>3. row \in TxnRow
    BY <1>2, FreeTxn DEF TxnRow, LiveTokens
  <1>4. txn' = [txn EXCEPT ![t] = row] /\ UNCHANGED <<user, token, session>>
    BY DEF BeginMint, Begin
  <1>5. row.locks \cap Locked(t) = {}
    BY <1>1 DEF BeginMint
  <1>6. HoldsLiveTokens(row)
    BY <1>1 DEF HoldsLiveTokens, LiveTokens
  <1> HIDE DEF row
  <1>7. TxnOK(row)
    BY <1>1, <1>6 DEF TxnOK, RedeemsOwnToken, ServesEnabledUser, Serves, HasItsUser
  <1> QED
    BY <1>3, <1>4, <1>5, <1>7, BeginStep

(* A token is redeemed for its owner, by the transaction that took it.     *)
LEMMA BeginRedeemInv ==
    ASSUME AccountsInv, NEW t \in Txns, NEW k \in Tokens, NEW p \in Passwords,
           RedeemAndActivate(t, k, p) \/ ResetPassword(t, k, p)
    PROVE  AccountsInv'
  <1> PICK op \in {"redeem", "reset"} :
          Begin(t, [NoTxn EXCEPT !.op = op, !.user = token[k].user,
                                 !.locks = {k}, !.password = p])
    BY DEF RedeemAndActivate, ResetPassword
  <1> DEFINE row == [NoTxn EXCEPT !.op = op, !.user = token[k].user,
                                  !.locks = {k}, !.password = p]
  <1>1. row.op = op /\ row.user = token[k].user /\ row.locks = {k}
    BY FreeTxn DEF TxnRow
  <1>2. ClaimsToken(t, k) /\ UNCHANGED <<user, token, session>>
    BY DEF RedeemAndActivate, ResetPassword
  <1>3. token[k].status = "live" /\ k \notin Locked(t)
    BY <1>2 DEF ClaimsToken
  <1>4. token[k].user \in Users
    BY <1>3 DEF AccountsInv, TokensAreOwned
  <1>5. row \in TxnRow
    BY <1>4, FreeTxn DEF TxnRow
  <1>6. txn' = [txn EXCEPT ![t] = row]
    BY DEF Begin
  <1> HIDE DEF row
  <1>7. TxnOK(row)
    BY <1>1, <1>3, <1>4
       DEF TxnOK, HoldsLiveTokens, RedeemsOwnToken, ServesEnabledUser, Serves, HasItsUser
  <1> QED
    BY <1>1, <1>2, <1>3, <1>5, <1>6, <1>7, BeginStep

(* A login and a request hold no token; a request resolves a session whose *)
(* user is enabled.                                                        *)
LEMMA BeginLoginInv ==
    ASSUME AccountsInv, NEW t \in Txns, NEW u \in Users, NEW p \in Passwords, Login(t, u, p)
    PROVE  AccountsInv'
  <1> DEFINE row == [NoTxn EXCEPT !.op = "login", !.user = u, !.password = p]
  <1>1. row.op = "login" /\ row.user = u /\ row.locks = {}
    BY FreeTxn DEF TxnRow
  <1>2. row \in TxnRow
    BY FreeTxn DEF TxnRow
  <1>3. txn' = [txn EXCEPT ![t] = row] /\ UNCHANGED <<user, token, session>>
    BY DEF Login, Begin
  <1> HIDE DEF row
  <1>4. TxnOK(row)
    BY <1>1 DEF TxnOK, HoldsLiveTokens, RedeemsOwnToken, ServesEnabledUser, Serves, HasItsUser
  <1> QED
    BY <1>1, <1>2, <1>3, <1>4, BeginStep

(* A request begins with the session it resolved, whose user is enabled.   *)
LEMMA BeginRequestInv ==
    ASSUME AccountsInv, NEW t \in Txns, NEW s \in Sessions, ValidateSession(t, s)
    PROVE  AccountsInv'
  <1> PICK u \in Users : u = session[s].user
    BY DEF AccountsInv, SessionsAreOwned, ValidateSession, Valid
  <1> PICK slides \in BOOLEAN : slides = Slides(s)
    BY DEF Slides
  <1> DEFINE row == [NoTxn EXCEPT !.op = "request", !.user = u, !.session = s,
                                  !.slides = slides]
  <1>1. row.op = "request" /\ row.user = u /\ row.session = s /\ row.locks = {}
    BY FreeTxn DEF TxnRow
  <1>2. row \in TxnRow
    BY FreeTxn DEF TxnRow
  <1>3. txn' = [txn EXCEPT ![t] = row] /\ UNCHANGED <<user, token, session>>
    BY DEF ValidateSession, Begin
  <1>4. ~user[session[s].user].disabled /\ ~user[u].disabled
    BY DEF ValidateSession, Valid
  <1> HIDE DEF row
  <1>5. TxnOK(row)
    BY <1>1, <1>4 DEF TxnOK, HoldsLiveTokens, RedeemsOwnToken, ServesEnabledUser, Serves, HasItsUser
  <1> QED
    BY <1>1, <1>2, <1>3, <1>5, BeginStep

-----------------------------------------------------------------------------
(***************************************************************************)
(* The steps that end one, or that are a whole transaction of their own.   *)
(***************************************************************************)

(* The smaller of two numbers is a number.                                 *)
LEMMA SmallerOfTwo ==
    ASSUME NEW m \in Int, NEW n \in Int
    PROVE  Min({m, n}) \in Int
  <1>1. \E x \in {m, n} : \A y \in {m, n} : x <= y
    <2>1. CASE m <= n
      BY <2>1
    <2>2. CASE n <= m
      BY <2>2
    <2> QED
      BY <2>1, <2>2
  <1>2. Min({m, n}) \in {m, n}
    BY <1>1 DEF Min
  <1> QED
    BY <1>2

(* What a transaction that ends leaves to the others.                      *)
LEMMA EndedTxn ==
    ASSUME AccountsInv, NEW t \in Txns, EndsTxn(t)
    PROVE  /\ txn' \in [Txns -> TxnRow]
           /\ \A x \in Txns : txn'[x] = IF x = t THEN NoTxn ELSE txn[x]
  BY FreeTxn DEF AccountsInv, ShapesOK, EndsTxn

(* Every transaction in progress holds live tokens, and a token of another *)
(* one is not among them.                                                  *)
LEMMA OthersTokens ==
    ASSUME AccountsInv, NEW t \in Txns, EndsTxn(t),
           NEW x \in Txns, NEW k \in txn'[x].locks
    PROVE  /\ k \in Tokens /\ token[k].status = "live" /\ k \notin txn[t].locks
           /\ x # t /\ txn'[x] = txn[x]
  <1>1. x # t /\ txn'[x] = txn[x]
    BY EndedTxn, FreeTxn
  <1>2. k \in txn[x].locks
    BY <1>1
  <1>3. txn[x] \in TxnRow
    BY DEF AccountsInv, ShapesOK
  <1>4. k \in Tokens
    BY <1>2, <1>3 DEF TxnRow
  <1>5. HoldsLiveTokens(txn[x])
    BY DEF AccountsInv, TxnOK
  <1>6. k \notin txn[t].locks
    BY <1>1, <1>2 DEF AccountsInv, LocksAreExclusive
  <1> QED
    BY <1>1, <1>2, <1>4, <1>5, <1>6 DEF HoldsLiveTokens

(* A request in progress serves a session that exists, whose user is known *)
(* when it is live.                                                        *)
LEMMA ServedSession ==
    ASSUME AccountsInv, NEW x \in Txns, Serves(txn[x])
    PROVE  /\ txn[x].session \in Sessions
           /\ session[txn[x].session].live => session[txn[x].session].user \in Users
  BY DEF AccountsInv, TxnOK, ServesEnabledUser, SessionsAreOwned

(* A mint that commits spends the tokens it holds and adds a fresh one.    *)
LEMMA MintCommitsInv ==
    ASSUME AccountsInv, NEW t \in Txns, MintCommits(t)
    PROVE  AccountsInv'
  <1> DEFINE u == txn[t].user
  <1>1. EndsTxn(t) /\ session' = session
    BY DEF MintCommits
  <1>2. u \in Users /\ txn[t].purpose \in Purposes
    BY DEF AccountsInv, TxnOK, HasItsUser, MintCommits
  <1>3. CASE UNCHANGED <<user, token>>
    <2>1. ShapesOK' /\ TokensAreOwned' /\ SessionsAreOwned'
      BY <1>1, <1>3, EndedTxn DEF AccountsInv, ShapesOK, TokensAreOwned, SessionsAreOwned
    <2>2. \A x \in Txns : txn'[x] \in {txn[x], NoTxn}
      BY <1>1, EndedTxn
    <2>3. \A x \in Txns : \A k \in txn'[x].locks :
             token'[k].status = "live" /\ token'[k].user = token[k].user
      BY <1>1, <1>3, OthersTokens
    <2> QED
      BY <1>1, <1>3, <2>1, <2>2, <2>3, LeftAlone, FrameStep
  <1>4. CASE /\ user' = [user EXCEPT ![u] = IF @.exists THEN @ ELSE FreshRow(u)]
             /\ \E k \in Tokens :
                   /\ token[k].status = "absent"
                   /\ token' = [x \in Tokens |->
                         IF x = k THEN [status |-> "live", user |-> u,
                                        purpose |-> txn[t].purpose]
                         ELSE IF x \in txn[t].locks THEN [token[x] EXCEPT !.status = "dead"]
                         ELSE token[x]]
    <2> PICK fresh \in Tokens :
          /\ token[fresh].status = "absent"
          /\ token' = [x \in Tokens |->
                IF x = fresh THEN [status |-> "live", user |-> u,
                                   purpose |-> txn[t].purpose]
                ELSE IF x \in txn[t].locks THEN [token[x] EXCEPT !.status = "dead"]
                ELSE token[x]]
      BY <1>4
    <2>1. \A v \in Users : user'[v] \in {user[v], Contact}
      BY <1>4 DEF AccountsInv, ShapesOK, FreshRow
    <2>2. user' \in [Users -> UserRow]
      BY <1>4, <2>1, EmptyRows DEF AccountsInv, ShapesOK
    <2>3. token' \in [Tokens -> TokenRow]
      BY <1>2 DEF AccountsInv, ShapesOK, TokenRow
    <2>4. TokensAreOwned'
      <3> SUFFICES ASSUME NEW k \in Tokens, token'[k].status # "absent"
                   PROVE  token'[k].user \in Users /\ token'[k].purpose \in Purposes
        BY DEF TokensAreOwned
      <3>1. CASE k = fresh
        BY <3>1, <1>2
      <3>2. CASE k # fresh
        <4>1. token[k] \in TokenRow
          BY DEF AccountsInv, ShapesOK
        <4>2. token'[k].user = token[k].user /\ token'[k].purpose = token[k].purpose
          BY <3>2, <4>1 DEF TokenRow
        <4>3. token[k].status # "absent"
          <5>1. CASE k \in txn[t].locks
            BY <5>1 DEF AccountsInv, TxnOK, HoldsLiveTokens
          <5>2. CASE k \notin txn[t].locks
            BY <3>2, <5>2
          <5> QED
            BY <5>1, <5>2
        <4> QED
          BY <4>2, <4>3 DEF AccountsInv, TokensAreOwned
      <3> QED
        BY <3>1, <3>2
    <2>5. ShapesOK' /\ SessionsAreOwned'
      BY <1>1, <2>2, <2>3, EndedTxn DEF AccountsInv, ShapesOK, SessionsAreOwned
    <2>6. \A x \in Txns : txn'[x] \in {txn[x], NoTxn}
      BY <1>1, EndedTxn
    <2>7. \A x \in Txns : \A k \in txn'[x].locks :
             token'[k].status = "live" /\ token'[k].user = token[k].user
      BY <1>1, OthersTokens
    <2>8. \A v \in Users : user'[v].disabled => user[v].disabled
      BY <2>1, EmptyRows
    <2> QED
      BY <1>1, <2>4, <2>5, <2>6, <2>7, <2>8, LeftAlone, FrameStep
  <1> QED
    BY <1>3, <1>4 DEF MintCommits

(* A redemption, or a reset, that commits spends its token and writes a    *)
(* password; sessions may go with it.                                      *)
LEMMA RedeemCommitsInv ==
    ASSUME AccountsInv, NEW t \in Txns, RedeemCommits(t) \/ ResetCommits(t)
    PROVE  AccountsInv'
  <1> DEFINE u == txn[t].user
  <1>1. EndsTxn(t) /\ token' = Spent(t)
    BY DEF RedeemCommits, ResetCommits
  <1>2. u \in Users
    BY DEF AccountsInv, TxnOK, HasItsUser, RedeemCommits, ResetCommits
  <1>3. HoldsLiveTokens(txn[t])
    BY DEF AccountsInv, TxnOK
  <1>4. txn[t].password \in Passwords \cup {Nil}
    BY DEF AccountsInv, ShapesOK, TxnRow
  <1>5. user' \in [Users -> UserRow] /\ \A v \in Users : user'[v].disabled = user[v].disabled
    <2>1. CASE RedeemCommits(t)
      BY <1>2, <1>4, <2>1 DEF RedeemCommits, AccountsInv, ShapesOK, UserRow
    <2>2. CASE ResetCommits(t)
      BY <1>2, <1>4, <2>2 DEF ResetCommits, AccountsInv, ShapesOK, UserRow
    <2> QED
      BY <2>1, <2>2
  <1>6. /\ session' \in [Sessions -> SessionShape]
        /\ \A s \in Sessions : session'[s] \in {session[s], NoSession}
    BY EmptyRows DEF RedeemCommits, ResetCommits, Revoked, AccountsInv, ShapesOK
  <1>7. \A k \in Tokens : /\ token'[k] \in TokenRow
                          /\ token'[k].user = token[k].user
                          /\ token'[k].purpose = token[k].purpose
                          /\ token'[k].status # "absent" => token[k].status # "absent"
                          /\ k \notin txn[t].locks => token'[k] = token[k]
    BY <1>1, <1>3 DEF Spent, AccountsInv, ShapesOK, TokenRow, HoldsLiveTokens
  <1>8. ShapesOK'
    BY <1>1, <1>5, <1>6, <1>7, EndedTxn DEF ShapesOK, Spent
  <1>9. TokensAreOwned'
    BY <1>7 DEF AccountsInv, TokensAreOwned
  <1>10. SessionsAreOwned'
    BY <1>6, EmptyRows DEF AccountsInv, SessionsAreOwned
  <1>11. \A x \in Txns : txn'[x] \in {txn[x], NoTxn}
    BY <1>1, EndedTxn
  <1>12. \A x \in Txns : \A k \in txn'[x].locks :
             token'[k].status = "live" /\ token'[k].user = token[k].user
    BY <1>1, <1>7, OthersTokens
  <1>13. \A s \in Sessions : session'[s].live =>
            session[s].live /\ session'[s].user = session[s].user
    BY <1>6, EmptyRows
  <1> QED
    BY <1>5, <1>8, <1>9, <1>10, <1>11, <1>12, <1>13, LeftAlone, FrameStep

(* A step that touches no token: the sessions that live on, served by a    *)
(* request or not, lived before, and no user of theirs has been disabled.  *)
LEMMA SessionFrame ==
    ASSUME AccountsInv, token' = token, user' \in [Users -> UserRow],
           session' \in [Sessions -> SessionShape], txn' \in [Txns -> TxnRow],
           \A s \in Sessions : session'[s].live => session'[s].user \in Users,
           \A x \in Txns : txn'[x] = NoTxn \/ GoesOn(txn[x], txn'[x]),
           \A x \in Txns : ServesOn(x)
    PROVE  AccountsInv'
  <1>1. ShapesOK' /\ TokensAreOwned' /\ SessionsAreOwned'
    BY DEF AccountsInv, ShapesOK, TokensAreOwned, SessionsAreOwned
  <1>2. ASSUME NEW x \in Txns, NEW k \in txn'[x].locks
        PROVE  token'[k].status = "live" /\ token'[k].user = token[k].user
    <2>1. k \in txn[x].locks
      BY FreeTxn DEF GoesOn
    <2>2. HoldsLiveTokens(txn[x])
      BY DEF AccountsInv, TxnOK
    <2> QED
      BY <2>1, <2>2 DEF HoldsLiveTokens
  <1> QED
    BY <1>1, <1>2, FrameStep

(* The same for a step that disables nobody and at most ends transactions. *)
LEMMA SessionStep ==
    ASSUME AccountsInv, token' = token, user' \in [Users -> UserRow],
           session' \in [Sessions -> SessionShape], txn' \in [Txns -> TxnRow],
           \A x \in Txns : txn'[x] \in {txn[x], NoTxn},
           \A s \in Sessions : session'[s].live => session'[s].user \in Users,
           \A v \in Users : user'[v].disabled => user[v].disabled,
           \A s \in Sessions : \A x \in Txns : session'[s].live /\ txn[x].session = s =>
               session[s].live /\ session'[s].user = session[s].user
    PROVE  AccountsInv'
  BY LeftAlone, SessionFrame

(* A login opens a session that no request was serving.                    *)
LEMMA LoginCommitsInv ==
    ASSUME AccountsInv, NEW t \in Txns, NEW s \in Sessions, LoginCommits(t, s)
    PROVE  AccountsInv'
  <1> DEFINE u == txn[t].user
             left == Min({IdleTimeout(u), MaxLifetime})
             overlap == \/ Changing(u) \/ user[u].disabled
                        \/ user[u].password # txn[t].password
             row == [live |-> TRUE, user |-> u, under |-> txn[t].password,
                     overlap |-> overlap, left |-> left, age |-> 0, idle |-> 0]
  <1>1. /\ session' = [session EXCEPT ![s] = row] /\ NewSessionId(s)
        /\ EndsTxn(t) /\ user' = user /\ token' = token
    BY DEF LoginCommits
  <1>2. u \in Users
    BY DEF AccountsInv, TxnOK, HasItsUser, LoginCommits
  <1>3. txn[t].password \in Passwords \cup {Nil}
    BY DEF AccountsInv, ShapesOK, TxnRow
  <1>4. left \in Int
    <2>1. IdleTimeout(u) \in Int /\ MaxLifetime \in Int
      BY AccountConstants DEF IdleTimeout
    <2> QED
      BY <2>1, SmallerOfTwo
  <1>5. user[u].disabled \in BOOLEAN
    BY <1>2 DEF AccountsInv, ShapesOK, UserRow
  <1>6. overlap \in BOOLEAN
    BY <1>5
  <1> HIDE DEF left, overlap
  <1>7. row \in SessionShape /\ row.live /\ row.user = u
    BY <1>2, <1>3, <1>4, <1>6 DEF SessionShape
  <1> HIDE DEF row, u
  <1>8. session \in [Sessions -> SessionShape] /\ user \in [Users -> UserRow]
    BY DEF AccountsInv, ShapesOK
  <1>9. session' \in [Sessions -> SessionShape]
    BY <1>1, <1>7, <1>8
  <1>10. \A x \in Sessions : session'[x].live => session'[x].user \in Users
    BY <1>1, <1>2, <1>7, <1>8 DEF AccountsInv, SessionsAreOwned
  <1>11. \A x \in Txns : txn[x].session # s
    BY <1>1 DEF NewSessionId
  <1>12. \A y \in Sessions : y # s => session'[y] = session[y]
    BY <1>1, <1>8
  <1> QED
    BY <1>1, <1>8, <1>9, <1>10, <1>11, <1>12, EndedTxn, SessionStep

(* What a request that passes leaves of the sessions.                      *)
LEMMA AcceptedSessions ==
    ASSUME AccountsInv, NEW t \in Txns, Serves(txn[t]),
           NEW after, after = Accepted(t), NEW s \in Sessions, s = txn[t].session
    PROVE  /\ after \in [Sessions -> SessionShape]
           /\ \A x \in Sessions : /\ after[x].live = session[x].live
                                   /\ after[x].user = session[x].user
                                   /\ after[x].under = session[x].under
                                   /\ after[x].overlap = session[x].overlap
           /\ \A x \in Sessions : x # s \/ ~session[s].live => after[x] = session[x]
           /\ session[s].live =>
                 /\ after[s].idle = 0 /\ after[s].age = session[s].age
                 /\ after[s].left = IF txn[t].slides THEN Slid(s) ELSE session[s].left
  <1>1. session \in [Sessions -> SessionShape] /\ session[s] \in SessionShape
    BY DEF AccountsInv, ShapesOK
  <1> DEFINE left == IF txn[t].slides THEN Slid(s) ELSE session[s].left
             row == [session[s] EXCEPT !.idle = 0, !.left = left]
  <1>2. left \in Int
    <2>1. session[s].age \in Int /\ session[s].left \in Int
      BY <1>1 DEF SessionShape
    <2>2. IdleTimeout(session[s].user) \in Int /\ MaxLifetime - session[s].age \in Int
      BY <2>1, AccountConstants DEF IdleTimeout
    <2> QED
      BY <2>1, <2>2, SmallerOfTwo DEF Slid
  <1>3. after = IF ~session[s].live THEN session ELSE [session EXCEPT ![s] = row]
    BY <1>1 DEF Accepted
  <1> HIDE DEF left
  <1>4. row \in SessionShape
    <2>1. \A r \in SessionShape, m, n \in Int :
             [r EXCEPT !.idle = m, !.left = n] \in SessionShape
      BY DEF SessionShape
    <2>2. 0 \in Int
      OBVIOUS
    <2>3. [session[s] EXCEPT !.idle = 0, !.left = left] \in SessionShape
      BY <1>1, <1>2, <2>1, <2>2, ZenonT(30)
    <2> QED
      BY <2>3
  <1>5. /\ row.live = session[s].live /\ row.user = session[s].user
        /\ row.under = session[s].under /\ row.overlap = session[s].overlap
        /\ row.age = session[s].age /\ row.idle = 0 /\ row.left = left
    BY <1>1 DEF SessionShape
  <1> HIDE DEF row
  <1>6. CASE ~session[s].live
    BY <1>1, <1>3, <1>6
  <1>7. CASE session[s].live
    <2>1. after = [session EXCEPT ![s] = row]
      BY <1>3, <1>7
    <2>2. after \in [Sessions -> SessionShape]
      BY <1>1, <1>4, <2>1
    <2>3. after[s] = row /\ \A x \in Sessions : x # s => after[x] = session[x]
      BY <1>1, <2>1
    <2> QED
      BY <1>5, <1>7, <2>2, <2>3 DEF left
  <1> QED
    BY <1>6, <1>7

(* A request that ends slides the session it served, when it is there; one *)
(* that passes the middleware goes on to its route.                        *)
LEMMA RequestCommitsInv ==
    ASSUME AccountsInv, NEW t \in Txns, NEW csrf \in BOOLEAN, NEW safe \in BOOLEAN,
           RequestCommits(t, csrf, safe)
    PROVE  AccountsInv'
  <1>1. Serves(txn[t]) /\ txn[t].op = "request" /\ user' = user /\ token' = token
    BY DEF RequestCommits, Serves
  <1>2. session' \in {session, Accepted(t)}
    BY DEF RequestCommits
  <1>3. /\ session \in [Sessions -> SessionShape] /\ user \in [Users -> UserRow]
        /\ txn \in [Txns -> TxnRow]
    BY DEF AccountsInv, ShapesOK
  <1>4. /\ session' \in [Sessions -> SessionShape]
        /\ \A x \in Sessions : /\ session'[x].live = session[x].live
                                /\ session'[x].user = session[x].user
    <2>1. txn[t].session \in Sessions
      BY <1>1, ServedSession
    <2>2. CASE session' = session
      BY <1>3, <2>2
    <2>3. CASE session' = Accepted(t)
      BY <1>1, <2>1, <2>3, AcceptedSessions
    <2> QED
      BY <1>2, <2>2, <2>3
  <1> DEFINE row == [txn[t] EXCEPT !.op = "route"]
  <1>5. row \in TxnRow /\ GoesOn(txn[t], row) /\ row.overlap = txn[t].overlap
    BY <1>1, <1>3 DEF TxnRow, GoesOn, Serves
  <1>6. txn' = [txn EXCEPT ![t] = row] \/ txn' = [txn EXCEPT ![t] = NoTxn]
    BY <1>3 DEF RequestCommits, EndsTxn
  <1> HIDE DEF row
  <1>7. txn' \in [Txns -> TxnRow] /\ \A x \in Txns : txn'[x] \in {txn[x], NoTxn} \/
                                         (txn'[x] = row /\ x = t)
    BY <1>3, <1>5, <1>6, FreeTxn
  <1>8. \A x \in Txns : txn'[x] = NoTxn \/ GoesOn(txn[x], txn'[x])
    BY <1>5, <1>7 DEF GoesOn
  <1>9. ASSUME NEW x \in Txns PROVE ServesOn(x)
    <2> SUFFICES ASSUME Serves(txn'[x]) PROVE ServesOn(x)
      BY DEF ServesOn
    <2>1. txn'[x].overlap = txn[x].overlap /\ Serves(txn[x])
      BY <1>1, <1>5, <1>7, FreeTxn DEF Serves
    <2>2. txn[x].session \in Sessions
      BY <2>1, ServedSession
    <2> QED
      BY <1>1, <1>4, <2>1, <2>2 DEF ServesOn
  <1>10. \A x \in Sessions : session'[x].live => session'[x].user \in Users
    BY <1>4 DEF AccountsInv, SessionsAreOwned
  <1> QED
    BY <1>1, <1>3, <1>4, <1>7, <1>8, <1>9, <1>10, SessionFrame

(* A route that ends, and one that deletes its session.                    *)
LEMMA RouteCommitsInv ==
    ASSUME AccountsInv, NEW t \in Txns, RouteCommits(t) \/ Logout(t)
    PROVE  AccountsInv'
  <1>1. EndsTxn(t) /\ user' = user /\ token' = token
    BY DEF RouteCommits, Logout
  <1>2. /\ session' \in [Sessions -> SessionShape]
        /\ \A x \in Sessions : session'[x] \in {session[x], NoSession}
    BY EmptyRows DEF RouteCommits, Logout, AccountsInv, ShapesOK
  <1>3. \A x \in Sessions : session'[x].live => session'[x] = session[x]
    BY <1>2, EmptyRows
  <1> QED
    BY <1>1, <1>2, <1>3, EndedTxn, SessionStep DEF AccountsInv, ShapesOK, SessionsAreOwned

(* Who disables an account marks its requests in progress.                 *)
LEMMA OverlappingRows ==
    ASSUME txn \in [Txns -> TxnRow], NEW u
    PROVE  /\ Overlapping(u) \in [Txns -> TxnRow]
           /\ \A x \in Txns : /\ GoesOn(txn[x], Overlapping(u)[x]) /\ GoesOn(txn[x], txn[x])
                              /\ Overlapping(u)[x].op = txn[x].op
                              /\ txn[x].overlap => Overlapping(u)[x].overlap
                              /\ Serves(txn[x]) /\ txn[x].user = u => Overlapping(u)[x].overlap
                              /\ ~Serves(txn[x]) => Overlapping(u)[x] = txn[x]
  <1>1. ASSUME NEW x \in Txns
        PROVE  LET row == [txn[x] EXCEPT !.overlap = TRUE]
               IN  row \in TxnRow /\ GoesOn(txn[x], row) /\ row.overlap /\ row.op = txn[x].op
    BY DEF TxnRow, GoesOn
  <1>2. \A x \in Txns : Overlapping(u)[x] = IF Serves(txn[x]) /\ txn[x].user = u
                                           THEN [txn[x] EXCEPT !.overlap = TRUE] ELSE txn[x]
    BY DEF Overlapping, Serves
  <1>3. Overlapping(u) \in [Txns -> TxnRow]
    BY <1>1 DEF Overlapping
  <1> QED
    BY <1>1, <1>2, <1>3 DEF GoesOn

(* The admin's routes change one account and delete its sessions when they *)
(* disable it or change its password.                                      *)
LEMMA AdminStepInv ==
    ASSUME AccountsInv, NEW u \in Users,
           \/ DeactivateCustomer(u) \/ ReactivateCustomer(u)
           \/ \E p \in Passwords : AdminResetPassword(u, p) \/ EnsureAdminSeeded(u, p)
    PROVE  AccountsInv'
  <1>1. token' = token /\ txn' \in {txn, Overlapping(u)}
    BY DEF DeactivateCustomer, ReactivateCustomer, AdminResetPassword, EnsureAdminSeeded
  <1>2. /\ user \in [Users -> UserRow] /\ session \in [Sessions -> SessionShape]
        /\ txn \in [Txns -> TxnRow]
    BY DEF AccountsInv, ShapesOK
  <1>3. user' \in [Users -> UserRow]
    <2>1. CASE DeactivateCustomer(u)
      BY <1>2, <2>1 DEF DeactivateCustomer, UserRow
    <2>2. CASE ReactivateCustomer(u)
      BY <1>2, <2>2 DEF ReactivateCustomer, UserRow
    <2>3. ASSUME NEW p \in Passwords, AdminResetPassword(u, p) PROVE user' \in [Users -> UserRow]
      BY <1>2, <2>3 DEF AdminResetPassword, UserRow
    <2>4. ASSUME NEW p \in Passwords, EnsureAdminSeeded(u, p) PROVE user' \in [Users -> UserRow]
      <3> DEFINE row == [user[u] EXCEPT !.exists = TRUE, !.password = p,
                                        !.verified = TRUE, !.role = "admin"]
      <3>1. user' = [user EXCEPT ![u] = row]
        BY <1>2, <2>4 DEF EnsureAdminSeeded
      <3>2. row \in UserRow
        BY <1>2 DEF UserRow
      <3> HIDE DEF row
      <3> QED
        BY <1>2, <3>1, <3>2
    <2> QED
      BY <2>1, <2>2, <2>3, <2>4
  <1>4. \A s \in Sessions : session'[s] \in {session[s], NoSession}
    BY <1>2 DEF DeactivateCustomer, ReactivateCustomer, AdminResetPassword,
                EnsureAdminSeeded, Revoked
  <1>5. session' \in [Sessions -> SessionShape]
    BY <1>2, EmptyRows DEF DeactivateCustomer, ReactivateCustomer, AdminResetPassword,
                           EnsureAdminSeeded, Revoked
  <1>6. \A s \in Sessions : session'[s].live => session'[s] = session[s]
    BY <1>4, EmptyRows
  <1>7. \A v \in Users : user'[v].disabled =>
            user[v].disabled \/ (v = u /\ session' = Revoked(u) /\ txn' = Overlapping(u))
    <2>1. CASE DeactivateCustomer(u)
      BY <1>2, <2>1 DEF DeactivateCustomer
    <2>2. CASE ReactivateCustomer(u)
      BY <1>2, <2>2 DEF ReactivateCustomer
    <2>3. ASSUME NEW p \in Passwords, AdminResetPassword(u, p), NEW v \in Users
          PROVE  user'[v].disabled => user[v].disabled
      BY <1>2, <2>3 DEF AdminResetPassword, UserRow
    <2>4. ASSUME NEW p \in Passwords, EnsureAdminSeeded(u, p), NEW v \in Users
          PROVE  user'[v].disabled => user[v].disabled
      <3> DEFINE row == [user[u] EXCEPT !.exists = TRUE, !.password = p,
                                        !.verified = TRUE, !.role = "admin"]
      <3>1. user' = [user EXCEPT ![u] = row]
        BY <1>2, <2>4 DEF EnsureAdminSeeded
      <3>2. row.disabled = user[u].disabled
        BY <1>2 DEF UserRow
      <3> HIDE DEF row
      <3> QED
        BY <1>2, <3>1, <3>2
    <2> QED
      BY <2>1, <2>2, <2>3, <2>4
  <1>8. ASSUME NEW s \in Sessions, session'[s].live
        PROVE  user'[session[s].user].disabled => user[session[s].user].disabled
    <2>1. session[s].live /\ session[s].user \in Users
      BY <1>6, <1>8 DEF AccountsInv, SessionsAreOwned
    <2>2. session' = Revoked(u) => session[s].user # u
      BY <1>8, EmptyRows DEF Revoked
    <2> QED
      BY <1>7, <2>1, <2>2
  <1>9. \A s \in Sessions : session'[s].live => session'[s].user \in Users
    BY <1>6 DEF AccountsInv, SessionsAreOwned
  <1>10. txn' \in [Txns -> TxnRow] /\ \A x \in Txns : GoesOn(txn[x], txn'[x])
    BY <1>1, <1>2, OverlappingRows
  <1>11. ASSUME NEW x \in Txns PROVE ServesOn(x)
    <2> SUFFICES ASSUME Serves(txn'[x]) PROVE ServesOn(x)
      BY DEF ServesOn
    <2>1. Serves(txn[x])
      BY <1>10 DEF GoesOn, Serves
    <2>2. txn[x].session \in Sessions /\ txn[x].user \in Users
      BY <2>1 DEF AccountsInv, TxnOK, ServesEnabledUser
    <2>3. txn[x].overlap => txn'[x].overlap
      BY <1>1, <1>2, OverlappingRows
    <2>4. user'[txn[x].user].disabled => user[txn[x].user].disabled \/ txn'[x].overlap
      BY <1>2, <1>7, <2>1, <2>2, OverlappingRows
    <2> QED
      BY <1>6, <1>8, <2>2, <2>3, <2>4 DEF ServesOn
  <1> QED
    BY <1>1, <1>3, <1>5, <1>9, <1>10, <1>11, SessionFrame

(* The clock changes what the sessions have left, and nothing else.        *)
LEMMA TickInv == ASSUME AccountsInv, Tick PROVE AccountsInv'
  <1>1. UNCHANGED <<user, token, txn>>
    BY DEF Tick
  <1>2. ASSUME NEW s \in Sessions
        PROVE  /\ session'[s] \in SessionShape
               /\ session'[s].live = session[s].live /\ session'[s].user = session[s].user
    <2> DEFINE left == IF session[s].left > 0 THEN session[s].left - 1 ELSE 0
               age == Min({session[s].age + 1, MaxLifetime})
               idle == Min({session[s].idle + 1, MaxLifetime})
               row == [session[s] EXCEPT !.left = left, !.age = age, !.idle = idle]
    <2>1. session[s] \in SessionShape
      BY DEF AccountsInv, ShapesOK
    <2>2. session'[s] \in {session[s], row}
      BY DEF Tick
    <2>3. session[s].left \in Int /\ (session[s].age + 1) \in Int
            /\ (session[s].idle + 1) \in Int
      BY <2>1 DEF SessionShape
    <2>4. left \in Int /\ age \in Int /\ idle \in Int
      BY <2>3, SmallerOfTwo, AccountConstants
    <2> HIDE DEF left, age, idle
    <2>5. row \in SessionShape /\ row.live = session[s].live /\ row.user = session[s].user
      BY <2>1, <2>4 DEF SessionShape
    <2> HIDE DEF row
    <2> QED
      BY <2>1, <2>2, <2>5
  <1>3. session' = [s \in Sessions |-> session'[s]]
    BY DEF Tick
  <1>4. session' \in [Sessions -> SessionShape]
    BY <1>2, <1>3
  <1> QED
    BY <1>1, <1>2, <1>4, SessionStep DEF AccountsInv, ShapesOK, SessionsAreOwned

(* The steps that only end a transaction, add a contact, or let a token    *)
(* lapse that nobody holds.                                                *)
LEMMA AbortInv == ASSUME AccountsInv, NEW t \in Txns, Abort(t) PROVE AccountsInv'
  <1>1. EndsTxn(t) /\ UNCHANGED <<user, token, session>>
    BY DEF Abort
  <1> QED
    BY <1>1, EndedTxn, SessionStep DEF AccountsInv, ShapesOK, SessionsAreOwned

(* A contact that an invoice creates has neither token nor session.        *)
LEMMA ContactInv ==
    ASSUME AccountsInv, NEW u \in Users, GetOrCreateContactUser(u)
    PROVE  AccountsInv'
  <1>1. user' = [user EXCEPT ![u] = Contact] /\ UNCHANGED <<token, session, txn>>
    BY DEF GetOrCreateContactUser, FreshRow
  <1>2. user' \in [Users -> UserRow]
    BY <1>1, EmptyRows DEF AccountsInv, ShapesOK
  <1>3. \A v \in Users : user'[v].disabled => user[v].disabled
    BY <1>1, EmptyRows DEF AccountsInv, ShapesOK
  <1> QED
    BY <1>1, <1>2, <1>3, SessionStep DEF AccountsInv, ShapesOK, SessionsAreOwned

(* A token that expires is held by no transaction.                         *)
LEMMA TokenExpiresInv ==
    ASSUME AccountsInv, NEW k \in Tokens, TokenExpires(k)
    PROVE  AccountsInv'
  <1>1. token' = [token EXCEPT ![k].status = "dead"] /\ UNCHANGED <<user, session, txn>>
    BY DEF TokenExpires
  <1>2. token \in [Tokens -> TokenRow]
    BY DEF AccountsInv, ShapesOK
  <1>3. token[k].status # "absent"
    BY DEF TokenExpires
  <1>4. /\ token' \in [Tokens -> TokenRow]
        /\ \A x \in Tokens : /\ token'[x].user = token[x].user
                             /\ token'[x].purpose = token[x].purpose
                             /\ token'[x].status # "absent" => token[x].status # "absent"
                             /\ x # k => token'[x].status = token[x].status
    BY <1>1, <1>2, <1>3 DEF TokenRow
  <1>5. ShapesOK' /\ TokensAreOwned' /\ SessionsAreOwned'
    BY <1>1, <1>4 DEF AccountsInv, ShapesOK, TokensAreOwned, SessionsAreOwned
  <1>6. ASSUME NEW x \in Txns, NEW h \in txn'[x].locks
        PROVE  token'[h].status = "live" /\ token'[h].user = token[h].user
    <2>1. h \in Tokens /\ h \in txn[x].locks
      BY <1>1 DEF AccountsInv, ShapesOK, TxnRow
    <2>2. h # k
      BY <2>1 DEF TokenExpires
    <2>3. HoldsLiveTokens(txn[x])
      BY DEF AccountsInv, TxnOK
    <2> QED
      BY <1>4, <2>1, <2>2, <2>3 DEF HoldsLiveTokens
  <1> QED
    BY <1>1, <1>5, <1>6, LeftAlone, FrameStep

-----------------------------------------------------------------------------
(***************************************************************************)
(* Theorems.                                                               *)
(***************************************************************************)

(* Every step of every transaction keeps the invariant.                    *)
LEMMA AccountsStepInv == AccountsInv /\ [AccountsNext]_accountVars => AccountsInv'
  <1> SUFFICES ASSUME AccountsInv, [AccountsNext]_accountVars PROVE AccountsInv'
    OBVIOUS
  <1>1. CASE UNCHANGED accountVars
    BY <1>1, SessionStep DEF accountVars, AccountsInv, ShapesOK, SessionsAreOwned
  <1>2. ASSUME NEW t \in Txns, NEW u \in Users,
               \/ Register(t, u) \/ RequestVerificationResend(t, u) \/ MintClaim(t, u)
               \/ RequestPasswordReset(t, u)
        PROVE  AccountsInv'
    <2>1. PICK purpose \in Purposes : BeginMint(t, u, purpose)
      BY <1>2 DEF Register, RequestVerificationResend, MintClaim, RequestPasswordReset, Purposes
    <2> QED
      BY <2>1, BeginMintInv
  <1>3. CASE \E t \in Txns :
                \/ \E u \in Users, p \in Passwords : Login(t, u, p)
                \/ \E k \in Tokens, p \in Passwords :
                      RedeemAndActivate(t, k, p) \/ ResetPassword(t, k, p)
                \/ \E s \in Sessions : LoginCommits(t, s) \/ ValidateSession(t, s)
                \/ \E csrf, safe \in BOOLEAN : RequestCommits(t, csrf, safe)
                \/ RouteCommits(t) \/ Logout(t)
                \/ MintCommits(t) \/ RedeemCommits(t) \/ ResetCommits(t) \/ Abort(t)
    BY <1>3, BeginLoginInv, BeginRedeemInv, BeginRequestInv, LoginCommitsInv,
       RequestCommitsInv, RouteCommitsInv, MintCommitsInv, RedeemCommitsInv, AbortInv
  <1>4. CASE \E u \in Users :
                \/ GetOrCreateContactUser(u) \/ DeactivateCustomer(u) \/ ReactivateCustomer(u)
                \/ \E p \in Passwords : AdminResetPassword(u, p) \/ EnsureAdminSeeded(u, p)
    BY <1>4, ContactInv, AdminStepInv
  <1>5. CASE (\E k \in Tokens : TokenExpires(k)) \/ Tick
    BY <1>5, TokenExpiresInv, TickInv
  <1> QED
    BY <1>1, <1>2, <1>3, <1>4, <1>5 DEF AccountsNext

(* In every reachable state the transactions in progress hold what they    *)
(* read: live tokens of their own, sessions of enabled users.              *)
THEOREM TransactionsHoldWhatTheyRead == AccountsSpec => []AccountsInv
  BY AccountsInitInv, AccountsStepInv, PTL DEF AccountsSpec

(* One token, one use: two requests that redeem the same verify, claim or  *)
(* reset link at once install one password, for the second waits for the   *)
(* row and then finds it used (domain/auth/*.py, the conditional UPDATE).  *)
THEOREM TokenAlwaysInstallsOnce == AccountsSpec => TokenInstallsOnce
  <1> DEFINE Once == \A t \in Txns : RedeemCommits(t) \/ ResetCommits(t) =>
                        \A k \in txn[t].locks : token[k].status = "live"
  <1>1. AccountsInv /\ [AccountsNext]_accountVars => [Once]_accountVars
    BY DEF AccountsInv, TxnOK, HoldsLiveTokens
  <1> QED
    BY <1>1, TransactionsHoldWhatTheyRead, PTL DEF AccountsSpec, TokenInstallsOnce

(* A step that gives a password to a row that had none redeems a token of  *)
(* that address, or seeds the admin.                                       *)
LEMMA PasswordComesFrom ==
    ASSUME AccountsInv, AccountsNext, NEW u \in Users,
           user[u].password = Nil, user'[u].password # Nil
    PROVE  \/ user'[u].role = "admin"
           \/ \E k \in Tokens : /\ token[k].user = u /\ token[k].status = "live"
                                /\ token'[k].status = "dead"
  <1>1. user \in [Users -> UserRow]
    BY DEF AccountsInv, ShapesOK
  <1>2. user' # user
    OBVIOUS
  <1>3. ASSUME NEW t \in Txns, MintCommits(t) PROVE FALSE
    <2>1. user' = [user EXCEPT ![txn[t].user] = IF @.exists THEN @ ELSE Contact]
      BY <1>2, <1>3 DEF MintCommits, FreshRow
    <2>2. user'[u] \in {user[u], Contact}
      BY <1>1, <2>1
    <2> QED
      BY <2>2, EmptyRows
  <1>4. ASSUME NEW t \in Txns, RedeemCommits(t) \/ ResetCommits(t)
        PROVE  \E k \in Tokens : /\ token[k].user = u /\ token[k].status = "live"
                                /\ token'[k].status = "dead"
    <2>1. txn[t].user = u
      BY <1>1, <1>4 DEF RedeemCommits, ResetCommits
    <2>2. TxnOK(txn[t]) /\ txn[t] \in TxnRow
      BY DEF AccountsInv, ShapesOK
    <2>3. PICK k \in txn[t].locks : token[k].user = u
      BY <1>4, <2>1, <2>2 DEF TxnOK, RedeemsOwnToken, RedeemCommits, ResetCommits
    <2>4. k \in Tokens /\ token[k].status = "live"
      BY <2>2 DEF TxnOK, HoldsLiveTokens, TxnRow
    <2>5. token' = Spent(t)
      BY <1>4 DEF RedeemCommits, ResetCommits
    <2>6. token'[k] = [token[k] EXCEPT !.status = "dead"]
      BY <2>4, <2>5 DEF Spent
    <2>7. token'[k].status = "dead"
      BY <2>4, <2>6 DEF AccountsInv, ShapesOK, TokenRow
    <2> QED
      BY <2>3, <2>4, <2>7
  <1>5. ASSUME NEW v \in Users, GetOrCreateContactUser(v) PROVE FALSE
    <2>1. user'[u] \in {user[u], Contact}
      BY <1>1, <1>5 DEF GetOrCreateContactUser, FreshRow
    <2> QED
      BY <2>1, EmptyRows
  <1>6. ASSUME NEW v \in Users, DeactivateCustomer(v) \/ ReactivateCustomer(v) PROVE FALSE
    BY <1>1, <1>6 DEF DeactivateCustomer, ReactivateCustomer, UserRow
  <1>7. ASSUME NEW v \in Users, NEW p \in Passwords, AdminResetPassword(v, p) PROVE FALSE
    <2>1. v = u
      BY <1>1, <1>7 DEF AdminResetPassword, UserRow
    <2>2. user[u].exists
      BY <1>7, <2>1 DEF AdminResetPassword, IsCustomer
    <2>3. AccountState(u) = "contact"
      BY <2>2 DEF AccountState
    <2> QED
      BY <1>7, <2>1, <2>3 DEF AdminResetPassword
  <1>8. ASSUME NEW v \in Users, NEW p \in Passwords, EnsureAdminSeeded(v, p)
        PROVE  user'[u].role = "admin"
    BY <1>1, <1>8 DEF EnsureAdminSeeded, UserRow
  <1>9. CASE \E t \in Txns :
                \/ \E v \in Users :
                      \/ Register(t, v) \/ RequestVerificationResend(t, v) \/ MintClaim(t, v)
                      \/ RequestPasswordReset(t, v)
                      \/ \E p \in Passwords : Login(t, v, p)
                \/ \E k \in Tokens, p \in Passwords :
                      RedeemAndActivate(t, k, p) \/ ResetPassword(t, k, p)
                \/ \E s \in Sessions : LoginCommits(t, s) \/ ValidateSession(t, s)
                \/ \E csrf, safe \in BOOLEAN : RequestCommits(t, csrf, safe)
                \/ RouteCommits(t) \/ Logout(t) \/ Abort(t)
    BY <1>2, <1>9 DEF Register, RequestVerificationResend, MintClaim, RequestPasswordReset,
         BeginMint, Login, RedeemAndActivate, ResetPassword, LoginCommits, ValidateSession,
         RequestCommits, RouteCommits, Logout, Abort
  <1>10. CASE (\E k \in Tokens : TokenExpires(k)) \/ Tick
    BY <1>2, <1>10 DEF TokenExpires, Tick
  <1> QED
    BY <1>3, <1>4, <1>5, <1>6, <1>7, <1>8, <1>9, <1>10 DEF AccountsNext

(* A password reaches an account that had none only through a token mailed *)
(* to its address, also when registrations, claims and resets of the same  *)
(* address cross (domain/auth/registration.py, email_verification.py,      *)
(* claim.py, password_reset.py), or as the admin's that start-up seeds.    *)
THEOREM CredentialAlwaysNeedsInbox == AccountsSpec => CredentialNeedsInbox
  <1> DEFINE FromInbox ==
        \A u \in Users : user[u].password = Nil /\ user'[u].password # Nil =>
          \/ user'[u].role = "admin"
          \/ \E k \in Tokens : /\ token[k].user = u /\ token[k].status = "live"
                               /\ token'[k].status = "dead"
  <1>1. AccountsInv /\ AccountsNext => FromInbox
    BY PasswordComesFrom
  <1>2. AccountsInv /\ [AccountsNext]_accountVars => [FromInbox]_accountVars
    BY <1>1
  <1> QED
    BY <1>2, TransactionsHoldWhatTheyRead, PTL DEF AccountsSpec, CredentialNeedsInbox

-----------------------------------------------------------------------------
(***************************************************************************)
(* Sessions under an old password.  OldSessionsOverlapped rests on three   *)
(* facts: tokens, sessions and logins have a row for their user; a session *)
(* or a login has a verified one; and a redemption, which begins before    *)
(* the address is verified, finds no session but those of logins that it   *)
(* has overlapped.                                                         *)
(***************************************************************************)
Known(u) == user[u].exists
MayHaveSessions(u) == user[u].exists /\ user[u].verified

RowsExist ==
    /\ \A k \in Tokens : token[k].status # "absent" => Known(token[k].user)
    /\ \A s \in Sessions : session[s].live => MayHaveSessions(session[s].user)
    /\ \A t \in Txns : txn[t].op = "login" => MayHaveSessions(txn[t].user)

RedeemersOverlap ==
    \A t \in Txns, s \in Sessions :
        txn[t].op = "redeem" /\ session[s].live /\ session[s].user = txn[t].user
            => session[s].overlap

SessionsInv == AccountsInv /\ RowsExist /\ RedeemersOverlap /\ OldSessionsOverlapped

\* No step takes a user, a verified address or the admin's role away.
UsersGrow ==
    \A u \in Users : user[u].exists =>
        /\ user'[u].exists
        /\ user[u].verified => user'[u].verified
        /\ user[u].role = "admin" => user'[u].role = "admin"

\* No session comes to life, and none changes its history.
SessionsCarryOn ==
    \A s \in Sessions : session'[s].live =>
        /\ session[s].live
        /\ session'[s].user = session[s].user /\ session'[s].under = session[s].under
        /\ session'[s].overlap = session[s].overlap

\* The account of a session that no change has overlapped stays as it is.
AccountsStay ==
    \A s \in Sessions : session'[s].live /\ ~session[s].overlap =>
        LET u == session[s].user
        IN  \/ user'[u].role = "admin"
            \/ /\ user'[u].password = user[u].password
               /\ user'[u].disabled => user[u].disabled

\* No login begins, and no redemption.
NoneBegins == \A x \in Txns : txn'[x].op \in {"login", "redeem"} => txn'[x] = txn[x]

(* A step that begins no transaction and opens no session.                 *)
LEMMA OverlapFrame ==
    ASSUME SessionsInv, AccountsInv', UsersGrow, SessionsCarryOn, AccountsStay, NoneBegins,
           \A k \in Tokens : token'[k].status # "absent" => user'[token'[k].user].exists
    PROVE  SessionsInv'
  <1>1. \A s \in Sessions : session[s].live => session[s].user \in Users
    BY DEF SessionsInv, AccountsInv, SessionsAreOwned
  <1>2. \A x \in Txns : txn[x].op = "login" => txn[x].user \in Users
    BY DEF SessionsInv, AccountsInv, TxnOK, HasItsUser
  <1>3. RowsExist'
    <2>1. \A s \in Sessions : session'[s].live => MayHaveSessions(session[s].user)'
      BY <1>1 DEF SessionsInv, RowsExist, MayHaveSessions, UsersGrow, SessionsCarryOn
    <2>2. \A s \in Sessions : session'[s].live => MayHaveSessions(session[s].user)'
                                                  /\ session'[s].user = session[s].user
      BY <2>1 DEF SessionsCarryOn
    <2>3. ASSUME NEW x \in Txns, txn'[x].op = "login"
          PROVE  txn'[x] = txn[x] /\ MayHaveSessions(txn[x].user)'
      <3>1. txn'[x] = txn[x]
        BY <2>3 DEF NoneBegins
      <3> QED
        BY <1>2, <2>3, <3>1 DEF SessionsInv, RowsExist, MayHaveSessions, UsersGrow
    <2> QED
      BY <2>2, <2>3 DEF RowsExist, Known, MayHaveSessions
  <1>4. RedeemersOverlap'
    <2> SUFFICES ASSUME NEW x \in Txns, NEW s \in Sessions, txn'[x].op = "redeem",
                        session'[s].live, session'[s].user = txn'[x].user
                 PROVE  session'[s].overlap
      BY DEF RedeemersOverlap
    <2>1. txn'[x] = txn[x]
      BY DEF NoneBegins
    <2> QED
      BY <2>1 DEF SessionsInv, RedeemersOverlap, SessionsCarryOn
  <1>5. OldSessionsOverlapped'
    <2> SUFFICES ASSUME NEW s \in Sessions, session'[s].live, ~session'[s].overlap,
                        user'[session'[s].user].role # "admin"
                 PROVE  /\ session'[s].under = user'[session'[s].user].password
                        /\ ~user'[session'[s].user].disabled
      BY DEF OldSessionsOverlapped
    <2>1. /\ session[s].live /\ ~session[s].overlap
          /\ session'[s].user = session[s].user /\ session'[s].under = session[s].under
      BY DEF SessionsCarryOn
    <2>2. user[session[s].user].role # "admin"
      BY <1>1, <2>1 DEF SessionsInv, RowsExist, MayHaveSessions, UsersGrow
    <2>3. /\ session[s].under = user[session[s].user].password
          /\ ~user[session[s].user].disabled
      BY <2>1, <2>2 DEF SessionsInv, OldSessionsOverlapped
    <2> QED
      BY <2>1, <2>3 DEF AccountsStay
  <1> QED
    BY <1>3, <1>4, <1>5 DEF SessionsInv

(* A transaction that begins: a login has a verified user, a redemption an *)
(* unverified one, who can have no session.                                *)
LEMMA OverlapBegins ==
    ASSUME SessionsInv, AccountsInv', NEW t \in Txns, txn[t] = NoTxn,
           UNCHANGED <<user, token, session>>,
           \A x \in Txns : x # t => txn'[x] = txn[x],
           txn'[t].op = "login" => MayHaveSessions(txn'[t].user),
           txn'[t].op = "redeem" => ~user[txn'[t].user].verified
    PROVE  SessionsInv'
  <1>1. RowsExist'
    BY DEF SessionsInv, RowsExist, Known, MayHaveSessions
  <1>2. RedeemersOverlap'
    BY DEF SessionsInv, RedeemersOverlap, RowsExist, MayHaveSessions
  <1>3. OldSessionsOverlapped'
    BY DEF SessionsInv, OldSessionsOverlapped
  <1> QED
    BY <1>1, <1>2, <1>3 DEF SessionsInv

(* The steps that begin a transaction do as OverlapBegins says.            *)
LEMMA OverlapBeginSteps ==
    ASSUME SessionsInv, AccountsInv', NEW t \in Txns,
           \/ \E u \in Users :
                \/ \E purpose \in Purposes : BeginMint(t, u, purpose)
                \/ \E p \in Passwords : Login(t, u, p)
           \/ \E k \in Tokens, p \in Passwords :
                RedeemAndActivate(t, k, p) \/ ResetPassword(t, k, p)
           \/ \E s \in Sessions : ValidateSession(t, s)
    PROVE  SessionsInv'
  <1>1. txn \in [Txns -> TxnRow]
    BY DEF SessionsInv, AccountsInv, ShapesOK
  <1>2. ASSUME NEW row, Begin(t, row)
        PROVE  /\ txn[t] = NoTxn /\ txn'[t] = row
               /\ \A x \in Txns : x # t => txn'[x] = txn[x]
    BY <1>1, <1>2 DEF Begin
  <1>3. ASSUME NEW u \in Users, NEW purpose \in Purposes, BeginMint(t, u, purpose)
        PROVE  SessionsInv'
    <2> DEFINE row == [NoTxn EXCEPT !.op = "mint", !.user = u, !.saw = AccountState(u),
                                    !.purpose = purpose, !.locks = LiveTokens(u, purpose)]
    <2>1. Begin(t, row) /\ UNCHANGED <<user, token, session>>
      BY <1>3 DEF BeginMint
    <2>2. row.op = "mint"
      BY FreeTxn DEF TxnRow
    <2> HIDE DEF row
    <2> QED
      BY <1>2, <2>1, <2>2, OverlapBegins
  <1>4. ASSUME NEW u \in Users, NEW p \in Passwords, Login(t, u, p)
        PROVE  SessionsInv'
    <2> DEFINE row == [NoTxn EXCEPT !.op = "login", !.user = u, !.password = p]
    <2>1. Begin(t, row) /\ UNCHANGED <<user, token, session>>
      BY <1>4 DEF Login
    <2>2. row.op = "login" /\ row.user = u
      BY FreeTxn DEF TxnRow
    <2>3. MayHaveSessions(u)
      <3>1. AccountState(u) = "active" /\ user[u] \in UserRow
        BY <1>4 DEF Login, MayLogIn, SessionsInv, AccountsInv, ShapesOK
      <3> QED
        BY <3>1 DEF AccountState, UserRow, MayHaveSessions
    <2> HIDE DEF row
    <2> QED
      BY <1>2, <2>1, <2>2, <2>3, OverlapBegins
  <1>5. ASSUME NEW k \in Tokens, NEW p \in Passwords, RedeemAndActivate(t, k, p)
        PROVE  SessionsInv'
    <2> DEFINE row == [NoTxn EXCEPT !.op = "redeem", !.user = token[k].user,
                                    !.locks = {k}, !.password = p]
    <2>1. /\ Begin(t, row) /\ UNCHANGED <<user, token, session>>
          /\ ~user[token[k].user].verified
      BY <1>5 DEF RedeemAndActivate
    <2>2. row.op = "redeem" /\ row.user = token[k].user
      BY FreeTxn DEF TxnRow
    <2> HIDE DEF row
    <2> QED
      BY <1>2, <2>1, <2>2, OverlapBegins
  <1>6. ASSUME NEW k \in Tokens, NEW p \in Passwords, ResetPassword(t, k, p)
        PROVE  SessionsInv'
    <2> DEFINE row == [NoTxn EXCEPT !.op = "reset", !.user = token[k].user,
                                    !.locks = {k}, !.password = p]
    <2>1. Begin(t, row) /\ UNCHANGED <<user, token, session>>
      BY <1>6 DEF ResetPassword
    <2>2. row.op = "reset"
      BY FreeTxn DEF TxnRow
    <2> HIDE DEF row
    <2> QED
      BY <1>2, <2>1, <2>2, OverlapBegins
  <1>7. ASSUME NEW s \in Sessions, ValidateSession(t, s)
        PROVE  SessionsInv'
    <2> DEFINE row == [NoTxn EXCEPT !.op = "request", !.user = session[s].user,
                                    !.session = s, !.slides = Slides(s)]
    <2>1. Begin(t, row) /\ UNCHANGED <<user, token, session>>
      BY <1>7 DEF ValidateSession
    <2>2. row.op = "request"
      BY FreeTxn DEF TxnRow
    <2> HIDE DEF row
    <2> QED
      BY <1>2, <2>1, <2>2, OverlapBegins
  <1> QED
    BY <1>3, <1>4, <1>5, <1>6, <1>7

(* A login that commits notes whether it ran beside a change.              *)
LEMMA OverlapLoginCommits ==
    ASSUME SessionsInv, AccountsInv', NEW t \in Txns, NEW s \in Sessions, LoginCommits(t, s)
    PROVE  SessionsInv'
  <1> DEFINE u == txn[t].user
  <1>1. /\ session'[s].user = u /\ session'[s].under = txn[t].password
        /\ session'[s].overlap <=> \/ Changing(u) \/ user[u].disabled
                                   \/ user[u].password # txn[t].password
        /\ \A x \in Sessions : x # s => session'[x] = session[x]
        /\ EndsTxn(t) /\ user' = user /\ token' = token /\ txn[t].op = "login"
    BY DEF LoginCommits, SessionsInv, AccountsInv, ShapesOK
  <1>2. MayHaveSessions(u)
    BY <1>1 DEF SessionsInv, RowsExist
  <1>3. \A x \in Txns : txn'[x] = IF x = t THEN NoTxn ELSE txn[x]
    BY <1>1, EndedTxn DEF SessionsInv
  <1>4. RowsExist'
    BY <1>1, <1>2, <1>3, FreeTxn DEF SessionsInv, RowsExist, Known, MayHaveSessions
  <1>5. RedeemersOverlap'
    BY <1>1, <1>3, FreeTxn DEF SessionsInv, RedeemersOverlap, Changing
  <1>6. OldSessionsOverlapped'
    BY <1>1 DEF SessionsInv, OldSessionsOverlapped
  <1> QED
    BY <1>4, <1>5, <1>6 DEF SessionsInv

(* A minted token has a user; nobody who had a session changes.            *)
LEMMA OverlapMintCommits ==
    ASSUME SessionsInv, AccountsInv', NEW t \in Txns, MintCommits(t)
    PROVE  SessionsInv'
  <1> DEFINE u == txn[t].user
  <1>1. EndsTxn(t) /\ session' = session /\ u \in Users
    BY DEF MintCommits, SessionsInv, AccountsInv, TxnOK, HasItsUser
  <1>2. NoneBegins
    BY <1>1, EndedTxn, FreeTxn DEF SessionsInv, NoneBegins
  <1>3. /\ user \in [Users -> UserRow] /\ token \in [Tokens -> TokenRow]
        /\ \A k \in Tokens : token[k].status # "absent" =>
               token[k].user \in Users /\ user[token[k].user].exists
    BY DEF SessionsInv, AccountsInv, ShapesOK, TokensAreOwned, RowsExist, Known
  <1>4. \A v \in Users : user[v].exists => user'[v] = user[v]
    BY <1>3 DEF MintCommits
  <1>5. UsersGrow /\ SessionsCarryOn
    BY <1>1, <1>4 DEF UsersGrow, SessionsCarryOn
  <1>6. AccountsStay
    <2>1. \A s \in Sessions : session[s].live =>
              session[s].user \in Users /\ user[session[s].user].exists
      BY DEF SessionsInv, AccountsInv, SessionsAreOwned, RowsExist, MayHaveSessions
    <2> QED
      BY <1>1, <1>4, <2>1 DEF AccountsStay
  <1>7. ASSUME NEW k \in Tokens, token'[k].status # "absent"
        PROVE  user'[token'[k].user].exists
    <2>1. CASE UNCHANGED <<user, token>>
      BY <1>3, <1>7, <2>1
    <2>2. CASE /\ user' = [user EXCEPT ![u] = IF @.exists THEN @ ELSE FreshRow(u)]
               /\ \E fresh \in Tokens :
                     /\ token[fresh].status = "absent"
                     /\ token' = [x \in Tokens |->
                           IF x = fresh THEN [status |-> "live", user |-> u,
                                              purpose |-> txn[t].purpose]
                           ELSE IF x \in txn[t].locks THEN [token[x] EXCEPT !.status = "dead"]
                           ELSE token[x]]
      <3>1. user'[u].exists
        BY <1>1, <1>3, <2>2, ContactExists DEF FreshRow
      <3>2. CASE token'[k].user = u
        BY <3>1, <3>2
      <3>3. CASE token'[k].user # u
        <4>1. token'[k] \in {token[k], [token[k] EXCEPT !.status = "dead"]}
          BY <2>2, <3>3
        <4>2. token'[k].user = token[k].user
          BY <1>3, <4>1 DEF TokenRow
        <4>3. token[k].status # "absent"
          <5>1. CASE token'[k] = token[k]
            BY <1>7, <5>1
          <5>2. CASE token'[k] # token[k]
            <6>1. k \in txn[t].locks
              BY <2>2, <3>3, <5>2
            <6> QED
              BY <6>1 DEF SessionsInv, AccountsInv, TxnOK, HoldsLiveTokens
          <5> QED
            BY <5>1, <5>2
        <4> QED
          BY <1>3, <1>4, <4>2, <4>3
      <3> QED
        BY <3>2, <3>3
    <2> QED
      BY <2>1, <2>2 DEF MintCommits
  <1> QED
    BY <1>2, <1>5, <1>6, <1>7, OverlapFrame

(* A redemption changes an account all of whose sessions it overlapped; a  *)
(* reset leaves its account none.                                          *)
LEMMA OverlapRedeemCommits ==
    ASSUME SessionsInv, AccountsInv', NEW t \in Txns, RedeemCommits(t) \/ ResetCommits(t)
    PROVE  SessionsInv'
  <1> DEFINE u == txn[t].user
  <1>1. EndsTxn(t) /\ token' = Spent(t) /\ txn[t].op \in {"redeem", "reset"}
    BY DEF RedeemCommits, ResetCommits
  <1>2. NoneBegins
    BY <1>1, EndedTxn, FreeTxn DEF SessionsInv, NoneBegins
  <1>3. user \in [Users -> UserRow] /\ token \in [Tokens -> TokenRow] /\ u \in Users
    BY <1>1 DEF SessionsInv, AccountsInv, ShapesOK, TxnOK, HasItsUser
  <1>4. \A v \in Users : /\ user'[v].exists = user[v].exists
                         /\ user'[v].role = user[v].role
                         /\ user'[v].disabled = user[v].disabled
                         /\ user[v].verified => user'[v].verified
                         /\ v # u => user'[v] = user[v]
    <2>1. CASE RedeemCommits(t)
      BY <1>3, <2>1 DEF RedeemCommits, UserRow
    <2>2. CASE ResetCommits(t)
      BY <1>3, <2>2 DEF ResetCommits, UserRow
    <2> QED
      BY <2>1, <2>2
  <1>5. UsersGrow
    BY <1>4 DEF UsersGrow
  <1>6. \A s \in Sessions : session'[s] \in {session[s], NoSession}
    BY DEF RedeemCommits, ResetCommits, Revoked, SessionsInv, AccountsInv, ShapesOK
  <1>7. SessionsCarryOn
    BY <1>6, EmptyRows DEF SessionsCarryOn
  <1>8. AccountsStay
    <2> SUFFICES ASSUME NEW s \in Sessions, session'[s].live, ~session[s].overlap
                 PROVE  /\ user'[session[s].user].password = user[session[s].user].password
                        /\ user'[session[s].user].disabled = user[session[s].user].disabled
      BY DEF AccountsStay
    <2>1. session[s].live /\ session'[s] = session[s] /\ session[s].user \in Users
      BY <1>6, EmptyRows DEF SessionsInv, AccountsInv, SessionsAreOwned
    <2>2. session[s].user # u
      <3>1. CASE RedeemCommits(t)
        BY <2>1, <3>1 DEF SessionsInv, RedeemersOverlap, RedeemCommits
      <3>2. CASE ResetCommits(t)
        BY <2>1, <3>2, EmptyRows DEF ResetCommits, Revoked
      <3> QED
        BY <3>1, <3>2
    <2> QED
      BY <1>4, <2>1, <2>2
  <1>9. ASSUME NEW k \in Tokens, token'[k].status # "absent"
        PROVE  user'[token'[k].user].exists
    <2>1. token'[k].user = token[k].user
      BY <1>1, <1>3 DEF Spent, TokenRow
    <2>2. token[k].status # "absent"
      <3>1. CASE k \in txn[t].locks
        BY <3>1 DEF SessionsInv, AccountsInv, TxnOK, HoldsLiveTokens
      <3>2. CASE k \notin txn[t].locks
        BY <1>1, <1>9, <3>2 DEF Spent
      <3> QED
        BY <3>1, <3>2
    <2>3. token[k].user \in Users /\ user[token[k].user].exists
      BY <2>2 DEF SessionsInv, AccountsInv, TokensAreOwned, RowsExist, Known
    <2> QED
      BY <1>4, <2>1, <2>3
  <1> QED
    BY <1>2, <1>5, <1>7, <1>8, <1>9, OverlapFrame

(* The admin's routes delete the sessions of the account they change; the  *)
(* seeded account is the admin's.                                          *)
LEMMA OverlapAdminSteps ==
    ASSUME SessionsInv, AccountsInv', NEW u \in Users,
           \/ GetOrCreateContactUser(u) \/ DeactivateCustomer(u) \/ ReactivateCustomer(u)
           \/ \E p \in Passwords : AdminResetPassword(u, p) \/ EnsureAdminSeeded(u, p)
    PROVE  SessionsInv'
  <1>1. token' = token /\ txn' \in {txn, Overlapping(u)}
    BY DEF GetOrCreateContactUser, DeactivateCustomer, ReactivateCustomer, AdminResetPassword,
           EnsureAdminSeeded
  <1>2. /\ user \in [Users -> UserRow] /\ session \in [Sessions -> SessionShape]
        /\ txn \in [Txns -> TxnRow]
    BY DEF SessionsInv, AccountsInv, ShapesOK
  <1>3. \A s \in Sessions : session'[s] \in {session[s], NoSession}
    BY <1>2 DEF GetOrCreateContactUser, DeactivateCustomer, ReactivateCustomer,
                AdminResetPassword, EnsureAdminSeeded, Revoked
  <1>4. SessionsCarryOn
    BY <1>3, EmptyRows DEF SessionsCarryOn
  <1> DEFINE Stays(v) == \/ user'[v].role = "admin"
                         \/ /\ user'[v].password = user[v].password
                            /\ user'[v].disabled => user[v].disabled
             Grows(v) == /\ user'[v].exists
                         /\ user[v].verified => user'[v].verified
                         /\ user[v].role = "admin" => user'[v].role = "admin"
  <1>5. ASSUME NEW v \in Users, user[v].exists
        PROVE  Grows(v) /\ (Stays(v) \/ (v = u /\ session' = Revoked(u)))
    <2>1. CASE GetOrCreateContactUser(u)
      <3>1. v # u
        BY <1>5, <2>1 DEF GetOrCreateContactUser, AccountState, UserRow
      <3>2. user'[v] = user[v]
        BY <1>2, <2>1, <3>1 DEF GetOrCreateContactUser
      <3> QED
        BY <1>5, <3>2
    <2>2. CASE DeactivateCustomer(u)
      BY <1>2, <1>5, <2>2 DEF DeactivateCustomer, UserRow
    <2>3. CASE ReactivateCustomer(u)
      BY <1>2, <1>5, <2>3 DEF ReactivateCustomer, UserRow
    <2>4. ASSUME NEW p \in Passwords, AdminResetPassword(u, p)
          PROVE  Grows(v) /\ (Stays(v) \/ (v = u /\ session' = Revoked(u)))
      BY <1>2, <1>5, <2>4 DEF AdminResetPassword, UserRow
    <2>5. ASSUME NEW p \in Passwords, EnsureAdminSeeded(u, p)
          PROVE  Grows(v) /\ Stays(v)
      <3> DEFINE row == [user[u] EXCEPT !.exists = TRUE, !.password = p,
                                        !.verified = TRUE, !.role = "admin"]
      <3>1. user' = [user EXCEPT ![u] = row]
        BY <1>2, <2>5 DEF EnsureAdminSeeded
      <3>2. row.exists /\ row.verified /\ row.role = "admin"
        BY <1>2 DEF UserRow
      <3> HIDE DEF row
      <3> QED
        BY <1>2, <1>5, <3>1, <3>2
    <2> QED
      BY <2>1, <2>2, <2>3, <2>4, <2>5
  <1>6. \A v \in Users : user[v].exists => Grows(v)
    BY <1>5
  <1>7. ASSUME NEW s \in Sessions, session'[s].live
        PROVE  Stays(session[s].user)
    <2>1. /\ session[s].live /\ session'[s] = session[s]
          /\ session[s].user \in Users /\ user[session[s].user].exists
      BY <1>3, <1>7, EmptyRows
         DEF SessionsInv, AccountsInv, SessionsAreOwned, RowsExist, MayHaveSessions
    <2>2. session' = Revoked(u) => session[s].user # u
      BY <1>7, EmptyRows DEF Revoked
    <2> QED
      BY <1>5, <2>1, <2>2
  <1>8. UsersGrow
    BY <1>6 DEF UsersGrow
  <1>9. AccountsStay
    BY <1>7 DEF AccountsStay
  <1>10. \A k \in Tokens : token'[k].status # "absent" => user'[token'[k].user].exists
    BY <1>1, <1>6 DEF SessionsInv, AccountsInv, TokensAreOwned, RowsExist, Known
  <1>11. NoneBegins
    BY <1>1, <1>2, OverlappingRows DEF NoneBegins, Serves
  <1> QED
    BY <1>4, <1>8, <1>9, <1>10, <1>11, OverlapFrame

(* The other steps leave the users alone, and of sessions at most the      *)
(* clocks and the rows that go.                                            *)
LEMMA OverlapOtherSteps ==
    ASSUME SessionsInv, AccountsInv',
           \/ \E t \in Txns, csrf, safe \in BOOLEAN : RequestCommits(t, csrf, safe)
           \/ \E t \in Txns : RouteCommits(t) \/ Logout(t) \/ Abort(t)
           \/ \E k \in Tokens : TokenExpires(k)
           \/ Tick
           \/ UNCHANGED accountVars
    PROVE  SessionsInv'
  <1>1. user' = user
    BY DEF RequestCommits, RouteCommits, Abort, TokenExpires, Logout, Tick, accountVars
  <1>2. /\ session \in [Sessions -> SessionShape] /\ token \in [Tokens -> TokenRow]
        /\ txn \in [Txns -> TxnRow] /\ AccountsInv
    BY DEF SessionsInv, AccountsInv, ShapesOK
  <1>3. NoneBegins
    <2>1. ASSUME NEW t \in Txns, NEW csrf \in BOOLEAN, NEW safe \in BOOLEAN,
                 RequestCommits(t, csrf, safe)
          PROVE  NoneBegins
      <3> DEFINE row == [txn[t] EXCEPT !.op = "route"]
      <3>1. txn' = [txn EXCEPT ![t] = row] \/ txn' = [txn EXCEPT ![t] = NoTxn]
        BY <1>2, <2>1 DEF RequestCommits, EndsTxn
      <3>2. row.op = "route"
        BY <1>2 DEF TxnRow
      <3> HIDE DEF row
      <3> QED
        BY <1>2, <3>1, <3>2, FreeTxn DEF NoneBegins
    <2>2. ASSUME NEW t \in Txns, EndsTxn(t) PROVE NoneBegins
      BY <1>2, <2>2, FreeTxn DEF EndsTxn, NoneBegins
    <2>3. CASE txn' = txn
      BY <2>3 DEF NoneBegins
    <2> QED
      BY <2>1, <2>2, <2>3 DEF RouteCommits, Abort, TokenExpires, Logout, Tick, accountVars
  <1>4. SessionsCarryOn
    <2>1. ASSUME NEW t \in Txns, NEW csrf \in BOOLEAN, NEW safe \in BOOLEAN,
                 RequestCommits(t, csrf, safe)
          PROVE  SessionsCarryOn
      <3>1. session' \in {session, Accepted(t)} /\ Serves(txn[t])
        BY <2>1 DEF RequestCommits, Serves
      <3>2. txn[t].session \in Sessions
        BY <1>2, <3>1, ServedSession
      <3>3. CASE session' = session
        BY <3>3 DEF SessionsCarryOn
      <3>4. CASE session' = Accepted(t)
        BY <1>2, <3>1, <3>2, <3>4, AcceptedSessions DEF SessionsCarryOn
      <3> QED
        BY <3>1, <3>3, <3>4
    <2>2. ASSUME NEW t \in Txns, Logout(t) PROVE SessionsCarryOn
      BY <1>2, <2>2, EmptyRows DEF Logout, SessionsCarryOn
    <2>3. CASE Tick
      <3> DEFINE left(s) == IF session[s].left > 0 THEN session[s].left - 1 ELSE 0
                 age(s) == Min({session[s].age + 1, MaxLifetime})
                 idle(s) == Min({session[s].idle + 1, MaxLifetime})
      <3>1. \A s \in Sessions : session'[s] \in {session[s],
                [session[s] EXCEPT !.left = left(s), !.age = age(s), !.idle = idle(s)]}
        BY <2>3 DEF Tick
      <3> HIDE DEF left, age, idle
      <3> QED
        BY <1>2, <3>1 DEF SessionsCarryOn, SessionShape
    <2>4. CASE session' = session
      BY <2>4 DEF SessionsCarryOn
    <2> QED
      BY <2>1, <2>2, <2>3, <2>4 DEF RouteCommits, Abort, TokenExpires, accountVars
  <1>5. UsersGrow /\ AccountsStay
    BY <1>1 DEF UsersGrow, AccountsStay
  <1>6. \A k \in Tokens : /\ token'[k].user = token[k].user
                          /\ token'[k].status # "absent" => token[k].status # "absent"
    <2>1. ASSUME NEW x \in Tokens, TokenExpires(x)
          PROVE  \A k \in Tokens : /\ token'[k].user = token[k].user
                                   /\ token'[k].status # "absent" => token[k].status # "absent"
      BY <1>2, <2>1 DEF TokenExpires, TokenRow
    <2>2. CASE token' = token
      BY <2>2
    <2> QED
      BY <2>1, <2>2 DEF RequestCommits, RouteCommits, Abort, Logout, Tick, accountVars
  <1>7. \A k \in Tokens : token'[k].status # "absent" => user'[token'[k].user].exists
    BY <1>1, <1>6 DEF SessionsInv, RowsExist, Known
  <1> QED
    BY <1>3, <1>4, <1>5, <1>7, OverlapFrame

(* Every step keeps it.                                                    *)
LEMMA SessionsStepInv ==
    SessionsInv /\ AccountsInv' /\ [AccountsNext]_accountVars => SessionsInv'
  <1> SUFFICES ASSUME SessionsInv, AccountsInv', [AccountsNext]_accountVars PROVE SessionsInv'
    OBVIOUS
  <1>1. ASSUME NEW t \in Txns, NEW u \in Users,
               \/ Register(t, u) \/ RequestVerificationResend(t, u) \/ MintClaim(t, u)
               \/ RequestPasswordReset(t, u)
        PROVE  SessionsInv'
    <2>1. PICK purpose \in Purposes : BeginMint(t, u, purpose)
      BY <1>1 DEF Register, RequestVerificationResend, MintClaim, RequestPasswordReset, Purposes
    <2> QED
      BY <2>1, OverlapBeginSteps
  <1>2. CASE \E t \in Txns :
                \/ \E u \in Users, p \in Passwords : Login(t, u, p)
                \/ \E k \in Tokens, p \in Passwords :
                      RedeemAndActivate(t, k, p) \/ ResetPassword(t, k, p)
                \/ \E s \in Sessions : ValidateSession(t, s)
    BY <1>2, OverlapBeginSteps
  <1>3. CASE \E t \in Txns :
                \/ \E s \in Sessions : LoginCommits(t, s)
                \/ MintCommits(t) \/ RedeemCommits(t) \/ ResetCommits(t)
    BY <1>3, OverlapLoginCommits, OverlapMintCommits, OverlapRedeemCommits
  <1>4. CASE \E u \in Users :
                \/ GetOrCreateContactUser(u) \/ DeactivateCustomer(u) \/ ReactivateCustomer(u)
                \/ \E p \in Passwords : AdminResetPassword(u, p) \/ EnsureAdminSeeded(u, p)
    BY <1>4, OverlapAdminSteps
  <1>5. CASE \/ \E t \in Txns, csrf, safe \in BOOLEAN : RequestCommits(t, csrf, safe)
             \/ \E t \in Txns : RouteCommits(t) \/ Logout(t) \/ Abort(t)
             \/ \E k \in Tokens : TokenExpires(k)
             \/ Tick
             \/ UNCHANGED accountVars
    BY <1>5, OverlapOtherSteps
  <1> QED
    BY <1>1, <1>2, <1>3, <1>4, <1>5 DEF AccountsNext

(* Neither a reset, nor the admin's reset, nor a deactivation leaves a     *)
(* session that was there before it began: one under an old password, or   *)
(* of a disabled account, comes from a login that ran beside the change    *)
(* (auth/sessions.py, domain/auth/password_reset.py, api/customers.py).    *)
THEOREM OldSessionsAlwaysOverlapped == AccountsSpec => []OldSessionsOverlapped
  <1>1. AccountsInit => SessionsInv
    BY AccountsInitInv, EmptyRows, FreeTxn
       DEF AccountsInit, SessionsInv, RowsExist, RedeemersOverlap, OldSessionsOverlapped
  <1>2. SessionsInv => OldSessionsOverlapped
    BY DEF SessionsInv
  <1> QED
    BY <1>1, <1>2, SessionsStepInv, TransactionsHoldWhatTheyRead, PTL DEF AccountsSpec

-----------------------------------------------------------------------------
(***************************************************************************)
(* Why every session ends.  What a session has left and its age add up to  *)
(* no more than the absolute lifetime, however often requests slide it; and *)
(* what it has left and the time since its last accepted request to no     *)
(* more than the idle timeout of its user, who may become the admin but    *)
(* never ceases to be.                                                     *)
(***************************************************************************)
IdleLimit(u) == IF user[u].role = "admin" THEN Max({AdminIdle, CustomerIdle}) ELSE CustomerIdle

InTime(r) ==
    /\ r.left \in Nat /\ r.age \in Nat /\ r.idle \in Nat
    /\ r.left + r.age <= MaxLifetime
    /\ r.left > 0 => r.left + r.idle <= IdleLimit(r.user)

SessionsInTime == \A s \in Sessions : session[s].live => InTime(session[s])

ExpiryInv == SessionsInv /\ SessionsInTime

AdminsStay == \A u \in Users : user[u].exists /\ user[u].role = "admin" => user'[u].role = "admin"

-----------------------------------------------------------------------------
(* The smaller and the greater of two numbers.                             *)
LEMMA OfTwo ==
    ASSUME NEW m \in Int, NEW n \in Int
    PROVE  /\ Min({m, n}) = IF m <= n THEN m ELSE n
           /\ Max({m, n}) = IF m <= n THEN n ELSE m
  <1>1. /\ \E x \in {m, n} : \A y \in {m, n} : x <= y
        /\ \E x \in {m, n} : \A y \in {m, n} : x >= y
    <2>1. CASE m <= n
      BY <2>1
    <2>2. CASE n <= m
      BY <2>2
    <2> QED
      BY <2>1, <2>2
  <1>2. /\ Min({m, n}) \in {m, n} /\ \A y \in {m, n} : Min({m, n}) <= y
        /\ Max({m, n}) \in {m, n} /\ \A y \in {m, n} : Max({m, n}) >= y
    BY <1>1 DEF Min, Max
  <1> QED
    BY <1>2

(* An idle timeout is within the limit of its user's role.                 *)
LEMMA TimeoutInLimit ==
    ASSUME NEW u
    PROVE  /\ IdleTimeout(u) \in Nat /\ IdleLimit(u) \in Nat
           /\ 0 < IdleTimeout(u) /\ IdleTimeout(u) <= IdleLimit(u)
           /\ CustomerIdle <= IdleLimit(u)
  <1>1. /\ AdminIdle \in Nat /\ CustomerIdle \in Nat /\ AdminIdle > 0 /\ CustomerIdle > 0
        /\ AdminIdle \in Int /\ CustomerIdle \in Int
    BY AccountConstants
  <1>2. Max({AdminIdle, CustomerIdle}) = IF AdminIdle <= CustomerIdle THEN CustomerIdle ELSE AdminIdle
    BY <1>1, OfTwo
  <1> QED
    BY <1>1, <1>2 DEF IdleTimeout, IdleLimit

(* Once an account is the admin's, it stays the admin's.                   *)
LEMMA AdminsAlwaysStay ==
    ASSUME SessionsInv, [AccountsNext]_accountVars
    PROVE  AdminsStay
  <1>1. user \in [Users -> UserRow]
    BY DEF SessionsInv, AccountsInv, ShapesOK
  <1>2. ASSUME NEW t \in Txns, MintCommits(t) PROVE AdminsStay
    BY <1>1, <1>2 DEF MintCommits, AdminsStay
  <1>3. ASSUME NEW t \in Txns, RedeemCommits(t) \/ ResetCommits(t) PROVE AdminsStay
    <2>1. CASE RedeemCommits(t)
      BY <1>1, <2>1 DEF RedeemCommits, UserRow, AdminsStay
    <2>2. CASE ResetCommits(t)
      BY <1>1, <2>2 DEF ResetCommits, UserRow, AdminsStay
    <2> QED
      BY <1>3, <2>1, <2>2
  <1>4. ASSUME NEW u \in Users, GetOrCreateContactUser(u) PROVE AdminsStay
    BY <1>1, <1>4 DEF GetOrCreateContactUser, AccountState, AdminsStay
  <1>5. ASSUME NEW u \in Users, DeactivateCustomer(u) \/ ReactivateCustomer(u) PROVE AdminsStay
    <2>1. CASE DeactivateCustomer(u)
      BY <1>1, <2>1 DEF DeactivateCustomer, UserRow, AdminsStay
    <2>2. CASE ReactivateCustomer(u)
      BY <1>1, <2>2 DEF ReactivateCustomer, UserRow, AdminsStay
    <2> QED
      BY <1>5, <2>1, <2>2
  <1>6. ASSUME NEW u \in Users, NEW p \in Passwords, AdminResetPassword(u, p) PROVE AdminsStay
    BY <1>1, <1>6 DEF AdminResetPassword, UserRow, AdminsStay
  <1>7. ASSUME NEW u \in Users, NEW p \in Passwords, EnsureAdminSeeded(u, p) PROVE AdminsStay
    BY <1>1, <1>7 DEF EnsureAdminSeeded, UserRow, AdminsStay
  <1>8. CASE user' = user
    BY <1>8 DEF AdminsStay
  <1>9. ASSUME NEW t \in Txns, NEW u \in Users,
               \/ Register(t, u) \/ RequestVerificationResend(t, u) \/ MintClaim(t, u)
               \/ RequestPasswordReset(t, u) \/ \E p \in Passwords : Login(t, u, p)
        PROVE  user' = user
    BY <1>9 DEF Register, RequestVerificationResend, MintClaim, RequestPasswordReset, BeginMint, Login
  <1>10. CASE \/ \E t \in Txns, k \in Tokens, p \in Passwords :
                    RedeemAndActivate(t, k, p) \/ ResetPassword(t, k, p)
              \/ \E t \in Txns, s \in Sessions : LoginCommits(t, s) \/ ValidateSession(t, s)
              \/ \E t \in Txns, csrf, safe \in BOOLEAN : RequestCommits(t, csrf, safe)
              \/ \E t \in Txns : RouteCommits(t) \/ Logout(t) \/ Abort(t)
              \/ \E k \in Tokens : TokenExpires(k)
              \/ Tick
              \/ UNCHANGED accountVars
    BY <1>8, <1>10 DEF RedeemAndActivate, ResetPassword, LoginCommits, ValidateSession,
       RequestCommits, RouteCommits, Abort, TokenExpires, Logout, Tick, accountVars
  <1> QED
    BY <1>2, <1>3, <1>4, <1>5, <1>6, <1>7, <1>8, <1>9, <1>10 DEF AccountsNext

(* A session that is as it was, or gone, is in time.                       *)
LEMMA UntouchedInTime ==
    ASSUME ExpiryInv, AdminsStay, NEW s \in Sessions, session'[s].live,
           session'[s] = session[s]
    PROVE  InTime(session[s])'
  <1>1. /\ session[s].live /\ InTime(session[s]) /\ session[s].user \in Users
        /\ user[session[s].user].exists
    BY DEF ExpiryInv, SessionsInv, SessionsInTime, AccountsInv, SessionsAreOwned, RowsExist,
           MayHaveSessions
  <1>2. IdleLimit(session[s].user) <= IdleLimit(session[s].user)'
    <2>1. session'[s].user = session[s].user
      OBVIOUS
    <2>2. AdminIdle \in Int /\ CustomerIdle \in Int
      BY AccountConstants
    <2>3. Max({AdminIdle, CustomerIdle}) = IF AdminIdle <= CustomerIdle THEN CustomerIdle ELSE AdminIdle
      BY <2>2, OfTwo
    <2> DEFINE most == Max({AdminIdle, CustomerIdle})
    <2>4. most \in Int /\ CustomerIdle \in Int /\ CustomerIdle <= most
      BY <2>2, <2>3
    <2>5. /\ IdleLimit(session[s].user) = IF user[session[s].user].role = "admin"
                                          THEN most ELSE CustomerIdle
          /\ IdleLimit(session[s].user)' = IF user'[session[s].user].role = "admin"
                                           THEN most ELSE CustomerIdle
      BY <2>1 DEF IdleLimit
    <2> HIDE DEF most
    <2> QED
      BY <1>1, <2>4, <2>5 DEF AdminsStay
  <1>3. IdleLimit(session[s].user) \in Nat /\ IdleLimit(session[s].user)' \in Int
    <2>1. AdminIdle \in Int /\ CustomerIdle \in Int
      BY AccountConstants
    <2>2. Max({AdminIdle, CustomerIdle}) \in Int
      BY <2>1, OfTwo
    <2> QED
      BY <2>1, <2>2, TimeoutInLimit DEF IdleLimit
  <1> QED
    BY <1>1, <1>2, <1>3 DEF InTime

(* A login opens a session with a whole idle timeout, within the lifetime. *)
LEMMA LoginInTime ==
    ASSUME ExpiryInv, AdminsStay, NEW t \in Txns, NEW s \in Sessions, LoginCommits(t, s)
    PROVE  SessionsInTime'
  <1> DEFINE u == txn[t].user
             left == Min({IdleTimeout(u), MaxLifetime})
  <1>1. /\ session'[s].user = u /\ session'[s].left = left
        /\ session'[s].age = 0 /\ session'[s].idle = 0 /\ user' = user
        /\ \A x \in Sessions : x # s => session'[x] = session[x]
    BY DEF LoginCommits, ExpiryInv, SessionsInv, AccountsInv, ShapesOK
  <1>2. left \in Nat /\ left <= MaxLifetime /\ left <= IdleLimit(u)
    <2>1. /\ IdleTimeout(u) \in Nat /\ IdleLimit(u) \in Nat /\ MaxLifetime \in Nat
          /\ IdleTimeout(u) <= IdleLimit(u)
      BY TimeoutInLimit, AccountConstants
    <2>2. left = IF IdleTimeout(u) <= MaxLifetime THEN IdleTimeout(u) ELSE MaxLifetime
      BY <2>1, OfTwo
    <2> HIDE DEF left
    <2> QED
      BY <2>1, <2>2
  <1> HIDE DEF left, u
  <1>3. IdleLimit(session[s].user)' = IdleLimit(u)
    BY <1>1 DEF IdleLimit
  <1>4. InTime(session[s])'
    BY <1>1, <1>2, <1>3 DEF InTime
  <1> QED
    BY <1>1, <1>4, UntouchedInTime DEF SessionsInTime

(* A request that ends slides its session, but not past its lifetime; one  *)
(* that fails the CSRF check leaves it as it was.                          *)
LEMMA RequestInTime ==
    ASSUME ExpiryInv, AdminsStay, NEW t \in Txns, NEW csrf \in BOOLEAN, NEW safe \in BOOLEAN,
           RequestCommits(t, csrf, safe)
    PROVE  SessionsInTime'
  <1>1. AccountsInv /\ Serves(txn[t]) /\ user' = user
    BY DEF RequestCommits, Serves, ExpiryInv, SessionsInv
  <1> PICK s \in Sessions : s = txn[t].session
    BY <1>1, ServedSession
  <1>2. CASE session' = session
    BY <1>2, UntouchedInTime DEF SessionsInTime
  <1>3. CASE session' = Accepted(t) /\ ~session[s].live
    BY <1>2, <1>3 DEF Accepted
  <1>4. CASE session' = Accepted(t) /\ session[s].live
    <2> DEFINE u == session[s].user
    <2>1. InTime(session[s])
      BY <1>4 DEF ExpiryInv, SessionsInTime
    <2>2. /\ session'[s].left = IF txn[t].slides THEN Slid(s) ELSE session[s].left
          /\ session'[s].idle = 0
          /\ session'[s].age = session[s].age /\ session'[s].user = u
          /\ \A x \in Sessions : x # s => session'[x] = session[x]
      BY <1>1, <1>4, AcceptedSessions
    <2> PICK left : left = Slid(s)
      OBVIOUS
    <2>3. left \in Nat /\ left + session[s].age <= MaxLifetime /\ left <= IdleLimit(u)
      <3> DEFINE rest == MaxLifetime - session[s].age
      <3>1. /\ IdleTimeout(u) \in Nat /\ IdleLimit(u) \in Nat /\ MaxLifetime \in Nat
            /\ IdleTimeout(u) <= IdleLimit(u)
        BY TimeoutInLimit, AccountConstants
      <3>2. session[s].age \in Nat /\ rest \in Nat
        BY <2>1, <3>1 DEF InTime
      <3>3. left = IF IdleTimeout(u) <= rest THEN IdleTimeout(u) ELSE rest
        BY <3>1, <3>2, OfTwo DEF Slid
      <3> QED
        BY <3>1, <3>2, <3>3
    <2> HIDE DEF u
    <2>4. IdleLimit(session[s].user)' = IdleLimit(u) /\ IdleLimit(u) \in Nat
      BY <1>1, <2>2, TimeoutInLimit DEF IdleLimit
    <2>5. InTime(session[s])'
      <3>1. CASE txn[t].slides
        BY <2>1, <2>2, <2>3, <2>4, <3>1 DEF InTime
      <3>2. CASE ~txn[t].slides
        BY <2>1, <2>2, <2>4, <3>2 DEF InTime, u
      <3> QED
        BY <3>1, <3>2
    <2> QED
      BY <2>2, <2>5, UntouchedInTime DEF SessionsInTime
  <1> QED
    BY <1>2, <1>3, <1>4 DEF RequestCommits

(* The clock takes from what is left what it adds to the age and to the    *)
(* time of idleness.                                                       *)
LEMMA TickInTime == ASSUME ExpiryInv, Tick PROVE SessionsInTime'
  <1> SUFFICES ASSUME NEW s \in Sessions, session'[s].live PROVE InTime(session[s])'
    BY DEF SessionsInTime
  <1> DEFINE left == IF session[s].left > 0 THEN session[s].left - 1 ELSE 0
             age == Min({session[s].age + 1, MaxLifetime})
             idle == Min({session[s].idle + 1, MaxLifetime})
             row == [session[s] EXCEPT !.left = left, !.age = age, !.idle = idle]
  <1>1. session[s] \in SessionShape /\ user' = user
    BY DEF ExpiryInv, SessionsInv, AccountsInv, ShapesOK, Tick
  <1>2. session[s].live /\ session'[s] = row
    BY DEF Tick
  <1>3. InTime(session[s])
    BY <1>2 DEF ExpiryInv, SessionsInTime
  <1>4. /\ session[s].left \in Nat /\ session[s].age \in Nat /\ session[s].idle \in Nat
        /\ session[s].left + session[s].age <= MaxLifetime /\ MaxLifetime \in Nat
    BY <1>3, AccountConstants DEF InTime
  <1>5. /\ age = IF session[s].age + 1 <= MaxLifetime THEN session[s].age + 1 ELSE MaxLifetime
        /\ idle = IF session[s].idle + 1 <= MaxLifetime THEN session[s].idle + 1 ELSE MaxLifetime
    BY <1>4, OfTwo
  <1> HIDE DEF age, idle
  <1>6. /\ left \in Nat /\ age \in Nat /\ idle \in Nat
        /\ left + age <= MaxLifetime
        /\ left > 0 => left + idle <= session[s].left + session[s].idle /\ session[s].left > 0
    BY <1>4, <1>5
  <1> HIDE DEF left
  <1>7. /\ row.left = left /\ row.age = age /\ row.idle = idle /\ row.user = session[s].user
    BY <1>1 DEF SessionShape
  <1> HIDE DEF row
  <1>8. /\ session'[s].left = left /\ session'[s].age = age /\ session'[s].idle = idle
        /\ session'[s].user = session[s].user
    BY <1>2, <1>7
  <1>9. IdleLimit(session[s].user)' = IdleLimit(session[s].user)
    BY <1>1, <1>8 DEF IdleLimit
  <1>10. IdleLimit(session[s].user) \in Nat
    BY TimeoutInLimit
  <1> QED
    BY <1>3, <1>4, <1>6, <1>8, <1>9, <1>10 DEF InTime

(* Every other step leaves a session as it is, or deletes it.              *)
LEMMA OtherStepsInTime ==
    ASSUME ExpiryInv, AdminsStay,
           \A s \in Sessions : session'[s] \in {session[s], NoSession}
    PROVE  SessionsInTime'
  BY UntouchedInTime, EmptyRows DEF SessionsInTime

(* Every step keeps the invariant.                                         *)
LEMMA ExpiryStepInv ==
    ExpiryInv /\ SessionsInv' /\ [AccountsNext]_accountVars => ExpiryInv'
  <1> SUFFICES ASSUME ExpiryInv, SessionsInv', [AccountsNext]_accountVars PROVE ExpiryInv'
    OBVIOUS
  <1> DEFINE Fewer == \A s \in Sessions : session'[s] \in {session[s], NoSession}
  <1>0. AdminsStay
    BY AdminsAlwaysStay DEF ExpiryInv
  <1>1. ASSUME NEW t \in Txns, NEW s \in Sessions, LoginCommits(t, s) PROVE ExpiryInv'
    BY <1>0, <1>1, LoginInTime DEF ExpiryInv
  <1>2. ASSUME NEW t \in Txns, NEW csrf \in BOOLEAN, NEW safe \in BOOLEAN,
               RequestCommits(t, csrf, safe)
        PROVE  ExpiryInv'
    BY <1>0, <1>2, RequestInTime DEF ExpiryInv
  <1>3. CASE Tick
    BY <1>3, TickInTime DEF ExpiryInv
  <1>4. CASE Fewer
    BY <1>0, <1>4, OtherStepsInTime DEF ExpiryInv
  <1>5. CASE session' = session
    BY <1>4, <1>5
  <1>6. session \in [Sessions -> SessionShape]
    BY DEF ExpiryInv, SessionsInv, AccountsInv, ShapesOK
  <1>7. ASSUME NEW t \in Txns, Logout(t) PROVE Fewer
    BY <1>6, <1>7 DEF Logout
  <1>8. ASSUME NEW t \in Txns, ResetCommits(t) PROVE Fewer
    BY <1>6, <1>8 DEF ResetCommits, Revoked
  <1>9. ASSUME NEW u \in Users,
               \/ GetOrCreateContactUser(u) \/ DeactivateCustomer(u) \/ ReactivateCustomer(u)
               \/ \E p \in Passwords : AdminResetPassword(u, p) \/ EnsureAdminSeeded(u, p)
        PROVE  Fewer
    BY <1>6, <1>9 DEF GetOrCreateContactUser, DeactivateCustomer, ReactivateCustomer,
       AdminResetPassword, EnsureAdminSeeded, Revoked
  <1> HIDE DEF Fewer
  <1>10. ASSUME NEW t \in Txns, NEW u \in Users,
                \/ Register(t, u) \/ RequestVerificationResend(t, u) \/ MintClaim(t, u)
                \/ RequestPasswordReset(t, u) \/ \E p \in Passwords : Login(t, u, p)
         PROVE  session' = session
    BY <1>10 DEF Register, RequestVerificationResend, MintClaim, RequestPasswordReset, BeginMint,
       Login
  <1>11. CASE \/ \E t \in Txns, k \in Tokens, p \in Passwords :
                    RedeemAndActivate(t, k, p) \/ ResetPassword(t, k, p)
              \/ \E t \in Txns, s \in Sessions : ValidateSession(t, s)
              \/ \E t \in Txns : \/ MintCommits(t) \/ RedeemCommits(t)
                                  \/ RouteCommits(t) \/ Abort(t)
              \/ \E k \in Tokens : TokenExpires(k)
              \/ UNCHANGED accountVars
    BY <1>5, <1>11 DEF RedeemAndActivate, ResetPassword, ValidateSession, MintCommits,
       RedeemCommits, RouteCommits, Abort, TokenExpires, accountVars
  <1> QED
    BY <1>1, <1>2, <1>3, <1>4, <1>5, <1>7, <1>8, <1>9, <1>10, <1>11 DEF AccountsNext

(* In every reachable state every session is in time.                      *)
THEOREM SessionsAlwaysInTime == AccountsSpec => []ExpiryInv
  <1>1. AccountsInit => ExpiryInv
    BY AccountsInitInv, EmptyRows, FreeTxn
       DEF AccountsInit, ExpiryInv, SessionsInTime, SessionsInv, RowsExist, RedeemersOverlap,
           OldSessionsOverlapped
  <1>2. ExpiryInv => SessionsInv
    BY DEF ExpiryInv
  <1> QED
    BY <1>1, <1>2, SessionsStepInv, ExpiryStepInv, TransactionsHoldWhatTheyRead,
       PTL DEF AccountsSpec

(* A session ends, however it is used: past the idle timeout since its     *)
(* last accepted request, or past its absolute lifetime, it has expired    *)
(* (auth/sessions.py, create_session and validate_session).                  *)
THEOREM SessionsAlwaysExpire == AccountsSpec => []SessionsExpire
  <1>1. ExpiryInv => SessionsExpire
    <2> SUFFICES ASSUME ExpiryInv, NEW s \in Sessions, session[s].live, session[s].left > 0
                 PROVE  /\ session[s].age < MaxLifetime
                        /\ session[s].idle < IdleLimit(session[s].user)
      BY DEF SessionsExpire, IdleLimit
    <2>1. InTime(session[s])
      BY DEF ExpiryInv, SessionsInTime
    <2>2. IdleLimit(session[s].user) \in Nat /\ MaxLifetime \in Nat
      BY TimeoutInLimit, AccountConstants
    <2> QED
      BY <2>1, <2>2 DEF InTime
  <1> QED
    BY <1>1, SessionsAlwaysInTime, PTL

-----------------------------------------------------------------------------
(***************************************************************************)
(* What a disabled account may still do: have a request end that had begun *)
(* before, and nothing else.                                               *)
(***************************************************************************)
Carries(t) == RouteCommits(t) \/ Logout(t) \/ RequestCommits(t, TRUE, TRUE)

OnlyOverlapping == \A t \in Txns : Carries(t) => txn[t].overlap \/ ~user[txn[t].user].disabled

NoneProlonged ==
    \A s \in Sessions : session[s].live /\ user[session[s].user].disabled =>
        session'[s].left <= session[s].left

(* A request that slides a session serves an enabled user.                 *)
LEMMA RequestProlongs ==
    ASSUME ExpiryInv, NEW t \in Txns, NEW csrf \in BOOLEAN, NEW safe \in BOOLEAN,
           RequestCommits(t, csrf, safe)
    PROVE  NoneProlonged
  <1>1. AccountsInv /\ Serves(txn[t]) /\ session' \in {session, Accepted(t)}
    BY DEF RequestCommits, Serves, ExpiryInv, SessionsInv
  <1>2. session[txn[t].session].live => ~user[session[txn[t].session].user].disabled
    BY <1>1 DEF AccountsInv, TxnOK, ServesEnabledUser
  <1>3. ASSUME NEW s \in Sessions, session[s].live, user[session[s].user].disabled
        PROVE  session'[s] = session[s]
    <2>1. txn[t].session \in Sessions
      BY <1>1, ServedSession
    <2>2. s # txn[t].session \/ ~session[txn[t].session].live
      BY <1>2, <1>3
    <2> QED
      BY <1>1, <2>1, <2>2, AcceptedSessions
  <1>4. \A s \in Sessions : session[s].left \in Int
    BY <1>1 DEF AccountsInv, ShapesOK, SessionShape
  <1> QED
    BY <1>3, <1>4 DEF NoneProlonged

(* No step prolongs a session of a disabled account.                       *)
LEMMA StepProlongs ==
    ASSUME ExpiryInv, [AccountsNext]_accountVars
    PROVE  NoneProlonged
  <1> DEFINE Fewer == \A s \in Sessions :
                          session[s].live => session'[s] \in {session[s], NoSession}
  <1>1. session \in [Sessions -> SessionShape]
    BY DEF ExpiryInv, SessionsInv, AccountsInv, ShapesOK
  <1>2. \A s \in Sessions : session[s].live => session[s].left \in Nat
    BY DEF ExpiryInv, SessionsInTime, InTime
  <1>3. NoSession.left = 0
    BY DEF NoSession
  <1>4. CASE Fewer
    BY <1>2, <1>3, <1>4 DEF NoneProlonged
  <1>5. ASSUME NEW t \in Txns, NEW s \in Sessions, LoginCommits(t, s) PROVE Fewer
    BY <1>1, <1>5, EmptyRows DEF LoginCommits, NewSessionId
  <1>6. CASE session' = session
    BY <1>4, <1>6
  <1>7. ASSUME NEW t \in Txns, Logout(t) PROVE Fewer
    BY <1>1, <1>7 DEF Logout
  <1>8. ASSUME NEW t \in Txns, ResetCommits(t) PROVE Fewer
    BY <1>1, <1>8 DEF ResetCommits, Revoked
  <1>9. ASSUME NEW u \in Users,
               \/ GetOrCreateContactUser(u) \/ DeactivateCustomer(u) \/ ReactivateCustomer(u)
               \/ \E p \in Passwords : AdminResetPassword(u, p) \/ EnsureAdminSeeded(u, p)
        PROVE  Fewer
    BY <1>1, <1>9 DEF GetOrCreateContactUser, DeactivateCustomer, ReactivateCustomer,
       AdminResetPassword, EnsureAdminSeeded, Revoked
  <1> HIDE DEF Fewer
  <1>10. ASSUME NEW t \in Txns, NEW u \in Users,
                \/ Register(t, u) \/ RequestVerificationResend(t, u) \/ MintClaim(t, u)
                \/ RequestPasswordReset(t, u) \/ \E p \in Passwords : Login(t, u, p)
         PROVE  session' = session
    BY <1>10 DEF Register, RequestVerificationResend, MintClaim, RequestPasswordReset, BeginMint,
       Login
  <1>11. CASE \/ \E t \in Txns, k \in Tokens, p \in Passwords :
                    RedeemAndActivate(t, k, p) \/ ResetPassword(t, k, p)
              \/ \E t \in Txns, s \in Sessions : ValidateSession(t, s)
              \/ \E t \in Txns : \/ MintCommits(t) \/ RedeemCommits(t)
                                  \/ RouteCommits(t) \/ Abort(t)
              \/ \E k \in Tokens : TokenExpires(k)
              \/ UNCHANGED accountVars
    BY <1>6, <1>11 DEF RedeemAndActivate, ResetPassword, ValidateSession, MintCommits,
       RedeemCommits, RouteCommits, Abort, TokenExpires, accountVars
  <1>12. CASE Tick
    <2>1. ASSUME NEW s \in Sessions, session[s].live
          PROVE  session'[s].left = IF session[s].left > 0 THEN session[s].left - 1 ELSE 0
      <3> DEFINE left == IF session[s].left > 0 THEN session[s].left - 1 ELSE 0
                 age == Min({session[s].age + 1, MaxLifetime})
                 idle == Min({session[s].idle + 1, MaxLifetime})
      <3>1. session'[s] = [session[s] EXCEPT !.left = left, !.age = age, !.idle = idle]
        BY <1>12, <2>1 DEF Tick
      <3> HIDE DEF left, age, idle
      <3>2. session'[s].left = left
        BY <1>1, <3>1 DEF SessionShape
      <3> QED
        BY <3>2 DEF left
    <2> QED
      BY <1>2, <2>1 DEF NoneProlonged
  <1> QED
    BY <1>4, <1>5, <1>6, <1>7, <1>8, <1>9, <1>10, <1>11, <1>12, RequestProlongs DEF AccountsNext

(* A request that begins once an account is disabled is not carried out,   *)
(* through whatever session, and none prolongs one: what is still carried  *)
(* out had begun before (auth/sessions.py, app.py, the middleware).        *)
THEOREM DisabledAccountsNeverAct == AccountsSpec => DisabledAccountsDoNothing
  <1>1. ExpiryInv => OnlyOverlapping
    BY DEF ExpiryInv, SessionsInv, AccountsInv, TxnOK, ServesEnabledUser, Serves,
           OnlyOverlapping, Carries, RouteCommits, Logout, RequestCommits
  <1>2. ExpiryInv /\ [AccountsNext]_accountVars => [OnlyOverlapping /\ NoneProlonged]_accountVars
    BY <1>1, StepProlongs
  <1>3. ExpiryInv /\ [AccountsNext]_accountVars =>
          [/\ \A t \in Txns :
                 (RouteCommits(t) \/ Logout(t) \/ RequestCommits(t, TRUE, TRUE)) =>
                     txn[t].overlap \/ ~user[txn[t].user].disabled
           /\ \A s \in Sessions : session[s].live /\ user[session[s].user].disabled =>
                 session'[s].left <= session[s].left]_accountVars
    BY <1>2 DEF OnlyOverlapping, NoneProlonged, Carries
  <1> QED
    BY <1>3, SessionsAlwaysInTime, PTL DEF AccountsSpec, DisabledAccountsDoNothing

=============================================================================
