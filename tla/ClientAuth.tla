----------------------------- MODULE ClientAuth -----------------------------
(***************************************************************************)
(* ultrade/sdk_client.py, class Client: the credentials of a client, the   *)
(* two methods that set them and the requests that carry and sign with     *)
(* them.  The tasks of one application share the client; a step is what    *)
(* one of them does between two awaits, so the credentials may change      *)
(* while a sign-in, an order or a deposit waits for the server.            *)
(*                                                                         *)
(* Abstractions.  A user stands for its signer and its address; a trading  *)
(* key for its id, and for the signer made from its mnemonic.  A token     *)
(* stands for the user it was issued to.  A request is its headers and its *)
(* claims: the accounts it speaks for, each with the signer of the message *)
(* that says so (None when only a parameter does).  What the server then   *)
(* answers changes no credential, save to a sign-in.                       *)
(***************************************************************************)
EXTENDS Naturals

CONSTANTS
    Tasks,             \* the application's tasks; each makes one call at a time
    Users,             \* the wallets that may sign in
    TradingKeys,       \* the trading keys the application holds
    KeyAddress,        \* trading key -> the user whose key it is
    SigninResponses,   \* what the server may answer to a sign-in
    MaxOrders,         \* bound: the number of orders in one call
    None,
    NotAToken          \* a failure's text, stored where a token belongs

ASSUME AuthAssumption ==
    /\ Users \cap TradingKeys = {}
    /\ KeyAddress \in [TradingKeys -> Users]
    /\ SigninResponses \subseteq {"token", "error", "empty", "failure"}
    /\ MaxOrders \in Nat
    /\ {None, NotAToken} \cap (Users \cup TradingKeys) = {}
    /\ None # NotAToken

VARIABLES
    login_user,          \* _login_user
    token,               \* _token: the user it was issued to, NotAToken or None
    trading_key_data,    \* _trading_key_data: the trading key it describes, or None
    trading_key_signer,  \* _trading_key_signer: the trading key it signs for, or None
    rejected,            \* (history) was there a mnemonic no signer can be made from?
    task,                \* where each task is in its call
    request              \* the last request sent

credentials == <<login_user, token, trading_key_data, trading_key_signer, rejected>>

authVars == <<credentials, task, request>>

Signers == Users \cup TradingKeys

\* The account a signer may sign for.
Account(s) == IF s \in Users THEN s ELSE KeyAddress[s]

Claim(address, signer) == [address |-> address, signer |-> signer]

\* who: whom the call signs in, or was made for; claim: that of the order in hand;
\* built: the claims signed so far; left: the orders still to build;
\* stale: (history) have the credentials changed since the call first read them?
Call(pc, who, claim, built, left, stale) ==
    [pc |-> pc, who |-> who, claim |-> claim, built |-> built, left |-> left, stale |-> stale]

Idle == Call("idle", None, Claim(None, None), {}, 0, FALSE)

-----------------------------------------------------------------------------
(***************************************************************************)
(* _check_auth_method, is_logged_in and __auth_headers.                    *)
(***************************************************************************)
check_auth_method ==
    IF login_user # None /\ token # None THEN "LOGIN"
    ELSE IF trading_key_data # None /\ trading_key_signer # None THEN "TRADING_KEY"
    ELSE "NONE"

is_logged_in == check_auth_method # "NONE"

\* Mutant: the login's address is not overridden by the trading key's.
auth_headers_LoginAddress ==
    [wallet |-> login_user, token |-> token, key |-> trading_key_data]

auth_headers ==
    LET login == login_user # None /\ token # None
    IN  [wallet |-> IF trading_key_data # None THEN KeyAddress[trading_key_data]
                    ELSE IF login THEN login_user ELSE None,
         token  |-> IF login THEN token ELSE None,
         key    |-> trading_key_data]

\* The account and signer _build_order_payload and _build_cancel_order_payload read.
order_claim ==
    IF check_auth_method = "TRADING_KEY"
    THEN Claim(KeyAddress[trading_key_data], trading_key_signer)
    ELSE Claim(login_user, login_user)

\* The address that queries and subscribe_options name.
login_address ==
    IF login_user # None THEN login_user ELSE KeyAddress[trading_key_data]

\* The transaction of a deposit goes to a chain: the signer sends no headers.
NoHeaders == [wallet |-> None, token |-> None, key |-> None]

\* caller: (history) the account the call was made for.
Request(op, headers, claims, caller, stale) ==
    [op |-> op, headers |-> headers, claims |-> claims, caller |-> caller, stale |-> stale]

Sends(op, claims, caller, stale) ==
    request' = Request(op, auth_headers, claims, caller, stale)

\* A request sent within the step that the call begins in.
SendsAtOnce(op, claims) == Sends(op, claims, auth_headers.wallet, FALSE)

AuthInit ==
    /\ login_user = None
    /\ token = None
    /\ trading_key_data = None
    /\ trading_key_signer = None
    /\ rejected = FALSE
    /\ task = [t \in Tasks |-> Idle]
    /\ request = Request("none", NoHeaders, {}, None, FALSE)

\* The calls under way once the credentials have changed under them.
Outdated(calls) ==
    [t \in Tasks |->
        IF calls[t].pc = "idle" THEN calls[t] ELSE [calls[t] EXCEPT !.stale = TRUE]]

-----------------------------------------------------------------------------
(***************************************************************************)
(* set_trading_key: synchronous.  When no signer can be made from the      *)
(* mnemonic it raises, with the new data already in place and the old      *)
(* signer and login still there.                                           *)
(***************************************************************************)
\* Mutant: the login user stays connected.
set_trading_key_KeepsLogin(t, k) ==
    /\ task[t] = Idle
    /\ trading_key_data' = k
    /\ trading_key_signer' = k
    /\ task' = Outdated(task)
    /\ UNCHANGED <<login_user, token, rejected, request>>

set_trading_key(t, k) ==
    /\ task[t] = Idle
    /\ trading_key_data' = k
    /\ trading_key_signer' = k
    /\ login_user' = None
    /\ token' = None
    /\ task' = Outdated(task)
    /\ UNCHANGED <<rejected, request>>

\* Mutant: the signer and login are dropped before the mnemonic is tried.
set_trading_key_raises_ClearsFirst(t, k) ==
    /\ task[t] = Idle
    /\ rejected' = TRUE
    /\ trading_key_data' = k
    /\ trading_key_signer' = None
    /\ login_user' = None
    /\ token' = None
    /\ task' = Outdated(task)
    /\ UNCHANGED request

set_trading_key_raises(t, k) ==
    /\ task[t] = Idle
    /\ rejected' = TRUE
    /\ trading_key_data' = k
    /\ task' = Outdated(task)
    /\ UNCHANGED <<login_user, token, trading_key_signer, request>>

-----------------------------------------------------------------------------
(***************************************************************************)
(* set_login_user: signs, awaits the server and then sets token and user   *)
(* together.  The status of the response is not looked at: a text with     *)
(* "error" in it raises, an empty one changes nothing, and any other text  *)
(* is the token.                                                           *)
(***************************************************************************)
set_login_user(t, u) ==
    /\ task[t] = Idle
    /\ task' = [task EXCEPT ![t] = Call("signin", u, Claim(None, None), {}, 0, FALSE)]
    /\ UNCHANGED <<credentials, request>>

\* Mutant: the user is set before the call awaits, the token after.
signed_in_KeepsUser(t) ==
    /\ task[t].pc = "signin"
    /\ \/ "token" \in SigninResponses /\ token' = task[t].who
       \/ "failure" \in SigninResponses /\ token' = NotAToken
    /\ login_user' = IF login_user = None THEN task[t].who ELSE login_user
    /\ trading_key_data' = None
    /\ trading_key_signer' = None
    /\ task' = Outdated([task EXCEPT ![t] = Idle])
    /\ UNCHANGED <<rejected, request>>

signed_in(t) ==
    /\ task[t].pc = "signin"
    /\ \/ "token" \in SigninResponses /\ token' = task[t].who
       \/ "failure" \in SigninResponses /\ token' = NotAToken
    /\ login_user' = task[t].who
    /\ trading_key_data' = None
    /\ trading_key_signer' = None
    /\ task' = Outdated([task EXCEPT ![t] = Idle])
    /\ UNCHANGED <<rejected, request>>

signin_fails(t) ==
    /\ task[t].pc = "signin"
    /\ SigninResponses \cap {"error", "empty"} # {}
    /\ task' = [task EXCEPT ![t] = Idle]
    /\ UNCHANGED <<credentials, request>>

-----------------------------------------------------------------------------
(***************************************************************************)
(* create_order (n = 1) and create_bulk_orders.  Account and signer are    *)
(* read before the pair is fetched, the order is signed after, and the     *)
(* headers are computed when all orders are signed.                        *)
(***************************************************************************)
create_orders(t, n) ==
    /\ task[t] = Idle
    /\ is_logged_in
    /\ task' = [task EXCEPT ![t] = Call("pair", order_claim.address, order_claim, {}, n, FALSE)]
    /\ UNCHANGED <<credentials, request>>

\* An empty list of orders is posted without any check (lines 350-362).
create_no_orders(t) ==
    /\ task[t] = Idle
    /\ SendsAtOnce("orders", {})
    /\ UNCHANGED <<credentials, task>>

\* The pair of one order is there: sign it, and go on to the next.
pair_info_next(t) ==
    /\ task[t].pc = "pair"
    /\ task[t].left > 1
    /\ is_logged_in
    /\ task' = [task EXCEPT ![t] =
                   Call("pair", @.who, order_claim, @.built \cup {@.claim}, @.left - 1, @.stale)]
    /\ UNCHANGED <<credentials, request>>

\* Mutant: each order is signed by whoever is connected when its pair arrives.
pair_info_last_SignsLate(t) ==
    /\ task[t].pc = "pair"
    /\ task[t].left = 1
    /\ Sends("orders",
             task[t].built \cup {Claim(task[t].claim.address, order_claim.signer)},
             task[t].who, task[t].stale)
    /\ task' = [task EXCEPT ![t] = Idle]
    /\ UNCHANGED credentials

\* The pair of the last order is there: sign it, and post them all.
pair_info_last(t) ==
    /\ task[t].pc = "pair"
    /\ task[t].left = 1
    /\ Sends("orders", task[t].built \cup {task[t].claim}, task[t].who, task[t].stale)
    /\ task' = [task EXCEPT ![t] = Idle]
    /\ UNCHANGED credentials

\* The pair is not to be had, or the next order is refused: nothing is sent.
create_orders_fails(t) ==
    /\ task[t].pc = "pair"
    /\ task' = [task EXCEPT ![t] = Idle]
    /\ UNCHANGED <<credentials, request>>

-----------------------------------------------------------------------------
(***************************************************************************)
(* The calls that build and send their request without an await between.   *)
(***************************************************************************)
\* cancel_order and cancel_bulk_orders: the message names no account.
cancel_orders(t) ==
    /\ task[t] = Idle
    /\ is_logged_in
    /\ SendsAtOnce("cancel", {Claim(Account(order_claim.signer), order_claim.signer)})
    /\ UNCHANGED <<credentials, task>>

\* get_balances, get_orders and get_order_by_id: only the headers name an account.
get_account_data(t) ==
    /\ task[t] = Idle
    /\ is_logged_in
    /\ SendsAtOnce("read", {})
    /\ UNCHANGED <<credentials, task>>

\* get_orders_with_trades and get_wallet_transactions.
get_by_address(t) ==
    /\ task[t] = Idle
    /\ is_logged_in
    /\ SendsAtOnce("read", {Claim(login_address, None)})
    /\ UNCHANGED <<credentials, task>>

\* Mutant: the trading key is not refused.
withdraw_AnyMethod(t) ==
    /\ task[t] = Idle
    /\ is_logged_in
    /\ SendsAtOnce("withdraw", {order_claim})
    /\ UNCHANGED <<credentials, task>>

withdraw(t) ==
    /\ task[t] = Idle
    /\ check_auth_method = "LOGIN"
    /\ SendsAtOnce("withdraw", {Claim(login_user, login_user)})
    /\ UNCHANGED <<credentials, task>>

-----------------------------------------------------------------------------
(***************************************************************************)
(* deposit: the checks, two fetches, and then the transaction, which       *)
(* credits the user who is logged in by then.                              *)
(***************************************************************************)
\* Mutant: neither the login nor the method is checked.
deposit_Unchecked(t) ==
    /\ task[t] = Idle
    /\ task' = [task EXCEPT ![t] = Call("fetch", login_user, Claim(None, None), {}, 0, FALSE)]
    /\ UNCHANGED <<credentials, request>>

deposit(t) ==
    /\ task[t] = Idle
    /\ check_auth_method = "LOGIN"
    /\ task' = [task EXCEPT ![t] = Call("fetch", login_user, Claim(None, None), {}, 0, FALSE)]
    /\ UNCHANGED <<credentials, request>>

deposit_fetched(t) ==
    /\ task[t].pc = "fetch"
    /\ login_user # None
    /\ request' =
          Request("deposit", NoHeaders, {Claim(login_user, None)}, task[t].who, task[t].stale)
    /\ task' = [task EXCEPT ![t] = Idle]
    /\ UNCHANGED credentials

\* A fetch raises, or nobody is logged in any more.
deposit_fails(t) ==
    /\ task[t].pc = "fetch"
    /\ task' = [task EXCEPT ![t] = Idle]
    /\ UNCHANGED <<credentials, request>>

-----------------------------------------------------------------------------
AuthNext ==
    \E t \in Tasks :
        \/ \E k \in TradingKeys : set_trading_key(t, k) \/ set_trading_key_raises(t, k)
        \/ \E u \in Users : set_login_user(t, u)
        \/ signed_in(t)
        \/ signin_fails(t)
        \/ \E n \in 1 .. MaxOrders : create_orders(t, n)
        \/ create_no_orders(t)
        \/ pair_info_next(t)
        \/ pair_info_last(t)
        \/ create_orders_fails(t)
        \/ cancel_orders(t)
        \/ get_account_data(t)
        \/ get_by_address(t)
        \/ withdraw(t)
        \/ deposit(t)
        \/ deposit_fetched(t)
        \/ deposit_fails(t)

AuthSpec == AuthInit /\ [][AuthNext]_authVars

-----------------------------------------------------------------------------
Claims == [address : Users, signer : Signers \cup {None}]

Headers ==
    [wallet : Users \cup {None},
     token  : Users \cup {NotAToken, None},
     key    : TradingKeys \cup {None}]

Calls ==
    {Idle}
        \cup [pc : {"signin", "fetch"}, who : Users, claim : {Claim(None, None)},
              built : {{}}, left : {0}, stale : BOOLEAN]
        \cup [pc : {"pair"}, who : Users, claim : Claims,
              built : SUBSET Claims, left : 1 .. MaxOrders, stale : BOOLEAN]

Requests ==
    [op      : {"none", "orders", "cancel", "read", "withdraw", "deposit"},
     headers : Headers,
     claims  : SUBSET Claims,
     caller  : Users \cup {None},
     stale   : BOOLEAN]

(***************************************************************************)
(* Every variable has the type the class gives it, and a call that waits   *)
(* knows for whom.                                                         *)
(***************************************************************************)
AuthTypeOK ==
    /\ login_user \in Users \cup {None}
    /\ token \in Users \cup {NotAToken, None}
    /\ trading_key_data \in TradingKeys \cup {None}
    /\ trading_key_signer \in TradingKeys \cup {None}
    /\ rejected \in BOOLEAN
    /\ task \in [Tasks -> Calls]
    /\ request \in Requests

(***************************************************************************)
(* README.md:109 offers the trading key as an alternative to the login.    *)
(* Until a mnemonic is rejected, a client has one or the other, whole,     *)
(* whatever sign-ins and trading keys overtake each other.                 *)
(***************************************************************************)
OneAuthMethod ==
    ~rejected =>
        /\ login_user = None <=> token = None
        /\ trading_key_data = trading_key_signer
        /\ login_user = None \/ trading_key_data = None

(***************************************************************************)
(* Until a mnemonic is rejected, every message that names an account is    *)
(* signed by a signer of that account, although orders are signed after an *)
(* await, by then perhaps under other credentials.                         *)
(***************************************************************************)
ClaimsAuthorised ==
    ~rejected =>
        \A c \in request.claims : c.signer # None => Account(c.signer) = c.address

(***************************************************************************)
(* Until a mnemonic is rejected, headers and claims of a request all       *)
(* speak for the account the call was made for, unless the credentials     *)
(* changed while the call waited.                                          *)
(***************************************************************************)
RequestSpeaksForCaller ==
    ~rejected /\ ~request.stale =>
        /\ request.op = "deposit" \/ request.headers.wallet = request.caller
        /\ \A c \in request.claims : c.address = request.caller

(***************************************************************************)
(* _token is what the server answered to _login_user's own sign-in, in     *)
(* whatever order concurrent sign-ins are answered.                        *)
(***************************************************************************)
TokenBelongsToUser ==
    /\ token \in {login_user, NotAToken, None}
    /\ token = None <=> login_user = None

(***************************************************************************)
(* README.md:20: a trading key can not withdraw, and deposits are always   *)
(* credited to the logged in account; they are made for one, too.  It      *)
(* holds even when set_trading_key has raised and left its data among the  *)
(* credentials of a login.                                                 *)
(***************************************************************************)
FundsNeedLogin ==
    /\ request.op = "withdraw" =>
          \E u \in Users : /\ request.headers.token \in {u, NotAToken}
                          /\ request.claims = {Claim(u, u)}
    /\ request.op = "deposit" =>
          \E u \in Users : request.claims = {Claim(u, None)} /\ request.caller \in Users

-----------------------------------------------------------------------------
(***************************************************************************)
(* What the rest of the client sees of this: Credentials.                  *)
(***************************************************************************)
Login(u, t) == [method |-> "LOGIN", by |-> <<u, t>>]

TradingKey(k, s) == [method |-> "TRADING_KEY", by |-> <<k, s>>]

\* What _check_auth_method answers, with what the caller then reads.
AuthNow ==
    CASE check_auth_method = "LOGIN"       -> Login(login_user, token)
      [] check_auth_method = "TRADING_KEY" -> TradingKey(trading_key_data, trading_key_signer)
      [] OTHER                             -> [method |-> "NONE"]

\* A login with the answer to that user's sign-in; a key, with itself or an older signer.
WholeAuths ==
    {Login(u, u) : u \in Users}
        \cup {Login(u, NotAToken) : u \in Users}
        \cup {TradingKey(k, s) : k \in TradingKeys, s \in TradingKeys}

C == INSTANCE Credentials WITH Auths <- WholeAuths, auth <- AuthNow

(***************************************************************************)
(* The client keeps the promise of Credentials: whoever finds it with      *)
(* credentials once finds it with whole ones ever after.  No failing, late *)
(* or concurrent set_login_user or set_trading_key leaves it with none,    *)
(* also where set_trading_key has raised halfway.                          *)
(***************************************************************************)
ImplementsCredentials == C!CredentialsSpec

=============================================================================
