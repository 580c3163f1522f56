-------------------------- MODULE ClientAuth_proofs --------------------------
(***************************************************************************)
(* Theorems about ClientAuth, for any number of tasks, users and trading   *)
(* keys.                                                                   *)
(***************************************************************************)
EXTENDS ClientAuth, TLAPS

LEMMA AuthConstants ==
    /\ \A k \in TradingKeys : KeyAddress[k] \in Users
    /\ None \notin Users /\ None \notin TradingKeys
    /\ NotAToken \notin Users /\ None # NotAToken
    /\ MaxOrders \in Nat
    /\ \A k \in TradingKeys : k \notin Users
BY AuthAssumption

-----------------------------------------------------------------------------
(***************************************************************************)
(* What the credentials give a request.                                    *)
(***************************************************************************)
CredentialsOK ==
    /\ login_user \in Users \cup {None}
    /\ token \in Users \cup {NotAToken, None}
    /\ trading_key_data \in TradingKeys \cup {None}
    /\ trading_key_signer \in TradingKeys \cup {None}

LEMMA TypeOfCredentials == AuthTypeOK => CredentialsOK
BY DEF AuthTypeOK, CredentialsOK

LEMMA HeadersType ==
    ASSUME CredentialsOK
    PROVE  auth_headers \in Headers
BY AuthConstants DEF CredentialsOK, auth_headers, Headers

LEMMA OrderClaimType ==
    ASSUME CredentialsOK, is_logged_in
    PROVE  /\ order_claim \in Claims
           /\ order_claim.address \in Users
           /\ order_claim.signer \in Signers
BY AuthConstants
   DEF CredentialsOK, is_logged_in, check_auth_method, order_claim, Claim, Claims, Signers

LEMMA LoginAddressType ==
    ASSUME CredentialsOK, is_logged_in
    PROVE  login_address \in Users
BY AuthConstants DEF CredentialsOK, is_logged_in, check_auth_method, login_address

LEMMA RequestType ==
    ASSUME CredentialsOK,
           NEW op \in {"none", "orders", "cancel", "read", "withdraw", "deposit"},
           NEW claims \in SUBSET Claims, NEW caller \in Users \cup {None},
           NEW stale \in BOOLEAN
    PROVE  /\ Request(op, auth_headers, claims, caller, stale) \in Requests
           /\ Request(op, NoHeaders, claims, caller, stale) \in Requests
BY HeadersType DEF Request, Requests, NoHeaders, Headers

LEMMA AtOnceType ==
    ASSUME CredentialsOK,
           NEW op \in {"orders", "cancel", "read", "withdraw"},
           NEW claims \in SUBSET Claims, SendsAtOnce(op, claims)
    PROVE  request' \in Requests
<1>1. auth_headers.wallet \in Users \cup {None}
  BY HeadersType DEF Headers
<1> QED
  BY <1>1, RequestType DEF SendsAtOnce, Sends

(***************************************************************************)
(* A call under way stays one when the credentials change.                 *)
(***************************************************************************)
LEMMA OutdatedType ==
    ASSUME NEW calls \in [Tasks -> Calls]
    PROVE  Outdated(calls) \in [Tasks -> Calls]
<1> SUFFICES ASSUME NEW t \in Tasks, calls[t].pc # "idle"
             PROVE  [calls[t] EXCEPT !.stale = TRUE] \in Calls
  BY DEF Outdated
<1>1. calls[t] \in Calls \ {Idle}
  BY DEF Idle, Call
<1> QED
  BY <1>1 DEF Calls

LEMMA CallTypes ==
    /\ Idle \in Calls
    /\ \A u \in Users : Call("signin", u, Claim(None, None), {}, 0, FALSE) \in Calls
    /\ \A u \in Users : Call("fetch", u, Claim(None, None), {}, 0, FALSE) \in Calls
    /\ \A u \in Users, c \in Claims, b \in SUBSET Claims, n \in 1 .. MaxOrders,
          s \in BOOLEAN : Call("pair", u, c, b, n, s) \in Calls
BY DEF Call, Calls

LEMMA CallFields ==
    ASSUME NEW c \in Calls
    PROVE  /\ c.pc \in {"signin", "fetch"} => c.who \in Users /\ c.stale \in BOOLEAN
           /\ c.pc = "pair" => /\ c.who \in Users /\ c.claim \in Claims
                               /\ c.built \in SUBSET Claims
                               /\ c.left \in 1 .. MaxOrders /\ c.stale \in BOOLEAN
BY DEF Calls, Idle, Call

-----------------------------------------------------------------------------
(***************************************************************************)
(* Type correctness.                                                       *)
(***************************************************************************)
LEMMA SetsCredentialsType ==
    ASSUME AuthTypeOK, NEW t \in Tasks,
           \/ \E k \in TradingKeys : set_trading_key(t, k) \/ set_trading_key_raises(t, k)
           \/ signed_in(t)
    PROVE  AuthTypeOK'
<1>1. ASSUME NEW k \in TradingKeys, set_trading_key(t, k) PROVE AuthTypeOK'
  BY <1>1, OutdatedType DEF set_trading_key, AuthTypeOK
<1>2. ASSUME NEW k \in TradingKeys, set_trading_key_raises(t, k) PROVE AuthTypeOK'
  BY <1>2, OutdatedType DEF set_trading_key_raises, AuthTypeOK
<1>3. CASE signed_in(t)
  <2>1. task[t].who \in Users
    BY <1>3, CallFields DEF signed_in, AuthTypeOK
  <2>2. task' \in [Tasks -> Calls]
    <3>1. [task EXCEPT ![t] = Idle] \in [Tasks -> Calls]
      BY CallTypes DEF AuthTypeOK
    <3> QED
      BY <1>3, <3>1, OutdatedType DEF signed_in
  <2> QED
    BY <1>3, <2>1, <2>2 DEF signed_in, AuthTypeOK
<1> QED
  BY <1>1, <1>2, <1>3

\* The calls that begin or end without a request.
LEMMA WaitsType ==
    ASSUME AuthTypeOK, NEW t \in Tasks,
           \/ \E u \in Users : set_login_user(t, u)
           \/ \E n \in 1 .. MaxOrders : create_orders(t, n)
           \/ signin_fails(t) \/ pair_info_next(t) \/ create_orders_fails(t)
           \/ deposit(t) \/ deposit_fails(t)
    PROVE  AuthTypeOK'
<1>1. UNCHANGED <<credentials, request>>
  BY DEF set_login_user, create_orders, signin_fails, pair_info_next,
         create_orders_fails, deposit, deposit_fails
<1>2. ASSUME NEW c \in Calls, task' = [task EXCEPT ![t] = c] PROVE AuthTypeOK'
  BY <1>1, <1>2 DEF AuthTypeOK, credentials
<1>3. ASSUME NEW u \in Users, set_login_user(t, u) PROVE AuthTypeOK'
  BY <1>2, <1>3, CallTypes DEF set_login_user
<1>4. ASSUME NEW n \in 1 .. MaxOrders, create_orders(t, n) PROVE AuthTypeOK'
  <2>1. order_claim \in Claims /\ order_claim.address \in Users
    BY <1>4, OrderClaimType, TypeOfCredentials DEF create_orders
  <2> QED
    BY <1>2, <1>4, <2>1, CallTypes DEF create_orders
<1>5. CASE pair_info_next(t)
  <2>1. order_claim \in Claims
    BY <1>5, OrderClaimType, TypeOfCredentials DEF pair_info_next
  <2>2. /\ task[t].who \in Users
        /\ task[t].built \cup {task[t].claim} \in SUBSET Claims
        /\ task[t].left - 1 \in 1 .. MaxOrders
        /\ task[t].stale \in BOOLEAN
    BY <1>5, CallFields, AuthConstants DEF pair_info_next, AuthTypeOK
  <2> QED
    BY <1>2, <1>5, <2>1, <2>2, CallTypes DEF pair_info_next
<1>6. CASE signin_fails(t) \/ create_orders_fails(t) \/ deposit_fails(t)
  BY <1>2, <1>6, CallTypes DEF signin_fails, create_orders_fails, deposit_fails
<1>7. CASE deposit(t)
  <2>1. login_user \in Users
    BY <1>7, AuthConstants DEF deposit, check_auth_method, AuthTypeOK
  <2> QED
    BY <1>2, <1>7, <2>1, CallTypes DEF deposit
<1> QED
  BY <1>3, <1>4, <1>5, <1>6, <1>7

LEMMA SendsType ==
    ASSUME AuthTypeOK, NEW t \in Tasks,
           \/ create_no_orders(t) \/ pair_info_last(t) \/ cancel_orders(t)
           \/ get_account_data(t) \/ get_by_address(t) \/ withdraw(t)
           \/ deposit_fetched(t)
    PROVE  AuthTypeOK'
<1>1. UNCHANGED credentials
  BY DEF create_no_orders, pair_info_last, cancel_orders, get_account_data,
         get_by_address, withdraw, deposit_fetched
<1>2. task' \in [Tasks -> Calls]
  BY CallTypes
     DEF create_no_orders, pair_info_last, cancel_orders, get_account_data,
         get_by_address, withdraw, deposit_fetched, AuthTypeOK
<1>3. request' \in Requests
  <2>1. CredentialsOK
    BY TypeOfCredentials
  <2>2. CASE create_no_orders(t)
    BY <2>1, <2>2, AtOnceType DEF create_no_orders
  <2>3. CASE pair_info_last(t)
    <3>1. /\ task[t].who \in Users
          /\ task[t].built \cup {task[t].claim} \in SUBSET Claims
          /\ task[t].stale \in BOOLEAN
      BY <2>3, CallFields DEF pair_info_last, AuthTypeOK
    <3> QED
      BY <2>1, <2>3, <3>1, RequestType DEF pair_info_last, Sends
  <2>4. CASE cancel_orders(t)
    <3>1. order_claim.signer \in Signers
      BY <2>1, <2>4, OrderClaimType DEF cancel_orders
    <3>2. Claim(Account(order_claim.signer), order_claim.signer) \in Claims
      BY <3>1, AuthConstants DEF Account, Claim, Claims, Signers
    <3> QED
      BY <2>1, <2>4, <3>2, AtOnceType DEF cancel_orders
  <2>5. CASE get_account_data(t)
    BY <2>1, <2>5, AtOnceType DEF get_account_data
  <2>6. CASE get_by_address(t)
    <3>1. Claim(login_address, None) \in Claims
      BY <2>1, <2>6, LoginAddressType DEF get_by_address, Claim, Claims
    <3> QED
      BY <2>1, <2>6, <3>1, AtOnceType DEF get_by_address
  <2>7. CASE withdraw(t)
    <3>1. Claim(login_user, login_user) \in Claims
      BY <2>7, AuthConstants
         DEF withdraw, check_auth_method, AuthTypeOK, Claim, Claims, Signers
    <3> QED
      BY <2>1, <2>7, <3>1, AtOnceType DEF withdraw
  <2>8. CASE deposit_fetched(t)
    <3>1. /\ Claim(login_user, None) \in Claims
          /\ task[t].who \in Users
      BY <2>8, CallFields DEF deposit_fetched, AuthTypeOK, Claim, Claims
    <3>2. task[t].stale \in BOOLEAN
      BY <2>8, CallFields DEF deposit_fetched, AuthTypeOK
    <3> QED
      BY <2>1, <2>8, <3>1, <3>2, RequestType DEF deposit_fetched
  <2> QED
    BY <2>2, <2>3, <2>4, <2>5, <2>6, <2>7, <2>8
<1> QED
  BY <1>1, <1>2, <1>3 DEF AuthTypeOK, credentials

LEMMA InitAuthType == AuthInit => AuthTypeOK
<1> SUFFICES ASSUME AuthInit PROVE AuthTypeOK
  OBVIOUS
<1>1. /\ login_user = None /\ token = None
      /\ trading_key_data = None /\ trading_key_signer = None
  BY DEF AuthInit
<1>2. CredentialsOK
  BY <1>1 DEF CredentialsOK
<1>3. request \in Requests
  BY <1>2, RequestType DEF AuthInit
<1> QED
  BY <1>1, <1>3, CallTypes DEF AuthInit, AuthTypeOK

LEMMA NextAuthType ==
    ASSUME AuthTypeOK, [AuthNext]_authVars
    PROVE  AuthTypeOK'
<1>1. CASE UNCHANGED authVars
  BY <1>1 DEF authVars, credentials, AuthTypeOK
<1>2. CASE AuthNext
  BY <1>2, SetsCredentialsType, WaitsType, SendsType DEF AuthNext
<1> QED
  BY <1>1, <1>2

(***************************************************************************)
(* The credentials, calls and requests of Client keep their types.         *)
(***************************************************************************)
THEOREM AuthTypeCorrect == AuthSpec => []AuthTypeOK
BY InitAuthType, NextAuthType, PTL DEF AuthSpec

-----------------------------------------------------------------------------
(***************************************************************************)
(* The credentials.  Only three actions change them.                       *)
(***************************************************************************)
LEMMA OtherStepsKeepCredentials ==
    ASSUME [AuthNext]_authVars,
           ~ \E t \in Tasks :
                \/ signed_in(t)
                \/ \E k \in TradingKeys : set_trading_key(t, k) \/ set_trading_key_raises(t, k)
    PROVE  UNCHANGED credentials
BY DEF AuthNext, authVars, set_login_user, create_orders, signin_fails, pair_info_next,
       create_orders_fails, deposit, deposit_fails, create_no_orders, pair_info_last,
       cancel_orders, get_account_data, get_by_address, withdraw, deposit_fetched

LEMMA StaysLoggedIn ==
    ASSUME AuthTypeOK, [AuthNext]_authVars, is_logged_in
    PROVE  is_logged_in'
<1>1. CASE UNCHANGED credentials
  BY <1>1 DEF credentials, is_logged_in, check_auth_method
<1>2. ASSUME NEW t \in Tasks, NEW k \in TradingKeys, set_trading_key(t, k)
      PROVE  is_logged_in'
  BY <1>2, AuthConstants DEF set_trading_key, is_logged_in, check_auth_method
<1>3. ASSUME NEW t \in Tasks, NEW k \in TradingKeys, set_trading_key_raises(t, k)
      PROVE  is_logged_in'
  BY <1>3, AuthConstants DEF set_trading_key_raises, is_logged_in, check_auth_method
<1>4. ASSUME NEW t \in Tasks, signed_in(t)
      PROVE  is_logged_in'
  <2>1. task[t].who \in Users
    BY <1>4, CallFields DEF signed_in, AuthTypeOK
  <2> QED
    BY <1>4, <2>1, AuthConstants DEF signed_in, is_logged_in, check_auth_method
<1> QED
  BY <1>1, <1>2, <1>3, <1>4, OtherStepsKeepCredentials

LEMMA NextMethod ==
    ASSUME AuthTypeOK, TokenBelongsToUser, OneAuthMethod, [AuthNext]_authVars
    PROVE  TokenBelongsToUser' /\ OneAuthMethod'
<1>1. CASE UNCHANGED credentials
  BY <1>1 DEF credentials, TokenBelongsToUser, OneAuthMethod
<1>2. ASSUME NEW t \in Tasks, NEW k \in TradingKeys, set_trading_key(t, k)
      PROVE  TokenBelongsToUser' /\ OneAuthMethod'
  BY <1>2 DEF set_trading_key, TokenBelongsToUser, OneAuthMethod
<1>3. ASSUME NEW t \in Tasks, NEW k \in TradingKeys, set_trading_key_raises(t, k)
      PROVE  TokenBelongsToUser' /\ OneAuthMethod'
  BY <1>3 DEF set_trading_key_raises, TokenBelongsToUser, OneAuthMethod
<1>4. ASSUME NEW t \in Tasks, signed_in(t)
      PROVE  TokenBelongsToUser' /\ OneAuthMethod'
  <2>1. task[t].who \in Users
    BY <1>4, CallFields DEF signed_in, AuthTypeOK
  <2> QED
    BY <1>4, <2>1, AuthConstants DEF signed_in, TokenBelongsToUser, OneAuthMethod
<1> QED
  BY <1>1, <1>2, <1>3, <1>4, OtherStepsKeepCredentials

MethodInv == AuthTypeOK /\ TokenBelongsToUser /\ OneAuthMethod

LEMMA InitMethod == AuthInit => MethodInv
BY InitAuthType DEF AuthInit, MethodInv, TokenBelongsToUser, OneAuthMethod

LEMMA NextMethodInv ==
    ASSUME MethodInv, [AuthNext]_authVars
    PROVE  MethodInv'
BY NextAuthType, NextMethod DEF MethodInv

(***************************************************************************)
(* Sign-ins answered in any order leave token and user of one sign-in.     *)
(***************************************************************************)
THEOREM TokenMatchesUser == AuthSpec => []TokenBelongsToUser
<1>1. MethodInv => TokenBelongsToUser
  BY DEF MethodInv
<1> QED
  BY <1>1, InitMethod, NextMethodInv, PTL DEF AuthSpec

(***************************************************************************)
(* Until a mnemonic is rejected, login and trading key exclude each other  *)
(* and each is set as a whole.                                             *)
(***************************************************************************)
THEOREM MethodsExclude == AuthSpec => []OneAuthMethod
<1>1. MethodInv => OneAuthMethod
  BY DEF MethodInv
<1> QED
  BY <1>1, InitMethod, NextMethodInv, PTL DEF AuthSpec

(***************************************************************************)
(* What the rest of the client sees of its credentials is what Credentials *)
(* promises: none at first, and from then on always whole ones, even where *)
(* set_trading_key raises halfway.                                         *)
(***************************************************************************)
THEOREM AuthImplementsCredentials == AuthSpec => ImplementsCredentials
<1>1. AuthInit => C!CredentialsInit
  BY DEF AuthInit, C!CredentialsInit, C!NoAuth, AuthNow, check_auth_method
<1>2. ASSUME MethodInv', is_logged_in'
      PROVE  AuthNow' \in WholeAuths
  <2>1. CASE check_auth_method' = "LOGIN"
    <3>1. AuthNow' = Login(login_user', token')
      BY <2>1 DEF AuthNow, Login
    <3>2. login_user' \in Users /\ token' \in {login_user', NotAToken}
      BY <1>2, <2>1, AuthConstants
         DEF MethodInv, AuthTypeOK, TokenBelongsToUser, check_auth_method
    <3> QED
      BY <3>1, <3>2 DEF WholeAuths
  <2>2. CASE check_auth_method' = "TRADING_KEY"
    <3>1. AuthNow' = TradingKey(trading_key_data', trading_key_signer')
      BY <2>2 DEF AuthNow, TradingKey
    <3>2. trading_key_data' \in TradingKeys /\ trading_key_signer' \in TradingKeys
      BY <1>2, <2>2, AuthConstants DEF MethodInv, AuthTypeOK, check_auth_method
    <3> QED
      BY <3>1, <3>2 DEF WholeAuths
  <2> QED
    BY <1>2, <2>1, <2>2 DEF is_logged_in, check_auth_method
<1>3. /\ ~is_logged_in => AuthNow = [method |-> "NONE"]
      /\ ~is_logged_in' => AuthNow' = [method |-> "NONE"]
  BY DEF AuthNow, is_logged_in
<1>4. ASSUME MethodInv, [AuthNext]_authVars
      PROVE  [C!Authenticate]_AuthNow
  <2>1. MethodInv'
    BY <1>4, NextMethodInv
  <2>2. CASE is_logged_in'
    <3>1. AuthNow' \in WholeAuths
      BY <1>2, <2>1, <2>2
    <3> QED
      BY <3>1 DEF C!Authenticate
  <2>3. CASE ~is_logged_in'
    <3>1. ~is_logged_in
      BY <1>4, <2>3, StaysLoggedIn DEF MethodInv
    <3>2. AuthNow' = AuthNow
      BY <1>3, <2>3, <3>1
    <3> QED
      BY <3>2
  <2> QED
    BY <2>2, <2>3
<1> QED
  BY <1>1, <1>4, InitMethod, NextMethodInv, PTL
     DEF AuthSpec, ImplementsCredentials, C!CredentialsSpec

-----------------------------------------------------------------------------
(***************************************************************************)
(* The requests.  The strengthening says of a call that waits what its     *)
(* request will be: its claims are authorised and, while the credentials   *)
(* it read are still there, they are those of the client.                  *)
(***************************************************************************)
Authorised(c) == c.signer # None => Account(c.signer) = c.address

WaitingClaimsAuthorised ==
    ~rejected =>
        \A t \in Tasks :
            task[t].pc = "pair" =>
                \A c \in task[t].built \cup {task[t].claim} : Authorised(c)

WaitingSpeaksForCaller ==
    ~rejected =>
        \A t \in Tasks :
            /\ task[t].pc = "pair" /\ ~task[t].stale =>
                  /\ is_logged_in
                  /\ order_claim.address = task[t].who
                  /\ \A c \in task[t].built \cup {task[t].claim} : c.address = task[t].who
            /\ task[t].pc = "fetch" /\ ~task[t].stale =>
                  login_user = task[t].who /\ token # None

RequestInv ==
    /\ MethodInv
    /\ WaitingClaimsAuthorised
    /\ WaitingSpeaksForCaller
    /\ ClaimsAuthorised
    /\ RequestSpeaksForCaller
    /\ FundsNeedLogin

LEMMA OrderClaimAuthorised ==
    ASSUME MethodInv, ~rejected, is_logged_in
    PROVE  /\ Authorised(order_claim)
           /\ order_claim.address = auth_headers.wallet
           /\ Account(order_claim.signer) = order_claim.address
           /\ login_address = order_claim.address
BY AuthConstants
   DEF MethodInv, AuthTypeOK, OneAuthMethod, TokenBelongsToUser, is_logged_in,
       check_auth_method, order_claim, login_address, auth_headers, Authorised, Claim, Account

LEMMA RequestFields ==
    ASSUME NEW op, NEW headers, NEW claims, NEW caller, NEW stale
    PROVE  LET r == Request(op, headers, claims, caller, stale)
           IN  /\ r.op = op /\ r.claims = claims
               /\ r.caller = caller /\ r.stale = stale
               /\ r.headers = headers
BY DEF Request

LEMMA AtOnceFields ==
    ASSUME NEW op, NEW claims, SendsAtOnce(op, claims)
    PROVE  /\ request'.op = op /\ request'.claims = claims
           /\ request'.caller = auth_headers.wallet /\ request'.stale = FALSE
           /\ request'.headers = auth_headers
<1>1. request' = Request(op, auth_headers, claims, auth_headers.wallet, FALSE)
  BY DEF SendsAtOnce, Sends
<1> QED
  BY <1>1 DEF Request

\* The invariant's part about the last request, which most steps leave alone.
RequestOK == ClaimsAuthorised /\ RequestSpeaksForCaller /\ FundsNeedLogin

LEMMA UnchangedRequestOK ==
    ASSUME RequestOK, UNCHANGED request, rejected => rejected'
    PROVE  RequestOK'
BY DEF RequestOK, ClaimsAuthorised, RequestSpeaksForCaller, FundsNeedLogin

LEMMA SentRequestOK ==
    ASSUME RequestInv, NEW t \in Tasks,
           \/ create_no_orders(t) \/ pair_info_last(t) \/ cancel_orders(t)
           \/ get_account_data(t) \/ get_by_address(t) \/ withdraw(t)
           \/ deposit_fetched(t)
    PROVE  RequestOK'
<1> USE DEF RequestOK, ClaimsAuthorised, RequestSpeaksForCaller, FundsNeedLogin
<1>0. UNCHANGED rejected
  BY DEF create_no_orders, pair_info_last, cancel_orders, get_account_data,
         get_by_address, withdraw, deposit_fetched, credentials
<1>1. CASE create_no_orders(t)
  <2>1. SendsAtOnce("orders", {})
    BY <1>1 DEF create_no_orders
  <2>2. /\ request'.op = "orders" /\ request'.claims = {}
        /\ request'.caller = auth_headers.wallet /\ request'.headers = auth_headers
    BY <2>1, AtOnceFields
  <2> QED
    BY <2>2
<1>2. CASE pair_info_last(t)
  <2>1. /\ request'.op = "orders"
        /\ request'.claims = task[t].built \cup {task[t].claim}
        /\ request'.caller = task[t].who
        /\ request'.stale = task[t].stale
        /\ request'.headers = auth_headers
    BY <1>2, RequestFields DEF pair_info_last, Sends
  <2>2. task[t].pc = "pair"
    BY <1>2 DEF pair_info_last
  <2>3. ClaimsAuthorised'
    BY <1>0, <2>1, <2>2 DEF RequestInv, WaitingClaimsAuthorised, Authorised
  <2>4. RequestSpeaksForCaller'
    BY <1>0, <2>1, <2>2, OrderClaimAuthorised DEF RequestInv, WaitingSpeaksForCaller
  <2> QED
    BY <2>1, <2>3, <2>4
<1>3. CASE cancel_orders(t)
  <2> DEFINE c == Claim(Account(order_claim.signer), order_claim.signer)
  <2>1. is_logged_in /\ SendsAtOnce("cancel", {c})
    BY <1>3 DEF cancel_orders
  <2>2. c.address = Account(order_claim.signer) /\ c.signer = order_claim.signer
    BY DEF Claim
  <2> HIDE DEF c
  <2>3. /\ request'.op = "cancel" /\ request'.claims = {c}
        /\ request'.caller = auth_headers.wallet /\ request'.headers = auth_headers
    BY <2>1, AtOnceFields
  <2> QED
    BY <1>0, <2>1, <2>2, <2>3, OrderClaimAuthorised DEF RequestInv
<1>4. CASE get_account_data(t)
  <2>1. SendsAtOnce("read", {})
    BY <1>4 DEF get_account_data
  <2>2. /\ request'.op = "read" /\ request'.claims = {}
        /\ request'.caller = auth_headers.wallet /\ request'.headers = auth_headers
    BY <2>1, AtOnceFields
  <2> QED
    BY <2>2
<1>5. CASE get_by_address(t)
  <2> DEFINE c == Claim(login_address, None)
  <2>1. is_logged_in /\ SendsAtOnce("read", {c})
    BY <1>5 DEF get_by_address
  <2>2. c.address = login_address /\ c.signer = None
    BY DEF Claim
  <2> HIDE DEF c
  <2>3. /\ request'.op = "read" /\ request'.claims = {c}
        /\ request'.caller = auth_headers.wallet /\ request'.headers = auth_headers
    BY <2>1, AtOnceFields
  <2> QED
    BY <1>0, <2>1, <2>2, <2>3, OrderClaimAuthorised DEF RequestInv
<1>6. CASE withdraw(t)
  <2> DEFINE c == Claim(login_user, login_user)
  <2>1. check_auth_method = "LOGIN" /\ SendsAtOnce("withdraw", {c})
    BY <1>6 DEF withdraw
  <2>2. c.address = login_user /\ c.signer = login_user
    BY DEF Claim
  <2>3. /\ login_user \in Users /\ token # None
        /\ token \in {login_user, NotAToken}
        /\ auth_headers.token = token
    BY <2>1, AuthConstants
       DEF check_auth_method, auth_headers, RequestInv, MethodInv, AuthTypeOK, TokenBelongsToUser
  <2>4. /\ request'.op = "withdraw" /\ request'.claims = {c}
        /\ request'.caller = auth_headers.wallet /\ request'.headers = auth_headers
    BY <2>1, AtOnceFields
  <2>5. FundsNeedLogin'
    BY <2>3, <2>4
  <2>6. ~rejected => auth_headers.wallet = login_user
    BY <2>3, AuthConstants
       DEF auth_headers, RequestInv, MethodInv, OneAuthMethod
  <2>7. Account(login_user) = login_user
    BY <2>3 DEF Account
  <2> HIDE DEF c
  <2> QED
    BY <1>0, <2>2, <2>4, <2>5, <2>6, <2>7
<1>7. CASE deposit_fetched(t)
  <2> DEFINE c == Claim(login_user, None)
  <2>1. /\ request'.op = "deposit" /\ request'.claims = {c}
        /\ request'.caller = task[t].who
        /\ request'.stale = task[t].stale
    BY <1>7, RequestFields DEF deposit_fetched
  <2>2. c.address = login_user /\ c.signer = None
    BY DEF Claim
  <2>3. login_user \in Users /\ task[t].who \in Users
    BY <1>7, CallFields DEF deposit_fetched, RequestInv, MethodInv, AuthTypeOK
  <2>4. FundsNeedLogin'
    BY <2>1, <2>3
  <2>5. ~rejected /\ ~task[t].stale => login_user = task[t].who
    BY <1>7 DEF deposit_fetched, RequestInv, WaitingSpeaksForCaller
  <2> HIDE DEF c
  <2> QED
    BY <1>0, <2>1, <2>2, <2>4, <2>5
<1> QED
  BY <1>1, <1>2, <1>3, <1>4, <1>5, <1>6, <1>7

-----------------------------------------------------------------------------
(***************************************************************************)
(* The calls that wait.                                                    *)
(***************************************************************************)
WaitingOK == WaitingClaimsAuthorised /\ WaitingSpeaksForCaller

LEMMA OutdatedFields ==
    ASSUME NEW calls \in [Tasks -> Calls], NEW t \in Tasks
    PROVE  /\ Outdated(calls)[t].pc = calls[t].pc
           /\ Outdated(calls)[t].who = calls[t].who
           /\ Outdated(calls)[t].claim = calls[t].claim
           /\ Outdated(calls)[t].built = calls[t].built
           /\ calls[t].pc # "idle" => Outdated(calls)[t].stale
<1>1. CASE calls[t].pc = "idle"
  BY <1>1 DEF Outdated
<1>2. CASE calls[t].pc # "idle"
  <2>1. Outdated(calls)[t] = [calls[t] EXCEPT !.stale = TRUE]
    BY <1>2 DEF Outdated
  <2>2. calls[t] \in Calls \ {Idle}
    BY <1>2 DEF Idle, Call
  <2> QED
    BY <2>1, <2>2 DEF Calls
<1> QED
  BY <1>1, <1>2

LEMMA CredentialsWaitingOK ==
    ASSUME RequestInv, NEW t \in Tasks,
           \/ \E k \in TradingKeys : set_trading_key(t, k) \/ set_trading_key_raises(t, k)
           \/ signed_in(t)
    PROVE  WaitingOK'
<1>1. PICK calls \in [Tasks -> Calls] :
        /\ calls \in {task, [task EXCEPT ![t] = Idle]}
        /\ task' = Outdated(calls)
  BY CallTypes
     DEF set_trading_key, set_trading_key_raises, signed_in, RequestInv, MethodInv, AuthTypeOK
<1>2. \A u \in Tasks : calls[u].pc # "idle" => calls[u] = task[u]
  BY <1>1 DEF Idle, Call, RequestInv, MethodInv, AuthTypeOK
<1>3. \A u \in Tasks :
        task'[u].pc # "idle" =>
            /\ task'[u].pc = task[u].pc /\ task'[u].stale
            /\ task'[u].claim = task[u].claim /\ task'[u].built = task[u].built
  BY <1>1, <1>2, OutdatedFields
<1>4. rejected => rejected'
  BY DEF set_trading_key, set_trading_key_raises, signed_in
<1>5. WaitingClaimsAuthorised'
  BY <1>3, <1>4 DEF RequestInv, WaitingClaimsAuthorised, Authorised
<1>6. WaitingSpeaksForCaller'
  BY <1>3 DEF WaitingSpeaksForCaller
<1> QED
  BY <1>5, <1>6 DEF WaitingOK

\* A step that changes one call and no credential need only see to that call.
LEMMA OneCallWaitingOK ==
    ASSUME RequestInv, UNCHANGED credentials, NEW t \in Tasks, NEW c \in Calls,
           task' = [task EXCEPT ![t] = c],
           c.pc = "pair" /\ ~rejected =>
               /\ \A x \in c.built \cup {c.claim} : Authorised(x)
               /\ ~c.stale =>
                     /\ is_logged_in
                     /\ order_claim.address = c.who
                     /\ \A x \in c.built \cup {c.claim} : x.address = c.who,
           c.pc = "fetch" /\ ~rejected /\ ~c.stale =>
               login_user = c.who /\ token # None
    PROVE  WaitingOK'
<1>1. task'[t] = c /\ \A u \in Tasks \ {t} : task'[u] = task[u]
  BY DEF RequestInv, MethodInv, AuthTypeOK
<1>2. /\ is_logged_in' = is_logged_in
      /\ order_claim' = order_claim
      /\ login_user' = login_user /\ token' = token
      /\ rejected' = rejected
  BY DEF credentials, is_logged_in, check_auth_method, order_claim
<1>3. WaitingClaimsAuthorised'
  BY <1>1, <1>2 DEF RequestInv, WaitingClaimsAuthorised, Authorised
<1>4. WaitingSpeaksForCaller'
  BY <1>1, <1>2 DEF RequestInv, WaitingSpeaksForCaller
<1> QED
  BY <1>3, <1>4 DEF WaitingOK

LEMMA OtherWaitingOK ==
    ASSUME RequestInv, NEW t \in Tasks,
           \/ \E u \in Users : set_login_user(t, u)
           \/ \E n \in 1 .. MaxOrders : create_orders(t, n)
           \/ signin_fails(t) \/ pair_info_next(t) \/ create_orders_fails(t)
           \/ deposit(t) \/ deposit_fails(t)
           \/ pair_info_last(t) \/ deposit_fetched(t)
    PROVE  WaitingOK'
<1>1. UNCHANGED credentials
  BY DEF set_login_user, create_orders, signin_fails, pair_info_next, create_orders_fails,
         deposit, deposit_fails, pair_info_last, deposit_fetched
<1>2. ASSUME task' = [task EXCEPT ![t] = Idle] PROVE WaitingOK'
  <2>1. Idle.pc = "idle"
    BY DEF Idle, Call
  <2> QED
    BY <1>1, <1>2, <2>1, CallTypes, OneCallWaitingOK
<1>3. ASSUME NEW u \in Users, set_login_user(t, u) PROVE WaitingOK'
  <2> DEFINE c == Call("signin", u, Claim(None, None), {}, 0, FALSE)
  <2>1. c \in Calls /\ task' = [task EXCEPT ![t] = c]
    BY <1>3, CallTypes DEF set_login_user
  <2>2. c.pc = "signin"
    BY DEF Call
  <2> HIDE DEF c
  <2> QED
    BY <1>1, <2>1, <2>2, OneCallWaitingOK
<1>4. ASSUME NEW n \in 1 .. MaxOrders, create_orders(t, n) PROVE WaitingOK'
  <2> DEFINE c == Call("pair", order_claim.address, order_claim, {}, n, FALSE)
  <2>1. is_logged_in /\ order_claim \in Claims /\ order_claim.address \in Users
    BY <1>4, OrderClaimType, TypeOfCredentials DEF create_orders, RequestInv, MethodInv
  <2>2. c \in Calls /\ task' = [task EXCEPT ![t] = c]
    BY <1>4, <2>1, CallTypes DEF create_orders
  <2>3. /\ c.pc = "pair" /\ c.who = order_claim.address
        /\ c.built \cup {c.claim} = {order_claim}
    BY DEF Call
  <2>4. ~rejected => Authorised(order_claim)
    BY <2>1, OrderClaimAuthorised DEF RequestInv
  <2> HIDE DEF c
  <2> QED
    BY <1>1, <2>1, <2>2, <2>3, <2>4, OneCallWaitingOK
<1>5. CASE pair_info_next(t)
  <2> DEFINE c == Call("pair", task[t].who, order_claim, task[t].built \cup {task[t].claim},
                       task[t].left - 1, task[t].stale)
  <2>1. is_logged_in /\ order_claim \in Claims /\ task[t].pc = "pair"
    BY <1>5, OrderClaimType, TypeOfCredentials DEF pair_info_next, RequestInv, MethodInv
  <2>2. /\ task[t].who \in Users
        /\ task[t].built \cup {task[t].claim} \in SUBSET Claims
        /\ task[t].left - 1 \in 1 .. MaxOrders
        /\ task[t].stale \in BOOLEAN
    BY <1>5, CallFields, AuthConstants DEF pair_info_next, RequestInv, MethodInv, AuthTypeOK
  <2>3. c \in Calls /\ task' = [task EXCEPT ![t] = c]
    BY <1>5, <2>1, <2>2, CallTypes DEF pair_info_next
  <2>4. /\ c.pc = "pair" /\ c.who = task[t].who /\ c.stale = task[t].stale
        /\ c.claim = order_claim /\ c.built = task[t].built \cup {task[t].claim}
    BY DEF Call
  <2>5. ~rejected => \A x \in c.built \cup {c.claim} : Authorised(x)
    BY <2>1, <2>4, OrderClaimAuthorised DEF RequestInv, WaitingClaimsAuthorised
  <2>6. ~rejected /\ ~c.stale =>
           /\ order_claim.address = c.who
           /\ \A x \in c.built \cup {c.claim} : x.address = c.who
    BY <2>1, <2>4 DEF RequestInv, WaitingSpeaksForCaller
  <2> HIDE DEF c
  <2> QED
    BY <1>1, <2>1, <2>3, <2>4, <2>5, <2>6, OneCallWaitingOK
<1>6. CASE deposit(t)
  <2> DEFINE c == Call("fetch", login_user, Claim(None, None), {}, 0, FALSE)
  <2>1. login_user \in Users /\ token # None
    BY <1>6, AuthConstants DEF deposit, check_auth_method, RequestInv, MethodInv, AuthTypeOK
  <2>2. c \in Calls /\ task' = [task EXCEPT ![t] = c]
    BY <1>6, <2>1, CallTypes DEF deposit
  <2>3. c.pc = "fetch" /\ c.who = login_user
    BY DEF Call
  <2> HIDE DEF c
  <2> QED
    BY <1>1, <2>1, <2>2, <2>3, OneCallWaitingOK
<1>7. CASE \/ signin_fails(t) \/ create_orders_fails(t) \/ deposit_fails(t)
           \/ pair_info_last(t) \/ deposit_fetched(t)
  BY <1>2, <1>7 DEF signin_fails, create_orders_fails, deposit_fails,
                    pair_info_last, deposit_fetched
<1> QED
  BY <1>3, <1>4, <1>5, <1>6, <1>7

LEMMA NextRequestInv ==
    ASSUME RequestInv, [AuthNext]_authVars
    PROVE  RequestInv'
<1>1. MethodInv'
  BY NextMethodInv DEF RequestInv
<1>2. SUFFICES WaitingOK' /\ RequestOK'
  BY <1>1 DEF RequestInv, WaitingOK, RequestOK
<1>3. RequestOK
  BY DEF RequestInv, RequestOK
<1>4. ASSUME UNCHANGED <<credentials, task>> PROVE WaitingOK'
  BY <1>4 DEF RequestInv, WaitingOK, WaitingClaimsAuthorised, WaitingSpeaksForCaller,
              Authorised, credentials, is_logged_in, check_auth_method, order_claim
<1>5. CASE UNCHANGED authVars
  BY <1>3, <1>4, <1>5, UnchangedRequestOK DEF authVars, credentials
<1>6. ASSUME NEW t \in Tasks,
             \/ create_no_orders(t) \/ cancel_orders(t) \/ get_account_data(t)
             \/ get_by_address(t) \/ withdraw(t)
      PROVE  WaitingOK' /\ RequestOK'
  <2>1. UNCHANGED <<credentials, task>>
    BY <1>6 DEF create_no_orders, cancel_orders, get_account_data, get_by_address, withdraw
  <2> QED
    BY <1>4, <1>6, <2>1, SentRequestOK
<1>7. ASSUME NEW t \in Tasks, pair_info_last(t) \/ deposit_fetched(t)
      PROVE  WaitingOK' /\ RequestOK'
  BY <1>7, OtherWaitingOK, SentRequestOK
<1>8. ASSUME NEW t \in Tasks,
             \/ \E u \in Users : set_login_user(t, u)
             \/ \E n \in 1 .. MaxOrders : create_orders(t, n)
             \/ signin_fails(t) \/ pair_info_next(t) \/ create_orders_fails(t)
             \/ deposit(t) \/ deposit_fails(t)
      PROVE  WaitingOK' /\ RequestOK'
  <2>1. UNCHANGED <<request, rejected>>
    BY <1>8 DEF credentials, set_login_user, create_orders, signin_fails, pair_info_next,
                create_orders_fails, deposit, deposit_fails
  <2>2. WaitingOK'
    BY <1>8, OtherWaitingOK
  <2> QED
    BY <1>3, <2>1, <2>2, UnchangedRequestOK
<1>9. ASSUME NEW t \in Tasks,
             \/ \E k \in TradingKeys : set_trading_key(t, k) \/ set_trading_key_raises(t, k)
             \/ signed_in(t)
      PROVE  WaitingOK' /\ RequestOK'
  <2>1. UNCHANGED request /\ (rejected => rejected')
    BY <1>9 DEF set_trading_key, set_trading_key_raises, signed_in
  <2> QED
    BY <1>3, <1>9, <2>1, CredentialsWaitingOK, UnchangedRequestOK
<1> QED
  BY <1>5, <1>6, <1>7, <1>8, <1>9 DEF AuthNext

LEMMA InitRequestInv == AuthInit => RequestInv
<1> SUFFICES ASSUME AuthInit PROVE RequestInv
  OBVIOUS
<1>1. MethodInv
  BY InitMethod
<1>2. /\ request.op = "none" /\ request.claims = {} /\ request.caller = None
      /\ request.headers.wallet = None
  <2>1. request = Request("none", NoHeaders, {}, None, FALSE)
    BY DEF AuthInit
  <2> QED
    BY <2>1 DEF Request, NoHeaders
<1>3. RequestOK
  BY <1>2 DEF RequestOK, ClaimsAuthorised, RequestSpeaksForCaller, FundsNeedLogin
<1>4. \A t \in Tasks : task[t].pc = "idle"
  BY DEF AuthInit, Idle, Call
<1>5. WaitingOK
  BY <1>4 DEF WaitingOK, WaitingClaimsAuthorised, WaitingSpeaksForCaller
<1> QED
  BY <1>1, <1>3, <1>5 DEF RequestInv, RequestOK, WaitingOK

(***************************************************************************)
(* Until a mnemonic is rejected, no message names an account its signer    *)
(* may not sign for, though orders are signed an await after they began.   *)
(***************************************************************************)
THEOREM SignersMatchAccounts == AuthSpec => []ClaimsAuthorised
<1>1. RequestInv => ClaimsAuthorised
  BY DEF RequestInv
<1> QED
  BY <1>1, InitRequestInv, NextRequestInv, PTL DEF AuthSpec

(***************************************************************************)
(* Until a mnemonic is rejected, every request speaks for the account that *)
(* was connected when its call began, unless the credentials have changed. *)
(***************************************************************************)
THEOREM RequestsMatchCallers == AuthSpec => []RequestSpeaksForCaller
<1>1. RequestInv => RequestSpeaksForCaller
  BY DEF RequestInv
<1> QED
  BY <1>1, InitRequestInv, NextRequestInv, PTL DEF AuthSpec

(***************************************************************************)
(* Withdrawals are signed by the user whose token is sent, and deposits    *)
(* made for a login and credited to one, even after a set_trading_key that *)
(* raised.                                                                 *)
(***************************************************************************)
THEOREM FundsMoveByLogin == AuthSpec => []FundsNeedLogin
<1>1. RequestInv => FundsNeedLogin
  BY DEF RequestInv
<1> QED
  BY <1>1, InitRequestInv, NextRequestInv, PTL DEF AuthSpec

=============================================================================
