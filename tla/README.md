# A TLA+ model of the Ultrade Python SDK

This directory holds TLA+ specifications of `ultrade/`, the Python SDK of the
Ultrade exchange, TLC configurations that check them on small instances, and
TLAPS proofs of their main invariants for every value of the constants. Source
references are relative to the repository root. `PROJECT.json` maps every
definition to the lines it models and lists runs, mutants, findings, hazards and
theorems.

## 1. The system

The SDK is one `asyncio` library with no persistence. An application makes one
`Client` and calls it from any number of tasks; nothing in the code locks, so
between two awaits of one task any other may run. Its parts:

| Component | State | Operations | Interacts with |
| --- | --- | --- | --- |
| `SocketController` (`socket_client.py:82-146`) | `options_pool`, `callbacks_pool`, `streams_pool` | `handle_subscribe`, `handle_unsubscribe`, `event_from_stream`, `callback_handler` | called by `SocketClient`; `callback_handler` by socketio |
| `SocketClient` (`socket_client.py:14-79`) | `socket`, `isConnectionExist`, `subscribe_options` | `subscribe`, `unsubscribe`, connect and reconnect handlers | socketio, the server, `SocketController` |
| `Client`, credentials and signed requests (`sdk_client.py:120-653`) | `_login_user`, `_token`, `_trading_key_data`, `_trading_key_signer` | `set_login_user`, `set_trading_key`, orders, cancels, queries, `withdraw`, `deposit` | HTTP API, signers |
| `Client.subscribe`/`unsubscribe` (`sdk_client.py:655-713`) | the dictionaries of the application | completes the caller's options with token or signature | credentials, `SocketClient`, which keeps the dictionary |
| Algorand deposit (`signers/algorand.py:35-119`) | none (the chain's) | build, send and confirm a group of two transactions | algod |
| EVM deposit (`signers/ethereum.py:35-124`) | none (the chain's) | allowance, approve, deposit, each with a nonce and a receipt | an EVM node, other users of the wallet |
| `AlgodService` (`utils/algod_service.py`) | an algod client | transaction builders, `wait_for_transaction` | algod |
| Encoding (`utils/encode.py`, `utils/utils.py`) | none | address types, order and withdrawal messages | orders, withdrawals, deposits |
| Signers and keys (`signers/main.py`, `private_key.py`) | a key | `create_signer`, `sign_data` | algosdk, eth_account |
| Public queries (`sdk_client.py:720-987`) | none | fetch a page and return it | HTTP API |
| Types, constants, packaging, tests | none | declarations | all |

What makes the parts correct, and what is hard about it:

* **SocketController**: `streams_pool` is a reference count in disguise. A
  stream must be asked of the server exactly while some callback needs it,
  subscriptions that overlap must not cut each other off, and a handler id must
  find everything its subscription registered. Hard: streams that share events
  (TRADES has two), lists that name a stream twice, `list.remove` raising
  halfway, ids that are clock readings.
* **SocketClient**: the connection is opened for the first subscription and
  closed after the last, and the server is to send what the pool holds. Hard:
  three awaits (`connect`, `emit`, `disconnect`) during which other tasks
  subscribe and unsubscribe, handlers that look up `self.socket` when they run,
  connections refused, lost and re-established.
* **Dispatch of events**: an event reaches every callback whose subscription
  asked for it, once for each time it did, and nobody else. Hard: callbacks run
  in threads of a shared pool, later than the list they were taken from, while
  subscriptions come and go and ids are reused.
* **Client.subscribe**: a connection presents the credentials its dictionary was
  subscribed under. Hard: the dictionary is the application's own, written in
  place, kept by reference and read at each reconnect.
* **Encoding**: what is signed has one meaning. Hard: addresses of all chains
  share one layout without a mark of their kind; several functions derive the
  form of an address from different arguments.
* **Credentials**: login and trading key are alternatives; headers, message and
  signer of a request must speak for one account; a trading key must not move
  funds. Hard: credentials are read before an await and used after it, sign-ins
  are answered in any order, `set_trading_key` fails halfway.
* **Deposits**: a call that reports success has deposited, once; what is
  transferred is credited; no approval is left behind. Hard: neither signer
  looks at whether a transaction succeeded, both give up waiting while the
  transaction is still pending, and processes with the same key share a wallet,
  its nonces and its allowance.

## 2. Modules

| Module | Content |
| --- | --- |
| `SubscriptionRegistry` | abstract: who listens to which event, and the streams asked of the server |
| `SocketController` | the bookkeeping, one action per method; implements `SubscriptionRegistry` |
| `EventDispatch` | EXTENDS `SocketController`: events, the thread pool, callbacks |
| `SocketClient` | EXTENDS `SocketController`: tasks, connections, handlers |
| `Credentials` | abstract: none at first, from then on always some |
| `ClientAuth` | credentials, and every call that sends or signs with them; implements `Credentials` |
| `UltradeClient` | EXTENDS `SocketClient` and `Credentials`: `Client.subscribe` |
| `Deposits` | abstract: calls that ask for a deposit, the wallet, the deposits made, refused and reported |
| `EvmDeposit` | `EthereumSigner._deposit` and the chain it deposits on; implements `Deposits` |
| `AlgorandDeposit` | `AlgorandSigner._deposit` and the node it sends to |
| `AddressEncoding` | addresses, orders and withdrawals as bytes |
| `..._proofs` (eight) | theorems and proofs about the module of that name |
| `MC...` (seven) | instances for TLC |

The modules compose as the code does. `SocketClient` and `EventDispatch` each
add one user of the controller; that their steps are controller steps is proved
(`ClientImplementsController`, `DispatchImplementsController`).
`UltradeClient` puts credentials above `SocketClient`. It does not repeat
`ClientAuth` but builds on `Credentials`, which `ClientAuth` is shown to
implement (run `auth`, theorem `AuthImplementsCredentials`): `ClientAuth` has
1.5 million states by itself, and all that `subscribe` needs of it is that
credentials, once there, change in one step and never vanish. The deposits meet
the rest of the system in `ClientAuth`'s `deposit_fetched`, which calls
`signer._deposit`; the encodings in its orders and withdrawals.

A definition whose comment begins with "Mutant:" is not part of the model: it
is the next definition with a plausible bug, and shows that the property listed
with it in `PROJECT.json` depends on the code it changes.

### SocketController

`options_pool` is a function from the live handler ids to their options.
`callbacks_pool` keeps, for each event (its position in `EVENT_LIST`), a count
of entries per handler id: the code's list without its order, since
`callback_handler` starts all callbacks of an event together, and without the
sentinel entry each list is created with. `len(...) < 2` in the code is thus
"no entry" (`Lone`). `streams_pool` is a set, since the code tests membership
before it appends.

Neither method awaits on anything, so each is one action. The loops of
`handle_unsubscribe` are declarative: `Visits` is the set of (position, event)
pairs they go through, `Raises` says where `streams_pool.remove` raises,
`Reached` the visits up to there. `SocketController` also has the loops in the
code's form (`UnsubscribeLoops`, a recursive function over the points they pass,
each step of it one pass), and `UnsubscribeIsTheLoops` says that every call
leaves the pools and returns the streams that the loops do: run `controller`
checks it, theorem `LoopsAreModelled` proves it.

`ImplementsRegistry` is the refinement of `SubscriptionRegistry`: a pair of
handler and event is registered if the handler has an entry for the event. The
abstract module says what the lists are for: a handler takes whole streams and
lets go of whole streams, and a stream is given back exactly when the last
handler lets go of it. A call that raises halfway lets go of some of its streams
only, and one with a reused id may release more than its subscription took,
which is why `Release` may be of any streams.

`time.time_ns()` is `NewHandlerId`: a later reading, or with `CoarseClock` any
earlier one again, of a clock that is coarse or was stepped back. Readings are
ranks, not nanoseconds.

### EventDispatch

| Action | Code (`socket_client.py`) |
| --- | --- |
| `callback_handler` | 132-143: the list is read and every entry handed to the executor |
| `thread_starts` | 145-146, one of `Workers` threads takes the next call |
| `callback_returns` | the application's callback returns or raises (external) |
| `Subscribes`, `Unsubscribes` | the controller's own actions |

A call is the event's number, the handler and which of its entries it is. `asked`
and `due` are history, computed from `options_pool` and not from the callback
lists: `CallsAreAsked` and `EventsAreDelivered` compare what the lists made
happen with what subscriptions asked for. An exception of one callback is raised
by `gather` and stops no other call. README.md:955 of the repository passes an
`async def` as callback: the executor calls it and drops the coroutine, so that
its body never runs; in the model such a callback returns at once.

### SocketClient

A step is what one task or handler does between two awaits:

| Action | Code (`socket_client.py`) |
| --- | --- |
| `SubscribeOpens`, then `ConnectReturns` or `ConnectFails` | 33-48, split at `await connect` |
| `SubscribeShares` | 50-52 |
| `UnsubscribeUnknown`, `UnsubscribeQuietly` | 54-66 with nothing to emit: the id is unknown, or others need its streams |
| `UnsubscribeEmits`, then `UnsubscribeResumes` | 58-61, split at `await emit`, then 63-65 |
| `UnsubscribeFails` | `handle_unsubscribe` or `emit` raises |
| `CloseIfUnused` (part of three of them), then `DisconnectReturns` | 63-65, split at `await disconnect`, then 66 |
| `Established`, `Lost`, `Reconnected` | socketio and the network (external) |
| `connect_handler` | 76-79, run by socketio after each connect |

`conns` holds every `AsyncClient` ever created, `socket` is an index into it, so
that a socket which the client has dropped still exists. `disconnect()` closes an
established connection for good. Of a lost one it leaves the reconnect task alone
(`shutdown()` would end it): the model marks such a connection `stray`, it may
come back (`Reconnected`), and `GivenUp` are the connections the client has asked
to disconnect in either state. The server is the set `streams` of each
connection. The `"reconnect"` handler of lines 71-74 is not
modelled: python-socketio's client triggers `connect` after a reconnection and
no event of the name `reconnect`. The model has the application pass only ids it
was returned: for one it invents before any `subscribe`, `get_sub_options`
raises `KeyError`.

### ClientAuth

A user stands for its signer and address, a trading key for its id and the
signer of its mnemonic, a token for the user it was issued to. `request` is the
last request sent: its headers, and its claims, each an account named in the
body with the signer of the message. The request of a deposit carries no headers (`NoHeaders`):
it goes to the chain. Two fields are history: `caller`, the
account a call was made for, and `stale`, whether the credentials have changed
since.

Calls with an await before they send are split there: `set_login_user` /
`signed_in` / `signin_fails`; `create_orders` / `pair_info_next` /
`pair_info_last` / `create_orders_fails` (one order or a batch: the loop of
`create_bulk_orders` builds one order per pass and awaits in each); `deposit` /
`deposit_fetched` / `deposit_fails`. The others read the credentials, sign and
compute their headers in one step. `set_trading_key` does not await;
`set_trading_key_raises` is the call in which `Signer.create_signer` rejects the
mnemonic, after line 174 has stored the data; `rejected` (history) remembers
that this has happened, and the properties that do not survive it say so.
`AuthNow` is what `_check_auth_method` answers with what its caller then reads;
`WholeAuths` are the pairs that may come out: a user with the answer to that
user's sign-in, never another's, or a key with a signer. The API key of
`__private_api_key` is constant and left out, and so is what the server answers
to anything but a sign-in: it changes no credential.

### UltradeClient

A dictionary is named by its symbol and streams once `subscribe` has completed
them, with at most one dictionary for each; `filled` is the credentials in its
`"options"`. `subscribe` (655-704) checks the login, fills the dictionary in and
runs `SocketClient.subscribe` up to its first await, all in one step;
`subscribe_refused` is the call whose symbol the socket client refuses, after the
dictionary has been written. `emits` are the steps of `SocketClient` that emit
(`unsubscribe`, the connect handler): each sends the `"options"` of the kept
dictionary as they are by then. `opener` and `granted` are history. The address
that lines 677-682 default is left out: it is written beside `"options"`,
where `get_sub_options` does not look.

### AddressEncoding

An address is its form, the number it stands for and how many bytes base58 makes
of its text; a piece of a message is a width and a number. `call` is the last
call and `message` the pieces it made, `<<>>` if a conversion raised.

| Definition | Code |
| --- | --- |
| `determine_address_type`, `normalize_address` | `encode.py:30-55` |
| `get_wh_id_by_address`, `wormhole_chain_id` | `utils.py:20-28`, `signers/main.py:62-75` |
| `build_order`, `get_order_bytes` | `sdk_client.py:264-285`, `encode.py:91-134` |
| `make_withdraw_msg`, `get_account_balance_box_name` | `encode.py:137-212` |

`SolanaCctp` has no branch in `normalize_address`, so that `bytearray.extend`
raises on `None`; and the box name of a withdrawal is encoded without the token
(`encode.py:205`), so that the unified asset gets the form of an ordinary token
of its chain, which raises too. Together: the unified asset can be traded
outside Solana and Algorand but never withdrawn (`OrdersBuilt`,
`WithdrawalsBuilt`). Widths that depend on data remain: `b58decode` and the
empty Algorand address. `MessagesAreUnambiguous` is about messages without them.

### EvmDeposit

A process is one that holds the wallet's private key; `_deposit` does not await,
so a process makes one call at a time. `call` holds where it is and the
transaction in hand. The code's two halves, approval and deposit, are the same
sequence of node calls and share their actions:

| Action | Code (`signers/ethereum.py`) |
| --- | --- |
| `check_allowance` | 45-91: which transaction comes first |
| `get_transaction_count` | 97, 114: the nonce |
| `build_transaction` | 92-99, 106-116: the gas estimate does not revert |
| `send_raw_transaction` | 103, 121 |
| `approved` | 104, on to the deposit |
| `deposited` | 122-124, the hash is returned |
| `node_call_raises` | any call of the node raises: reverted estimate, refused nonce, receipt that times out, no answer |

The chain is external: `Mine` takes the pending transaction with the next nonce,
and its receipt says whether it `succeeded`, was `outdated` (the wallet's allowance
or balance was no longer what the estimate saw) or `refused`: for any other reason,
such as a contract that is paused, a limit, another sender's transaction or too
little gas, the chain may revert any transaction. The code waits for a receipt and
looks at none of this. The model assumes one consistent node that
estimates in its latest block, counts mined transactions (the default of
`get_transaction_count`), and refuses used nonces; it may replace a pending
transaction. It assumes that only the wallet's own transactions spend its tokens;
`StrictToken` is a token that, like USDT, refuses to change an allowance that is
not 0.

`asked` is history: the amount of each call. `ImplementsDeposits` maps a mined
deposit to the abstract `Make`, whenever it is mined, or to `Refuse` if it
reverted, and the return of a hash to `Report`, which is of either: a caller who
has the hash does not know which. Approvals, nonces, replaced transactions and
calls that raise are stutters.

A deposit may revert, then, and its hash is returned all the same (run
`evm_refused`). What can not happen is that it reverts for what other calls of the
same wallet have done (`NothingOutdated`), and this is due to an order of two
lines: the argument `get_transaction_count` is evaluated before
`build_transaction` estimates the gas. Whatever else of the wallet is mined after
the estimate uses up the nonce, and the node refuses what is then sent.

### AlgorandDeposit

| Action | Code (`signers/algorand.py`) |
| --- | --- |
| `suggested_params` | 45-63 |
| `send_transactions`, `send_transactions_unanswered`, `send_transactions_raises` | 64-116: accepted, accepted with the answer lost, refused |
| `confirmed` | 117-119 |
| `rejected`, `times_out`, `wait_raises` | 117, raised by `wait_for_confirmation` |

A transaction is its kind and the contents of its group, since equal contents
are equal transactions. `Confirm`, `Drop` and `EndRound` are the node.
A group that was dropped may be accepted again if another process sends the same
contents; both calls may then return for one deposit, which is why
`ReturnedDepositedItsOwn` excludes groups that were ever dropped. The value a call
returns is `None` (117-119, no return statement). Funds and the
contract's own conditions are covered by the node's freedom to refuse and drop.

## 3. Runs

| Run | Instance | Shows |
| --- | --- | --- |
| `controller` | 2 subscriptions, ids may collide, 2 events, 2 threads, TRADES, repetitions and an eventless stream | type; `PoolMatchesCallbacks`, `CallsAreAsked`, `DueCallsUnderway`, `EventsAreDelivered`; the registry is implemented; the declarative form is the loops |
| `client_sequential` | 1 task, 3 subscriptions, 2 faults, plain lists, two symbols | type; `ServerSendsOnlyWanted`, `OneConnection`, `LostConnectionRecovers`, `UnusedConnectionCloses` |
| `client_concurrent` | 2 tasks, 3 subscriptions, 1 fault, lists with TRADES and repetitions | `NoConnectionNoStreams`, `CurrentSendsOnlyWanted`, `NeverClosesInUse`, `OthersUndisturbed`, `NoOrphanCallbacks`, `CallsReturn` |
| `ultrade_client` | 1 task, 3 subscriptions, 1 fault, 3 dictionaries, a login and a key | `PresentsOpener`, `NoticesSurvive` |
| `auth` | 2 tasks, 2 users with a key each, batches of 2, every sign-in answer, rejected mnemonics | type; the five properties of credentials and requests; `Credentials` is implemented |
| `encoding` | 5 accounts, 7 recipients, 10 tokens | which messages are built; `MessagesAreUnambiguous`, `KeySpeaksForLogin` |
| `evm_deposit` | 2 processes, 3 calls, amounts 1 and 3, allowance 1, balance 5 | type; `NothingOutdated`, `OneInFlight`, `NothingLeftApproved`; `Deposits` is implemented |
| `algorand_deposit` | 2 processes, 3 calls, 2 tokens, 1 amount, 3 rounds told apart | type; `CreditedIsReceived`, `ReturnedDepositedItsOwn`, `DepositsEnd` |
| `client_unserved` | 1 task, 2 subscriptions, no fault | **violated**: `SubscriptionsReachServer` |
| `client_race` | 2 tasks, 2 subscriptions, no fault | **violated**: `IdHasConnection` |
| `client_stray` | 1 task, 2 subscriptions, 1 fault | **violated**: `UnsubscribeDisconnects` |
| `evm_refused` | 1 process, 1 call | **violated**: `ReturnedIsDeposited` |

**What the violations show.** (1) A second `subscribe` on an open connection is
never sent to the server (`socket_client.py:50`). (2) An `unsubscribe` that waits
in `disconnect` drops the socket another task has just opened (line 66). (3) An
`unsubscribe` that finds the connection lost does not end its reconnection: the
connection is open again after the call has returned, and no call of the client
reaches it (line 65). (4) A deposit that has reverted returns its hash like one
that was made (`ethereum.py:122`).

Other disagreements met while modelling, which no run is about; the first five are
in the models, with what follows from them:

* unsubscribing from TRADES removes its stream once per event, the second
  `list.remove` raises and the subscription stays (`socket_client.py:125`), for
  "Unsubscribe from a websocket connection" (`sdk_client.py:708`) and the example
  of README.md:955;
* when `connect` raises, `isConnectionExist` is already up and nothing takes it
  down: the next `subscribe` opens nothing and returns an id without a connection
  (`socket_client.py:42-48`), for "The ID of the established connection"
  (`sdk_client.py:670`);
* after a first subscription with the empty symbol, as `tests/main_test.py:222`
  makes, two pairs are accepted on one connection, against "only one pair per
  instance" (`socket_client.py:34-37`);
* a failed sign-in whose body lacks the word "error" is stored as the token
  (`sdk_client.py:215`), for "Raises: Exception: If there is an error"
  (191-192);
* `AlgorandSigner._deposit`, declared `-> str`, ends without a return statement
  (`algorand.py:117-119`), so that `Client.deposit` returns `None` and not "the
  transaction ID of the deposit transaction" (`sdk_client.py:632`);
* README.md:804 says that the orders of a batch are sent one by one:
  `create_bulk_orders` posts them together (`sdk_client.py:351-363`);
* the address that README.md:947 says defaults to the login is written where
  nothing sends it (`sdk_client.py:677-682`);
* an `async` callback as in README.md:955 never runs;
* `encode.py:153` compares `True == "MainNet"` and always takes the test network's
  mint.

**Which guarantees survive what.** `PoolMatchesCallbacks` holds although calls
raise halfway, but only because no stream has more than two events
(`AtMostTwoEvents`): with three, the first removal could be followed by a raise
with the third event's callbacks still there. `ServerSendsOnlyWanted`,
`OneConnection`, `UnusedConnectionCloses` and `LostConnectionRecovers` are stated
for one task: with two, the race of `client_race` leaves a connection open that
nobody can close, and handlers that emit on another one. The first two are about
connections that are not given up: one on which `disconnect()` was called while it
was lost may come back beside the current one (`client_stray`), and the two
properties say that with one task there is no other way to a second connection.
`NoConnectionNoStreams` and `NeverClosesInUse` hold for any number: line 63
reads the pool again after the await. So does `CurrentSendsOnlyWanted`, which is
about the current socket alone: what another task's race leaves behind is on
sockets the client no longer has. It needs ids that do not collide, and streams
that carry events: LAST_CANDLESTICK carries none, so that `handle_unsubscribe`
never visits it and it stays in the pool (`event_from_stream`, lines 91-96). `CallsAreAsked` excludes runs in which
handler ids have collided: a callback then outlives its `options_pool` entry.
`PresentsOpener` holds for any number of tasks (`OpenersArePresented`), but what a
dictionary was ever subscribed under may be stale, and a token may stay in it
beside a later trading key. `NoticesSurvive` needs the two streams to be appended
last: where the caller lists them first, TRADES raises before or after them as the
caller pleases. The three `ClientAuth` properties guarded by `~rejected` do fail
once a mnemonic is rejected: headers then name the new trading key beside the old
login. `RequestSpeaksForCaller` excludes
calls during which the credentials changed; for these, headers and body really
may differ, since `create_order` computes its headers after the await.

**Bounds.** `MaxCalls` = 3 subscriptions: two that overlap and a third that
comes while one of them is being dropped; the pool's conditions compare one
handler with all others, so a fourth repeats a case. `MaxFaults` = 2: a
connection lost again after it was re-established, or lost after one was
refused. Two tasks: every await of one against every step of the other; three
tasks add only more of the same waits. `MCSocketClient` keeps 4 of the 13
events: one per stream, the pair of TRADES, and a stream without events, which
are the cases the code distinguishes. Option lists overlap in one stream, name
one twice, or contain TRADES. `MaxOrders` = 2: a batch with an await between two
orders. Two users and two keys: one to be replaced and one that replaces it.
Deposits: two processes and three calls, so that one process retries while the
other is anywhere in its call. In `evm_deposit` one amount is within the
allowance and one above it, and the balance covers one call of each and not two
of the larger. In `algorand_deposit` a call that begins may see three rounds,
enough for an equal and a different one; `MaxRounds` saturates, so that waiting
goes on after it.
In `controller` two subscriptions meet two events: one may be unsubscribed, or
its id reused, while the first event's calls wait, and the second event comes
after; two threads serve up to four calls, so that calls do wait. In `encoding`
addresses of four forms stand for the same number, and a Solana address for the
number of the unified asset's key, so that every pair of forms could be confused
if the bytes beside them allowed it.
Symmetry is used in `auth` only: tasks are interchangeable, and so are users
together with their keys; its temporal properties are safety properties of one
step. The other instances are small. `CHECK_DEADLOCK FALSE` in the socket runs
and in those of `EvmDeposit`: `MaxCalls` exhausted and everything unsubscribed or
mined, the system may stop.

**Fairness.** `ClientFairness`: the event loop resumes every task whose await
has completed, a connection attempt ends and socketio keeps trying to
re-establish a lost connection (its default), and it runs the handler it has
scheduled. The application owes nothing: no fairness on `subscribe` or
`unsubscribe`, and none on faults, which `MaxFaults` bounds. `ConnectFails` needs
none, since either outcome ends the wait. `AlgoFairSpec`: rounds go on, and a
process whose node call has an outcome continues (algosdk's requests time out);
no group need ever be confirmed or dropped. `DispatchFairness`: a free thread
takes the next call, which is the executor's part, and some running callback
returns, which is asked of the application: one that never returns keeps its
thread for good. Events are bounded, so that weak fairness of the whole pool is
enough. `UltradeSpec` has the fairness of `ClientSpec`. `ClientAuth` has no liveness
property and no fairness.

## 4. Proofs

All theorems are checked by TLAPS for arbitrary `EVENT_LIST`, `Options`,
`MaxCalls`, `MaxFaults`, `Tasks`, users and keys, from the named assumptions
`ControllerAssumption`, `AtMostTwoEvents`, `ClientAssumption`, `AuthAssumption`,
`DepositAssumption`, `AlgoAssumption`, `DispatchAssumption`, `UltradeAssumption`,
`EncodingAssumption` and `NoticesCarryOneEvent` (the error and maintenance streams
have one event each, as in `constants.py`), which TLC evaluates on every
instance. Three theorems about the server's streams and connections have
hypotheses on the instance, named with them: `~CoarseClock` (every reading of
the clock is later than those before), `AllCarryEvents` (every stream in an option list carries an
event) and `OneTask`. `client_sequential` satisfies all three and
`client_concurrent` the first two.

* `TypeCorrect`, `ClientTypeCorrect`, `AuthTypeCorrect`: the type invariants.
* `PoolCountsReferences` (`PoolMatchesCallbacks`). Not inductive as it stands:
  when a call raises halfway, the events visited so far have lost the handler's
  callbacks and their siblings have not. The strengthening adds
  `SameStreamSameCallbacks`: two events of one stream have the same callbacks.
  Lemma `VisitedTogether` shows that a call visits all events of a stream or
  none, even when it raises: a raise happens at the second removal, and by
  `AtMostTwoEvents` the second event is the last.
* `LoopsAreModelled` (`UnsubscribeIsTheLoops`): for any lists of events and
  streams. The argument is an induction over the points the loops pass, in the
  form of a least counterexample (`LeastNumber`, `FirstPoint`), since the
  library's induction theorems are out of reach: up to each point the loops have
  made the visits before it (`VisitsBefore`), and they have raised there just if
  the declarative form does (`LoopsUnfold`, `LoopsLeave`).
* `CallbacksAreOwned` (`NoOrphanCallbacks`), strengthened by `IdsAreReadings`:
  no id in use is later than the clock, so a fresh one is new.
* `SubscriptionsAreIsolated` (`OthersUndisturbed`), an action property.
* `ClientImplementsController`: every step of `SocketClient` is a step of
  `SocketController` or leaves its variables alone. The controller's theorems
  hold of the client by it (`ClientIsolation`, `ClientImplementsRegistry`), and
  `FlagCoversPool` uses it.
* `ControllerImplementsRegistry` (`ImplementsRegistry`): initial states map to
  initial states and every step to `Register`, `Release` or a stutter. A
  subscription registers its list's streams; an unsubscription releases the
  streams it has reached, which is where `PoolCountsReferences` and
  `VisitedTogether` are needed.
* `DispatchImplementsController`, `DispatchTypeCorrect`, `OnlyAskedCallsAreMade`
  (`CallsAreAsked`): while ids have not collided, each entry of a callback list is
  accounted for by the options of its handler.
* `NoDueCallIsLost` (`DueCallsUnderway`), the safety half of
  `EventsAreDelivered`: what is due waits, runs or is over. `NamedAreEntries`:
  while nobody has asked to stop a handler, no entry its list names is missing,
  whoever else comes, goes or raises.
* `CurrentIsWanted` (`CurrentSendsOnlyWanted`) for any number of tasks, from
  `~CoarseClock` and `AllCarryEvents`. `SentInv` combines the pool's two
  invariants (a stream in the pool has a callback, a callback a subscription)
  with one about connections: only an established one is served.
* `OneTaskOneConnection` (`OneConnection`) from `OneTask`: what is not given up is
  the current socket and `isConnectionExist` is set (`OpenIsCurrent`).
  `OneTaskIsWanted` (`ServerSendsOnlyWanted`) follows from both and `StrayIdle`: a
  connection that was lost when it was given up has no streams and gets none, even
  if it comes back, since the handler that then runs emits on the current socket.
* `FlagCoversPool` (`NoConnectionNoStreams`) and `ClosingIsSafe`
  (`NeverClosesInUse`); the second combines the first's invariant with
  `PoolMatchesCallbacks`: an empty pool means no callbacks.
* `TokenMatchesUser`, `MethodsExclude`: from the type invariant and `MethodInv`,
  the facts about the four credentials.
* `SignersMatchAccounts`, `RequestsMatchCallers`, `FundsMoveByLogin`: from
  `RequestInv`, which adds what is known of the calls that wait: their claims
  were authorised when read, and unless `stale` the credentials still are those
  of the account they were made for.
* `AuthImplementsCredentials` (`ImplementsCredentials`), from the same invariant
  and lemma `StaysLoggedIn`.
* `UltradeImplementsClient`: adding credentials and dictionaries leaves the socket
  client's behaviour as it was, so all its theorems hold of the composition;
  `UltradeUsesCredentials` is the same for the other side.
* `OpenersArePresented` (`PresentsOpener`). `PresentsInv` adds that a dictionary
  holds only what it was granted, and that the current socket was opened for the
  dictionary that is kept.
* `NoticesAreKept` (`NoticesSurvive`). `NoticesKept`: a list that ends with the
  two notices and names neither before keeps both registered. Since each has one
  event and is named once, a call that raises raises before it gets to them.
* `AlgoTypeCorrect`, `ReceivedIsCredited` (`CreditedIsReceived`),
  `ReturnsAreOwnDeposits` (`ReturnedDepositedItsOwn`). `WholeGroups`: what is
  pending is a pair of transactions. `WaitingOwn`: what a waiting call has sent is
  pending, confirmed or dropped, and unless dropped nobody else waits for it or
  has returned with it.
* `WithdrawalsAreThoseOfTheChain`, `OrdersAreThoseOfTheChains`,
  `KeysSpeakForLogins`, `SignedBytesHaveOneMeaning`: for any addresses, tokens and
  numbers. The last shows that the meaning of a call can be read off its pieces
  (`OrderSays`, `WithdrawalSays`), so that equal messages mean the same.
* `DepositTypeCorrect`, `EstimatesHold` (`NothingOutdated`),
  `AtMostOneInFlight` (`OneInFlight`), for any number of processes. `NonceInv`:
  what is pending has the next nonce, and the allowance and balance it needs; a
  call past the estimate whose nonce is still the next one has them, too; hence
  what is mined succeeds or is refused by the chain, and is never outdated.
* `NothingStaysApproved` (`NothingLeftApproved`). `LedgerInv` adds that ids are
  unique, that a pending transaction is the one its call waits for, that a call
  sends each transaction once and the deposit last, and `AllowanceOwed`: an
  allowance beyond the initial one is owed by some call that has not deposited,
  and is at most the amount that call is going to deposit. A call whose deposit
  the chain refused still owes it: the property is about states in which every
  call has made its deposit.
* `DepositsAreExact` (`ImplementsDeposits`). `ExactInv` adds to `LedgerInv` that
  what a call sends is for the amount it was asked (`AmountsAsked`). Nothing
  mined is outdated (`NonceInv`), so that a mined deposit is one made or one
  refused, and its call had neither before (`SentInOrder`).

Model-checked only: the liveness properties (`LostConnectionRecovers`,
`UnusedConnectionCloses`, `CallsReturn`, `EventsAreDelivered`, `DepositsEnd`),
which are out of the prover's reach. Every safety property of a passing run is
stated by a theorem.

## 5. What is not modelled, and the plan

Not modelled:

* public queries, data types beyond the chains and `CreateOrder`, packaging: no
  state, nothing that is decided;
* signature and key algorithms (algosdk, eth_account), formatting and logging;
* `AlgodService`: `Client.__init__` makes one and nothing in the SDK calls it.
  Its `wait_for_transaction` is a loop of one caller that shares no state; its
  `get_available_balance` calls a method that is commented out;
* the width of integers in messages: `to_bytes` raises on a number that is too
  large, before anything is signed, and `int(amount * 0.01)` rounds a fee to a
  float's precision (`sdk_client.py:562`).

What could come next: the abstract specification of an Algorand deposit, where
two calls may share a group, so that `Deposits` is not what it implements; and
`AlgodService.wait_for_transaction` should the client come to use it.
