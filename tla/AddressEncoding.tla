-------------------------- MODULE AddressEncoding --------------------------
(***************************************************************************)
(* ultrade/utils/encode.py and utils.py: how an order or a withdrawal      *)
(* becomes the bytes that are signed.  Addresses of every chain end up in  *)
(* one layout, each by the rule that determine_address_type picks from its *)
(* chain, from whether it names a token and from the token itself.         *)
(*                                                                         *)
(* Abstractions.  An address is what the decoders tell apart of a text:    *)
(* its form, the number it stands for, and how many bytes base58 makes of  *)
(* it.  A piece of a message is its width in bytes and the number in it,   *)
(* so an EVM address and an asset id of the same number are the same       *)
(* bytes.  The numbers of a message that are no address and no chain       *)
(* (version, times, prices, amounts, the fee, the company, the random      *)
(* number) are one piece: their widths are fixed.  The JSON text before    *)
(* the bytes of a withdrawal repeats the arguments and is left out.        *)
(***************************************************************************)
EXTENDS Integers, Sequences

CONSTANTS
    Accounts,    \* the addresses a login or a trading key may belong to
    Recipients,  \* the addresses a withdrawal may go to
    Tokens,      \* records [address, chain]: the tokens that may be named
    Numbers      \* what else a message says: amounts, prices, times

NotBase58 == -1

Forms == {"evm", "algorand", "asset", "solana", "unified", "empty", "other"}

Address == [form : Forms, value : Nat, base58 : Nat \cup {NotBase58}]

\* types.WormholeChains; the key of CCTP_UNIFIED_ASSETS has the form "unified".
SOLANA == 1
POLYGON == 5
ALGORAND == 8

\* What starts with 0x is no base58.
ASSUME EncodingAssumption ==
    /\ Accounts \cup Recipients \subseteq Address
    /\ Tokens \subseteq [address : Address, chain : Nat]
    /\ \A t \in Tokens : t.address.form \in {"evm", "unified"} => t.address.base58 = NotBase58
    /\ Numbers \subseteq Nat

Piece(width, value) == [width |-> width, value |-> value]

\* What a conversion that raises leaves in the place of its bytes.
Raises == Piece(-1, 0)

-----------------------------------------------------------------------------
\* Mutant: the unified asset is looked for before the chain.
determine_address_type_AssetFirst(chain_id, is_token, unified) ==
    CASE unified               -> "Cctp"
      [] ~unified /\ chain_id = SOLANA   -> "SolanaMint"
      [] ~unified /\ chain_id = ALGORAND -> IF is_token THEN "AlgorandAsset" ELSE "Algorand"
      [] OTHER                 -> "EVM"

\* unified: is the token that was passed, if any, in CCTP_UNIFIED_ASSETS?
determine_address_type(chain_id, is_token, unified) ==
    CASE chain_id = SOLANA   -> IF unified THEN "SolanaCctp" ELSE "SolanaMint"
      [] chain_id = ALGORAND -> IF is_token THEN "AlgorandAsset" ELSE "Algorand"
      [] OTHER               -> IF unified THEN "Cctp" ELSE "EVM"

(***************************************************************************)
(* eth_abi pads to 32 bytes, decode_address returns 32 bytes and an empty  *)
(* text as it is, and b58decode returns what it gets.  SolanaCctp has no   *)
(* branch: bytearray.extend raises on the None that is returned.           *)
(***************************************************************************)
normalize_address(a, type) ==
    CASE type = "EVM" /\ a.form = "evm" -> Piece(32, a.value)
      [] type = "Algorand" /\ a.form = "algorand" -> Piece(32, a.value)
      [] type = "Algorand" /\ a.form = "empty" -> Piece(0, 0)
      [] type = "AlgorandAsset" /\ a.form = "asset" -> Piece(32, a.value)
      [] type = "SolanaMint" /\ a.base58 # NotBase58 -> Piece(a.base58, a.value)
      [] type = "Cctp" /\ a.form = "unified" -> Piece(32, a.value)
      [] OTHER -> Raises

Unified(a) == a.form = "unified"

\* A message is built only when no conversion raises.
Message(pieces) ==
    IF \E i \in DOMAIN pieces : pieces[i] = Raises THEN <<>> ELSE pieces

-----------------------------------------------------------------------------
(***************************************************************************)
(* Orders.  The chain of the account is the signer's own for a login, and  *)
(* guessed from the form of the address for a trading key.                 *)
(***************************************************************************)
\* EthereumSigner and AlgorandSigner: there is no signer for another form.
wormhole_chain_id(a) == IF a.form = "algorand" THEN ALGORAND ELSE POLYGON

\* Mutant: every EVM address is taken to be one of Ethereum.
get_wh_id_by_address_Ethereum(a) ==
    IF a.form = "algorand" THEN ALGORAND
    ELSE IF a.form = "evm" THEN 2
    ELSE IF a.base58 = 32  THEN SOLANA
    ELSE -1

\* -1: "Invalid address" is raised.
get_wh_id_by_address(a) ==
    IF a.form = "algorand" THEN ALGORAND
    ELSE IF a.form = "evm" THEN POLYGON
    ELSE IF a.base58 = 32  THEN SOLANA
    ELSE -1

order_token(t) ==
    normalize_address(t.address, determine_address_type(t.chain, TRUE, Unified(t.address)))

\* Mutant: the base token's chain stands where the price token's should.
get_order_bytes_BaseChainTwice(account, chain, base, price, numbers) ==
    Message(<<Piece(72, numbers),
              normalize_address(account, determine_address_type(chain, FALSE, FALSE)),
              Piece(2, chain),
              order_token(base), Piece(4, base.chain),
              order_token(price), Piece(4, base.chain),
              Piece(68, numbers)>>)

get_order_bytes(account, chain, base, price, numbers) ==
    Message(<<Piece(72, numbers),
              normalize_address(account, determine_address_type(chain, FALSE, FALSE)),
              Piece(2, chain),
              order_token(base), Piece(4, base.chain),
              order_token(price), Piece(4, price.chain),
              Piece(68, numbers)>>)

account_chain(method, account) ==
    IF method = "LOGIN" THEN wormhole_chain_id(account) ELSE get_wh_id_by_address(account)

\* A chain that is not to be had raises before anything is encoded.
build_order(method, account, base, price, numbers) ==
    LET chain == account_chain(method, account)
    IN  IF chain = -1 THEN <<>>
        ELSE get_order_bytes(account, chain, base, price, numbers)

-----------------------------------------------------------------------------
(***************************************************************************)
(* Withdrawals.  The recipient's chain is the token's.  The name of the    *)
(* balance's box gets no token, so that a unified asset is encoded there   *)
(* by the chain's rule.                                                    *)
(***************************************************************************)
\* Mutant: the box's token is encoded as an order's.
box_token_AsTraded(t) == order_token(t)

box_token(t) == normalize_address(t.address, determine_address_type(t.chain, TRUE, FALSE))

get_account_balance_box_name(login, t) ==
    <<normalize_address(login, determine_address_type(wormhole_chain_id(login), FALSE, FALSE)),
      Piece(8, wormhole_chain_id(login)), box_token(t)>>

\* The account of the recipient for the unified asset on Solana: another address.
get_associated_token_address(a) ==
    IF a.base58 = 32 THEN [a EXCEPT !.value = @ + 1] ELSE [a EXCEPT !.base58 = NotBase58]

recipient_address(recipient, t) ==
    LET sent_to == IF determine_address_type(t.chain, FALSE, Unified(t.address)) = "SolanaCctp"
                   THEN get_associated_token_address(recipient)
                   ELSE recipient
    IN  normalize_address(sent_to, determine_address_type(t.chain, FALSE, FALSE))

make_withdraw_msg(login, recipient, t, numbers) ==
    Message(get_account_balance_box_name(login, t)
                \o <<recipient_address(recipient, t), Piece(8, t.chain), Piece(73, numbers)>>)

-----------------------------------------------------------------------------
VARIABLES
    call,    \* the last call that built a message
    message  \* its bytes, or <<>> if it raised

encodingVars == <<call, message>>

\* Only a wallet of one of these forms can sign in.
Logins == {a \in Accounts : a.form \in {"evm", "algorand"}}

Orders ==
    [op : {"order"}, method : {"LOGIN"}, account : Logins,
     base : Tokens, price : Tokens, numbers : Numbers]
        \cup [op : {"order"}, method : {"TRADING_KEY"}, account : Accounts,
              base : Tokens, price : Tokens, numbers : Numbers]

Withdrawals ==
    [op : {"withdraw"}, account : Logins, recipient : Recipients,
     token : Tokens, numbers : Numbers]

encoded(c) ==
    IF c.op = "order" THEN build_order(c.method, c.account, c.base, c.price, c.numbers)
                      ELSE make_withdraw_msg(c.account, c.recipient, c.token, c.numbers)

EncodingInit ==
    /\ call = [op |-> "none"]
    /\ message = <<>>

Encodes(c) ==
    /\ call' = c
    /\ message' = encoded(c)

EncodingNext ==
    \/ \E c \in Orders : Encodes(c)
    \/ \E c \in Withdrawals : Encodes(c)

EncodingSpec == EncodingInit /\ [][EncodingNext]_encodingVars

-----------------------------------------------------------------------------
(***************************************************************************)
(* What a chain calls an account and a token, written down once more.      *)
(***************************************************************************)
AccountOn(a, chain) ==
    \/ chain = SOLANA /\ a.base58 # NotBase58
    \/ chain = ALGORAND /\ a.form \in {"algorand", "empty"}
    \/ chain \notin {SOLANA, ALGORAND} /\ a.form = "evm"

TokenOn(a, chain) ==
    \/ chain = SOLANA /\ a.base58 # NotBase58
    \/ chain = ALGORAND /\ a.form = "asset"
    \/ chain \notin {SOLANA, ALGORAND} /\ a.form = "evm"

(***************************************************************************)
(* A withdrawal is built exactly when recipient and token have the form    *)
(* of the token's chain: in particular never one of the unified asset's    *)
(* key, on any chain, although orders may trade it.                        *)
(***************************************************************************)
WithdrawalsBuilt ==
    call.op = "withdraw" =>
        (message # <<>> <=> /\ AccountOn(call.recipient, call.token.chain)
                            /\ TokenOn(call.token.address, call.token.chain))

Placeable(a) == a.form \in {"evm", "algorand"} \/ a.base58 = 32

Tradable(t) ==
    \/ TokenOn(t.address, t.chain) /\ ~Unified(t.address)
    \/ Unified(t.address) /\ t.chain \notin {SOLANA, ALGORAND}

(***************************************************************************)
(* An order is built exactly when the account is one of a known chain and  *)
(* each token has the form of its chain or is the unified asset, which has *)
(* none on Solana and Algorand.                                            *)
(***************************************************************************)
OrdersBuilt ==
    call.op = "order" =>
        (message # <<>> <=> /\ Placeable(call.account)
                            /\ Tradable(call.base)
                            /\ Tradable(call.price))

(***************************************************************************)
(* What a message is to say, and the widths its reader cuts it into.       *)
(***************************************************************************)
Meaning(c) ==
    IF c.op = "order"
    THEN <<account_chain(c.method, c.account), c.account.value,
           c.base.chain, c.base.address.value,
           c.price.chain, c.price.address.value, c.numbers>>
    ELSE <<wormhole_chain_id(c.account), c.account.value, c.token.chain,
           c.token.address.value, c.recipient.value, c.numbers>>

Layout(op) == IF op = "order" THEN <<72, 32, 2, 32, 4, 32, 4, 68>>
                              ELSE <<32, 8, 32, 32, 8, 73>>

FollowsLayout(op) ==
    /\ Len(message) = Len(Layout(op))
    /\ \A i \in DOMAIN message : message[i].width = Layout(op)[i]

SameOp(op) == IF op = "order" THEN Orders ELSE Withdrawals

(***************************************************************************)
(* Nothing in the bytes tells an EVM address from an asset id or from an   *)
(* Algorand address; only the chains beside them do.  Still no two calls   *)
(* that mean different things sign the same bytes, if every address is 32  *)
(* bytes wide.  A Solana text of another length or an empty recipient      *)
(* moves all the pieces after it.                                          *)
(***************************************************************************)
MessagesAreUnambiguous ==
    call.op # "none" /\ FollowsLayout(call.op) =>
        \A other \in SameOp(call.op) :
            encoded(other) = message => Meaning(other) = Meaning(call)

(***************************************************************************)
(* An order under the trading key of an account says what one under the    *)
(* login of that account says: the chain that is guessed from the address  *)
(* is the one its signer has.                                              *)
(***************************************************************************)
KeySpeaksForLogin ==
    call.op = "order" /\ call.account \in Logins =>
        message = encoded([call EXCEPT !.method = "LOGIN"])

=============================================================================
